---------------------------- MODULE MCKeyPoller ----------------------------
EXTENDS KeyPoller

a == [flags |-> 0, keycode |-> 0]
b == [flags |-> 1, keycode |-> 1]

MCFlags == {0, 1}
MCCodes == {0, 1}
MCKeys == {a, b}
MCZero == a
\* The code begins with the record that the zeros of a wipe look like.
MCSecret == <<a, b>>
=============================================================================
