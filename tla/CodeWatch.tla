------------------------------ MODULE CodeWatch ------------------------------
(***************************************************************************)
(* What the poller of the unlock code promises, without the ring it reads: *)
(* it looks at the log of a session's key presses, as it stood at one      *)
(* moment, and unlocks if and only if the code ends somewhere between the  *)
(* place it looked at last and that moment.  It may fall behind: then it   *)
(* skips all but the last Reach places, and nothing else.                  *)
(***************************************************************************)
EXTENDS Integers, Sequences

CONSTANTS
    Keys,    \* what a press can be
    Secret,  \* the unlock code
    Reach    \* how many places a look can go back

VARIABLES
    up,       \* a session is up
    log,      \* the presses of the session
    seen,     \* how many of them have been looked at
    unlocked  \* the code has been seen

watch == <<up, log, seen, unlocked>>

Init == ~up /\ log = << >> /\ seen = 0 /\ ~unlocked

Begin ==
    /\ ~up /\ up'
    /\ log' = << >> /\ seen' = 0 /\ ~unlocked'

Type ==
    /\ up
    /\ \E k \in Keys : log' = Append(log, k)
    /\ UNCHANGED <<up, seen, unlocked>>

\* The code ends with the e-th press.
CodeEndsAt(e) ==
    /\ Len(Secret) <= e
    /\ \A i \in 1 .. Len(Secret) : log[e - Len(Secret) + i] = Secret[i]

\* The places a look at the first `to' presses skips.
Skipped(to) == IF to - Reach > seen THEN to - Reach ELSE seen

Look ==
    /\ up /\ ~unlocked
    /\ \E to \in seen .. Len(log) :
           LET found == \E e \in Skipped(to) + 1 .. to : CodeEndsAt(e) IN
               /\ unlocked' = found
               /\ seen' = IF found THEN seen ELSE to
    /\ UNCHANGED <<up, log>>

End ==
    /\ up /\ ~up'
    /\ log' = << >> /\ seen' = 0 /\ ~unlocked'

Next == Begin \/ Type \/ Look \/ End

Spec == Init /\ [][Next]_watch
=============================================================================
