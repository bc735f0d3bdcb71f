------------------------- MODULE CodeCapture_proofs -------------------------
(***************************************************************************)
(* Theorems about CodeCapture for codes, rings and logs of any length.     *)
(* The two about the terminal assume that no signal falls between MakeRaw  *)
(* and signal.Notify.                                                      *)
(***************************************************************************)
EXTENDS CodeCapture, SequenceTheorems, TLAPS

----------------------------------------------------------------------------
(* What a pass reads.                                                      *)

\* The n steps ahead are a sequence of n plain keys.
LEMMA AheadIsTyped ==
    ASSUME TypeOK, NEW n \in Nat, StepsAhead(n)
    PROVE  /\ Ahead(n) \in Seq(Plain)
           /\ Len(Ahead(n)) = n
           /\ \A i \in 1 .. n : Ahead(n)[i] = typed[last + i]
<1>1. \A i \in 1 .. n : typed[last + i] \in Plain
    BY DEF StepsAhead
<1>2. Ahead(n) \in [1 .. n -> Plain]
    BY <1>1 DEF Ahead
<1> QED BY <1>2 DEF Ahead

\* What a pass has collected and the n steps ahead, put together.
LEMMA StepsGrow ==
    ASSUME TypeOK, NEW n \in Nat, StepsAhead(n)
    PROVE  /\ steps \o Ahead(n) \in Seq(Plain)
           /\ Len(steps \o Ahead(n)) = Len(steps) + n
           /\ \A i \in 1 .. Len(steps) : (steps \o Ahead(n))[i] = steps[i]
           /\ \A i \in Len(steps) + 1 .. Len(steps) + n :
                  (steps \o Ahead(n))[i] = typed[last + i - Len(steps)]
<1>1. steps \in Seq(Plain) /\ Len(steps) \in Nat /\ last \in Nat
    BY DEF TypeOK, CodeTypeOK
<1>2. /\ Ahead(n) \in Seq(Plain) /\ Len(Ahead(n)) = n
      /\ \A i \in 1 .. n : Ahead(n)[i] = typed[last + i]
    BY AheadIsTyped
<1>3. /\ steps \o Ahead(n) \in Seq(Plain)
      /\ Len(steps \o Ahead(n)) = Len(steps) + n
      /\ \A i \in 1 .. Len(steps) + n : (steps \o Ahead(n))[i] =
             IF i <= Len(steps) THEN steps[i] ELSE Ahead(n)[i - Len(steps)]
    <2>1. \A t \in Seq(Plain) :
              /\ steps \o t \in Seq(Plain)
              /\ Len(steps \o t) = Len(steps) + Len(t)
              /\ \A i \in 1 .. Len(steps) + Len(t) : (steps \o t)[i] =
                     IF i <= Len(steps) THEN steps[i] ELSE t[i - Len(steps)]
        BY <1>1, ConcatProperties
    <2> QED BY <1>2, <2>1
<1>4. ASSUME NEW i \in Len(steps) + 1 .. Len(steps) + n
      PROVE  (steps \o Ahead(n))[i] = typed[last + i - Len(steps)]
    <2>1. i - Len(steps) \in 1 .. n /\ i \in 1 .. Len(steps) + n
          /\ ~(i <= Len(steps))
        BY <1>1
    <2>2. (steps \o Ahead(n))[i] = Ahead(n)[i - Len(steps)]
        BY <1>3, <2>1
    <2>3. Ahead(n)[i - Len(steps)] = typed[last + (i - Len(steps))]
        BY <1>2, <2>1
    <2> QED BY <1>1, <2>2, <2>3
<1> QED BY <1>1, <1>3, <1>4

\* The counters of a pass are numbers.
LEMMA CountersAreNumbers ==
    ASSUME TypeOK
    PROVE  /\ last \in Nat /\ Len(steps) \in Nat /\ Len(first) \in Nat
           /\ Len(typed) \in Nat /\ last <= Len(typed)
           /\ Cur \in Nat /\ Cur = Len(typed)
BY DEF TypeOK, CodeTypeOK, Cur

\* What holds where a pass meets Return.
LEMMA ReturnIsAhead ==
    ASSUME TypeOK, NEW n \in 0 .. Cur - last, ReturnAfter(n)
    PROVE  /\ n \in Nat
           /\ StepsAhead(n)
           /\ Len(steps) + n <= MaxSteps
           /\ last + n < Len(typed)
           /\ typed[last + n + 1] = Return
<1>1. last \in Nat /\ Cur \in Nat /\ Cur = Len(typed)
    BY CountersAreNumbers
<1>2. n \in Nat
    BY <1>1
<1> QED BY <1>1, <1>2 DEF ReturnAfter, Fits

----------------------------------------------------------------------------
(* The inductive invariant.                                                *)

\* Who holds commitMu, when the terminal is raw and where signals go.
ControlInv ==
    /\ mu = "main" <=> pc \in {"check", "rename", "unlock"}
    /\ pc = "rename" => ~cancelled
    /\ pc \in {"start", "cancel", "stop", "gone"} => tty = "cooked"
    /\ tty = "cooked" =>
           cancelled \/ pc \in {"start", "cancel", "stop", "gone"}
    /\ handler = "restoring" => cancelled
    /\ ~notified => pc \in {"start", "raw", "gone"}

\* The report waits for the config and agrees with it.
ReportInv ==
    /\ pc \in {"start", "raw", "armed", "decide", "check", "rename"} \cup Passes
           => report = "none" /\ saved = Old
    /\ pc = "release" => report # "updated" /\ saved = Old
    /\ report = "updated" => saved \in Seq(Plain)
    /\ report \in {"refused", "failed", "aborted"} => saved = Old

\* The log of presses begins with this code and Return.
TypedOnce(code) ==
    /\ Len(typed) >= Len(code) + 1
    /\ \A i \in 1 .. Len(code) : typed[i] = code[i]
    /\ typed[Len(code) + 1] = Return

\* Where each pass stands in the log of presses.
PassInv ==
    /\ pc \in {"start", "raw", "armed"} => last = 0 /\ Len(steps) = 0
    /\ pc = "pass1" =>
           /\ last = Len(steps)
           /\ \A i \in 1 .. Len(steps) : typed[i] = steps[i]
    /\ pc = "pass2" =>
           /\ TypedOnce(first)
           /\ last = Len(first) + 1 + Len(steps)
           /\ \A i \in 1 .. Len(steps) : typed[Len(first) + 1 + i] = steps[i]
    /\ (pc = "release" /\ report = "none") \/ pc \in {"decide", "check", "rename"}
           => TypedTwice(first)
    /\ saved # Old => TypedTwice(saved)

DataInv == TypeOK /\ ReportInv /\ PassInv

\* Every label the command jumps to.
LEMMA LabelsAreStages ==
    /\ {"raw", "armed", "release", "decide", "check", "rename", "unlock"}
           \subseteq Stages
    /\ {"print", "restore", "cancel", "stop", "gone", "pass1", "pass2"}
           \subseteq Stages
    /\ "start" \in Stages
BY DEF Stages, Passes

\* The initial state.
LEMMA InitInv == Init => DataInv /\ ControlInv
<1> SUFFICES ASSUME Init
             PROVE  DataInv /\ ControlInv
    OBVIOUS
<1>1. TypeOK
    <2>1. << >> \in Seq(Plain) /\ << >> \in Seq(Plain \cup Terminator)
        OBVIOUS
    <2>2. Len(<< >>) = 0 /\ 0 \in 0 .. 0 /\ 0 <= MaxSteps
        BY StepAssumption
    <2> QED BY <2>1, <2>2, LabelsAreStages
           DEF Init, TypeOK, CodeTypeOK, ControlTypeOK
<1>2. ControlInv /\ ReportInv /\ PassInv
    BY DEF Init, ControlInv, ReportInv, PassInv, Passes
<1> QED BY <1>1, <1>2 DEF DataInv

\* A press at the end of the log leaves what was confirmed as it is.
LEMMA PressKeeps ==
    ASSUME TypeOK, NEW k \in Plain \cup Terminator,
           typed' = Append(typed, k)
    PROVE  /\ typed' \in Seq(Plain \cup Terminator)
           /\ Len(typed') = Len(typed) + 1
           /\ \A i \in 1 .. Len(typed) : typed'[i] = typed[i]
BY AppendProperties DEF TypeOK, CodeTypeOK

----------------------------------------------------------------------------
(* Every step keeps the types.                                             *)

\* The steps of a pass keep the types of what was typed, collected and
\* saved, and so does a press.
LEMMA CodeTypeStep ==
    ASSUME DataInv, [Next]_vars
    PROVE  CodeTypeOK'
<1> USE DEF captureVars, commitVars, signalVars, vars
<1> TypeOK /\ CodeTypeOK
    BY DEF DataInv, TypeOK
<1>0. << >> \in Seq(Plain) /\ Len(<< >>) = 0 /\ 0 <= MaxSteps
    BY StepAssumption
<1>1. CASE TickReads
    <2> DEFINE n == Cur - last
    <2>1. n \in Nat /\ StepsAhead(n) /\ Len(steps) + n <= MaxSteps
        BY <1>1, CountersAreNumbers DEF TickReads, Fits
    <2>2. steps' \in Seq(Plain) /\ Len(steps') = Len(steps) + n
        BY <1>1, <2>1, StepsGrow DEF TickReads
    <2>3. last' = Len(typed) /\ Len(typed) \in Nat
        BY <1>1, CountersAreNumbers DEF TickReads
    <2> HIDE DEF n
    <2> QED BY <1>1, <2>1, <2>2, <2>3 DEF TickReads, CodeTypeOK
<1>2. CASE FirstPassEnds
    <2>1. PICK n \in 0 .. Cur - last :
              /\ ReturnAfter(n)
              /\ first' = steps \o Ahead(n)
              /\ last' = last + n + 1
        BY <1>2 DEF FirstPassEnds
    <2>2. n \in Nat /\ StepsAhead(n) /\ Len(steps) + n <= MaxSteps
          /\ last + n < Len(typed)
        BY <2>1, ReturnIsAhead
    <2>3. first' \in Seq(Plain) /\ Len(first') <= MaxSteps
        BY <2>1, <2>2, StepsGrow
    <2>4. last' \in 0 .. Len(typed)
        BY <2>1, <2>2, CountersAreNumbers
    <2> QED BY <1>0, <1>2, <2>3, <2>4 DEF FirstPassEnds, CodeTypeOK
<1>3. CASE Confirms
    BY <1>0, <1>3 DEF Confirms, CodeTypeOK
<1>4. CASE CtxDone \/ TimesOut \/ TickLags \/ TickEscapes \/ TickTooLong
               \/ Mismatch
    BY <1>0, <1>4
       DEF CtxDone, TimesOut, TickLags, TickEscapes, TickTooLong, Mismatch,
           GiveUp, CodeTypeOK
<1>5. CASE Press
    <2>1. PICK k \in Plain \cup Terminator : typed' = Append(typed, k)
        BY <1>5 DEF Press
    <2>2. typed' \in Seq(Plain \cup Terminator)
          /\ Len(typed') = Len(typed) + 1
        BY <2>1, PressKeeps
    <2>3. last \in 0 .. Len(typed')
        BY <2>2, CountersAreNumbers
    <2> QED BY <1>5, <2>2, <2>3 DEF Press, CodeTypeOK
<1>6. CASE SignalArrives \/ Handles
    BY <1>6 DEF SignalArrives, Handles, HandlerCatches, HandlerCancels,
                HandlerRestores, HandlerLeaves, CodeTypeOK
<1>7. CASE Refused \/ MakeRaw \/ Notify \/ InstallTap \/ InstallFails
               \/ ReleaseTap
    BY <1>7 DEF Refused, MakeRaw, Notify, InstallTap, InstallFails,
                ReleaseTap, CodeTypeOK
<1>8. CASE Rejected \/ LockCommit \/ Check \/ Save \/ SaveFails
    BY <1>8 DEF Rejected, LockCommit, Check, Save, SaveFails, CodeTypeOK
<1>9. CASE Unlock \/ PrintReport \/ Restore \/ CapCancel \/ StopSignals
    BY <1>9 DEF Unlock, PrintReport, Restore, CapCancel, StopSignals,
                CodeTypeOK
<1>10. CASE UNCHANGED vars
    BY <1>10 DEF CodeTypeOK
<1> QED BY <1>1, <1>2, <1>3, <1>4, <1>5, <1>6, <1>7, <1>8, <1>9, <1>10
        DEF Next, Proceeds, CollectSteps

\* The flags and labels keep theirs.
LEMMA ControlTypeStep ==
    ASSUME ControlTypeOK, [Next]_vars
    PROVE  ControlTypeOK'
<1> USE LabelsAreStages DEF captureVars, commitVars, signalVars, vars
<1>1. CASE CollectSteps \/ CtxDone \/ TimesOut
    BY <1>1
       DEF CollectSteps, CtxDone, TimesOut, TickLags, TickEscapes,
           TickTooLong, TickReads, FirstPassEnds, Confirms, Mismatch,
           GiveUp, ControlTypeOK
<1>2. CASE Refused \/ MakeRaw \/ Notify \/ InstallTap \/ InstallFails
               \/ ReleaseTap
    BY <1>2 DEF Refused, MakeRaw, Notify, InstallTap, InstallFails,
                ReleaseTap, ControlTypeOK
<1>3. CASE Rejected \/ LockCommit \/ Check \/ Save \/ SaveFails
    BY <1>3 DEF Rejected, LockCommit, Check, Save, SaveFails, ControlTypeOK
<1>4. CASE Unlock \/ PrintReport \/ Restore \/ CapCancel \/ StopSignals
    BY <1>4 DEF Unlock, PrintReport, Restore, CapCancel, StopSignals,
                ControlTypeOK
<1>5. CASE Handles
    BY <1>5 DEF Handles, HandlerCatches, HandlerCancels, HandlerRestores,
                HandlerLeaves, ControlTypeOK
<1>6. CASE Press
    BY <1>6 DEF Press, ControlTypeOK
<1>7. CASE SignalArrives
    <2>1. sigCh' \in BOOLEAN
        BY <1>7, Zenon DEF SignalArrives, ControlTypeOK
    <2>2. tap' \in BOOLEAN
        BY <1>7, Zenon DEF SignalArrives, ControlTypeOK
    <2>3. pc' \in Stages /\ sent' \in Nat
        <3>1. pc' = pc \/ pc' = "gone"
            BY <1>7, Zenon DEF SignalArrives
        <3>2. sent' = sent + 1
            BY <1>7, Zenon DEF SignalArrives
        <3>3. pc \in Stages /\ "gone" \in Stages /\ sent \in Nat
            BY DEF ControlTypeOK
        <3>4. pc' \in Stages
            BY <3>1, <3>3, Zenon
        <3>5. sent' \in Nat
            BY <3>2, <3>3
        <3> QED BY <3>4, <3>5
    <2>4. UNCHANGED <<tty, report, mu, cancelled, notified, handler>>
        BY <1>7, Zenon DEF SignalArrives
    <2> QED BY <2>1, <2>2, <2>3, <2>4 DEF ControlTypeOK
<1>8. CASE UNCHANGED vars
    BY <1>8 DEF ControlTypeOK
<1> QED BY <1>1, <1>2, <1>3, <1>4, <1>5, <1>6, <1>7, <1>8 DEF Next, Proceeds

----------------------------------------------------------------------------
(* Every step keeps the report true.                                       *)

LEMMA ReportStep ==
    ASSUME DataInv, [Next]_vars
    PROVE  ReportInv'
<1> USE DEF captureVars, commitVars, signalVars, vars, Passes
<1> TypeOK /\ ReportInv
    BY DEF DataInv
<1>1. CASE CollectSteps \/ CtxDone \/ TimesOut
    BY <1>1
       DEF CollectSteps, CtxDone, TimesOut, TickLags, TickEscapes,
           TickTooLong, TickReads, FirstPassEnds, Confirms, Mismatch,
           GiveUp, ReportInv
<1>2. CASE Refused \/ MakeRaw \/ Notify \/ InstallTap \/ InstallFails
               \/ ReleaseTap
    BY <1>2 DEF Refused, MakeRaw, Notify, InstallTap, InstallFails,
                ReleaseTap, ReportInv
<1>3. CASE Rejected \/ LockCommit \/ Check \/ Save \/ SaveFails
    BY <1>3 DEF Rejected, LockCommit, Check, Save, SaveFails, ReportInv,
                TypeOK, CodeTypeOK
<1>4. CASE Unlock \/ PrintReport \/ Restore \/ CapCancel \/ StopSignals
    BY <1>4 DEF Unlock, PrintReport, Restore, CapCancel, StopSignals, ReportInv
<1>5. CASE Handles \/ Press \/ SignalArrives
    BY <1>5 DEF Handles, HandlerCatches, HandlerCancels, HandlerRestores,
                HandlerLeaves, Press, SignalArrives, ReportInv
<1>6. CASE UNCHANGED vars
    BY <1>6 DEF ReportInv
<1> QED BY <1>1, <1>2, <1>3, <1>4, <1>5, <1>6 DEF Next, Proceeds

----------------------------------------------------------------------------
(* Every step keeps the passes and what they confirm.                      *)

\* A press leaves a code typed once, or twice, typed.
LEMMA PressKeepsTyped ==
    ASSUME TypeOK, NEW code \in Seq(Plain),
           NEW k \in Plain \cup Terminator, typed' = Append(typed, k)
    PROVE  /\ TypedOnce(code) => TypedOnce(code)'
           /\ TypedTwice(code) => TypedTwice(code)'
<1>1. /\ Len(typed) \in Nat /\ Len(typed') = Len(typed) + 1
      /\ \A i \in 1 .. Len(typed) : typed'[i] = typed[i]
    BY PressKeeps, CountersAreNumbers
<1>2. Len(code) \in Nat
    OBVIOUS
<1>3. TypedOnce(code) => TypedOnce(code)'
    BY <1>1, <1>2 DEF TypedOnce
<1>4. TypedTwice(code) => TypedTwice(code)'
    BY <1>1, <1>2 DEF TypedTwice
<1> QED BY <1>3, <1>4

\* What PassInv says of each stage, and of the code that was saved.
LEMMA PassStep ==
    ASSUME DataInv, [Next]_vars
    PROVE  PassInv'
<1> USE DEF captureVars, commitVars, signalVars, vars
<1> TypeOK /\ CodeTypeOK /\ ReportInv /\ PassInv
    BY DEF DataInv, TypeOK
<1>a. /\ first \in Seq(Plain) /\ steps \in Seq(Plain)
      /\ last \in Nat /\ Len(steps) \in Nat /\ Len(first) \in Nat
      /\ Len(typed) \in Nat /\ last <= Len(typed)
    BY CountersAreNumbers DEF CodeTypeOK
<1>1. CASE TickReads
    <2> DEFINE n == Cur - last
    <2>1. n \in Nat /\ StepsAhead(n) /\ last' = last + n
          /\ steps' = steps \o Ahead(n)
        BY <1>1, CountersAreNumbers DEF TickReads
    <2> HIDE DEF n
    <2>2. /\ Len(steps') = Len(steps) + n
          /\ \A i \in 1 .. Len(steps) : steps'[i] = steps[i]
          /\ \A i \in Len(steps) + 1 .. Len(steps) + n :
                 steps'[i] = typed[last + i - Len(steps)]
        BY <2>1, StepsGrow
    <2>3. CASE pc = "pass1"
        <3>1. last = Len(steps) /\ \A i \in 1 .. Len(steps) : typed[i] = steps[i]
            BY <2>3 DEF PassInv
        <3>2. \A i \in 1 .. Len(steps') : typed[i] = steps'[i]
            BY <1>a, <2>1, <2>2, <3>1
        <3>3. last' = Len(steps')
            BY <1>a, <2>1, <2>2, <3>1
        <3>4. saved' = Old /\ pc' = "pass1" /\ typed' = typed
            BY <1>1, <2>3 DEF TickReads, ReportInv, Passes
        <3> QED BY <3>2, <3>3, <3>4 DEF PassInv
    <2>4. CASE pc = "pass2"
        <3>1. /\ TypedOnce(first)
              /\ last = Len(first) + 1 + Len(steps)
              /\ \A i \in 1 .. Len(steps) : typed[Len(first) + 1 + i] = steps[i]
            BY <2>4 DEF PassInv
        <3>2. last' = Len(first) + 1 + Len(steps')
            BY <1>a, <2>1, <2>2, <3>1
        <3>3. ASSUME NEW i \in 1 .. Len(steps')
              PROVE  typed[Len(first) + 1 + i] = steps'[i]
            <4>1. CASE i <= Len(steps)
                BY <1>a, <2>1, <2>2, <3>1, <4>1
            <4>2. CASE i > Len(steps)
                <5>1. i \in Len(steps) + 1 .. Len(steps) + n
                    BY <1>a, <2>1, <2>2, <4>2
                <5>2. last + i - Len(steps) = Len(first) + 1 + i
                    BY <1>a, <2>1, <3>1, <5>1
                <5> QED BY <2>2, <5>1, <5>2
            <4> QED BY <1>a, <2>1, <2>2, <4>1, <4>2
        <3>4. saved' = Old /\ pc' = "pass2" /\ typed' = typed /\ first' = first
            BY <1>1, <2>4 DEF TickReads, ReportInv, Passes
        <3>5. TypedOnce(first)'
            BY <3>1, <3>4 DEF TypedOnce
        <3> QED BY <3>2, <3>3, <3>4, <3>5 DEF PassInv
    <2> QED BY <1>1, <2>3, <2>4 DEF TickReads, Passes
<1>2. CASE FirstPassEnds
    <2>1. PICK n \in 0 .. Cur - last :
              /\ ReturnAfter(n)
              /\ first' = steps \o Ahead(n)
              /\ last' = last + n + 1
        BY <1>2 DEF FirstPassEnds
    <2>2. n \in Nat /\ StepsAhead(n) /\ last + n < Len(typed)
          /\ typed[last + n + 1] = Return
        BY <2>1, ReturnIsAhead
    <2>3. /\ Len(first') = Len(steps) + n
          /\ \A i \in 1 .. Len(steps) : first'[i] = steps[i]
          /\ \A i \in Len(steps) + 1 .. Len(steps) + n :
                 first'[i] = typed[last + i - Len(steps)]
        BY <2>1, <2>2, StepsGrow
    <2>4. /\ pc = "pass1" /\ pc' = "pass2" /\ typed' = typed
          /\ Len(steps') = 0 /\ saved' = Old
        BY <1>2 DEF FirstPassEnds, ReportInv, Passes
    <2>5. last = Len(steps) /\ \A i \in 1 .. Len(steps) : typed[i] = steps[i]
        BY <2>4 DEF PassInv
    <2>6. \A i \in 1 .. Len(first') : typed[i] = first'[i]
        BY <1>a, <2>2, <2>3, <2>5
    <2>7. Len(typed) >= Len(first') + 1 /\ typed[Len(first') + 1] = Return
        BY <1>a, <2>2, <2>3, <2>5
    <2>8. TypedOnce(first)'
        BY <2>4, <2>6, <2>7 DEF TypedOnce
    <2>9. last' = Len(first') + 1 + Len(steps')
        BY <1>a, <2>1, <2>2, <2>3, <2>4, <2>5
    <2>10. \A i \in 1 .. Len(steps') : typed'[Len(first') + 1 + i] = steps'[i]
        BY <1>a, <2>4
    <2> QED BY <2>4, <2>8, <2>9, <2>10 DEF PassInv
<1>3. CASE Confirms
    <2>1. PICK n \in 0 .. Cur - last :
              ReturnAfter(n) /\ steps \o Ahead(n) = first
        BY <1>3 DEF Confirms
    <2>2. n \in Nat /\ StepsAhead(n) /\ last + n < Len(typed)
          /\ typed[last + n + 1] = Return
        BY <2>1, ReturnIsAhead
    <2>3. /\ Len(first) = Len(steps) + n
          /\ \A i \in 1 .. Len(steps) : first[i] = steps[i]
          /\ \A i \in Len(steps) + 1 .. Len(steps) + n :
                 first[i] = typed[last + i - Len(steps)]
        BY <2>1, <2>2, StepsGrow
    <2>4. /\ pc = "pass2" /\ pc' = "release" /\ typed' = typed
          /\ first' = first /\ saved' = Old
        BY <1>3 DEF Confirms, ReportInv, Passes
    <2>5. /\ TypedOnce(first)
          /\ last = Len(first) + 1 + Len(steps)
          /\ \A i \in 1 .. Len(steps) : typed[Len(first) + 1 + i] = steps[i]
        BY <2>4 DEF PassInv
    <2>6. ASSUME NEW i \in 1 .. Len(first)
          PROVE  typed[i] = first[i] /\ typed[Len(first) + 1 + i] = first[i]
        <3>1. CASE i <= Len(steps)
            BY <1>a, <2>3, <2>5, <3>1 DEF TypedOnce
        <3>2. CASE i > Len(steps)
            <4>1. i \in Len(steps) + 1 .. Len(steps) + n
                BY <1>a, <2>2, <2>3, <3>2
            <4>2. last + i - Len(steps) = Len(first) + 1 + i
                BY <1>a, <2>5, <4>1
            <4> QED BY <2>3, <2>5, <4>1, <4>2 DEF TypedOnce
        <3> QED BY <1>a, <3>1, <3>2
    <2>7. /\ Len(typed) >= 2 * Len(first) + 2
          /\ typed[2 * Len(first) + 2] = Return
        BY <1>a, <2>2, <2>3, <2>5
    <2>8. TypedTwice(first)'
        BY <2>4, <2>5, <2>6, <2>7 DEF TypedTwice, TypedOnce
    <2> QED BY <2>4, <2>8 DEF PassInv
<1>4. CASE CtxDone \/ TimesOut \/ TickLags \/ TickEscapes \/ TickTooLong
               \/ Mismatch
    <2>1. /\ pc \in Passes /\ pc' = "release"
          /\ report' \in {"aborted", "failed"} /\ saved' = saved
        BY <1>4 DEF CtxDone, TimesOut, TickLags, TickEscapes, TickTooLong,
                    Mismatch, GiveUp, Passes
    <2>2. saved' = Old
        BY <2>1 DEF ReportInv
    <2> QED BY <2>1, <2>2 DEF PassInv
<1>5. CASE Press
    <2>1. PICK k \in Plain \cup Terminator : typed' = Append(typed, k)
        BY <1>5 DEF Press
    <2>2. \A code \in Seq(Plain) :
              /\ TypedOnce(code) => TypedOnce(code)'
              /\ TypedTwice(code) => TypedTwice(code)'
        BY <2>1, PressKeepsTyped
    <2>3. /\ Len(typed') = Len(typed) + 1
          /\ \A i \in 1 .. Len(typed) : typed'[i] = typed[i]
        BY <2>1, PressKeeps
    <2>4. UNCHANGED <<pc, tap, last, steps, first, report, saved>> /\ tap
        BY <1>5 DEF Press
    <2>5. saved' # Old => TypedTwice(saved)'
        <3>1. saved # Old => TypedTwice(saved) /\ saved \in Seq(Plain)
            BY DEF PassInv, CodeTypeOK
        <3> QED BY <2>2, <2>4, <3>1 DEF TypedTwice
    <2>6. TypedOnce(first) => TypedOnce(first)'
        BY <1>a, <2>2, <2>4 DEF TypedOnce
    <2>7. TypedTwice(first) => TypedTwice(first)'
        BY <1>a, <2>2, <2>4 DEF TypedTwice
    <2>8. pc = "pass1" =>
              \A i \in 1 .. Len(steps) : typed'[i] = steps[i]
        BY <1>a, <2>3 DEF PassInv
    <2>9. pc = "pass2" =>
              \A i \in 1 .. Len(steps) : typed'[Len(first) + 1 + i] = steps[i]
        BY <1>a, <2>3 DEF PassInv
    <2> QED BY <2>4, <2>5, <2>6, <2>7, <2>8, <2>9 DEF PassInv
<1>6. CASE SignalArrives \/ Handles
    <2>1. UNCHANGED <<typed, last, steps, first, report, saved>>
        BY <1>6 DEF SignalArrives, Handles, HandlerCatches, HandlerCancels,
                    HandlerRestores, HandlerLeaves
    <2>2. pc' = pc \/ pc' = "gone"
        BY <1>6, Zenon
           DEF SignalArrives, Handles, HandlerCatches, HandlerCancels,
               HandlerRestores, HandlerLeaves
    <2> QED BY <2>1, <2>2 DEF PassInv, TypedOnce, TypedTwice
<1>7. CASE Refused \/ MakeRaw \/ Notify \/ InstallTap \/ InstallFails
    <2>1. UNCHANGED <<typed, last, steps, first, saved>> /\ saved = Old
        BY <1>7 DEF Refused, MakeRaw, Notify, InstallTap, InstallFails,
                    ReportInv
    <2>2. /\ pc \in {"start", "raw", "armed"}
          /\ pc' \in {"gone", "restore", "raw", "armed", "pass1"}
        BY <1>7 DEF Refused, MakeRaw, Notify, InstallTap, InstallFails
    <2> QED BY <1>a, <2>1, <2>2 DEF PassInv
<1>8. CASE ReleaseTap \/ Rejected \/ LockCommit \/ Check \/ Save \/ SaveFails
    BY <1>8 DEF ReleaseTap, Rejected, LockCommit, Check, Save, SaveFails,
                PassInv, TypedTwice
<1>9. CASE Unlock \/ PrintReport \/ Restore \/ CapCancel \/ StopSignals
    BY <1>9 DEF Unlock, PrintReport, Restore, CapCancel, StopSignals, PassInv,
                TypedTwice
<1>10. CASE UNCHANGED vars
    BY <1>10 DEF PassInv, TypedOnce, TypedTwice
<1> QED BY <1>1, <1>2, <1>3, <1>4, <1>5, <1>6, <1>7, <1>8, <1>9, <1>10
        DEF Next, Proceeds, CollectSteps

----------------------------------------------------------------------------
(* Every step keeps commitMu, the terminal and the signals in order.       *)

LEMMA ControlStep ==
    ASSUME ~EarlySignal, ControlTypeOK, ControlInv, [Next]_vars
    PROVE  ControlInv'
<1> USE DEF captureVars, commitVars, signalVars, vars, Passes
<1>1. CASE CollectSteps \/ CtxDone \/ TimesOut
    BY <1>1
       DEF CollectSteps, CtxDone, TimesOut, TickLags, TickEscapes,
           TickTooLong, TickReads, FirstPassEnds, Confirms, Mismatch,
           GiveUp, ControlInv
<1>2. CASE Refused \/ MakeRaw \/ Notify \/ InstallTap \/ InstallFails
               \/ ReleaseTap
    BY <1>2 DEF Refused, MakeRaw, Notify, InstallTap, InstallFails,
                ReleaseTap, ControlInv
<1>3. CASE Rejected \/ LockCommit \/ Check \/ Save \/ SaveFails
    BY <1>3 DEF Rejected, LockCommit, Check, Save, SaveFails, ControlInv
<1>4. CASE Unlock \/ PrintReport \/ Restore \/ CapCancel \/ StopSignals
    BY <1>4 DEF Unlock, PrintReport, Restore, CapCancel, StopSignals,
                ControlInv
<1>5. CASE Handles
    BY <1>5 DEF Handles, HandlerCatches, HandlerCancels, HandlerRestores,
                HandlerLeaves, ControlInv, ControlTypeOK
<1>6. CASE SignalArrives
    <2>1. UNCHANGED <<mu, tty, cancelled, notified, handler>>
        BY <1>6, Zenon DEF SignalArrives
    <2>2. CASE notified
        <3>1. pc' = pc
            BY <1>6, <2>2, Zenon DEF SignalArrives
        <3> QED BY <2>1, <3>1 DEF ControlInv
    <2>3. CASE ~notified
        <3>1. pc = "start" /\ pc' = "gone"
            BY <1>6, <2>3, Zenon DEF SignalArrives, ControlInv
        <3> QED BY <2>1, <2>3, <3>1 DEF ControlInv
    <2> QED BY <2>2, <2>3
<1>7. CASE Press \/ UNCHANGED vars
    BY <1>7 DEF Press, ControlInv
<1> QED BY <1>1, <1>2, <1>3, <1>4, <1>5, <1>6, <1>7 DEF Next, Proceeds

----------------------------------------------------------------------------
(* The theorems.                                                           *)

\* The part of the invariant that no timing of a signal disturbs.
THEOREM DataInvariance == Spec => []DataInv
<1>1. Init => DataInv
    BY InitInv
<1>2. ASSUME DataInv, [Next]_vars
      PROVE  DataInv'
    <2>1. TypeOK'
        BY <1>2, CodeTypeStep, ControlTypeStep DEF DataInv, TypeOK
    <2> QED BY <1>2, <2>1, ReportStep, PassStep DEF DataInv
<1> QED BY <1>1, <1>2, PTL DEF Spec

\* The part that needs the terminal's handler to be there in time.
THEOREM ControlInvariance == ~EarlySignal => (Spec => []ControlInv)
<1> SUFFICES ASSUME ~EarlySignal
             PROVE  Spec => []ControlInv
    OBVIOUS
<1>1. Init => ControlInv
    BY InitInv
<1>2. ASSUME DataInv, ControlInv, [Next]_vars
      PROVE  ControlInv'
    BY <1>2, ControlStep DEF DataInv, TypeOK
<1> QED BY <1>1, <1>2, DataInvariance, PTL DEF Spec

\* Every variable keeps its type; the codes collected never exceed MaxSteps.
THEOREM Typing == Spec => []TypeOK
<1>1. DataInv => TypeOK
    BY DEF DataInv
<1> QED BY <1>1, DataInvariance, PTL

\* Whatever the passes read, lost or timed out on, the code that was saved
\* was typed twice and nothing else was typed around it.
THEOREM ConfirmedSave == Spec => []SavedIsConfirmed
<1>1. DataInv => SavedIsConfirmed
    BY DEF DataInv, PassInv, SavedIsConfirmed
<1> QED BY <1>1, DataInvariance, PTL

\* The report and config.yml agree, with signals at any moment.
THEOREM TrueReport == Spec => []ToldTheTruth
<1>1. DataInv => ToldTheTruth
    BY OldAssumption DEF DataInv, ReportInv, ToldTheTruth
<1> QED BY <1>1, DataInvariance, PTL

\* The terminal is sane when the process ends.
THEOREM SaneTerminal == ~EarlySignal => (Spec => []TerminalIsRestored)
<1> SUFFICES ASSUME ~EarlySignal
             PROVE  Spec => []TerminalIsRestored
    OBVIOUS
<1>1. ControlInv => TerminalIsRestored
    BY DEF ControlInv, TerminalIsRestored
<1> QED BY <1>1, ControlInvariance, PTL

\* Nothing is saved after an abort or behind a terminal handed back.
THEOREM FinalAbort == ~EarlySignal => (Spec => AbortIsFinal)
<1> SUFFICES ASSUME ~EarlySignal
             PROVE  Spec => AbortIsFinal
    OBVIOUS
<1>1. ASSUME ControlInv, [Next]_vars
      PROVE  [cancelled \/ tty = "cooked" => saved' = saved]_vars
    <2> USE DEF captureVars, commitVars, signalVars, vars
    <2>1. CASE Save
        BY <1>1, <2>1 DEF Save, ControlInv
    <2>2. CASE ~Save
        <3>1. saved' = saved
            BY <1>1, <2>2
               DEF Next, Proceeds, Handles, CollectSteps, Refused, MakeRaw,
                   Notify, InstallTap, InstallFails, CtxDone, TimesOut,
                   TickLags, TickEscapes, TickTooLong, TickReads,
                   FirstPassEnds, Confirms, Mismatch, GiveUp, ReleaseTap,
                   Rejected, LockCommit, Check, SaveFails, Unlock,
                   PrintReport, Restore, CapCancel, StopSignals,
                   SignalArrives, HandlerCatches, HandlerCancels,
                   HandlerRestores, HandlerLeaves, Press
        <3> QED BY <3>1
    <2> QED BY <2>1, <2>2
<1> QED BY <1>1, ControlInvariance, PTL DEF Spec, AbortIsFinal
=============================================================================
