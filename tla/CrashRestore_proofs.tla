-------------------------- MODULE CrashRestore_proofs --------------------------
(***************************************************************************)
(* Theorems about CrashRestore for any sets of processes, whoever is       *)
(* killed or has its PID reused; each names the switches it assumes off.   *)
(***************************************************************************)
EXTENDS CrashRestore, TLAPS

-----------------------------------------------------------------------------
(* Type correctness and the lock discipline of recovery *)

\* The initial states are well typed, with the lock free.
LEMMA InitTypeOK == Init => TypeOK
<1> SUFFICES ASSUME Init PROVE TypeOK
  OBVIOUS
<1>1. NoSnap \in Snapshots /\ Nil \in Priors
  BY DEF NoSnap, Snapshots, Priors
<1>2. muted \in BOOLEAN /\ dnd \in BOOLEAN
  BY DEF Init
<1>3. \A p \in Proc : pc[p] \in RecoverySteps <=> lock = p
  BY ProcAssumption DEF Init, RecoverySteps
<1>4. QED
  BY <1>1, <1>2, <1>3 DEF Init, TypeOK

\* Every step keeps the types and the lock discipline of TypeOK.
LEMMA NextTypeOK == TypeOK /\ [Next]_vars => TypeOK'
<1> SUFFICES ASSUME TypeOK, [Next]_vars PROVE TypeOK'
  OBVIOUS
<1> USE ProcAssumption DEF TypeOK, Goto, RecoverySteps, Ended, effects
<1> NoSnap \in Snapshots /\ Nil \notin Proc
  BY DEF NoSnap, Snapshots, Priors
<1>1. CASE UNCHANGED vars
  BY <1>1 DEF vars
<1>2. ASSUME NEW p \in Proc, Precheck(p)  PROVE TypeOK'
  BY <1>2 DEF Precheck
<1>3. ASSUME NEW p \in Proc, ReadSnapshot(p)  PROVE TypeOK'
  BY <1>3 DEF ReadSnapshot
<1>4. ASSUME NEW p \in Proc, RecoverFocus(p)  PROVE TypeOK'
  <2>1. dnd' \in BOOLEAN
    BY <1>4 DEF RecoverFocus
  <2>2. QED
    BY <1>4, <2>1 DEF RecoverFocus
<1>5. ASSUME NEW p \in Proc, RecoverAudio(p)  PROVE TypeOK'
  <2>1. muted' \in BOOLEAN
    BY <1>5 DEF RecoverAudio
  <2>2. QED
    BY <1>5, <2>1 DEF RecoverAudio
<1>6. ASSUME NEW p \in Proc, DeleteSnapshot(p)  PROVE TypeOK'
  BY <1>6 DEF DeleteSnapshot
<1>7. ASSUME NEW p \in Proc, CleanupOrphans(p)  PROVE TypeOK'
  BY <1>7 DEF CleanupOrphans
<1>8. ASSUME NEW p \in Proc, QueryAudio(p)  PROVE TypeOK'
  <2>1. PICK answer \in {Nil, IF muted THEN "muted" ELSE "audible"} :
          prior' = [prior EXCEPT ![p] = IF p \in Muters THEN answer ELSE Nil]
    BY <1>8 DEF QueryAudio
  <2>2. prior' \in [Proc -> Priors]
    BY <2>1 DEF Priors
  <2>3. QED
    BY <1>8, <2>2 DEF QueryAudio
<1>9. ASSUME NEW p \in Proc, Publish(p)  PROVE TypeOK'
  <2>1. prior' \in [Proc -> Priors] /\ aged' \in BOOLEAN
    BY <1>9 DEF Publish, Priors
  <2>2. [pid |-> p, prior |-> prior[p], focus |-> p \in Focusers] \in Snapshots
    <3>1. (p \in Focusers) \in BOOLEAN
      OBVIOUS
    <3>2. QED
      BY <3>1 DEF Snapshots
  <2>3. snap' \in Snapshots
    BY <1>9, <2>2 DEF Publish
  <2>4. QED
    BY <1>9, <2>1, <2>3 DEF Publish, EndSession
<1>10. ASSUME NEW p \in Proc, Focus(p)  PROVE TypeOK'
  <2>1. dnd' \in BOOLEAN
    BY <1>10 DEF Focus
  <2>2. QED
    BY <1>10, <2>1 DEF Focus
<1>11. ASSUME NEW p \in Proc, Mute(p)  PROVE TypeOK'
  <2>1. muted' \in BOOLEAN
    BY <1>11 DEF Mute
  <2>2. QED
    BY <1>11, <2>1 DEF Mute
<1>12. ASSUME NEW p \in Proc, Lower(p)  PROVE TypeOK'
  BY <1>12 DEF Lower
<1>13. ASSUME NEW p \in Proc, Unmute(p)  PROVE TypeOK'
  <2>1. muted' \in BOOLEAN
    BY <1>13 DEF Unmute
  <2>2. QED
    BY <1>13, <2>1 DEF Unmute
<1>14. ASSUME NEW p \in Proc, Unfocus(p)  PROVE TypeOK'
  <2>1. dnd' \in BOOLEAN
    BY <1>14 DEF Unfocus
  <2>2. QED
    BY <1>14, <2>1 DEF Unfocus
<1>15. ASSUME NEW p \in Proc, Unpublish(p)  PROVE TypeOK'
  <2>1. prior' \in [Proc -> Priors] /\ snap' \in Snapshots /\ aged' \in BOOLEAN
    BY <1>15 DEF Unpublish, Priors
  <2>2. QED
    BY <1>15, <2>1 DEF Unpublish, EndSession
<1>16. ASSUME NEW p \in Proc, Stop(p)  PROVE TypeOK'
  BY <1>16 DEF Stop
<1>17. ASSUME NEW p \in Proc, Kill(p)  PROVE TypeOK'
  <2>1. prior' \in [Proc -> Priors]
    BY <1>17 DEF Kill, Priors
  <2>2. QED
    BY <1>17, <2>1 DEF Kill
<1>18. ASSUME NEW p \in Watchers, Press(p)  PROVE TypeOK'
  BY <1>18 DEF Press, Proc
<1>19. CASE Recycle
  BY <1>19 DEF Recycle, Snapshots
<1>20. CASE Age
  BY <1>20 DEF Age
<1>21. QED
  BY <1>1, <1>2, <1>3, <1>4, <1>5, <1>6, <1>7, <1>8, <1>9, <1>10, <1>11, <1>12,
     <1>13, <1>14, <1>15, <1>16, <1>17, <1>18, <1>19, <1>20
  DEF Next

\* The state of the side effects is always well typed, and exactly the process
\* that is in the section of recovery holds the publish lock.
THEOREM TypeCorrect == Spec => []TypeOK
<1>1. QED
  BY InitTypeOK, NextTypeOK, PTL DEF Spec

-----------------------------------------------------------------------------
(* Silence lasts *)

\* The steps of a session from its write of runtime.json to its removal.
Published == {"focus", "mute", "active", "unmute", "unfocus", "unpublish"}

\* The snapshot is that of the session that runs, so that there is one.
OwnSnapshot == \A p \in Proc : pc[p] \in Published => snap.pid = p

\* A snapshot that is being recovered from, or has left the 24 h window, names
\* a process that has ended.
OldSnapshot ==
  /\ \A p \in Proc : pc[p] \in RecoverySteps => snap.pid = Nil \/ pc[snap.pid] \in Ended
  /\ aged => snap.pid # Nil /\ pc[snap.pid] \in Ended

SilenceInv == TypeOK /\ OwnSnapshot /\ OldSnapshot

\* The initial states satisfy the inductive invariant.
LEMMA InitSilenceInv == Init => SilenceInv
  BY InitTypeOK DEF Init, SilenceInv, OwnSnapshot, OldSnapshot, Published, RecoverySteps

\* Every step keeps it: a session publishes only with the lock free and no live
\* instance, whoever has ended stays so, and only such a one's snapshot ages.
LEMMA NextSilenceInv ==
  ASSUME ~MayAge, SilenceInv, [Next]_vars
  PROVE  SilenceInv'
<1> SUFFICES (OwnSnapshot /\ OldSnapshot)'
  BY NextTypeOK DEF SilenceInv
<1> USE ProcAssumption
    DEF SilenceInv, TypeOK, OwnSnapshot, OldSnapshot, Goto, RecoverySteps, Ended,
        Published
<1>0. snap.pid \in Proc \cup {Nil} /\ Nil \notin Proc /\ NoSnap.pid = Nil
  BY DEF Snapshots, NoSnap
<1>1. CASE UNCHANGED vars
  BY <1>1 DEF vars
<1>2. ASSUME NEW p \in Proc,
             \/ Precheck(p) \/ RecoverFocus(p) \/ RecoverAudio(p) \/ CleanupOrphans(p)
             \/ QueryAudio(p) \/ Focus(p) \/ Mute(p) \/ Lower(p) \/ Unmute(p)
             \/ Unfocus(p) \/ Stop(p)
      PROVE (OwnSnapshot /\ OldSnapshot)'
  BY <1>0, <1>2
  DEF Precheck, RecoverFocus, RecoverAudio, CleanupOrphans, QueryAudio, Focus, Mute,
      Lower, Unmute, Unfocus, Stop
<1>3. ASSUME NEW p \in Proc, ReadSnapshot(p)  PROVE (OwnSnapshot /\ OldSnapshot)'
  BY <1>0, <1>3 DEF ReadSnapshot, LiveInstance
<1>4. ASSUME NEW p \in Proc, DeleteSnapshot(p)  PROVE (OwnSnapshot /\ OldSnapshot)'
  BY <1>0, <1>4 DEF DeleteSnapshot
<1>5. ASSUME NEW p \in Proc, Publish(p)  PROVE (OwnSnapshot /\ OldSnapshot)'
  <2>1. CASE EndSession(p) /\ UNCHANGED <<snap, aged>>
    BY <1>0, <1>5, <2>1 DEF Publish, EndSession
  <2>2. CASE /\ lock = Nil /\ ~LiveInstance
             /\ snap' = [pid |-> p, prior |-> prior[p], focus |-> p \in Focusers]
             /\ aged' = FALSE
             /\ pc' = [pc EXCEPT ![p] = "focus"]
    BY <1>0, <2>2 DEF LiveInstance
  <2>3. QED
    BY <1>5, <2>1, <2>2 DEF Publish
<1>6. ASSUME NEW p \in Proc, Unpublish(p)  PROVE (OwnSnapshot /\ OldSnapshot)'
  <2>1. snap.pid = p /\ pc[p] = "unpublish"
    BY <1>6 DEF Unpublish
  <2>2. \A q \in Proc : pc[q] \notin RecoverySteps /\ (q # p => pc[q] \notin Published)
    BY <2>1
  <2>3. QED
    BY <1>0, <1>6, <2>1, <2>2 DEF Unpublish, EndSession
<1>7. ASSUME NEW p \in Proc, Kill(p)  PROVE (OwnSnapshot /\ OldSnapshot)'
  BY <1>0, <1>7 DEF Kill, Running
<1>8. ASSUME NEW p \in Watchers, Press(p)  PROVE (OwnSnapshot /\ OldSnapshot)'
  BY <1>0, <1>8 DEF Press, Proc
<1>9. CASE Recycle \/ Age
  BY <1>0, <1>9 DEF Recycle, Age
<1>10. QED
  BY <1>1, <1>2, <1>3, <1>4, <1>5, <1>6, <1>7, <1>8, <1>9 DEF Next

\* The invariant, for every behaviour.
LEMMA SilenceInvariant == ASSUME ~MayAge PROVE Spec => []SilenceInv
<1>1. SilenceInv /\ [Next]_vars => SilenceInv'
  BY NextSilenceInv
<1>2. QED
  BY <1>1, InitSilenceInv, PTL DEF Spec

\* A step under a shield: who could give sound or banners back is not there.
LEMMA StepKeepsSilence ==
  ASSUME SilenceInv, [Next]_vars, NEW p \in Proc,
         pc[p] = "active", pc'[p] = "active"
  PROVE  (muted => muted') /\ (dnd => dnd')
<1> USE ProcAssumption
    DEF SilenceInv, TypeOK, OwnSnapshot, OldSnapshot, RecoverySteps, Ended, Published,
        effects
<1>0. snap.pid = p
  OBVIOUS
<1>1. CASE UNCHANGED vars
  BY <1>1 DEF vars
<1>2. ASSUME NEW q \in Proc,
             RecoverFocus(q) \/ RecoverAudio(q) \/ Unmute(q) \/ Unfocus(q)
      PROVE FALSE
  <2>1. CASE RecoverFocus(q) \/ RecoverAudio(q)
    BY <1>0, <2>1 DEF RecoverFocus, RecoverAudio
  <2>2. CASE Unmute(q) \/ Unfocus(q)
    <3>1. q = p
      BY <1>0, <2>2 DEF Unmute, Unfocus
    <3>2. QED
      BY <2>2, <3>1 DEF Unmute, Unfocus
  <2>3. QED
    BY <1>2, <2>1, <2>2
<1>3. ASSUME NEW q \in Proc, Focus(q) \/ Mute(q)
      PROVE (muted => muted') /\ (dnd => dnd')
  BY <1>3 DEF Focus, Mute
<1>4. ASSUME NEW q \in Proc,
             \/ Precheck(q) \/ ReadSnapshot(q) \/ DeleteSnapshot(q) \/ CleanupOrphans(q)
             \/ QueryAudio(q) \/ Publish(q) \/ Lower(q) \/ Unpublish(q) \/ Stop(q)
             \/ Kill(q) \/ Press(q) \/ Recycle \/ Age
      PROVE UNCHANGED effects
  BY <1>4
  DEF Precheck, ReadSnapshot, DeleteSnapshot, CleanupOrphans, QueryAudio, Publish, Lower,
      Unpublish, Stop, Kill, Press, Recycle, Age
<1>5. QED
  BY <1>1, <1>2, <1>3, <1>4 DEF Next, Proc

\* As long as no live owner's snapshot leaves the 24 h window, no step of any
\* process gives sound or banners back under a shield, with any number of
\* processes side by side, and whatever is killed, fails or is recycled
\* (withPublishLock, the releasers).
THEOREM SilenceHolds == ASSUME ~MayAge PROVE Spec => SilenceLasts
<1>1. SilenceInv /\ [Next]_vars =>
        [\A p \in Proc : pc[p] = "active" /\ pc'[p] = "active" =>
           (muted => muted') /\ (dnd => dnd')]_vars
  BY StepKeepsSilence
<1>2. QED
  BY <1>1, SilenceInvariant, PTL DEF Spec, SilenceLasts

-----------------------------------------------------------------------------
(* What was changed is given back *)

AudioRestored == muted = wants.muted
FocusRestored == dnd = wants.focus \/ (~dnd /\ Focusers # {})

\* Processes that do not overlap: the assumption of the theorems below.
Alone == \A p, q \in Proc : Running(p) /\ Running(q) => p = q

\* What has been recorded of the audio is the user's setting.
Truthful(answer) == (answer = "audible" => ~wants.muted) /\ (answer = "muted" => wants.muted)

TruePriors ==
  /\ \A p \in Proc : Truthful(prior[p])
  /\ Truthful(snap.prior)
  /\ snap.focus => Focusers # {}
  /\ snap.pid = Nil => snap = NoSnap

\* Whatever is not as the user has it is recorded in the snapshot.
Covered ==
  /\ ~AudioRestored => snap.prior = "audible"
  /\ ~FocusRestored => snap.focus

\* How far a process has got: its snapshot is its own, or the one it recovers
\* from, until it has given everything back.
Progress ==
  \A p \in Proc :
    /\ pc[p] \in Published => snap.prior = prior[p] /\ snap.focus = (p \in Focusers)
    /\ pc[p] \in RecoverySteps => found[p] = snap
    /\ pc[p] \in {"remute", "delete", "unpublish"} => FocusRestored
    /\ pc[p] \in {"delete", "unfocus", "unpublish"} => AudioRestored
    /\ pc[p] \in {"orphans", "idle", "query", "publish"} => AudioRestored /\ FocusRestored

RestoreInv == TypeOK /\ Alone /\ TruePriors /\ Covered /\ Progress

\* Restored has these two parts.
LEMMA RestoredParts == Restored <=> AudioRestored /\ FocusRestored
  BY DEF Restored, AudioRestored, FocusRestored

\* The initial states satisfy the inductive invariant.
LEMMA InitRestoreInv == Init => RestoreInv
<1> SUFFICES ASSUME Init PROVE RestoreInv
  OBVIOUS
<1>1. TypeOK
  BY InitTypeOK
<1>2. AudioRestored /\ FocusRestored
  BY DEF Init, AudioRestored, FocusRestored
<1>3. QED
  BY <1>1, <1>2
  DEF Init, RestoreInv, Alone, TruePriors, Truthful, Covered, Progress, NoSnap, Nil,
      Running, Published, RecoverySteps

\* Starting a process only when none runs, no step makes a second one run.
LEMMA NextAlone ==
  ASSUME OneAtATime, TypeOK, Alone, [Next]_vars
  PROVE  Alone'
<1> USE DEF TypeOK, Alone, Running, Goto, Ended
<1>1. CASE UNCHANGED vars
  BY <1>1 DEF vars
<1>2. ASSUME NEW p \in Proc, Precheck(p)  PROVE Alone'
  BY <1>2 DEF Precheck
<1>3. ASSUME NEW p \in Proc, Running(p), \E step : pc' = [pc EXCEPT ![p] = step]
      PROVE  Alone'
  BY <1>3
<1>4. ASSUME NEW p \in Proc,
             \/ ReadSnapshot(p) \/ RecoverFocus(p) \/ RecoverAudio(p)
             \/ DeleteSnapshot(p) \/ CleanupOrphans(p) \/ QueryAudio(p) \/ Publish(p)
             \/ Focus(p) \/ Mute(p) \/ Lower(p) \/ Unmute(p) \/ Unfocus(p)
             \/ Unpublish(p) \/ Stop(p) \/ Kill(p) \/ Press(p)
      PROVE  Alone'
  <2>1. Running(p)
    BY <1>4
    DEF ReadSnapshot, RecoverFocus, RecoverAudio, DeleteSnapshot, CleanupOrphans,
        QueryAudio, Publish, Focus, Mute, Lower, Unmute, Unfocus, Unpublish, Stop, Kill,
        Press
  <2>2. \E step : pc' = [pc EXCEPT ![p] = step]
    BY <1>4
    DEF ReadSnapshot, RecoverFocus, RecoverAudio, DeleteSnapshot, CleanupOrphans,
        QueryAudio, Publish, Focus, Mute, Lower, Unmute, Unfocus, Unpublish, Stop, Kill,
        Press, EndSession
  <2>3. QED
    BY <1>3, <2>1, <2>2
<1>5. CASE Recycle \/ Age
  BY <1>5 DEF Recycle, Age
<1>6. QED
  BY <1>1, <1>2, <1>4, <1>5 DEF Next, Proc

\* Progress, for one process.
Progressed(p) ==
  /\ pc[p] \in Published => snap.prior = prior[p] /\ snap.focus = (p \in Focusers)
  /\ pc[p] \in RecoverySteps => found[p] = snap
  /\ pc[p] \in {"remute", "delete", "unpublish"} => FocusRestored
  /\ pc[p] \in {"delete", "unfocus", "unpublish"} => AudioRestored
  /\ pc[p] \in {"orphans", "idle", "query", "publish"} => AudioRestored /\ FocusRestored

\* Progress asks nothing of the processes that do not run.
LEMMA OneProgress ==
  ASSUME TypeOK, Alone, NEW p \in Proc, Running(p),
         \A q \in Proc \ {p} : pc'[q] = pc[q],
         Progressed(p)'
  PROVE  Progress'
<1>1. \A q \in Proc \ {p} : pc'[q] \in Ended \cup {"start"}
  BY DEF Alone, Running
<1>2. SUFFICES ASSUME NEW q \in Proc PROVE Progressed(q)'
  BY DEF Progress, Progressed
<1>3. CASE q = p
  BY <1>3
<1>4. CASE q # p
  BY <1>1, <1>4 DEF Progressed, Published, RecoverySteps, Ended
<1>5. QED
  BY <1>3, <1>4

\* The step of a process that runs: what it gives back or records.
LEMMA StepRestores ==
  ASSUME ~MayFail, RestoreInv, TypeOK', NEW p \in Proc,
         \/ ReadSnapshot(p) \/ RecoverFocus(p) \/ RecoverAudio(p) \/ DeleteSnapshot(p)
         \/ CleanupOrphans(p) \/ QueryAudio(p) \/ Publish(p) \/ Focus(p) \/ Mute(p)
         \/ Lower(p) \/ Unmute(p) \/ Unfocus(p) \/ Unpublish(p) \/ Stop(p) \/ Kill(p)
         \/ Press(p)
  PROVE  TruePriors' /\ Covered' /\ Progressed(p)'
<1> USE ProcAssumption
    DEF RestoreInv, TypeOK, TruePriors, Truthful, Covered, Progress, Progressed, Goto,
        AudioRestored, FocusRestored, Published, RecoverySteps, Ended, effects
<1>0. /\ wants.muted \in BOOLEAN /\ wants.focus \in BOOLEAN
      /\ snap.pid \in Proc \cup {Nil} /\ snap.prior \in Priors /\ snap.focus \in BOOLEAN
      /\ NoSnap.pid = Nil /\ NoSnap.prior = Nil /\ NoSnap.focus = FALSE
      /\ Nil # "audible" /\ Nil # "muted" /\ Nil \notin Proc
  BY DEF Snapshots, NoSnap, Nil
<1>1. CASE ReadSnapshot(p)
  BY <1>0, <1>1 DEF ReadSnapshot
<1>2. CASE RecoverFocus(p)
  BY <1>0, <1>2 DEF RecoverFocus
<1>3. CASE RecoverAudio(p)
  BY <1>0, <1>3 DEF RecoverAudio
<1>4. CASE DeleteSnapshot(p)
  BY <1>0, <1>4 DEF DeleteSnapshot
<1>5. CASE CleanupOrphans(p)
  BY <1>0, <1>5 DEF CleanupOrphans
<1>6. CASE QueryAudio(p)
  <2>1. PICK answer \in {Nil, IF muted THEN "muted" ELSE "audible"} :
          prior' = [prior EXCEPT ![p] = IF p \in Muters THEN answer ELSE Nil]
    BY <1>6 DEF QueryAudio
  <2>2. Truthful(IF p \in Muters THEN answer ELSE Nil)
    BY <1>0, <1>6, <2>1 DEF QueryAudio
  <2>3. QED
    BY <1>0, <1>6, <2>1, <2>2 DEF QueryAudio
<1>7. CASE Publish(p)
  BY <1>0, <1>7 DEF Publish, EndSession
<1>8. CASE Focus(p)
  BY <1>0, <1>8 DEF Focus
<1>9. CASE Mute(p)
  BY <1>0, <1>9 DEF Mute, Priors
<1>10. CASE Lower(p)
  BY <1>0, <1>10 DEF Lower
<1>11. CASE Unmute(p)
  BY <1>0, <1>11 DEF Unmute
<1>12. CASE Unfocus(p)
  BY <1>0, <1>12 DEF Unfocus
<1>13. CASE Unpublish(p)
  BY <1>0, <1>13 DEF Unpublish, EndSession
<1>14. CASE Stop(p) \/ Kill(p)
  BY <1>0, <1>14 DEF Stop, Kill
<1>15. CASE Press(p)
  BY <1>0, <1>15 DEF Press
<1>16. QED
  BY <1>1, <1>2, <1>3, <1>4, <1>5, <1>6, <1>7, <1>8, <1>9, <1>10, <1>11, <1>12,
     <1>13, <1>14, <1>15

\* Every step keeps the inductive invariant: the steps of a process that runs
\* by the lemmas above, the others because nothing they change is recorded.
LEMMA NextRestoreInv ==
  ASSUME OneAtATime, ~MayFail, RestoreInv, [Next]_vars
  PROVE  RestoreInv'
<1>1. TypeOK' /\ Alone'
  BY NextTypeOK, NextAlone DEF RestoreInv
<1>2. ASSUME NEW p \in Proc,
             \/ ReadSnapshot(p) \/ RecoverFocus(p) \/ RecoverAudio(p)
             \/ DeleteSnapshot(p) \/ CleanupOrphans(p) \/ QueryAudio(p) \/ Publish(p)
             \/ Focus(p) \/ Mute(p) \/ Lower(p) \/ Unmute(p) \/ Unfocus(p)
             \/ Unpublish(p) \/ Stop(p) \/ Kill(p) \/ Press(p)
      PROVE  RestoreInv'
  <2>1. TruePriors' /\ Covered' /\ Progressed(p)'
    BY <1>1, <1>2, StepRestores
  <2>2. Running(p)
    BY <1>2
    DEF ReadSnapshot, RecoverFocus, RecoverAudio, DeleteSnapshot, CleanupOrphans,
        QueryAudio, Publish, Focus, Mute, Lower, Unmute, Unfocus, Unpublish, Stop, Kill,
        Press, Running, Ended
  <2>3. \E step : pc' = [pc EXCEPT ![p] = step]
    BY <1>2
    DEF ReadSnapshot, RecoverFocus, RecoverAudio, DeleteSnapshot, CleanupOrphans,
        QueryAudio, Publish, Focus, Mute, Lower, Unmute, Unfocus, Unpublish, Stop, Kill,
        Press, EndSession, Goto
  <2>4. \A q \in Proc \ {p} : pc'[q] = pc[q]
    BY <2>3 DEF RestoreInv, TypeOK
  <2>5. Progress'
    BY <2>1, <2>2, <2>4, OneProgress DEF RestoreInv
  <2>6. QED
    BY <1>1, <2>1, <2>5 DEF RestoreInv
<1>3. ASSUME NEW p \in Proc, Precheck(p)  PROVE RestoreInv'
  <2>1. UNCHANGED <<snap, prior, found, muted, dnd, wants>>
    BY <1>3 DEF Precheck, effects
  <2>2. TruePriors' /\ Covered'
    BY <2>1
    DEF RestoreInv, TruePriors, Truthful, Covered, AudioRestored, FocusRestored
  <2>3. pc'[p] \in {"refused", "recover"} /\ \A q \in Proc \ {p} : pc'[q] = pc[q]
    BY <1>3 DEF Precheck, Goto, RestoreInv, TypeOK
  <2>4. Progress'
    BY <2>1, <2>3
    DEF RestoreInv, Progress, Published, RecoverySteps, AudioRestored, FocusRestored
  <2>5. QED
    BY <1>1, <2>2, <2>4 DEF RestoreInv
<1>4. CASE UNCHANGED vars \/ Recycle \/ Age
  <2>1. UNCHANGED <<pc, snap, prior, found, muted, dnd, wants>>
    BY <1>4 DEF Recycle, Age, effects, vars
  <2>2. QED
    BY <1>1, <2>1
    DEF RestoreInv, TruePriors, Truthful, Covered, Progress, AudioRestored,
        FocusRestored
<1>5. QED
  BY <1>2, <1>3, <1>4 DEF Next, Proc

\* The invariant, for every behaviour.
LEMMA RestoreInvariant ==
  ASSUME OneAtATime, ~MayFail
  PROVE  Spec => []RestoreInv
<1>1. RestoreInv /\ [Next]_vars => RestoreInv'
  BY NextRestoreInv
<1>2. QED
  BY <1>1, InitRestoreInv, PTL DEF Spec

\* If launches do not overlap and no command that undoes a change fails, then
\* whatever is killed at whatever step, the audio and Focus are as the user has
\* them once no snapshot is left (RecoverFromCrash, README "Crash safety").
THEOREM EverythingIsRestored ==
  ASSUME OneAtATime, ~MayFail
  PROVE  Spec => []RestoredWhenIdle
<1>1. RestoreInv => RestoredWhenIdle
  BY RestoredParts DEF RestoreInv, Covered, RestoredWhenIdle, NoSnap, Nil
<1>2. QED
  BY <1>1, RestoreInvariant, PTL

\* Under the same assumptions a session that asks for the mute state is told
\* the user's own setting (Steps 10.5 and 13.3).
THEOREM EverySessionStartsClean ==
  ASSUME OneAtATime, ~MayFail
  PROVE  Spec => []SessionsStartClean
<1>1. RestoreInv => SessionsStartClean
  BY RestoredParts DEF RestoreInv, Progress, SessionsStartClean
<1>2. QED
  BY <1>1, RestoreInvariant, PTL
=============================================================================
