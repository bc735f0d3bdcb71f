---------------------------- MODULE CrashRestore ----------------------------
(***************************************************************************)
(* What becomes of the user's audio and Focus when sessions of dndmode end *)
(* or are killed.  A session records in runtime.json how it found the      *)
(* audio and whether it turns Focus on, then mutes, and undoes both on its *)
(* way out; RecoverFromCrash undoes them for a session that was killed.    *)
(*                                                                         *)
(* The processes are those of PublishProtocol, seen from the side of the   *)
(* side effects: the check for a live peer and the write of runtime.json   *)
(* are one step here (PublishProtocol has the steps of that section, and   *)
(* the lock that makes it one), while every external command is a step of  *)
(* its own, because the process may be killed between any two of them.     *)
(* A refusal for any other reason than a live peer leaves runtime.json as  *)
(* it was and has undone nothing: it is the second disjunct of Publish.    *)
(*                                                                         *)
(* The user's own settings do not change while the processes run: what the *)
(* system shows differs from what the user wants only by dndmode's doing.  *)
(***************************************************************************)

CONSTANTS
  Sessions,      \* one-shot processes
  Watchers,      \* --watch processes
  Muters,        \* processes with effectiveMute
  Focusers,      \* processes with effectiveFocus
  OneAtATime,    \* a process is started only when no other one is running
  MayKill,       \* processes may be SIGKILLed
  MayFail,       \* a command that undoes a change may fail
  MayRecycle,    \* the kernel may give a dead process's PID to another program
  MayAge         \* a snapshot may leave the 24 h window while its owner lives

Proc == Sessions \cup Watchers

Nil == "nil"

ASSUME ProcAssumption ==
  /\ Sessions \cap Watchers = {}
  /\ Nil \notin Proc
  /\ Muters \subseteq Proc
  /\ Focusers \subseteq Proc

ASSUME SwitchAssumption ==
  {OneAtATime, MayKill, MayFail, MayRecycle, MayAge} \subseteq BOOLEAN

VARIABLES
  pc,        \* pc[p]: the step p is at
  lock,      \* holder of the flock on runtime.lock, or Nil
  snap,      \* runtime.json: its pid (Nil: no file), prior_muted, focus_enabled
  aged,      \* runtime.json's started_at is outside stalePIDWindow
  recycled,  \* PIDs of ended processes that name another program by now
  prior,     \* prior[p]: what GetMuted answered, or Nil
  found,     \* found[p]: the snapshot p's recovery read
  muted,     \* the system's audio is muted
  dnd,       \* the Do Not Disturb Focus is on
  wants      \* the user's own settings of these two

vars == <<pc, lock, snap, aged, recycled, prior, found, muted, dnd, wants>>
effects == <<muted, dnd>>

Priors == {Nil, "audible", "muted"}
NoSnap == [pid |-> Nil, prior |-> Nil, focus |-> FALSE]
Snapshots == [pid : Proc \cup {Nil}, prior : Priors, focus : BOOLEAN]

Init ==
  /\ pc = [p \in Proc |-> "start"]
  /\ lock = Nil
  /\ snap = NoSnap
  /\ aged = FALSE
  /\ recycled = {}
  /\ prior = [p \in Proc |-> Nil]
  /\ found = [p \in Proc |-> NoSnap]
  /\ wants \in [muted : BOOLEAN, focus : BOOLEAN]
  /\ muted = wants.muted
  /\ dnd = wants.focus

-----------------------------------------------------------------------------
(* Helpers *)

Ended == {"gone", "refused"}
Running(p) == pc[p] \notin Ended \cup {"start"}
Goto(p, step) == pc' = [pc EXCEPT ![p] = step]

\* kill(pid, 0) succeeds for the PID in runtime.json: IsLiveInstance.
LiveInstance ==
  snap.pid # Nil /\ (pc[snap.pid] \notin Ended \/ snap.pid \in recycled)

\* The steps at which a process holds the "dndmode active" assertion.
Asserting(p) == pc[p] \in {"query", "publish", "focus", "mute", "active",
                           "unmute", "unfocus", "unpublish"}

\* A session is over: a watcher waits for its next press, a one-shot ends.
EndSession(p) == Goto(p, IF p \in Watchers THEN "idle" ELSE "gone")

-----------------------------------------------------------------------------
(* The start of a process *)

\* Step 5c: beside an instance that looks alive the start is refused.
Precheck(p) ==
  /\ pc[p] = "start"
  /\ OneAtATime => \A q \in Proc : ~Running(q)
  /\ Goto(p, IF LiveInstance THEN "refused" ELSE "recover")
  /\ UNCHANGED <<lock, snap, aged, recycled, prior, found, effects, wants>>

\* Mutant of ReadSnapshot: RecoverFromCrash is called without withPublishLock.
RecoverUnlocked(p) ==
  /\ pc[p] = "recover"
  /\ \/ /\ snap.pid = Nil
        /\ Goto(p, "orphans")
        /\ UNCHANGED found
     \/ /\ snap.pid # Nil
        /\ LiveInstance /\ ~aged
        /\ Goto(p, "refused")
        /\ UNCHANGED found
     \/ /\ snap.pid # Nil
        /\ ~LiveInstance \/ aged
        /\ Goto(p, "refocus")
        /\ found' = [found EXCEPT ![p] = snap]
  /\ UNCHANGED <<lock, snap, aged, recycled, prior, effects, wants>>

\* Mutant of ReadSnapshot: the file is deleted before it is acted on.
DeleteFirst(p) ==
  /\ pc[p] = "recover"
  /\ lock = Nil
  /\ \/ /\ snap.pid = Nil
        /\ Goto(p, "orphans")
        /\ UNCHANGED <<lock, snap, found>>
     \/ /\ snap.pid # Nil
        /\ LiveInstance /\ ~aged
        /\ Goto(p, "refused")
        /\ UNCHANGED <<lock, snap, found>>
     \/ /\ snap.pid # Nil
        /\ ~LiveInstance \/ aged
        /\ Goto(p, "refocus")
        /\ lock' = p
        /\ found' = [found EXCEPT ![p] = snap]
        /\ snap' = NoSnap
  /\ UNCHANGED <<aged, recycled, prior, effects, wants>>

\* Step 10.5, RecoverFromCrash under the publish lock: reads the snapshot; a
\* dead PID, or a live one with a stale snapshot, is taken for a crash.
ReadSnapshot(p) ==
  /\ pc[p] = "recover"
  /\ lock = Nil
  /\ \/ /\ snap.pid = Nil
        /\ Goto(p, "orphans")
        /\ UNCHANGED <<lock, found>>
     \/ /\ snap.pid # Nil
        /\ LiveInstance /\ ~aged
        /\ Goto(p, "refused")
        /\ UNCHANGED <<lock, found>>
     \/ /\ snap.pid # Nil
        /\ ~LiveInstance \/ aged
        /\ Goto(p, "refocus")
        /\ lock' = p
        /\ found' = [found EXCEPT ![p] = snap]
  /\ UNCHANGED <<snap, aged, recycled, prior, effects, wants>>

\* ... `dndmode-off`, if the snapshot says that session turned Focus on
RecoverFocus(p) ==
  /\ pc[p] = "refocus"
  /\ \/ dnd' = (dnd /\ ~found[p].focus)
     \/ MayFail /\ UNCHANGED dnd
  /\ Goto(p, "remute")
  /\ UNCHANGED <<lock, snap, aged, recycled, prior, found, muted, wants>>

\* ... the audio, if it was audible when that session began
RecoverAudio(p) ==
  /\ pc[p] = "remute"
  /\ \/ muted' = (muted /\ found[p].prior # "audible")
     \/ MayFail /\ UNCHANGED muted
  /\ Goto(p, "delete")
  /\ UNCHANGED <<lock, snap, aged, recycled, prior, found, dnd, wants>>

\* ... and the file, whatever it holds by then.  A failed delete is fatal.
DeleteSnapshot(p) ==
  /\ pc[p] = "delete"
  /\ \/ snap' = NoSnap /\ aged' = FALSE /\ Goto(p, "orphans")
     \/ UNCHANGED <<snap, aged>> /\ Goto(p, "gone")
  /\ lock' = Nil
  /\ found' = [found EXCEPT ![p] = NoSnap]
  /\ UNCHANGED <<recycled, prior, effects, wants>>

\* Step 11: refused beside a process that holds the assertion.  A one-shot
\* goes on to its session (Steps 12, 13), a watcher waits for a press.
CleanupOrphans(p) ==
  /\ pc[p] = "orphans"
  /\ Goto(p, IF \E q \in Proc \ {p} : Asserting(q) THEN "refused"
             ELSE IF p \in Watchers THEN "idle" ELSE "query")
  /\ UNCHANGED <<lock, snap, aged, recycled, prior, found, effects, wants>>

\* A press of the activation hot key: no recovery runs before its session.
Press(p) ==
  /\ pc[p] = "idle"
  /\ Goto(p, "query")
  /\ UNCHANGED <<lock, snap, aged, recycled, prior, found, effects, wants>>

-----------------------------------------------------------------------------
(* A session *)

\* Step 13.3: GetMuted, before the publish lock is taken.  On an error the
\* session leaves the audio alone.
QueryAudio(p) ==
  /\ pc[p] = "query"
  /\ \E answer \in {Nil, IF muted THEN "muted" ELSE "audible"} :
       prior' = [prior EXCEPT ![p] = IF p \in Muters THEN answer ELSE Nil]
  /\ Goto(p, "publish")
  /\ UNCHANGED <<lock, snap, aged, recycled, found, effects, wants>>

\* Step 13.3: the peer re-check and Manager.Write, over whatever a process
\* that is no longer alive left there.
Publish(p) ==
  /\ pc[p] = "publish"
  /\ \/ /\ lock = Nil
        /\ ~LiveInstance
        /\ snap' = [pid |-> p, prior |-> prior[p], focus |-> p \in Focusers]
        /\ aged' = FALSE
        /\ Goto(p, "focus")
        /\ UNCHANGED prior
     \/ /\ EndSession(p)
        /\ prior' = [prior EXCEPT ![p] = Nil]
        /\ UNCHANGED <<snap, aged>>
  /\ UNCHANGED <<lock, recycled, found, effects, wants>>

\* Step 13.7: focus.Activate, whose failure is only logged.
Focus(p) ==
  /\ pc[p] = "focus"
  /\ dnd' \in {dnd, dnd \/ p \in Focusers}
  /\ Goto(p, "mute")
  /\ UNCHANGED <<lock, snap, aged, recycled, prior, found, muted, wants>>

\* Step 13.7: SetMuted(true), which may fail with or without having muted.
Mute(p) ==
  /\ pc[p] = "mute"
  /\ muted' \in {muted, muted \/ prior[p] # Nil}
  /\ Goto(p, "active")
  /\ UNCHANGED <<lock, snap, aged, recycled, prior, found, dnd, wants>>

\* Steps 14 to 19 return, with or without a shield having been up.
Lower(p) ==
  /\ pc[p] = "active"
  /\ Goto(p, "unmute")
  /\ UNCHANGED <<lock, snap, aged, recycled, prior, found, effects, wants>>

\* Cleanup: audiomute.Releaser unmutes only what was audible before.
Unmute(p) ==
  /\ pc[p] = "unmute"
  /\ \/ muted' = (muted /\ prior[p] # "audible")
     \/ MayFail /\ UNCHANGED muted
  /\ Goto(p, "unfocus")
  /\ UNCHANGED <<lock, snap, aged, recycled, prior, found, dnd, wants>>

\* Cleanup: focus.Releaser, pushed whether or not Activate succeeded.
Unfocus(p) ==
  /\ pc[p] = "unfocus"
  /\ \/ dnd' = (dnd /\ p \notin Focusers)
     \/ MayFail /\ UNCHANGED dnd
  /\ Goto(p, "unpublish")
  /\ UNCHANGED <<lock, snap, aged, recycled, prior, found, muted, wants>>

\* Cleanup, last: Manager.Release; a failed remove is only logged.
Unpublish(p) ==
  /\ pc[p] = "unpublish"
  /\ \/ snap' = NoSnap /\ aged' = FALSE
     \/ UNCHANGED <<snap, aged>>
  /\ prior' = [prior EXCEPT ![p] = Nil]
  /\ EndSession(p)
  /\ UNCHANGED <<lock, recycled, found, effects, wants>>

-----------------------------------------------------------------------------
(* Ends *)

\* A watcher is stopped between two sessions, or a start is given up.
Stop(p) ==
  /\ pc[p] \in {"idle", "recover", "orphans", "query"}
  /\ Goto(p, "gone")
  /\ UNCHANGED <<lock, snap, aged, recycled, prior, found, effects, wants>>

\* SIGKILL: the lock and the assertion go, the rest stays as it is.
Kill(p) ==
  /\ MayKill
  /\ Running(p)
  /\ Goto(p, "gone")
  /\ lock' = IF lock = p THEN Nil ELSE lock
  /\ prior' = [prior EXCEPT ![p] = Nil]
  /\ found' = [found EXCEPT ![p] = NoSnap]
  /\ UNCHANGED <<snap, aged, recycled, effects, wants>>

\* Another program is started under the PID that runtime.json names.
Recycle ==
  /\ MayRecycle
  /\ snap.pid # Nil /\ pc[snap.pid] \in Ended
  /\ recycled' = recycled \cup {snap.pid}
  /\ UNCHANGED <<pc, lock, snap, aged, prior, found, effects, wants>>

\* The snapshot leaves the 24 h window, by time or by a change of the clock.
\* Recovery tests started_at alone; MayAge lets that happen to a live owner's.
Age ==
  /\ snap.pid # Nil
  /\ pc[snap.pid] \in Ended \/ MayAge
  /\ aged' = TRUE
  /\ UNCHANGED <<pc, lock, snap, recycled, prior, found, effects, wants>>

Next ==
  \/ \E p \in Proc :
       \/ Precheck(p) \/ ReadSnapshot(p) \/ RecoverFocus(p) \/ RecoverAudio(p)
       \/ DeleteSnapshot(p) \/ CleanupOrphans(p) \/ QueryAudio(p) \/ Publish(p)
       \/ Focus(p) \/ Mute(p) \/ Lower(p) \/ Unmute(p) \/ Unfocus(p)
       \/ Unpublish(p) \/ Stop(p) \/ Kill(p)
  \/ \E p \in Watchers : Press(p)
  \/ Recycle
  \/ Age

Spec == Init /\ [][Next]_vars

-----------------------------------------------------------------------------
(* Properties *)

RecoverySteps == {"refocus", "remute", "delete"}

\* Type invariant.  A process that is at a step of recovery holds the lock,
\* and nobody else does.
TypeOK ==
  /\ pc \in [Proc -> {"start", "recover", "orphans", "idle", "query", "publish",
                      "focus", "mute", "active", "unmute", "unfocus", "unpublish"}
                      \cup RecoverySteps \cup Ended]
  /\ lock \in Proc \cup {Nil}
  /\ \A p \in Proc : pc[p] \in RecoverySteps <=> lock = p
  /\ snap \in Snapshots
  /\ aged \in BOOLEAN
  /\ recycled \subseteq {p \in Proc : pc[p] \in Ended}
  /\ prior \in [Proc -> Priors]
  /\ found \in [Proc -> Snapshots]
  /\ muted \in BOOLEAN /\ dnd \in BOOLEAN
  /\ wants \in [muted : BOOLEAN, focus : BOOLEAN]

\* The audio is as the user has it, and so is Focus; a session that turns
\* Focus on turns it off for good, by design (focus.Releaser).
Restored ==
  /\ muted = wants.muted
  /\ dnd = wants.focus \/ (~dnd /\ Focusers # {})

\* When no process runs and no snapshot is left, nothing of a session is left
\* either: whatever happened, the audio and Focus have been given back (the
\* releasers of a session, RecoverFromCrash, README "Crash safety").
RestoredWhenIdle ==
  (\A p \in Proc : ~Running(p)) /\ snap = NoSnap => Restored

\* A process that has got past recovery finds the audio and Focus as the user
\* has them, so that what GetMuted answers is the user's setting and not what
\* a killed session left (Steps 10.5 and 13.3).
SessionsStartClean ==
  \A p \in Proc : pc[p] \in {"orphans", "idle", "query"} => Restored

\* Nothing gives sound or banners back under a shield: neither the recovery
\* nor the cleanup of another process (withPublishLock; the releasers are
\* pushed only past the write of runtime.json).  It needs ~MayAge: recovery
\* takes a snapshot outside the window for a crash, whether or not its owner
\* lives, and MCCrashLongSession shows that it then ends the silence.
SilenceLasts ==
  [][\A p \in Proc : pc[p] = "active" /\ pc'[p] = "active" =>
       (muted => muted') /\ (dnd => dnd')]_vars

\* A snapshot that is older than stalePIDWindow refuses no start, although its
\* PID may name another program by now (stalePIDWindow: "exactly the failure
\* mode exists to avoid").
StaleSnapshotNeverRefuses ==
  [][\A p \in Proc :
       pc[p] = "start" /\ pc'[p] = "refused" => ~aged]_vars
=============================================================================
