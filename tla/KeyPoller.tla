----------------------------- MODULE KeyPoller -----------------------------
(***************************************************************************)
(* The unlock code's poller (poller.go, pollSequence and matchAny) over    *)
(* the key ring, with the parts of Install and Release (tap_darwin.go,     *)
(* tap_darwin.m) that start it, stop it and wipe the ring.                 *)
(***************************************************************************)
EXTENDS KeyRing

CONSTANTS
    Secret,       \* the configured unlock code
    MinL, MaxL    \* shortest and longest code the verifier admits

ASSUME CodeAssumption ==
    /\ Secret \in Seq(Rec)
    /\ MinL \in Nat \ {0} /\ MaxL \in Nat
    /\ Len(Secret) \in MinL .. MaxL
    /\ MaxL <= Cap

VARIABLES
    phase,      \* the owner's progress through Install and Release
    unclean,    \* teardownUnclean: no later install is accepted
    wipe,       \* the wipe block on the worker's run loop
    poller,     \* the poller goroutine
    base,       \* baseSeq, sampled by Install
    lastSeq,    \* the poller's lastSeq
    signalled,  \* the sink holds the unlock
    lost        \* history: ends below this one had a tail with recycled slots

ownerVars == <<phase, unclean, wipe>>
pollVars == <<poller, base, lastSeq, signalled, lost>>
vars == <<ringVars, ownerVars, pollVars>>

TypeOK ==
    /\ RingTypeOK
    /\ phase \in {"off", "armed", "live", "stopping", "wiping", "draining"}
    /\ unclean \in BOOLEAN
    /\ wipe \in {"none", "queued", "done"}
    /\ poller \in {"off", "ticking", "done"}
    /\ base \in Nat
    /\ lastSeq \in Nat
    /\ signalled \in BOOLEAN
    /\ lost \in Nat

Init ==
    /\ RingInit
    /\ phase = "off"
    /\ unclean = FALSE
    /\ wipe = "none"
    /\ poller = "off"
    /\ base = 0
    /\ lastSeq = 0
    /\ signalled = FALSE
    /\ lost = 0

----------------------------------------------------------------------------
(* The worker thread: run-loop callouts and blocks, one at a time.         *)

\* A press reaches the callback while the source is on the worker's loop;
\* after the disable of Release only presses that were already queued do.
PressArrives ==
    /\ phase \in {"armed", "live", "stopping", "wiping"}
    /\ Press
    /\ UNCHANGED <<ownerVars, pollVars>>

CallbackRuns == FinishPress /\ UNCHANGED <<ownerVars, pollVars>>

\* The wipe block: never inside a callback, it shares the thread with it.
WorkerWipes ==
    /\ wipe = "queued"
    /\ writing = "no"
    /\ WipeRing
    /\ wipe' = "done"
    /\ UNCHANGED <<writing, key, copyVars, phase, unclean, pollVars>>

----------------------------------------------------------------------------
(* Install and Release.                                                    *)

\* eventtap_install_c wipes the ring, Install samples the baseline and then
\* the worker adds the source to its loop: from here on presses arrive.
InstallTap ==
    /\ phase = "off"
    /\ ~unclean
    /\ WipeRing
    /\ phase' = "armed"
    /\ wipe' = "none"
    /\ poller' = "off"
    /\ base' = seq'
    /\ lastSeq' = 0
    /\ signalled' = FALSE
    /\ lost' = 0
    /\ UNCHANGED <<writing, key, copyVars, unclean>>

\* Mutant of StartPoller: the poller samples its baseline when it starts.
StartPollerFromNow ==
    /\ phase = "armed"
    /\ phase' = "live"
    /\ poller' = "ticking"
    /\ lastSeq' = seq
    /\ UNCHANGED <<ringVars, unclean, wipe, base, signalled, lost>>

StartPoller ==
    /\ phase = "armed"
    /\ phase' = "live"
    /\ poller' = "ticking"
    /\ lastSeq' = base
    /\ UNCHANGED <<ringVars, unclean, wipe, base, signalled, lost>>

\* Release disables the tap and closes stopPoller.
CloseStop ==
    /\ phase = "live"
    /\ phase' = "stopping"
    /\ UNCHANGED <<ringVars, unclean, wipe, pollVars>>

\* Mutant of QueueWipe: the ring is wiped before the poller is joined.
QueueWipeBeforeJoin ==
    /\ phase = "stopping"
    /\ phase' = "wiping"
    /\ wipe' = "queued"
    /\ UNCHANGED <<ringVars, unclean, pollVars>>

\* <-pollerDone, then the wipe is queued on the worker.
QueueWipe ==
    /\ phase = "stopping"
    /\ poller = "done"
    /\ phase' = "wiping"
    /\ wipe' = "queued"
    /\ UNCHANGED <<ringVars, unclean, pollVars>>

\* The wipe ran, or 100 ms went by; uninstall removes the source.
RemoveSource ==
    /\ phase = "wiping"
    /\ phase' = "draining"
    /\ UNCHANGED <<ringVars, unclean, wipe, pollVars>>

\* The drain block ran on the worker after everything queued before it, so
\* no callback is left: the ring is wiped for good.
Drained ==
    /\ phase = "draining"
    /\ writing = "no"
    /\ wipe # "queued"
    /\ WipeRing
    /\ phase' = "off"
    /\ UNCHANGED <<writing, key, copyVars, unclean, wipe, pollVars>>

\* The drain gave up: a callback may be live, the ring is left as it is.
DrainTimesOut ==
    /\ phase = "draining"
    /\ phase' = "off"
    /\ unclean' = TRUE
    /\ UNCHANGED <<ringVars, wipe, pollVars>>

----------------------------------------------------------------------------
(* The poller.                                                             *)

\* Mutant of MatchAny: only the newest tail is looked at.
MatchNewest(buf, floor, from, to) ==
    \E l \in MinL .. MaxL :
        to >= floor + l /\ Window(buf, to - l, l) = Secret

\* matchAny: every tail of every admitted length that ends in the range,
\* and that starts at or above the baseline.
MatchAny(buf, floor, from, to) ==
    \E end \in ClampFrom(from, to, MaxL) .. to - 1 :
        \E l \in MinL .. MaxL :
            /\ end + 1 >= floor + l
            /\ Window(buf, end + 1 - l, l) = Secret

\* A tick finds the counter moved and takes a snapshot.
Tick ==
    /\ poller = "ticking"
    /\ seq # lastSeq
    /\ LoadCounter
    /\ UNCHANGED <<ownerVars, pollVars>>

CopyRing == CopySlot /\ UNCHANGED <<ownerVars, pollVars>>

\* What no reader can still find in the ring once it is at `cur'.
Recycled == cur - (Cap - MaxL)

ScanDone ==
    /\ copy = "copied"
    /\ copy' = "idle"
    /\ lost' = IF lastSeq < Recycled THEN Recycled ELSE lost
    /\ UNCHANGED <<writerVars, cur, next, snap, ownerVars, base>>

ScanMatches ==
    /\ MatchAny(snap, base, lastSeq, cur)
    /\ ScanDone
    /\ signalled' = TRUE
    /\ poller' = "done"
    /\ UNCHANGED lastSeq

ScanFindsNothing ==
    /\ ~MatchAny(snap, base, lastSeq, cur)
    /\ ScanDone
    /\ lastSeq' = cur
    /\ UNCHANGED <<poller, signalled>>

\* select sees stopPoller closed; a tick that is ready too may win instead.
PollerStops ==
    /\ poller = "ticking"
    /\ copy = "idle"
    /\ phase = "stopping"
    /\ poller' = "done"
    /\ UNCHANGED <<ringVars, ownerVars, base, lastSeq, signalled, lost>>

----------------------------------------------------------------------------
Worker == CallbackRuns \/ WorkerWipes
Owner ==
    \/ InstallTap \/ StartPoller \/ CloseStop \/ QueueWipe
    \/ RemoveSource \/ Drained \/ DrainTimesOut
Poller == Tick \/ CopyRing \/ ScanMatches \/ ScanFindsNothing \/ PollerStops

Next == PressArrives \/ Worker \/ Owner \/ Poller

\* The kernel finishes a callback it started, the ticker wakes the poller
\* again and again, and Install goes on to start the poller.
Spec ==
    /\ Init /\ [][Next]_vars
    /\ WF_vars(CallbackRuns)
    /\ WF_vars(Poller)
    /\ WF_vars(StartPoller)

----------------------------------------------------------------------------
(* Properties.                                                             *)

\* The unlock is signalled only for a code that was typed, key by key and in
\* this session: never for a tail put together from a half-written record,
\* a recycled slot, the zeros of a wipe or the presses before the baseline.
NoInventedMatch ==
    [][signalled' /\ ~signalled => Occurs(Secret, typed)]_vars

\* However the presses fall into ticks, a code whose last press the poller
\* has gone past was signalled, unless the ring no longer held the longest
\* admitted tail when the poller looked.
CodeIsNotMissed ==
    poller # "off" /\ phase \in {"live", "stopping"} /\ ~signalled =>
        \A e \in 1 .. lastSeq : OccursAt(Secret, typed, e) => e <= lost

\* After a teardown that is not reported as unclean, nothing of the code is
\* left in the ring, although the callback may have added presses after the
\* first wipe and that wipe may have timed out.
RingIsClean == phase = "off" /\ ~unclean => ring = Zeros /\ seq = 0

\* A code typed while the session is live, from the moment the source is on
\* the loop and before the poller runs, unlocks it in the end.
CodeIsSignalled ==
    (phase \in {"armed", "live"} /\ Occurs(Secret, typed))
        ~> (signalled \/ lost > 0 \/ phase \notin {"armed", "live"})

----------------------------------------------------------------------------
(* The abstract specification, and the mapping that implements it.         *)

\* From the install to the join of the poller.
Watched == phase \in {"armed", "live", "stopping"} \/ poller = "ticking"

Watch == INSTANCE CodeWatch
           WITH Reach <- Cap - MaxL,
                up <- Watched,
                log <- IF Watched THEN typed ELSE << >>,
                seen <- IF Watched /\ poller # "off" THEN lastSeq ELSE 0,
                unlocked <- Watched /\ poller # "off" /\ signalled

\* The poller implements CodeWatch: although it copies a ring that is being
\* written, each of its scans finds in the log of presses what a look at one
\* moment would find, and passes over no press that is still within reach.
ImplementsCodeWatch == Watch!Spec
=============================================================================
