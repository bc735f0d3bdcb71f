--------------------------- MODULE PublishProtocol ---------------------------
(***************************************************************************)
(* How the processes of dndmode share the keyboard, runtime.json and       *)
(* config.yml.  Three kinds of process contend for them:                   *)
(*                                                                         *)
(*   Sessions   one-shot runs (`dndmode`): run() then one runSession();    *)
(*   Watchers   `dndmode --watch` processes: the start-up of run() once,   *)
(*              then a runSession() per press of the activation hot key;   *)
(*   Setters    `dndmode --set-password` runs (runSetPasswordAt).          *)
(*                                                                         *)
(* A shielded session holds an input tap that swallows every key but the   *)
(* unlock code; a capturing setter holds one that swallows every key.      *)
(* They see each other only through runtime.json (written by a session     *)
(* when it is about to raise its shield) and are serialized only by the    *)
(* flock on runtime.lock.  A process is one element of Proc and runs once; *)
(* it may be SIGKILLed at any step (GivesUp), when the kernel drops its    *)
(* lock, its tap and its awake-lock but not its runtime.json.              *)
(*                                                                         *)
(* Abstractions.  runtime.json is the PID in it, plus whether its          *)
(* started_at has left the 24 h window of recovery; config.yml is its      *)
(* secret and whether its comments are those of this release.  Taking the  *)
(* publish lock either succeeds, when it is free, or fails: the failure    *)
(* needs no guard because the lock file may also be unusable.  Writing of  *)
(* config.yml by anything but dndmode is outside this model, as the doc of *)
(* acquirePublishLock says it is outside the lock's.                       *)
(***************************************************************************)

CONSTANTS
  Sessions,  \* one-shot processes
  Watchers,  \* --watch processes
  Setters,   \* --set-password processes
  MayAge,    \* a snapshot may leave recovery's 24 h window while its owner lives
  FirstRun   \* config.yml does not exist when the processes start

Shielders == Sessions \cup Watchers
Proc == Shielders \cup Setters

NoPidFiles == {"none", "corrupt", "nopid", "deadpid"}

ASSUME ProcAssumption ==
  /\ Sessions \cap Watchers = {}
  /\ Shielders \cap Setters = {}
  /\ Proc \cap (NoPidFiles \cup {"free", "missing", "default", "original"}) = {}

ASSUME SwitchAssumption == MayAge \in BOOLEAN /\ FirstRun \in BOOLEAN

VARIABLES
  pc,        \* pc[p]: the step p is at
  lock,      \* holder of the flock on runtime.lock, or "free"
  runtime,   \* PID in runtime.json, or why it names none
  aged,      \* runtime.json's started_at is outside stalePIDWindow
  config,    \* config.yml
  loaded,    \* loaded[p]: the bytes p resolved its verifier from
  draft,     \* draft[p]: the bytes MigrateFile read
  asserted,  \* processes holding the "dndmode active" power assertion
  latched    \* processes whose Manager.released latch is set

vars == <<pc, lock, runtime, aged, config, loaded, draft, asserted, latched>>

Missing  == [secret |-> "missing", current |-> FALSE]
Default  == [secret |-> "default", current |-> TRUE]
Secrets  == Setters \cup {"default", "original"}
Configs  == [secret : Secrets, current : BOOLEAN]

Init ==
  /\ pc = [p \in Proc |-> "load"]
  /\ lock = "free"
  /\ runtime \in NoPidFiles
  /\ aged = FALSE
  /\ config \in IF FirstRun THEN {Missing}
                            ELSE [secret : {"original"}, current : BOOLEAN]
  /\ loaded = [p \in Proc |-> Missing]
  /\ draft = [p \in Proc |-> Missing]
  /\ asserted = {}
  /\ latched = {}

-----------------------------------------------------------------------------
(* Helpers *)

Goto(p, step) == pc' = [pc EXCEPT ![p] = step]

Take(p) == lock = "free" /\ lock' = p
Drop(p) == lock' = IF lock = p THEN "free" ELSE lock

\* p's process ends, by a return of run() or by SIGKILL: what the kernel
\* keeps for it goes with it, runtime.json and config.yml stay.
Exit(p) ==
  /\ Goto(p, "gone")
  /\ Drop(p)
  /\ loaded' = [loaded EXCEPT ![p] = Missing]
  /\ draft' = [draft EXCEPT ![p] = Missing]
  /\ asserted' = asserted \ {p}
  /\ latched' = latched \ {p}

\* IsLiveInstance: runtime.json names a process that exists.
LiveInstance == runtime \in Proc /\ pc[runtime] # "gone"

\* probeLivePeer gives a definite "no peer"; an unreadable file or one
\* without a usable PID is a refusal.
NoPeer == ~LiveInstance /\ runtime \notin {"corrupt", "nopid"}

-----------------------------------------------------------------------------
(* run(): start-up of a session or a watcher *)

\* Step 5, LoadWithSource: bytes parsed are bytes fingerprinted (Step 5a).
Load(p) ==
  /\ pc[p] = "load"
  /\ IF config = Missing
     THEN Goto(p, "create") /\ UNCHANGED loaded
     ELSE Goto(p, "migrate") /\ loaded' = [loaded EXCEPT ![p] = config]
  /\ UNCHANGED <<lock, runtime, aged, config, draft, asserted, latched>>

\* LoadWithSource found no file: writeDefault renames a default one into
\* place, whatever is there by now, without the publish lock.
WriteDefault(p) ==
  /\ pc[p] = "create"
  /\ config' = Default
  /\ IF p \in Setters
     THEN Goto(p, "probe1") /\ UNCHANGED loaded
     ELSE Goto(p, "precheck") /\ loaded' = [loaded EXCEPT ![p] = Default]
  /\ UNCHANGED <<lock, runtime, aged, draft, asserted, latched>>

\* Step 5.9 without effect: no lock to be had, an error, nothing to migrate.
SkipMigration(p) ==
  /\ pc[p] = "migrate"
  /\ Goto(p, "precheck")
  /\ UNCHANGED <<lock, runtime, aged, config, loaded, draft, asserted, latched>>

\* Mutant of BeginMigration: MigrateFile runs without the publish lock.
MigrateUnlocked(p) ==
  /\ pc[p] = "migrate"
  /\ config # Missing /\ ~config.current
  /\ draft' = [draft EXCEPT ![p] = config]
  /\ Goto(p, "migrating")
  /\ UNCHANGED <<lock, runtime, aged, config, loaded, asserted, latched>>

\* Step 5.9: MigrateFile reads the file under the publish lock.
BeginMigration(p) ==
  /\ pc[p] = "migrate"
  /\ config # Missing /\ ~config.current
  /\ Take(p)
  /\ draft' = [draft EXCEPT ![p] = config]
  /\ Goto(p, "migrating")
  /\ UNCHANGED <<runtime, aged, config, loaded, asserted, latched>>

\* The verified rewrite is renamed into place (or fails) and the lock dropped.
FinishMigration(p) ==
  /\ pc[p] = "migrating"
  /\ \/ /\ config' = [draft[p] EXCEPT !.current = TRUE]
        /\ Goto(p, "reload")
     \/ /\ UNCHANGED config
        /\ Goto(p, "precheck")
  /\ Drop(p)
  /\ draft' = [draft EXCEPT ![p] = Missing]
  /\ UNCHANGED <<runtime, aged, loaded, asserted, latched>>

\* The re-read after a migration; on an error the first load is kept.
Reload(p) ==
  /\ pc[p] = "reload"
  /\ loaded' \in {loaded, [loaded EXCEPT ![p] = config]}
  /\ Goto(p, "precheck")
  /\ UNCHANGED <<lock, runtime, aged, config, draft, asserted, latched>>

\* Step 5c: the start-up refuses beside a live instance, and only then.
Precheck(p) ==
  /\ pc[p] = "precheck"
  /\ ~LiveInstance
  /\ Goto(p, "grants")
  /\ UNCHANGED <<lock, runtime, aged, config, loaded, draft, asserted, latched>>

\* Steps 9 to 10: WaitForGrants returns, whenever the user lets it.
Granted(p) ==
  /\ pc[p] = "grants"
  /\ Goto(p, IF p \in Setters THEN "claim" ELSE "recover")
  /\ UNCHANGED <<lock, runtime, aged, config, loaded, draft, asserted, latched>>

\* Mutant of BeginRecovery: RecoverFromCrash is called without withPublishLock.
RecoverUnlocked(p) ==
  /\ pc[p] = "recover"
  /\ IF runtime = "none"
     THEN Goto(p, "orphans")
     ELSE ~(LiveInstance /\ ~aged) /\ Goto(p, "recovering")
  /\ UNCHANGED <<lock, runtime, aged, config, loaded, draft, asserted, latched>>

\* Step 10.5, under withPublishLock: RecoverFromCrash reads the snapshot and
\* decides; a file that names a fresh live instance is a refusal.
BeginRecovery(p) ==
  /\ pc[p] = "recover"
  /\ IF runtime = "none"
     THEN lock = "free" /\ UNCHANGED lock /\ Goto(p, "orphans")
     ELSE ~(LiveInstance /\ ~aged) /\ Take(p) /\ Goto(p, "recovering")
  /\ UNCHANGED <<runtime, aged, config, loaded, draft, asserted, latched>>

\* ... and deletes whatever is at the path by then.  A delete that fails is
\* fatal unless the file could not be read in the first place.
FinishRecovery(p) ==
  /\ pc[p] = "recovering"
  /\ \/ /\ runtime' = "none"
        /\ latched' = latched \cup {p}
     \/ /\ runtime = "corrupt"
        /\ UNCHANGED <<runtime, latched>>
  /\ Drop(p)
  /\ Goto(p, "orphans")
  /\ UNCHANGED <<aged, config, loaded, draft, asserted>>

\* Step 11, without a lock: another live process holding the assertion is a
\* refusal (the assertions of dead ones went with them).
CleanupOrphans(p) ==
  /\ pc[p] = "orphans"
  /\ asserted \subseteq {p}
  /\ Goto(p, IF p \in Watchers THEN "idle" ELSE "acquire")
  /\ UNCHANGED <<lock, runtime, aged, config, loaded, draft, asserted, latched>>

\* runOneWatchSession: a press re-reads the config and starts a session.
Press(p) ==
  /\ pc[p] = "idle"
  /\ loaded' = [loaded EXCEPT ![p] = config]
  /\ Goto(p, "acquire")
  /\ UNCHANGED <<lock, runtime, aged, config, draft, asserted, latched>>

-----------------------------------------------------------------------------
(* runSession(): Steps 12 to 19 *)

\* Mutant of Refuse: a refusal returns without Disown.
RefuseWithoutDisown(p) ==
  /\ latched' = latched \ {p}
  /\ Drop(p)
  /\ Goto(p, "unassert")

\* Leaving runSession before the Write: Disown, drop the lock, unwind.
Refuse(p) ==
  /\ latched' = latched \cup {p}
  /\ Drop(p)
  /\ Goto(p, "unassert")

\* Step 13: the awake-lock; on a failure runSession disowns and returns.
Acquire(p) ==
  /\ pc[p] = "acquire"
  /\ \/ /\ asserted' = asserted \cup {p}
        /\ Goto(p, "publish")
        /\ UNCHANGED <<lock, latched>>
     \/ Refuse(p) /\ UNCHANGED asserted
  /\ UNCHANGED <<runtime, aged, config, loaded, draft>>

\* Mutant of EnterPublish: a blocking flock instead of the bounded wait.
EnterPublishBlocking(p) ==
  /\ pc[p] = "publish"
  /\ Take(p)
  /\ Goto(p, "check")
  /\ UNCHANGED <<runtime, aged, config, loaded, draft, asserted, latched>>

\* Step 13.3: take the publish lock within the bounded wait, or refuse.
EnterPublish(p) ==
  /\ pc[p] = "publish"
  /\ \/ Take(p) /\ Goto(p, "check") /\ UNCHANGED latched
     \/ Refuse(p)
  /\ UNCHANGED <<runtime, aged, config, loaded, draft, asserted>>

\* Mutant of PeerRecheck: Step 5c is relied upon, the re-check is left out.
NoPeerRecheck(p) ==
  /\ pc[p] = "check"
  /\ Goto(p, "compare")
  /\ UNCHANGED <<lock, runtime, aged, config, loaded, draft, asserted, latched>>

\* Step 13.3: the peer re-check; only a live instance refuses.
PeerRecheck(p) ==
  /\ pc[p] = "check"
  /\ IF LiveInstance
     THEN Refuse(p)
     ELSE Goto(p, "compare") /\ UNCHANGED <<lock, latched>>
  /\ UNCHANGED <<runtime, aged, config, loaded, draft, asserted>>

\* Mutant of CompareFingerprint: publishes whatever config.yml says by now.
NoFingerprintCheck(p) ==
  /\ pc[p] = "compare"
  /\ Goto(p, "write")
  /\ UNCHANGED <<lock, runtime, aged, config, loaded, draft, asserted, latched>>

\* Step 13.3: configFingerprint against the bytes loaded at the start.
CompareFingerprint(p) ==
  /\ pc[p] = "compare"
  /\ IF config = loaded[p]
     THEN Goto(p, "write") /\ UNCHANGED <<lock, latched>>
     ELSE Refuse(p)
  /\ UNCHANGED <<runtime, aged, config, loaded, draft, asserted>>

\* Mutant of WriteRuntime: releaseLock deferred to the end of the session.
WriteKeepsLock(p) ==
  /\ pc[p] = "write"
  /\ runtime' = p
  /\ aged' = FALSE
  /\ latched' = latched \ {p}
  /\ Goto(p, "raise")
  /\ UNCHANGED <<lock, config, loaded, draft, asserted>>

\* Step 13.3: Manager.Write re-arms the latch; then the lock is dropped.
WriteRuntime(p) ==
  /\ pc[p] = "write"
  /\ \/ /\ runtime' = p
        /\ aged' = FALSE
        /\ latched' = latched \ {p}
        /\ Drop(p)
        /\ Goto(p, "raise")
     \/ Refuse(p) /\ UNCHANGED <<runtime, aged>>
  /\ UNCHANGED <<config, loaded, draft, asserted>>

\* Steps 13.7 to 17: windows, supervisor and tap, or an error on the way.
Raise(p) ==
  /\ pc[p] = "raise"
  /\ \E step \in {"shielded", "unassert"} : Goto(p, step)
  /\ UNCHANGED <<lock, runtime, aged, config, loaded, draft, asserted, latched>>

\* Step 19 returns (unlock code, timer, signal, watchdog); Cleanup, first
\* part: the tap and the windows go.
Lower(p) ==
  /\ pc[p] = "shielded"
  /\ Goto(p, "unassert")
  /\ UNCHANGED <<lock, runtime, aged, config, loaded, draft, asserted, latched>>

\* Cleanup, second part: the awake-lock.
Unassert(p) ==
  /\ pc[p] = "unassert"
  /\ asserted' = asserted \ {p}
  /\ Goto(p, "unpublish")
  /\ UNCHANGED <<lock, runtime, aged, config, loaded, draft, latched>>

\* Cleanup, last: Manager.Release removes whatever is at the path, without
\* the lock, unless it is latched; a failed remove sets no latch.
Unpublish(p) ==
  /\ pc[p] = "unpublish"
  /\ \/ /\ p \in latched
        /\ UNCHANGED <<runtime, latched>>
     \/ /\ p \notin latched
        /\ runtime' = "none"
        /\ latched' = latched \cup {p}
     \/ /\ p \notin latched
        /\ UNCHANGED <<runtime, latched>>
  /\ Goto(p, IF p \in Watchers THEN "idle" ELSE "done")
  /\ UNCHANGED <<lock, aged, config, loaded, draft, asserted>>

-----------------------------------------------------------------------------
(* runSetPasswordAt() *)

\* prepareConfigForCapture; creates a default config on a first run.
Prepare(s) ==
  /\ pc[s] = "load"
  /\ Goto(s, IF config = Missing THEN "create" ELSE "probe1")
  /\ UNCHANGED <<lock, runtime, aged, config, loaded, draft, asserted, latched>>

\* The three calls of probeLivePeer: on arrival, under the lock before the
\* tap, and before the rename.
Probe(s) ==
  /\ pc[s] \in {"probe1", "probe2", "captured"}
  /\ NoPeer
  /\ Goto(s, CASE pc[s] = "probe1" -> "grants"
               [] pc[s] = "probe2" -> "capture"
               [] pc[s] = "captured" -> "commit")
  /\ UNCHANGED <<lock, runtime, aged, config, loaded, draft, asserted, latched>>

\* The publish lock, held from here until the process returns.
Claim(s) ==
  /\ pc[s] = "claim"
  /\ Take(s)
  /\ Goto(s, "probe2")
  /\ UNCHANGED <<runtime, aged, config, loaded, draft, asserted, latched>>

\* CaptureConfirmed returns two equal entries; its tap is down.
Captured(s) ==
  /\ pc[s] = "capture"
  /\ Goto(s, "captured")
  /\ UNCHANGED <<lock, runtime, aged, config, loaded, draft, asserted, latched>>

\* SaveUnlockHash: every byte but the secret is kept.
SaveUnlockHash(s) ==
  /\ pc[s] = "commit"
  /\ config' = [config EXCEPT !.secret = s]
  /\ Exit(s)
  /\ UNCHANGED <<runtime, aged>>

-----------------------------------------------------------------------------
(* Ends *)

\* The returns of run() and runSetPasswordAt() that change nothing else.  The
\* first set names the steps that can fail or be abandoned whatever the shared
\* state is: an unusable config, a signal while waiting, a lock that is busy
\* or broken, a failed enumeration, capture or save, the end of the run.
Refuses(p) ==
  /\ \/ pc[p] \in {"load", "create", "grants", "recover", "orphans", "idle",
                   "claim", "probe2", "capture", "captured", "commit", "done"}
     \/ pc[p] = "precheck" /\ LiveInstance
     \/ pc[p] = "recovering" /\ runtime # "corrupt"
     \/ pc[p] = "probe1" /\ ~NoPeer
  /\ Exit(p)
  /\ UNCHANGED <<runtime, aged, config>>

\* SIGKILL, a crash, a power-off of this one process.
Killed(p) ==
  /\ pc[p] # "gone"
  /\ Exit(p)
  /\ UNCHANGED <<runtime, aged, config>>

\* 24 hours pass since the snapshot was written, or the clock is set back.
Age ==
  /\ MayAge
  /\ runtime \in Proc
  /\ ~aged
  /\ aged' = TRUE
  /\ UNCHANGED <<pc, lock, runtime, config, loaded, draft, asserted, latched>>

Startup(p) ==
  \/ Load(p) \/ WriteDefault(p)
  \/ SkipMigration(p) \/ BeginMigration(p) \/ FinishMigration(p) \/ Reload(p)
  \/ Precheck(p) \/ BeginRecovery(p) \/ FinishRecovery(p) \/ CleanupOrphans(p)

Session(p) ==
  \/ Acquire(p) \/ EnterPublish(p) \/ PeerRecheck(p) \/ CompareFingerprint(p)
  \/ WriteRuntime(p) \/ Raise(p) \/ Unassert(p) \/ Unpublish(p)

Setter(s) ==
  \/ Prepare(s) \/ WriteDefault(s) \/ Probe(s) \/ Claim(s)
  \/ Captured(s) \/ SaveUnlockHash(s)

Next ==
  \/ \E p \in Shielders : Startup(p) \/ Granted(p) \/ Session(p) \/ Lower(p)
  \/ \E p \in Watchers : Press(p)
  \/ \E s \in Setters : Setter(s) \/ Granted(s)
  \/ \E p \in Proc : Refuses(p) \/ Killed(p)
  \/ Age

Spec == Init /\ [][Next]_vars

\* What a process does without waiting for its user.  Capturing counts: its
\* ceilings end it.
OnItsOwn(p) ==
  /\ pc[p] \notin {"grants", "idle", "shielded"}
  /\ \/ p \in Shielders /\ (Startup(p) \/ Session(p))
     \/ p \in Setters /\ Setter(p)
     \/ Refuses(p)

FairSpec == Spec /\ \A p \in Proc : WF_vars(OnItsOwn(p))

-----------------------------------------------------------------------------
(* Properties *)

Shielded(p)  == p \in Shielders /\ pc[p] = "shielded"
Capturing(p) == p \in Setters /\ pc[p] = "capture"

\* The steps a process takes while it holds the flock.
LockedSteps == {"migrating", "recovering", "check", "compare", "write",
                "probe2", "capture", "captured", "commit"}

Steps == LockedSteps \cup
  {"load", "create", "migrate", "reload", "precheck", "grants", "recover",
   "orphans", "idle", "acquire", "publish", "raise", "shielded", "unassert",
   "unpublish", "done", "probe1", "claim", "gone"}

\* Type invariant.  The lock is held by exactly the process that is at one of
\* the steps under it: no path leaves a section without dropping the lock or
\* enters one without taking it (acquirePublishLock, withPublishLock).
TypeOK ==
  /\ pc \in [Proc -> Steps]
  /\ lock \in Proc \cup {"free"}
  /\ \A p \in Proc : pc[p] \in LockedSteps <=> lock = p
  /\ runtime \in Proc \cup NoPidFiles
  /\ aged \in BOOLEAN
  /\ config \in Configs \cup {Missing}
  /\ loaded \in [Proc -> Configs \cup {Missing}]
  /\ draft \in [Proc -> Configs \cup {Missing}]
  /\ \A p \in Proc : pc[p] = "migrating" => draft[p] # Missing
  /\ asserted \subseteq Proc
  /\ latched \subseteq Proc

\* At most one process holds an input tap: two sessions never shield the
\* machine side by side, two captures never race, and no capture sits in
\* front of a shield eating the code its owner types (acquirePublishLock).
KeyboardHasOneOwner ==
  \A p, q \in Proc : (Shielded(p) \/ Capturing(p)) /\ (Shielded(q) \/ Capturing(q))
                     => p = q

\* A session that is raising or holding its shield is the one runtime.json
\* names, so every probe sees it; no recovery, refusal or exit of another
\* process deletes or replaces that file (Disown, withPublishLock).
LiveShieldIsPublished ==
  \A p \in Shielders : pc[p] \in {"raise", "shielded"} => runtime = p

\* A shield answers to the secret config.yml names, although the verifier was
\* resolved long before and --set-password may have run since (Step 13.3).
ShieldAnswersToConfig ==
  \A p \in Shielders : Shielded(p) => loaded[p].secret = config.secret

\* Nothing but a --set-password run changes the secret of an existing
\* config.yml: no migration, start-up or crash brings another one back
\* (SaveUnlockHash: "nothing else in the codebase modifies" it).
OnlySetPasswordChangesSecret ==
  [][config # Missing /\ config'.secret # config.secret =>
       \E s \in Setters : pc[s] = "commit" /\ config'.secret = s]_vars

\* A session past the permission wait gets its shield or gives the keyboard
\* up: neither the lock nor a peer keeps it waiting.
StartDecides ==
  \A p \in Shielders : pc[p] = "recover" ~> pc[p] \in {"shielded", "idle", "gone"}

\* The publish lock never stays held: no path leaves it with a session that
\* is shielded or with a watcher that waits for its next press.
LockIsDropped == lock # "free" ~> lock = "free"

\* A session is refused at the peer re-check only because of another process
\* (Step 13.3: "Only a LIVE peer refuses").
OnlyPeersRefuse ==
  [][\A p \in Shielders :
       pc[p] = "check" /\ pc'[p] = "unassert" => runtime # p]_vars

-----------------------------------------------------------------------------
(* The abstract specification, and the mapping that implements it *)

Owner ==
  LET holders == {p \in Proc : Shielded(p) \/ Capturing(p)}
  IN IF holders = {} THEN <<"nobody", "free">>
     ELSE LET p == CHOOSE q \in holders : TRUE
          IN <<p, IF Shielded(p) THEN "shield" ELSE "capture">>

Armed == {loaded[p].secret : p \in {q \in Shielders : Shielded(q)}}

Keyboard == INSTANCE KeyboardOwner
              WITH owner <- Owner, secret <- config.secret, armed <- Armed

\* The processes implement KeyboardOwner: a shield is raised only over a free
\* keyboard, with the secret in force, which is replaced only while the
\* keyboard is free.
ImplementsKeyboardOwner == Keyboard!Spec
=============================================================================
