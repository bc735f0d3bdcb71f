---------------------------- MODULE TapRelease ----------------------------
(***************************************************************************)
(* The life of the two event taps (internal/macos/eventtap): InstallAll    *)
(* and Release in tap_darwin.go, the C halves in tap_darwin.m and          *)
(* gesturetap_darwin.m, and the four parties that switch a tap on behind   *)
(* the owner's back: the main and the gesture callback on the worker       *)
(* thread, the watchdog's probe on a dispatch queue (watchdog_darwin.m)    *)
(* and the wake block on the main thread (wake_darwin.m).                  *)
(*                                                                         *)
(* Every party loads a shared pointer into a local and uses the local some *)
(* steps later.  refs counts the references to a port: with none left it   *)
(* is freed memory.  The key ring and its poller are KeyPoller's.          *)
(*                                                                         *)
(* A one-shot run installs its taps once, on the main thread; a watcher    *)
(* installs and releases them once per session, on a goroutine, while the  *)
(* wake block stays on the main thread.                                    *)
(***************************************************************************)
EXTENDS Integers

CONSTANTS
    MaxInstalls,     \* bound: sessions of one process
    MaxKicks,        \* bound: times the kernel switches a tap off
    FailThreshold,   \* probes that fail in a row before the watchdog trips
    Regimes          \* is the owner on the main thread: TRUE of a one-shot run

ASSUME BoundsAssumption ==
    /\ MaxInstalls \in Nat \ {0} /\ FailThreshold \in Nat \ {0}
    /\ MaxKicks \in Nat
ASSUME RegimeAssumption == Regimes \subseteq BOOLEAN

Sessions == 1 .. MaxInstalls
Ports == {"main", "gesture"} \X Sessions
NoPort == <<"none", 0>>
Pointer == Ports \cup {NoPort}

VARIABLES
    owner, part,     \* where InstallAll and Release are, and on which tap
    session,         \* how many installs were begun
    unclean,         \* teardownUnclean
    refs,            \* references to each port
    enabled,         \* CGEventTapIsEnabled
    attached,        \* its source is on the worker's run loop
    pending,         \* a TapDisabled event waits in the port
    current,         \* g_tap and g_gesture_tap
    observed,        \* g_observed_tap
    drain,           \* the drain block on the worker's run loop
    worker,          \* the callback the worker thread is in
    watchdog,        \* the dispatch source and what it retains
    probe,           \* its event handler
    fails, tripped,  \* fail_count, and the threshold it reached
    wake, block,     \* the wake observers, and their block
    kicks, secure,   \* the kernel: kicks so far; it refuses to enable
    ownerOnMain      \* the regime of this process, which never changes

ownerVars == <<owner, part, session, unclean>>
portVars == <<refs, enabled, attached, pending, current>>
watchVars == <<watchdog, probe, fails, tripped>>
wakeVars == <<wake, block>>
kernelVars == <<kicks, secure, ownerOnMain>>
vars == <<ownerVars, portVars, observed, drain, worker, watchVars, wakeVars,
          kernelVars>>

Main == <<"main", session>>
Gesture == <<"gesture", session>>

Healer(steps) == [at : steps, tap : Pointer]
Idle == [at |-> "idle", tap |-> NoPort]

InstallSteps == {"off", "created", "attached", "tapped", "watched", "up"}
ReleaseSteps == {"disable", "unobserve", "quiet", "cancel", "join", "unwake",
                 "remove", "drain", "clear", "offAgain", "free",
                 "undoCancel", "undoJoin", "undoObserve"}

TypeOK ==
    /\ owner \in InstallSteps \cup ReleaseSteps
    /\ part \in {"main", "gesture"}
    /\ session \in 0 .. MaxInstalls
    /\ unclean \in BOOLEAN
    /\ refs \in [Ports -> 0 .. 2]
    /\ enabled \in [Ports -> BOOLEAN]
    /\ attached \in [Ports -> BOOLEAN]
    /\ pending \in [Ports -> BOOLEAN]
    /\ current \in [{"main", "gesture"} -> Pointer]
    /\ observed \in Pointer
    /\ drain \in {"none", "queued", "ran", "done", "late"}
    /\ worker \in Healer({"idle", "loaded", "enabled"})
    /\ watchdog \in [state : {"none", "armed", "cancelled", "gone"},
                     tap : Pointer, gesture : Pointer]
    /\ probe \in Healer({"idle", "gesture", "loaded", "enabled", "main",
                         "healed"})
    /\ fails \in 0 .. FailThreshold
    /\ tripped \in BOOLEAN
    /\ wake \in BOOLEAN
    /\ block \in Healer({"idle", "main", "gesture", "loaded", "enabled"})
    /\ kicks \in 0 .. MaxKicks
    /\ secure \in BOOLEAN
    /\ ownerOnMain \in BOOLEAN

Init ==
    /\ owner = "off"
    /\ part = "main"
    /\ session = 0
    /\ unclean = FALSE
    /\ refs = [p \in Ports |-> 0]
    /\ enabled = [p \in Ports |-> FALSE]
    /\ attached = [p \in Ports |-> FALSE]
    /\ pending = [p \in Ports |-> FALSE]
    /\ current = [k \in {"main", "gesture"} |-> NoPort]
    /\ observed = NoPort
    /\ drain = "none"
    /\ worker = Idle
    /\ watchdog = [state |-> "none", tap |-> NoPort, gesture |-> NoPort]
    /\ probe = Idle
    /\ fails = 0
    /\ tripped = FALSE
    /\ wake = FALSE
    /\ block = Idle
    /\ kicks = 0
    /\ secure = FALSE
    /\ ownerOnMain \in Regimes

\* CGEventTapEnable: has no effect while secure input is on.
SwitchOn(p) == enabled' = [enabled EXCEPT ![p] = ~secure]
SwitchOff(p) == enabled' = [enabled EXCEPT ![p] = FALSE]

\* On the main thread the owner and the wake block take turns.
OwnerRuns == ownerOnMain => block.at = "idle"

----------------------------------------------------------------------------
(* The kernel.                                                             *)

\* A callback took too long: the tap is switched off and told so.
KernelDisables ==
    \E p \in Ports :
        /\ kicks < MaxKicks
        /\ enabled[p] /\ attached[p]
        /\ SwitchOff(p)
        /\ pending' = [pending EXCEPT ![p] = TRUE]
        /\ kicks' = kicks + 1
        /\ UNCHANGED <<ownerVars, refs, attached, current, observed, drain,
                       worker, watchVars, wakeVars, secure, ownerOnMain>>

\* Another application takes secure input for good.
KernelRefuses ==
    /\ ~secure
    /\ secure' = TRUE
    /\ enabled' = [p \in Ports |-> FALSE]
    /\ UNCHANGED <<ownerVars, refs, attached, pending, current, observed,
                   drain, worker, watchVars, wakeVars, kicks, ownerOnMain>>

----------------------------------------------------------------------------
(* The worker thread: one callback or one block at a time.                 *)

\* The callback of a tap that was switched off loads its pointer.
CallbackLoads ==
    \E p \in Ports :
        /\ worker.at = "idle"
        /\ pending[p] /\ attached[p]
        /\ pending' = [pending EXCEPT ![p] = FALSE]
        /\ worker' = IF current[p[1]] = NoPort THEN Idle
                     ELSE [at |-> "loaded", tap |-> current[p[1]]]
        /\ UNCHANGED <<ownerVars, refs, enabled, attached, current, observed,
                       drain, watchVars, wakeVars, kernelVars>>

CallbackEnables ==
    /\ worker.at = "loaded"
    /\ SwitchOn(worker.tap)
    /\ worker' = [worker EXCEPT !.at = "enabled"]
    /\ UNCHANGED <<ownerVars, refs, attached, pending, current, observed,
                   drain, watchVars, wakeVars, kernelVars>>

\* The re-check: a pointer gone NULL means that teardown ran.
CallbackRechecks ==
    /\ worker.at = "enabled"
    /\ IF current[worker.tap[1]] = NoPort
       THEN SwitchOff(worker.tap)
       ELSE UNCHANGED enabled
    /\ worker' = Idle
    /\ UNCHANGED <<ownerVars, refs, attached, pending, current, observed,
                   drain, watchVars, wakeVars, kernelVars>>

DrainBlockRuns ==
    /\ worker.at = "idle"
    /\ drain = "queued"
    /\ drain' = "ran"
    /\ UNCHANGED <<ownerVars, portVars, observed, worker, watchVars, wakeVars,
                   kernelVars>>

----------------------------------------------------------------------------
(* gesturetap_reenable, which the probe and the wake block share: `at' goes *)
(* from "gesture" over "loaded" and "enabled" to `after'.                   *)

ReenableLoads(after) ==
    IF current["gesture"] = NoPort
    THEN [at |-> after, tap |-> NoPort]
    ELSE [at |-> "loaded", tap |-> current["gesture"]]

ReenableRechecks(h) ==
    IF current["gesture"] # h.tap THEN SwitchOff(h.tap) ELSE UNCHANGED enabled

----------------------------------------------------------------------------
(* The watchdog's event handler, on a dispatch queue.                      *)

\* Fires while the source is armed; a handler that was called before the
\* cancel and finds the pointer cleared returns.
ProbeStarts ==
    /\ watchdog.state = "armed"
    /\ probe.at = "idle"
    /\ observed = watchdog.tap
    /\ probe' = [at |-> "gesture", tap |-> NoPort]
    /\ UNCHANGED <<ownerVars, portVars, observed, drain, worker, watchdog,
                   fails, tripped, wakeVars, kernelVars>>

ProbeReenables ==
    /\ \/ /\ probe.at = "gesture"
          /\ probe' = ReenableLoads("main")
          /\ UNCHANGED enabled
       \/ /\ probe.at = "loaded"
          /\ SwitchOn(probe.tap)
          /\ probe' = [probe EXCEPT !.at = "enabled"]
       \/ /\ probe.at = "enabled"
          /\ ReenableRechecks(probe)
          /\ probe' = [at |-> "main", tap |-> NoPort]
    /\ UNCHANGED <<ownerVars, refs, attached, pending, current, observed,
                   drain, worker, watchdog, fails, tripped, wakeVars,
                   kernelVars>>

\* CGEventTapIsEnabled, and the enable if it is not.
ProbeLooks ==
    /\ probe.at = "main"
    /\ IF enabled[watchdog.tap]
       THEN /\ probe' = Idle
            /\ fails' = 0
            /\ UNCHANGED enabled
       ELSE /\ SwitchOn(watchdog.tap)
            /\ probe' = [at |-> "healed", tap |-> NoPort]
            /\ UNCHANGED fails
    /\ UNCHANGED <<ownerVars, refs, attached, pending, current, observed,
                   drain, worker, watchdog, tripped, wakeVars, kernelVars>>

\* Mutant of ProbeRechecks: the probe does not look at the pointer again.
ProbeTrustsItself ==
    /\ probe.at = "healed"
    /\ probe' = Idle
    /\ fails' = IF enabled[watchdog.tap] THEN 0
                ELSE IF fails < FailThreshold THEN fails + 1 ELSE fails
    /\ tripped' = (tripped \/ fails' = FailThreshold)
    /\ UNCHANGED <<ownerVars, portVars, observed, drain, worker, watchdog,
                   wakeVars, kernelVars>>

\* Mutant of ProbeRechecks: a probe that healed nothing is not counted.
ProbeForgets ==
    /\ probe.at = "healed"
    /\ probe' = Idle
    /\ fails' = 0
    /\ IF observed # watchdog.tap
       THEN SwitchOff(watchdog.tap)
       ELSE UNCHANGED enabled
    /\ UNCHANGED <<ownerVars, refs, attached, pending, current, observed,
                   drain, worker, watchdog, tripped, wakeVars, kernelVars>>

\* The re-check after the enable; then the enable is verified and a failure
\* counted, up to the threshold that ends the session.
ProbeRechecks ==
    /\ probe.at = "healed"
    /\ probe' = Idle
    /\ IF observed # watchdog.tap
       THEN SwitchOff(watchdog.tap) /\ UNCHANGED <<fails, tripped>>
       ELSE /\ fails' = IF enabled[watchdog.tap] THEN 0
                        ELSE IF fails < FailThreshold THEN fails + 1
                        ELSE fails
            /\ tripped' = (tripped \/ fails' = FailThreshold)
            /\ UNCHANGED enabled
    /\ UNCHANGED <<ownerVars, refs, attached, pending, current, observed,
                   drain, worker, watchdog, wakeVars, kernelVars>>

\* The cancel handler, after the last event handler returned.
CancelHandler ==
    /\ watchdog.state = "cancelled"
    /\ probe.at = "idle"
    /\ refs' = [p \in Ports |->
                   IF p \in {watchdog.tap, watchdog.gesture}
                   THEN refs[p] - 1 ELSE refs[p]]
    /\ watchdog' = [watchdog EXCEPT !.state = "gone"]
    /\ UNCHANGED <<ownerVars, enabled, attached, pending, current, observed,
                   drain, worker, probe, fails, tripped, wakeVars, kernelVars>>

Probe == ProbeStarts \/ ProbeReenables \/ ProbeLooks \/ ProbeRechecks

----------------------------------------------------------------------------
(* The wake block, on the main thread: no retain, no re-check.             *)

\* The machine wakes; in one-shot mode the main thread is in its run loop
\* only while the session is up.
WakeLoads ==
    /\ wake
    /\ ownerOnMain => owner = "up"
    /\ block.at = "idle"
    /\ observed # NoPort
    /\ block' = [at |-> "main", tap |-> observed]
    /\ UNCHANGED <<ownerVars, portVars, observed, drain, worker, watchVars,
                   wake, kernelVars>>

WakeEnables ==
    /\ block.at = "main"
    /\ SwitchOn(block.tap)
    /\ block' = [at |-> "gesture", tap |-> NoPort]
    /\ UNCHANGED <<ownerVars, refs, attached, pending, current, observed,
                   drain, worker, watchVars, wake, kernelVars>>

WakeReenables ==
    /\ \/ /\ block.at = "gesture"
          /\ block' = ReenableLoads("idle")
          /\ UNCHANGED enabled
       \/ /\ block.at = "loaded"
          /\ SwitchOn(block.tap)
          /\ block' = [block EXCEPT !.at = "enabled"]
       \/ /\ block.at = "enabled"
          /\ ReenableRechecks(block)
          /\ block' = Idle
    /\ UNCHANGED <<ownerVars, refs, attached, pending, current, observed,
                   drain, worker, watchVars, wake, kernelVars>>

----------------------------------------------------------------------------
(* InstallAll.                                                             *)

\* eventtap_install_c: refused after an unclean teardown.  (A create that
\* fails leaves nothing behind and changes nothing here.)  Only a watcher has
\* a second session.
CreateTap ==
    /\ OwnerRuns
    /\ owner = "off"
    /\ ~unclean
    /\ session < IF ownerOnMain THEN 1 ELSE MaxInstalls
    /\ session' = session + 1
    /\ refs' = [refs EXCEPT ![Main'] = 1]
    /\ SwitchOn(Main')
    /\ current' = [current EXCEPT !["main"] = Main']
    /\ owner' = "created"
    /\ UNCHANGED <<part, unclean, attached, pending, observed, drain, worker,
                   watchVars, wakeVars, kernelVars>>

\* eventtap_register_worker_runloop, and the handshake with the worker.
AttachTap ==
    /\ OwnerRuns
    /\ owner = "created"
    /\ attached' = [attached EXCEPT ![Main] = TRUE]
    /\ owner' = "attached"
    /\ UNCHANGED <<part, session, unclean, refs, enabled, pending, current,
                   observed, drain, worker, watchVars, wakeVars, kernelVars>>

\* gesturetap_install_c.
CreateGesture ==
    /\ OwnerRuns
    /\ owner = "attached"
    /\ refs' = [refs EXCEPT ![Gesture] = 1]
    /\ attached' = [attached EXCEPT ![Gesture] = TRUE]
    /\ current' = [current EXCEPT !["gesture"] = Gesture]
    /\ SwitchOn(Gesture)
    /\ owner' = "tapped"
    /\ UNCHANGED <<part, session, unclean, pending, observed, drain, worker,
                   watchVars, wakeVars, kernelVars>>

\* The gesture tap cannot be had: the main tap is uninstalled again.
GestureFails ==
    /\ OwnerRuns
    /\ owner = "attached"
    /\ owner' = "remove"
    /\ part' = "main"
    /\ UNCHANGED <<session, unclean, portVars, observed, drain, worker,
                   watchVars, wakeVars, kernelVars>>

\* watchdog_start: retains both ports and publishes the pointer.
StartWatchdog ==
    /\ OwnerRuns
    /\ owner = "tapped"
    /\ ~unclean
    /\ refs' = [refs EXCEPT ![Main] = @ + 1, ![current["gesture"]] = @ + 1]
    /\ watchdog' = [state |-> "armed", tap |-> Main,
                    gesture |-> current["gesture"]]
    /\ observed' = Main
    /\ fails' = 0
    /\ tripped' = FALSE
    /\ owner' = "watched"
    /\ UNCHANGED <<part, session, unclean, enabled, attached, pending,
                   current, drain, worker, probe, wakeVars, kernelVars>>

\* The dispatch source cannot be created: Release, with no healer to stop.
WatchdogFails ==
    /\ OwnerRuns
    /\ owner = "tapped"
    /\ owner' = "disable"
    /\ UNCHANGED <<part, session, unclean, portVars, observed, drain, worker,
                   watchVars, wakeVars, kernelVars>>

\* wake_observer_install, and the pointer stored once more.
InstallWake ==
    /\ OwnerRuns
    /\ owner = "watched"
    /\ wake' = TRUE
    /\ observed' = Main
    /\ owner' = "up"
    /\ UNCHANGED <<part, session, unclean, portVars, drain, worker, watchVars,
                   block, kernelVars>>

\* Mutant of WakeFails: Release is expected to stop the watchdog.
WakeFailsKeepsWatchdog ==
    /\ OwnerRuns
    /\ owner = "watched"
    /\ owner' = "disable"
    /\ UNCHANGED <<part, session, unclean, portVars, observed, drain, worker,
                   watchVars, wakeVars, kernelVars>>

\* The observers cannot be had: the watchdog is stopped, then Release.
WakeFails ==
    /\ OwnerRuns
    /\ owner = "watched"
    /\ owner' = "undoCancel"
    /\ UNCHANGED <<part, session, unclean, portVars, observed, drain, worker,
                   watchVars, wakeVars, kernelVars>>

Install ==
    \/ CreateTap \/ AttachTap \/ CreateGesture \/ GestureFails
    \/ StartWatchdog \/ WatchdogFails \/ InstallWake \/ WakeFails

----------------------------------------------------------------------------
(* Release.                                                                *)

\* Step 1: the main tap off ...
Disable ==
    /\ OwnerRuns
    /\ owner \in {"up", "disable"}
    /\ SwitchOff(Main)
    /\ owner' = "unobserve"
    /\ UNCHANGED <<part, session, unclean, refs, attached, pending, current,
                   observed, drain, worker, watchVars, wakeVars, kernelVars>>

\* ... the healers' pointer cleared ...
ClearObserved ==
    /\ OwnerRuns
    /\ owner \in {"unobserve", "undoObserve"}
    /\ observed' = NoPort
    /\ owner' = IF owner = "unobserve" THEN "quiet" ELSE "disable"
    /\ UNCHANGED <<part, session, unclean, portVars, drain, worker, watchVars,
                   wakeVars, kernelVars>>

\* ... and the gesture tap off.
DisableGesture ==
    /\ OwnerRuns
    /\ owner = "quiet"
    /\ IF current["gesture"] # NoPort
       THEN SwitchOff(current["gesture"])
       ELSE UNCHANGED enabled
    /\ owner' = "cancel"
    /\ UNCHANGED <<part, session, unclean, refs, attached, pending, current,
                   observed, drain, worker, watchVars, wakeVars, kernelVars>>

\* Step 2: watchdog_stop cancels the source ...
CancelWatchdog ==
    /\ OwnerRuns
    /\ owner = "undoCancel" \/ (owner = "cancel" /\ wake)
    /\ watchdog' = [watchdog EXCEPT !.state = "cancelled"]
    /\ owner' = IF owner = "cancel" THEN "join" ELSE "undoJoin"
    /\ UNCHANGED <<part, session, unclean, portVars, observed, drain, worker,
                   probe, fails, tripped, wakeVars, kernelVars>>

\* The healers are wired into the Releaser only once both were started.
NoHealers ==
    /\ OwnerRuns
    /\ owner = "cancel" /\ ~wake
    /\ owner' = "remove"
    /\ part' = "gesture"
    /\ UNCHANGED <<session, unclean, portVars, observed, drain, worker,
                   watchVars, wakeVars, kernelVars>>

\* Mutant of JoinWatchdog: a join that times out is only logged.
JoinWatchdogSilently ==
    /\ OwnerRuns
    /\ owner \in {"join", "undoJoin"}
    /\ watchdog' = IF watchdog.state = "gone"
                   THEN [state |-> "none", tap |-> NoPort, gesture |-> NoPort]
                   ELSE watchdog
    /\ owner' = IF owner = "join" THEN "unwake" ELSE "undoObserve"
    /\ UNCHANGED <<part, session, unclean, portVars, observed, drain, worker,
                   probe, fails, tripped, wakeVars, kernelVars>>

\* ... and waits for the cancel handler, 500 ms at most.
JoinWatchdog ==
    /\ OwnerRuns
    /\ owner \in {"join", "undoJoin"}
    /\ \/ /\ watchdog.state = "gone"
          /\ watchdog' = [state |-> "none", tap |-> NoPort, gesture |-> NoPort]
          /\ UNCHANGED unclean
       \/ /\ watchdog.state = "cancelled"
          /\ unclean' = TRUE
          /\ UNCHANGED watchdog
    /\ owner' = IF owner = "join" THEN "unwake" ELSE "undoObserve"
    /\ UNCHANGED <<part, session, portVars, observed, drain, worker, probe,
                   fails, tripped, wakeVars, kernelVars>>

\* wake_observer_remove.
RemoveWake ==
    /\ OwnerRuns
    /\ owner = "unwake"
    /\ wake' = FALSE
    /\ observed' = NoPort
    /\ owner' = "remove"
    /\ part' = "gesture"
    /\ UNCHANGED <<session, unclean, portVars, drain, worker, watchVars,
                   block, kernelVars>>

\* Steps 4 and 5, gesturetap_uninstall_c and then eventtap_uninstall_c: the
\* source leaves the worker's loop and a drain block is queued ...
Tap == <<part, session>>

RemoveSource ==
    /\ OwnerRuns
    /\ owner = "remove"
    /\ attached' = [attached EXCEPT ![Tap] = FALSE]
    /\ pending' = [pending EXCEPT ![Tap] = FALSE]
    /\ drain' = "queued"
    /\ owner' = "drain"
    /\ UNCHANGED <<part, session, unclean, refs, enabled, current, observed,
                   worker, watchVars, wakeVars, kernelVars>>

\* ... it runs, or 100 ms go by: then a callback may be live ...
Drain ==
    /\ OwnerRuns
    /\ owner = "drain"
    /\ drain' = IF drain = "ran" THEN "done" ELSE "late"
    /\ owner' = "clear"
    /\ UNCHANGED <<part, session, unclean, portVars, observed, worker,
                   watchVars, wakeVars, kernelVars>>

\* ... the pointer is cleared ...
ClearPointer ==
    /\ OwnerRuns
    /\ owner = "clear"
    /\ current' = [current EXCEPT ![part] = NoPort]
    /\ owner' = "offAgain"
    /\ UNCHANGED <<part, session, unclean, refs, enabled, attached, pending,
                   observed, drain, worker, watchVars, wakeVars, kernelVars>>

\* ... before the tap is switched off for the last time ...
DisableAgain ==
    /\ OwnerRuns
    /\ owner = "offAgain"
    /\ SwitchOff(Tap)
    /\ owner' = "free"
    /\ UNCHANGED <<part, session, unclean, refs, attached, pending, current,
                   observed, drain, worker, watchVars, wakeVars, kernelVars>>

\* Mutant of FreeTap: the port is released although the drain timed out.
FreeTapAnyway ==
    /\ OwnerRuns
    /\ owner = "free"
    /\ refs' = [refs EXCEPT ![Tap] = @ - 1]
    /\ unclean' = (unclean \/ drain = "late")
    /\ drain' = "none"
    /\ owner' = IF part = "gesture" THEN "remove" ELSE "off"
    /\ part' = "main"
    /\ UNCHANGED <<session, enabled, attached, pending, current, observed,
                   worker, watchVars, wakeVars, kernelVars>>

\* ... and the port is released only after a drain, else it is leaked and
\* this process may not install a tap again.
FreeTap ==
    /\ OwnerRuns
    /\ owner = "free"
    /\ \/ /\ drain = "done"
          /\ refs' = [refs EXCEPT ![Tap] = @ - 1]
          /\ UNCHANGED unclean
       \/ /\ drain = "late"
          /\ unclean' = TRUE
          /\ UNCHANGED refs
    /\ drain' = "none"
    /\ owner' = IF part = "gesture" THEN "remove" ELSE "off"
    /\ part' = "main"
    /\ UNCHANGED <<session, enabled, attached, pending, current, observed,
                   worker, watchVars, wakeVars, kernelVars>>

Release ==
    \/ Disable \/ ClearObserved \/ DisableGesture \/ CancelWatchdog
    \/ NoHealers \/ JoinWatchdog \/ RemoveWake \/ RemoveSource \/ Drain \/ ClearPointer
    \/ DisableAgain \/ FreeTap

----------------------------------------------------------------------------
Next ==
    \/ KernelDisables \/ KernelRefuses
    \/ CallbackLoads \/ CallbackEnables \/ CallbackRechecks \/ DrainBlockRuns
    \/ Probe \/ CancelHandler
    \/ WakeLoads \/ WakeEnables \/ WakeReenables
    \/ Install \/ Release

\* The watchdog's timer fires every 5 s and its handler is scheduled.  The
\* callback, the wake block and the owner may stop anywhere.
Spec == Init /\ [][Next]_vars /\ WF_vars(Probe)

----------------------------------------------------------------------------
(* Properties.                                                             *)

\* No party ever holds a pointer to a port whose last reference is gone and
\* goes on to use it, not even after a drain or a join that gave up.  In a
\* watcher that is not so of the wake block (WakeBlockIsSafe).
NoFreedPortIsUsed ==
    /\ worker.at # "idle" => refs[worker.tap] > 0
    /\ probe.at # "idle" => refs[watchdog.tap] > 0
    /\ probe.at \in {"loaded", "enabled"} => refs[probe.tap] > 0
    /\ ownerOnMain /\ block.at \in {"main", "loaded", "enabled"}
           => refs[block.tap] > 0

\* The same of the wake block in either regime ("the snapshot stays VALID
\* (main-thread confinement)").
WakeBlockIsSafe ==
    block.at \in {"main", "loaded", "enabled"} => refs[block.tap] > 0

\* The ports the wake block of a watcher may switch on behind a teardown: it
\* does not look again at the pointer of the main tap, as all others do.
WakeMayRevive(p) == ~ownerOnMain /\ p[1] = "main"

\* An enabled tap whose source is on no run loop stalls the machine's input:
\* whatever order the last disable and the healers' enables come in, when
\* everyone is done no such tap is left.
DetachedTapsAreOff ==
    (/\ owner \in {"off", "up"}
     /\ worker.at = "idle" /\ probe.at = "idle" /\ block.at = "idle") =>
        \A p \in Ports : enabled[p] => attached[p] \/ WakeMayRevive(p)

\* An install that failed part of the way and a release that was not unclean
\* leave nothing: no port, no source, no healer, no pointer.
NothingIsLeft ==
    owner = "off" /\ ~unclean =>
        /\ \A p \in Ports : refs[p] = 0 /\ ~attached[p]
        /\ ownerOnMain => \A p \in Ports : ~enabled[p]
        /\ \A k \in DOMAIN current : current[k] = NoPort
        /\ observed = NoPort
        /\ watchdog.state = "none"
        /\ ~wake

\* Nobody who still acts for an earlier session of a watcher runs when taps
\* exist again: neither a callback nor a probe that outlived its teardown, nor
\* a cancelled watchdog that would take its references of the wrong ports.  (Of
\* the wake block see WakeBlockIsSafe.)
SessionsDoNotMix ==
    /\ worker.at # "idle" => worker.tap[2] = session
    /\ probe.at # "idle" => watchdog.tap[2] = session
    /\ probe.at \in {"loaded", "enabled"} => probe.tap[2] = session
    /\ watchdog.state = "cancelled" => watchdog.tap[2] = session

\* A tap that is off while its session is up is switched on again or trips
\* the watchdog, whatever became of the event that told the callback.
DeadTapIsNoticed ==
    (owner = "up" /\ ~enabled[Main])
        ~> (owner # "up" \/ enabled[Main] \/ tripped)
=============================================================================
