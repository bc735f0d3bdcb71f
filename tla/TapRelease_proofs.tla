------------------------- MODULE TapRelease_proofs -------------------------
(***************************************************************************)
(* Theorems about TapRelease, for any number of sessions, of kicks and of  *)
(* failing probes, in one-shot runs and in watchers: the state is well     *)
(* typed, nobody who outlives a session of a watcher acts on the next one, *)
(* neither the callbacks nor the probe use a freed port, no tap without a  *)
(* source stays on, and a release that was not unclean leaves nothing.     *)
(* What the wake block does is proved where it takes turns with the owner; *)
(* the properties name that condition.                                     *)
(***************************************************************************)
EXTENDS TapRelease, TLAPS

(* Who holds a port. *)

\* The steps of gesturetap_uninstall_c and eventtap_uninstall_c.
Uninstalling == {"remove", "drain", "clear", "offAgain", "free"}

\* There is a gesture tap that has not been given up.
GestureUp ==
    \/ owner \in {"tapped", "watched", "up", "disable", "unobserve", "quiet",
                  "cancel", "join", "unwake", "undoCancel", "undoJoin",
                  "undoObserve"}
    \/ owner \in Uninstalling /\ part = "gesture"

OwnerHas(p) ==
    \/ p = Main /\ owner # "off"
    \/ p = Gesture /\ GestureUp

Watching == watchdog.state \in {"armed", "cancelled"}
WatchdogHas(p) == Watching /\ p \in {Main, Gesture}

\* Every reference is the owner's, the watchdog's or, after an unclean
\* teardown, leaked.
Counted ==
    \A p \in Ports :
        /\ refs[p] \in IF WatchdogHas(p) THEN {1, 2} ELSE {0, 1}
        /\ OwnerHas(p) => refs[p] = IF WatchdogHas(p) THEN 2 ELSE 1
        /\ ~OwnerHas(p) /\ ~unclean =>
               refs[p] = IF WatchdogHas(p) THEN 1 ELSE 0

\* What the shared pointers point to.
Pointers ==
    /\ owner # "off" => session \in Sessions
    /\ owner \notin Uninstalling => part = "main"
    /\ current["main"] =
           IF owner = "off" \/ (owner \in {"offAgain", "free"} /\ part = "main")
           THEN NoPort ELSE Main
    /\ current["gesture"] =
           IF GestureUp /\ owner \notin {"offAgain", "free"}
           THEN Gesture ELSE NoPort
    /\ \/ observed = NoPort
       \/ observed = Main /\ owner \in {"watched", "up", "unobserve", "undoCancel",
                                        "undoJoin", "undoObserve"}
    /\ owner = "up" => observed = Main

\* How far the owner is and what the watchdog is doing.
Stages ==
    /\ Watching => /\ watchdog.tap = Main /\ watchdog.gesture = Gesture
                   /\ session \in Sessions
    /\ owner \in {"created", "attached", "tapped"} => watchdog.state = "none"
    /\ owner \in {"watched", "up", "undoCancel"} => watchdog.state = "armed"
    /\ owner \in {"join", "undoJoin"} => watchdog.state \in {"cancelled", "gone"}
    /\ owner \in {"disable", "unobserve", "quiet", "cancel"} /\ wake =>
           watchdog.state = "armed"
    /\ \/ owner \in {"disable", "unobserve", "quiet", "cancel"} /\ ~wake
       \/ owner \in Uninstalling \cup {"unwake", "undoObserve", "off"}
       => \/ watchdog.state = "none"
          \/ unclean /\ watchdog.state \in {"cancelled", "gone"}
    /\ wake => owner \in {"up", "unobserve", "quiet", "cancel", "join", "unwake"}
    /\ owner \in {"up", "join", "unwake"} => wake
    /\ unclean => /\ owner \notin {"created", "attached", "tapped", "watched", "up",
                                   "undoCancel", "undoJoin", "join"}
                  /\ wake => owner = "unwake"

\* The probe runs while the watchdog's references are there, and the gesture
\* tap it has loaded is the one the watchdog holds.
Probing ==
    /\ probe.at # "idle" => Watching
    /\ probe.at \in {"loaded", "enabled"} => probe.tap = Gesture

\* A callback that runs holds a port with a reference that is not the
\* watchdog's, and not the port that a drain has seen the callback leave.
Callbacks ==
    /\ \A p \in Ports : attached[p] =>
           \/ /\ p = Main /\ owner \notin {"off", "created"}
              /\ ~(owner \in Uninstalling \ {"remove"} /\ part = "main")
           \/ /\ p = Gesture /\ GestureUp
              /\ owner \notin Uninstalling \ {"remove"}
    /\ worker.at # "idle" =>
           /\ worker.tap \in {Main, Gesture} \cap Ports
           /\ refs[worker.tap] > 0
           /\ WatchdogHas(worker.tap) => refs[worker.tap] = 2
    /\ drain # "none" => owner \in Uninstalling \ {"remove"}
    /\ drain \in {"ran", "done"} /\ worker.at # "idle" => worker.tap # Tap

BaseInv ==
    /\ TypeOK /\ Counted /\ Pointers /\ Stages /\ Probing /\ Callbacks

\* On the owner's thread the wake block runs while the session is up, with the
\* taps of that session.
Waking ==
    /\ block.at # "idle" => owner = "up"
    /\ block.at = "main" => block.tap = Main
    /\ block.at \in {"loaded", "enabled"} => block.tap = Gesture

\* A tap is on only while its owner has it, and no longer after the last
\* disable of a teardown that was not unclean.
Switched ==
    \A p \in Ports : enabled[p] =>
        \/ unclean
        \/ OwnerHas(p) /\ ~(owner = "free" /\ drain = "done" /\ p = Tap)

TurnInv == ownerOnMain => Waking /\ Switched

\* Which tap the wake block has in hand, on whatever thread its owner is.
Blocks ==
    /\ block.at = "main" => block.tap[1] = "main"
    /\ block.at \in {"loaded", "enabled"} =>
           block.tap \in Ports /\ block.tap[1] = "gesture"

\* The source of a tap is on the worker's run loop from its install to the
\* step that removes it, whether or not the install got any further.
Sourced ==
    /\ /\ owner \notin {"off", "created"}
       /\ ~(owner \in Uninstalling \ {"remove"} /\ part = "main")
       => attached[Main]
    /\ GestureUp /\ owner \notin Uninstalling \ {"remove"} => attached[Gesture]

\* Why a tap without a source may be on: its owner has not attached it yet or
\* will still switch it off, or whoever has switched it on will look again at
\* the pointer and find it cleared.
Reason(p) ==
    \/ p = Main /\ owner = "created"
    \/ p = Tap /\ owner \in {"drain", "clear", "offAgain"}
    \/ worker.at = "enabled" /\ worker.tap = p
    \/ probe.at = "healed" /\ watchdog.tap = p
    \/ probe.at = "enabled" /\ probe.tap = p
    \/ block.at = "enabled" /\ block.tap = p

Detached ==
    \A p \in Ports :
        enabled[p] /\ ~attached[p] => Reason(p) \/ WakeMayRevive(p)

-----------------------------------------------------------------------------
(* Types. *)

LEMMA SwitchTyped ==
  ASSUME NEW p, enabled \in [Ports -> BOOLEAN], SwitchOn(p) \/ SwitchOff(p)
  PROVE  enabled' \in [Ports -> BOOLEAN]
<1>1. CASE SwitchOn(p)
  <2>1. (~secure) \in BOOLEAN
    OBVIOUS
  <2> QED
    BY <1>1, <2>1 DEF SwitchOn
<1>2. CASE SwitchOff(p)
  BY <1>2 DEF SwitchOff
<1> QED
  BY <1>1, <1>2

LEMMA EnabledTyped ==
  ASSUME TypeOK, Next
  PROVE  enabled' \in [Ports -> BOOLEAN]
<1>1. enabled \in [Ports -> BOOLEAN]
  BY DEF TypeOK
<1>2. CASE UNCHANGED enabled
  BY <1>1, <1>2
<1>3. CASE \E p : SwitchOn(p) \/ SwitchOff(p)
  BY <1>1, <1>3, SwitchTyped
<1>4. CASE KernelRefuses
  BY <1>4 DEF KernelRefuses
<1>5. CASE Install
  <2>1. CASE CreateTap \/ CreateGesture
    BY <1>3, <2>1 DEF CreateTap, CreateGesture
  <2>2. CASE ~CreateTap /\ ~CreateGesture
    BY <1>2, <1>5, <2>2 DEF Install, AttachTap, GestureFails, StartWatchdog,
       WatchdogFails, InstallWake, WakeFails, portVars
  <2> QED
    BY <2>1, <2>2
<1>6. CASE Release
  <2>1. CASE Disable \/ DisableGesture \/ DisableAgain
    BY <1>2, <1>3, <2>1 DEF Disable, DisableGesture, DisableAgain
  <2>2. CASE ~(Disable \/ DisableGesture \/ DisableAgain)
    BY <1>2, <1>6, <2>2 DEF Release, ClearObserved, CancelWatchdog, NoHealers,
       JoinWatchdog, RemoveWake, RemoveSource, Drain, ClearPointer, FreeTap, portVars
  <2> QED
    BY <2>1, <2>2
<1>7. CASE KernelDisables \/ CallbackLoads \/ CallbackEnables \/ CallbackRechecks
           \/ DrainBlockRuns
  BY <1>2, <1>3, <1>7 DEF KernelDisables, CallbackLoads, CallbackEnables,
     CallbackRechecks, DrainBlockRuns, portVars
<1>8. CASE Probe \/ CancelHandler
  BY <1>2, <1>3, <1>8 DEF Probe, ProbeStarts, ProbeReenables, ProbeLooks,
     ProbeRechecks, ReenableRechecks, CancelHandler, portVars
<1>9. CASE WakeLoads \/ WakeEnables \/ WakeReenables
  BY <1>2, <1>3, <1>9 DEF WakeLoads, WakeEnables, WakeReenables, ReenableRechecks,
     portVars
<1> QED
  BY <1>4, <1>5, <1>6, <1>7, <1>8, <1>9 DEF Next

-----------------------------------------------------------------------------
(* What the owner, the watchdog and the callback know of the ports. *)

LEMMA TwoRetains ==
  ASSUME NEW S, NEW f \in [S -> Nat], NEW a \in S, NEW b \in S, a # b
  PROVE  [f EXCEPT ![a] = @ + 1, ![b] = @ + 1]
           = [p \in S |-> IF p = a \/ p = b THEN f[p] + 1 ELSE f[p]]
OBVIOUS

LEMMA KernelKeepsBaseInv ==
  ASSUME BaseInv, KernelDisables \/ KernelRefuses
  PROVE  BaseInv'
<1> USE BoundsAssumption
<1> USE DEF BaseInv, TypeOK, Counted, Pointers, Stages, Probing, Callbacks, GestureUp,
    OwnerHas, Watching, WatchdogHas, Uninstalling, InstallSteps, ReleaseSteps, Main,
    Gesture, NoPort, Ports, Pointer, Sessions, Healer, Idle, Tap, SwitchOn, SwitchOff,
    ReenableLoads, ReenableRechecks, ownerVars, portVars, watchVars, wakeVars, kernelVars
<1>0. enabled' \in [Ports -> BOOLEAN]
  BY EnabledTyped DEF Next, Probe
<1>1. CASE KernelDisables
  <2>1. TypeOK'
    BY <1>0, <1>1, SMTT(60) DEF KernelDisables
  <2>2. Counted' /\ Pointers' /\ Stages' /\ Probing' /\ Callbacks'
    BY <1>1, SMTT(60) DEF KernelDisables
  <2> QED
    BY <2>1, <2>2
<1>2. CASE KernelRefuses
  <2>1. TypeOK'
    BY <1>0, <1>2, SMTT(60) DEF KernelRefuses
  <2>2. Counted' /\ Pointers' /\ Stages' /\ Probing' /\ Callbacks'
    BY <1>2, SMTT(60) DEF KernelRefuses
  <2> QED
    BY <2>1, <2>2
<1> QED
  BY <1>1, <1>2

LEMMA WorkerKeepsBaseInv ==
  ASSUME BaseInv, CallbackLoads \/ CallbackEnables \/ CallbackRechecks \/ DrainBlockRuns
  PROVE  BaseInv'
<1> USE BoundsAssumption
<1> USE DEF BaseInv, TypeOK, Counted, Pointers, Stages, Probing, Callbacks, GestureUp,
    OwnerHas, Watching, WatchdogHas, Uninstalling, InstallSteps, ReleaseSteps, Main,
    Gesture, NoPort, Ports, Pointer, Sessions, Healer, Idle, Tap, SwitchOn, SwitchOff,
    ReenableLoads, ReenableRechecks, ownerVars, portVars, watchVars, wakeVars, kernelVars
<1>0. enabled' \in [Ports -> BOOLEAN]
  BY EnabledTyped DEF Next, Probe
<1>1. CASE CallbackLoads
  <2>1. TypeOK'
    BY <1>0, <1>1, SMTT(60) DEF CallbackLoads
  <2>2. Counted' /\ Pointers' /\ Stages' /\ Probing' /\ Callbacks'
    BY <1>1, SMTT(60) DEF CallbackLoads
  <2> QED
    BY <2>1, <2>2
<1>2. CASE CallbackEnables
  <2>1. TypeOK'
    BY <1>0, <1>2, SMTT(60) DEF CallbackEnables
  <2>2. Counted' /\ Pointers' /\ Stages' /\ Probing' /\ Callbacks'
    BY <1>2, SMTT(60) DEF CallbackEnables
  <2> QED
    BY <2>1, <2>2
<1>3. CASE CallbackRechecks
  <2>1. TypeOK'
    BY <1>0, <1>3, SMTT(60) DEF CallbackRechecks
  <2>2. Counted' /\ Pointers' /\ Stages' /\ Probing' /\ Callbacks'
    BY <1>3, SMTT(60) DEF CallbackRechecks
  <2> QED
    BY <2>1, <2>2
<1>4. CASE DrainBlockRuns
  <2>1. TypeOK'
    BY <1>0, <1>4, SMTT(60) DEF DrainBlockRuns
  <2>2. Counted' /\ Pointers' /\ Stages' /\ Probing' /\ Callbacks'
    BY <1>4, SMTT(60) DEF DrainBlockRuns
  <2> QED
    BY <2>1, <2>2
<1> QED
  BY <1>1, <1>2, <1>3, <1>4

LEMMA ProbeKeepsBaseInv ==
  ASSUME BaseInv, ProbeStarts \/ ProbeReenables \/ ProbeLooks \/ ProbeRechecks \/ CancelHandler
  PROVE  BaseInv'
<1> USE BoundsAssumption
<1> USE DEF BaseInv, TypeOK, Counted, Pointers, Stages, Probing, Callbacks, GestureUp,
    OwnerHas, Watching, WatchdogHas, Uninstalling, InstallSteps, ReleaseSteps, Main,
    Gesture, NoPort, Ports, Pointer, Sessions, Healer, Idle, Tap, SwitchOn, SwitchOff,
    ReenableLoads, ReenableRechecks, ownerVars, portVars, watchVars, wakeVars, kernelVars
<1>0. enabled' \in [Ports -> BOOLEAN]
  BY EnabledTyped DEF Next, Probe
<1>1. CASE ProbeStarts
  <2>1. TypeOK'
    BY <1>0, <1>1, SMTT(60) DEF ProbeStarts
  <2>2. Counted' /\ Pointers' /\ Stages' /\ Probing' /\ Callbacks'
    BY <1>1, SMTT(60) DEF ProbeStarts
  <2> QED
    BY <2>1, <2>2
<1>2. CASE ProbeReenables
  <2>1. TypeOK'
    BY <1>0, <1>2, SMTT(60) DEF ProbeReenables
  <2>2. Counted' /\ Pointers' /\ Stages' /\ Probing' /\ Callbacks'
    BY <1>2, SMTT(60) DEF ProbeReenables
  <2> QED
    BY <2>1, <2>2
<1>3. CASE ProbeLooks
  <2>1. TypeOK'
    BY <1>0, <1>3, SMTT(60) DEF ProbeLooks
  <2>2. Counted' /\ Pointers' /\ Stages' /\ Probing' /\ Callbacks'
    BY <1>3, SMTT(60) DEF ProbeLooks
  <2> QED
    BY <2>1, <2>2
<1>4. CASE ProbeRechecks
  <2>0. tripped' \in BOOLEAN
    BY <1>4, Zenon DEF ProbeRechecks
  <2>1. TypeOK'
    BY <1>0, <1>4, <2>0, SMTT(60) DEF ProbeRechecks
  <2>2. Counted' /\ Pointers' /\ Stages' /\ Probing' /\ Callbacks'
    BY <1>4, SMTT(60) DEF ProbeRechecks
  <2> QED
    BY <2>1, <2>2
<1>5. CASE CancelHandler
  <2>1. TypeOK'
    BY <1>0, <1>5, SMTT(60) DEF CancelHandler
  <2>2. Counted'
    <3>1. \A p \in Ports : WatchdogHas(p) <=> p \in {watchdog.tap, watchdog.gesture}
      BY <1>5 DEF CancelHandler
    <3>2. \A p \in Ports : ~WatchdogHas(p)' /\ (OwnerHas(p)' <=> OwnerHas(p))
      BY <1>5 DEF CancelHandler
    <3>3. UNCHANGED unclean
      BY <1>5 DEF CancelHandler
    <3> HIDE DEF OwnerHas, WatchdogHas, Watching, GestureUp, Main, Gesture, Ports
    <3> QED
      BY <1>5, <3>1, <3>2, <3>3 DEF CancelHandler
  <2>3. Pointers' /\ Stages' /\ Probing'
    BY <1>5, SMTT(60) DEF CancelHandler
  <2>4. Callbacks'
    BY <1>5, <2>2, SMTT(60) DEF CancelHandler
  <2> QED
    BY <2>1, <2>2, <2>3, <2>4
<1> QED
  BY <1>1, <1>2, <1>3, <1>4, <1>5

LEMMA WakeKeepsBaseInv ==
  ASSUME BaseInv, WakeLoads \/ WakeEnables \/ WakeReenables
  PROVE  BaseInv'
<1> USE BoundsAssumption
<1> USE DEF BaseInv, TypeOK, Counted, Pointers, Stages, Probing, Callbacks, GestureUp,
    OwnerHas, Watching, WatchdogHas, Uninstalling, InstallSteps, ReleaseSteps, Main,
    Gesture, NoPort, Ports, Pointer, Sessions, Healer, Idle, Tap, SwitchOn, SwitchOff,
    ReenableLoads, ReenableRechecks, ownerVars, portVars, watchVars, wakeVars, kernelVars
<1>0. enabled' \in [Ports -> BOOLEAN]
  BY EnabledTyped DEF Next, Probe
<1>1. CASE WakeLoads
  <2>1. TypeOK'
    BY <1>0, <1>1, SMTT(60) DEF WakeLoads
  <2>2. Counted' /\ Pointers' /\ Stages' /\ Probing' /\ Callbacks'
    BY <1>1, SMTT(60) DEF WakeLoads
  <2> QED
    BY <2>1, <2>2
<1>2. CASE WakeEnables
  <2>1. TypeOK'
    BY <1>0, <1>2, SMTT(60) DEF WakeEnables
  <2>2. Counted' /\ Pointers' /\ Stages' /\ Probing' /\ Callbacks'
    BY <1>2, SMTT(60) DEF WakeEnables
  <2> QED
    BY <2>1, <2>2
<1>3. CASE WakeReenables
  <2>1. TypeOK'
    BY <1>0, <1>3, SMTT(60) DEF WakeReenables
  <2>2. Counted' /\ Pointers' /\ Stages' /\ Probing' /\ Callbacks'
    BY <1>3, SMTT(60) DEF WakeReenables
  <2> QED
    BY <2>1, <2>2
<1> QED
  BY <1>1, <1>2, <1>3

LEMMA InstallKeepsBaseInv ==
  ASSUME BaseInv, Install
  PROVE  BaseInv'
<1> USE BoundsAssumption
<1> USE DEF BaseInv, TypeOK, Counted, Pointers, Stages, Probing, Callbacks, GestureUp,
    OwnerHas, Watching, WatchdogHas, Uninstalling, InstallSteps, ReleaseSteps, Main,
    Gesture, NoPort, Ports, Pointer, Sessions, Healer, Idle, Tap, SwitchOn, SwitchOff,
    ReenableLoads, ReenableRechecks, ownerVars, portVars, watchVars, wakeVars, kernelVars
<1>0. enabled' \in [Ports -> BOOLEAN]
  BY EnabledTyped DEF Next, Probe, Install
<1>1. CASE CreateTap
  <2>1. TypeOK'
    BY <1>0, <1>1, SMTT(60) DEF CreateTap
  <2>2. Counted' /\ Pointers' /\ Stages' /\ Probing' /\ Callbacks'
    BY <1>1, SMTT(60) DEF CreateTap
  <2> QED
    BY <2>1, <2>2
<1>2. CASE AttachTap
  <2>1. TypeOK'
    BY <1>0, <1>2, SMTT(60) DEF AttachTap
  <2>2. Counted' /\ Pointers' /\ Stages' /\ Probing' /\ Callbacks'
    BY <1>2, SMTT(60) DEF AttachTap
  <2> QED
    BY <2>1, <2>2
<1>3. CASE CreateGesture
  <2>1. TypeOK'
    BY <1>0, <1>3, SMTT(60) DEF CreateGesture
  <2>2. Counted' /\ Pointers' /\ Stages' /\ Probing' /\ Callbacks'
    BY <1>3, SMTT(60) DEF CreateGesture
  <2> QED
    BY <2>1, <2>2
<1>4. CASE GestureFails
  <2>1. TypeOK'
    BY <1>0, <1>4, SMTT(60) DEF GestureFails
  <2>2. Counted' /\ Pointers' /\ Stages' /\ Probing' /\ Callbacks'
    BY <1>4, SMTT(60) DEF GestureFails
  <2> QED
    BY <2>1, <2>2
<1>5. CASE StartWatchdog
  <2>1. /\ Main \in Ports /\ Gesture \in Ports /\ Main # Gesture
        /\ current["gesture"] = Gesture /\ ~Watching
        /\ refs[Main] = 1 /\ refs[Gesture] = 1
    BY <1>5 DEF StartWatchdog
  <2>2. refs' = [p \in Ports |-> IF p = Main \/ p = Gesture THEN refs[p] + 1 ELSE refs[p]]
    <3>1. refs' = [refs EXCEPT ![Main] = @ + 1, ![Gesture] = @ + 1]
      BY ONLY <1>5, <2>1 DEF StartWatchdog
    <3> QED
      BY <2>1, <3>1, TwoRetains
  <2>3. tripped' \in BOOLEAN
    BY <1>5, Zenon DEF StartWatchdog
  <2>8. refs' \in [Ports -> 0 .. 2]
    BY <2>1, <2>2
  <2>9. watchdog' \in [state : {"none", "armed", "cancelled", "gone"},
                      tap : Pointer, gesture : Pointer]
    BY <1>5, <2>1 DEF StartWatchdog
  <2>4. TypeOK'
    BY <1>0, <1>5, <2>1, <2>3, <2>8, <2>9, SMTT(60) DEF StartWatchdog
  <2>5. Counted'
    <3>1. WatchdogHas(Main)' /\ WatchdogHas(Gesture)'
      BY <1>5, <2>1 DEF StartWatchdog
    <3>2. OwnerHas(Main)' /\ OwnerHas(Gesture)'
      BY <1>5, <2>1 DEF StartWatchdog
    <3>3. \A p \in Ports : p \notin {Main, Gesture} =>
            refs'[p] = refs[p] /\ ~OwnerHas(p)' /\ ~WatchdogHas(p)'
            /\ ~OwnerHas(p) /\ ~WatchdogHas(p)
      BY <1>5, <2>1, <2>2 DEF StartWatchdog
    <3>4. UNCHANGED <<unclean, session>>
      BY <1>5 DEF StartWatchdog
    <3>5. refs'[Main] = 2 /\ refs'[Gesture] = 2
      BY <2>1, <2>2
    <3>6. \A p \in Ports : refs[p] \in IF WatchdogHas(p) THEN {1, 2} ELSE {0, 1}
      BY DEF BaseInv, Counted
    <3>7. \A p \in Ports : ~OwnerHas(p) /\ ~unclean =>
                 refs[p] = IF WatchdogHas(p) THEN 1 ELSE 0
      BY DEF BaseInv, Counted
    <3>8. ASSUME NEW p \in Ports
          PROVE  /\ refs'[p] \in IF WatchdogHas(p)' THEN {1, 2} ELSE {0, 1}
                 /\ OwnerHas(p)' => refs'[p] = IF WatchdogHas(p)' THEN 2 ELSE 1
                 /\ ~OwnerHas(p)' /\ ~unclean' =>
                        refs'[p] = IF WatchdogHas(p)' THEN 1 ELSE 0
      <4> HIDE DEF OwnerHas, WatchdogHas, Watching, GestureUp, Main, Gesture, Ports,
                   BaseInv, Pointers, Stages, Counted, Callbacks, TypeOK
      <4>1. Main' = Main /\ Gesture' = Gesture
        BY <3>4 DEF Main, Gesture
      <4>2. CASE p \in {Main, Gesture}
        BY <4>1, <4>2, <3>1, <3>2, <3>5
      <4>3. CASE p \notin {Main, Gesture}
        BY <4>3, <3>3, <3>4, <3>6, <3>7
      <4> QED
        BY <4>2, <4>3
    <3> QED
      BY <3>8 DEF Counted
  <2>6. Pointers' /\ Stages' /\ Probing'
    BY <1>5, <2>1, SMTT(60) DEF StartWatchdog
  <2>7. Callbacks'
    <3>1. \A p \in Ports : attached'[p] => attached[p]
      BY <1>5 DEF StartWatchdog
    <3>2. UNCHANGED <<worker, drain, part, session>> /\ drain = "none"
      BY <1>5 DEF StartWatchdog
    <3>3. worker.at # "idle" => refs'[worker.tap] = 2
      BY <2>1, <2>2
    <3> QED
      BY <1>5, <3>1, <3>2, <3>3 DEF StartWatchdog
  <2> QED
    BY <2>4, <2>5, <2>6, <2>7
<1>6. CASE WatchdogFails
  <2>1. TypeOK'
    BY <1>0, <1>6, SMTT(60) DEF WatchdogFails
  <2>2. Counted' /\ Pointers' /\ Stages' /\ Probing' /\ Callbacks'
    BY <1>6, SMTT(60) DEF WatchdogFails
  <2> QED
    BY <2>1, <2>2
<1>7. CASE InstallWake
  <2>1. TypeOK'
    BY <1>0, <1>7, SMTT(60) DEF InstallWake
  <2>2. Counted' /\ Pointers' /\ Stages' /\ Probing' /\ Callbacks'
    BY <1>7, SMTT(60) DEF InstallWake
  <2> QED
    BY <2>1, <2>2
<1>8. CASE WakeFails
  <2>1. TypeOK'
    BY <1>0, <1>8, SMTT(60) DEF WakeFails
  <2>2. Counted' /\ Pointers' /\ Stages' /\ Probing' /\ Callbacks'
    BY <1>8, SMTT(60) DEF WakeFails
  <2> QED
    BY <2>1, <2>2
<1> QED
  BY <1>1, <1>2, <1>3, <1>4, <1>5, <1>6, <1>7, <1>8 DEF Install

LEMMA ReleaseKeepsBaseInv ==
  ASSUME BaseInv, Release
  PROVE  BaseInv'
<1> USE BoundsAssumption
<1> USE DEF BaseInv, TypeOK, Counted, Pointers, Stages, Probing, Callbacks, GestureUp,
    OwnerHas, Watching, WatchdogHas, Uninstalling, InstallSteps, ReleaseSteps, Main,
    Gesture, NoPort, Ports, Pointer, Sessions, Healer, Idle, Tap, SwitchOn, SwitchOff,
    ReenableLoads, ReenableRechecks, ownerVars, portVars, watchVars, wakeVars, kernelVars
<1>0. enabled' \in [Ports -> BOOLEAN]
  BY EnabledTyped DEF Next, Probe, Release
<1>1. CASE Disable
  <2>1. TypeOK'
    BY <1>0, <1>1, SMTT(60) DEF Disable
  <2>2. Counted' /\ Pointers' /\ Stages' /\ Probing' /\ Callbacks'
    BY <1>1, SMTT(60) DEF Disable
  <2> QED
    BY <2>1, <2>2
<1>2. CASE ClearObserved
  <2>1. TypeOK'
    BY <1>0, <1>2, SMTT(60) DEF ClearObserved
  <2>2. Counted' /\ Pointers' /\ Stages' /\ Probing' /\ Callbacks'
    BY <1>2, SMTT(60) DEF ClearObserved
  <2> QED
    BY <2>1, <2>2
<1>3. CASE DisableGesture
  <2>1. TypeOK'
    BY <1>0, <1>3, SMTT(60) DEF DisableGesture
  <2>2. Counted' /\ Pointers' /\ Stages' /\ Probing' /\ Callbacks'
    BY <1>3, SMTT(60) DEF DisableGesture
  <2> QED
    BY <2>1, <2>2
<1>4. CASE CancelWatchdog
  <2>1. TypeOK'
    BY <1>0, <1>4, SMTT(60) DEF CancelWatchdog
  <2>2. Counted' /\ Pointers' /\ Stages' /\ Probing' /\ Callbacks'
    BY <1>4, SMTT(60) DEF CancelWatchdog
  <2> QED
    BY <2>1, <2>2
<1>5. CASE NoHealers
  <2>1. TypeOK'
    BY <1>0, <1>5, SMTT(60) DEF NoHealers
  <2>2. Counted' /\ Pointers' /\ Stages' /\ Probing' /\ Callbacks'
    BY <1>5, SMTT(60) DEF NoHealers
  <2> QED
    BY <2>1, <2>2
<1>6. CASE JoinWatchdog
  <2>0. unclean' \in BOOLEAN
    BY <1>6, Zenon DEF JoinWatchdog
  <2>1. TypeOK'
    BY <1>0, <1>6, <2>0, SMTT(60) DEF JoinWatchdog
  <2>2. Counted' /\ Pointers' /\ Stages' /\ Probing' /\ Callbacks'
    BY <1>6, SMTT(60) DEF JoinWatchdog
  <2> QED
    BY <2>1, <2>2
<1>7. CASE RemoveWake
  <2>0. wake' \in BOOLEAN
    BY <1>7, Zenon DEF RemoveWake
  <2>1. TypeOK'
    BY <1>0, <1>7, <2>0, SMTT(60) DEF RemoveWake
  <2>2. Counted' /\ Pointers' /\ Stages' /\ Probing' /\ Callbacks'
    BY <1>7, SMTT(60) DEF RemoveWake
  <2> QED
    BY <2>1, <2>2
<1>8. CASE RemoveSource
  <2>1. TypeOK'
    BY <1>0, <1>8, SMTT(60) DEF RemoveSource
  <2>2. Counted' /\ Pointers' /\ Stages' /\ Probing' /\ Callbacks'
    BY <1>8, SMTT(60) DEF RemoveSource
  <2> QED
    BY <2>1, <2>2
<1>9. CASE Drain
  <2>1. TypeOK'
    BY <1>0, <1>9, SMTT(60) DEF Drain
  <2>2. Counted' /\ Pointers' /\ Stages' /\ Probing' /\ Callbacks'
    BY <1>9, SMTT(60) DEF Drain
  <2> QED
    BY <2>1, <2>2
<1>10. CASE ClearPointer
  <2>1. TypeOK'
    BY <1>0, <1>10, SMTT(60) DEF ClearPointer
  <2>2. Counted' /\ Pointers' /\ Stages' /\ Probing' /\ Callbacks'
    BY <1>10, SMTT(60) DEF ClearPointer
  <2> QED
    BY <2>1, <2>2
<1>11. CASE DisableAgain
  <2>1. TypeOK'
    BY <1>0, <1>11, SMTT(60) DEF DisableAgain
  <2>2. Counted' /\ Pointers' /\ Stages' /\ Probing' /\ Callbacks'
    BY <1>11, SMTT(60) DEF DisableAgain
  <2> QED
    BY <2>1, <2>2
<1>12. CASE FreeTap
  <2>0. unclean' \in BOOLEAN
    BY <1>12, Zenon DEF FreeTap
  <2>1. TypeOK'
    BY <1>0, <1>12, <2>0, SMTT(60) DEF FreeTap
  <2>2. Pointers' /\ Stages' /\ Probing'
    BY <1>12, SMTT(60) DEF FreeTap
  <2>3. /\ \A p \in Ports : WatchdogHas(p)' <=> WatchdogHas(p)
        /\ \A p \in Ports : OwnerHas(p)' <=> OwnerHas(p) /\ p # Tap
        /\ Tap \in Ports /\ OwnerHas(Tap)
    BY <1>12, SMTT(60) DEF FreeTap
  <2>4. Counted'
    <3>1. ASSUME NEW p \in Ports
          PROVE  /\ refs'[p] \in IF WatchdogHas(p)' THEN {1, 2} ELSE {0, 1}
                 /\ OwnerHas(p)' => refs'[p] = IF WatchdogHas(p)' THEN 2 ELSE 1
                 /\ ~OwnerHas(p)' /\ ~unclean' =>
                        refs'[p] = IF WatchdogHas(p)' THEN 1 ELSE 0
      <4>1. /\ refs \in [Ports -> 0 .. 2]
            /\ refs[p] \in IF WatchdogHas(p) THEN {1, 2} ELSE {0, 1}
            /\ OwnerHas(p) => refs[p] = IF WatchdogHas(p) THEN 2 ELSE 1
            /\ ~OwnerHas(p) /\ ~unclean =>
                   refs[p] = IF WatchdogHas(p) THEN 1 ELSE 0
        BY DEF BaseInv, TypeOK, Counted
      <4>2. \/ refs' = [refs EXCEPT ![Tap] = @ - 1] /\ unclean' = unclean
            \/ refs' = refs /\ unclean'
        BY <1>12 DEF FreeTap
      <4> HIDE DEF OwnerHas, WatchdogHas, Watching, GestureUp, Main, Gesture, Ports,
                   BaseInv, Pointers, Stages, Counted, Callbacks, TypeOK, Tap
      <4> QED
        BY <2>3, <4>1, <4>2
    <3> QED
      BY <3>1 DEF Counted
  <2>5. Callbacks'
    BY <1>12, <2>3, SMTT(60) DEF FreeTap
  <2> QED
    BY <2>1, <2>2, <2>4, <2>5
<1> QED
  BY <1>1, <1>2, <1>3, <1>4, <1>5, <1>6, <1>7, <1>8, <1>9, <1>10, <1>11, <1>12 DEF Release

LEMMA BaseInitially == Init => BaseInv
<1> SUFFICES ASSUME Init PROVE BaseInv
  OBVIOUS
<1> USE BoundsAssumption DEF Init, NoPort, Idle
<1>1. TypeOK
  <2>1. unclean \in BOOLEAN /\ tripped \in BOOLEAN /\ wake \in BOOLEAN
        /\ secure \in BOOLEAN
    BY Zenon
  <2>2. /\ enabled \in [Ports -> BOOLEAN] /\ attached \in [Ports -> BOOLEAN]
        /\ pending \in [Ports -> BOOLEAN]
    BY Zenon
  <2>3. ownerOnMain \in BOOLEAN
    BY RegimeAssumption, Zenon
  <2> QED
    BY <2>1, <2>2, <2>3 DEF TypeOK, InstallSteps, Pointer, Healer
<1>2. Counted
  BY DEF Counted, OwnerHas, GestureUp, Uninstalling, WatchdogHas, Watching
<1>3. Pointers
  BY DEF Pointers, GestureUp, Uninstalling
<1>4. Stages
  BY DEF Stages, Watching, Uninstalling
<1>5. Probing /\ Callbacks
  BY DEF Probing, Callbacks
<1> QED
  BY <1>1, <1>2, <1>3, <1>4, <1>5 DEF BaseInv

LEMMA BaseStep == BaseInv /\ [Next]_vars => BaseInv'
<1> SUFFICES ASSUME BaseInv, [Next]_vars PROVE BaseInv'
  OBVIOUS
<1>1. CASE UNCHANGED vars
  BY <1>1 DEF BaseInv, TypeOK, Counted, Pointers, Stages, Probing, Callbacks, GestureUp,
     OwnerHas, Watching, WatchdogHas, Main, Gesture, Tap, vars, ownerVars, portVars,
     watchVars, wakeVars, kernelVars
<1>2. CASE Next
  BY <1>2, KernelKeepsBaseInv, WorkerKeepsBaseInv, ProbeKeepsBaseInv,
     WakeKeepsBaseInv, InstallKeepsBaseInv, ReleaseKeepsBaseInv DEF Next, Probe
<1> QED
  BY <1>1, <1>2

LEMMA BaseInvariance == Spec => []BaseInv
BY BaseInitially, BaseStep, PTL DEF Spec

\* The state is well typed, in a one-shot run and in a watcher.
THEOREM Typing == Spec => []TypeOK
<1>1. BaseInv => TypeOK
  BY DEF BaseInv
<1> QED
  BY <1>1, BaseInvariance, PTL

\* In either regime neither the callbacks nor the probe use a freed port: of
\* the four parties only the wake block may.
CallbackAndProbeAreSafe ==
    /\ worker.at # "idle" => refs[worker.tap] > 0
    /\ probe.at # "idle" => refs[watchdog.tap] > 0
    /\ probe.at \in {"loaded", "enabled"} => refs[probe.tap] > 0

LEMMA BaseIsSafe == BaseInv => CallbackAndProbeAreSafe
<1> SUFFICES ASSUME BaseInv PROVE CallbackAndProbeAreSafe
  OBVIOUS
<1>1. worker.at # "idle" => refs[worker.tap] > 0
  BY DEF BaseInv, Callbacks
<1>2. ASSUME Watching PROVE refs[Main] > 0 /\ refs[Gesture] > 0
  BY <1>2 DEF BaseInv, Stages, Counted, WatchdogHas, Ports, Main, Gesture
<1> QED
  BY <1>1, <1>2 DEF CallbackAndProbeAreSafe, BaseInv, Probing, Stages

\* Nobody who still acts for an earlier session of a watcher runs when taps
\* exist again.  A callback or a probe can outlive its teardown, for a drain and
\* a join give up in time; then the teardown was unclean (FreeTap, JoinWatchdog)
\* and no session follows it.
THEOREM NoMixing == Spec => []SessionsDoNotMix
<1>1. ASSUME BaseInv PROVE SessionsDoNotMix
  BY <1>1 DEF BaseInv, Stages, Watching, Probing, Callbacks, Main, Gesture,
     SessionsDoNotMix
<1> QED
  BY <1>1, BaseInvariance, PTL

-----------------------------------------------------------------------------
(* On one thread the owner and the wake block take turns.                  *)

LEMMA WakingStep ==
  ASSUME ownerOnMain, BaseInv, Waking, [Next]_vars
  PROVE  Waking'
<1> USE DEF BaseInv, TypeOK, Counted, Pointers, Stages, Probing, Callbacks, Waking,
    GestureUp, OwnerHas, Watching, WatchdogHas, Uninstalling, Main, Gesture, NoPort,
    Ports, Pointer, Sessions, Healer, Idle, Tap, SwitchOn, SwitchOff, OwnerRuns,
    ReenableLoads, ReenableRechecks, ownerVars, portVars, watchVars, wakeVars, kernelVars
<1>1. CASE WakeLoads
  BY <1>1 DEF WakeLoads
<1>2. CASE WakeEnables
  BY <1>2 DEF WakeEnables
<1>3. CASE WakeReenables
  BY <1>3 DEF WakeReenables
<1>4. CASE Install
  BY <1>4 DEF Install, CreateTap, AttachTap, CreateGesture, GestureFails,
     StartWatchdog, WatchdogFails, InstallWake, WakeFails
<1>5. CASE Release
  BY <1>5 DEF Release, Disable, ClearObserved, DisableGesture, CancelWatchdog,
     NoHealers, JoinWatchdog, RemoveWake, RemoveSource, Drain, ClearPointer,
     DisableAgain, FreeTap
<1>6. CASE UNCHANGED <<owner, session, block>>
  BY <1>6
<1>7. CASE ~WakeLoads /\ ~WakeEnables /\ ~WakeReenables /\ ~Install /\ ~Release
  BY <1>6, <1>7 DEF Next, KernelDisables, KernelRefuses, CallbackLoads,
     CallbackEnables, CallbackRechecks, DrainBlockRuns, Probe, ProbeStarts,
     ProbeReenables, ProbeLooks, ProbeRechecks, CancelHandler, vars
<1> QED
  BY <1>1, <1>2, <1>3, <1>4, <1>5, <1>7

LEMMA SwitchedStep ==
  ASSUME ownerOnMain, BaseInv, Waking, Switched, [Next]_vars
  PROVE  Switched'
<1> USE DEF BaseInv, TypeOK, Counted, Pointers, Stages, Probing, Callbacks, Waking,
    Switched,
    GestureUp, OwnerHas, Watching, WatchdogHas, Uninstalling, Main, Gesture, NoPort,
    Ports, Pointer, Sessions, Healer, Idle, Tap, SwitchOn, SwitchOff, OwnerRuns,
    ReenableLoads, ReenableRechecks, ownerVars, portVars, watchVars, wakeVars, kernelVars
<1>1. CASE KernelDisables
  BY <1>1, SMTT(60) DEF KernelDisables
<1>2. CASE KernelRefuses
  BY <1>2, SMTT(60) DEF KernelRefuses
<1>3. CASE CallbackLoads
  BY <1>3, SMTT(60) DEF CallbackLoads
<1>4. CASE CallbackEnables
  BY <1>4, SMTT(60) DEF CallbackEnables
<1>5. CASE CallbackRechecks
  BY <1>5, SMTT(60) DEF CallbackRechecks
<1>6. CASE DrainBlockRuns
  BY <1>6, SMTT(60) DEF DrainBlockRuns
<1>7. CASE ProbeStarts
  BY <1>7, SMTT(60) DEF ProbeStarts
<1>8. CASE ProbeReenables
  <2>1. CASE probe.at = "gesture"
    BY <1>8, <2>1 DEF ProbeReenables
  <2>2. CASE probe.at = "loaded"
    <3>1. probe.tap = Gesture /\ Watching
      BY <2>2
    <3>2. unclean \/ (OwnerHas(Gesture) /\ owner # "free")
      BY <3>1 DEF InstallSteps, ReleaseSteps
    <3>3. UNCHANGED <<owner, part, session, unclean, drain>>
      BY <1>8 DEF ProbeReenables
    <3>4. \A p \in Ports : enabled'[p] => p = Gesture \/ enabled[p]
      BY <1>8, <2>2, <3>1 DEF ProbeReenables
    <3> QED
      BY <3>2, <3>3, <3>4
  <2>3. CASE probe.at = "enabled"
    BY <1>8, <2>3 DEF ProbeReenables
  <2> QED
    BY <1>8, <2>1, <2>2, <2>3 DEF ProbeReenables
<1>9. CASE ProbeLooks
  BY <1>9, SMTT(60) DEF ProbeLooks
<1>10. CASE ProbeRechecks
  BY <1>10, SMTT(60) DEF ProbeRechecks
<1>11. CASE CancelHandler
  BY <1>11, SMTT(60) DEF CancelHandler
<1>12. CASE WakeLoads
  BY <1>12, SMTT(60) DEF WakeLoads
<1>13. CASE WakeEnables
  BY <1>13, SMTT(60) DEF WakeEnables
<1>14. CASE WakeReenables
  BY <1>14, SMTT(60) DEF WakeReenables
<1>15. CASE CreateTap
  BY <1>15, SMTT(60) DEF CreateTap
<1>16. CASE AttachTap
  BY <1>16, SMTT(60) DEF AttachTap
<1>17. CASE CreateGesture
  BY <1>17, SMTT(60) DEF CreateGesture
<1>18. CASE GestureFails
  BY <1>18, SMTT(60) DEF GestureFails
<1>19. CASE StartWatchdog
  BY <1>19, SMTT(60) DEF StartWatchdog
<1>20. CASE WatchdogFails
  BY <1>20, SMTT(60) DEF WatchdogFails
<1>21. CASE InstallWake
  BY <1>21, SMTT(60) DEF InstallWake
<1>22. CASE WakeFails
  BY <1>22, SMTT(60) DEF WakeFails
<1>23. CASE Disable
  BY <1>23, SMTT(60) DEF Disable
<1>24. CASE ClearObserved
  BY <1>24, SMTT(60) DEF ClearObserved
<1>25. CASE DisableGesture
  BY <1>25, SMTT(60) DEF DisableGesture
<1>26. CASE CancelWatchdog
  BY <1>26, SMTT(60) DEF CancelWatchdog
<1>27. CASE NoHealers
  BY <1>27, SMTT(60) DEF NoHealers
<1>28. CASE JoinWatchdog
  BY <1>28, SMTT(60) DEF JoinWatchdog
<1>29. CASE RemoveWake
  BY <1>29, SMTT(60) DEF RemoveWake
<1>30. CASE RemoveSource
  BY <1>30, SMTT(60) DEF RemoveSource
<1>31. CASE Drain
  BY <1>31, SMTT(60) DEF Drain
<1>32. CASE ClearPointer
  BY <1>32, SMTT(60) DEF ClearPointer
<1>33. CASE DisableAgain
  BY <1>33, SMTT(60) DEF DisableAgain
<1>34. CASE FreeTap
  BY <1>34, SMTT(60) DEF FreeTap
<1>35. CASE UNCHANGED vars
  BY <1>35 DEF vars
<1> QED
  BY <1>1, <1>2, <1>3, <1>4, <1>5, <1>6, <1>7, <1>8, <1>9, <1>10, <1>11, <1>12,
     <1>13, <1>14, <1>15, <1>16, <1>17, <1>18, <1>19, <1>20, <1>21, <1>22, <1>23,
     <1>24, <1>25, <1>26, <1>27, <1>28, <1>29, <1>30, <1>31, <1>32, <1>33, <1>34,
     <1>35 DEF Next, Probe, Install, Release

\* The owner stays on its thread.
LEMMA RegimeStep == [Next]_vars => ownerOnMain' = ownerOnMain
BY DEF Next, KernelDisables, KernelRefuses, CallbackLoads, CallbackEnables,
   CallbackRechecks, DrainBlockRuns, Probe, ProbeStarts, ProbeReenables, ProbeLooks,
   ProbeRechecks, CancelHandler, WakeLoads, WakeEnables, WakeReenables, Install,
   CreateTap, AttachTap, CreateGesture, GestureFails, StartWatchdog, WatchdogFails,
   InstallWake, WakeFails, Release, Disable, ClearObserved, DisableGesture,
   CancelWatchdog, NoHealers, JoinWatchdog, RemoveWake, RemoveSource, Drain,
   ClearPointer, DisableAgain, FreeTap, kernelVars, vars

LEMMA TurnInvariance == Spec => []TurnInv
<1>1. Init => TurnInv
  BY DEF Init, TurnInv, Waking, Switched, Idle
<1>2. BaseInv /\ TurnInv /\ [Next]_vars => TurnInv'
  BY WakingStep, SwitchedStep, RegimeStep DEF TurnInv
<1> QED
  BY <1>1, <1>2, BaseInvariance, PTL DEF Spec

\* Whatever times out and wherever an install fails, nobody uses a freed port:
\* the callbacks and the probe in either regime, the wake block of a one-shot
\* run.  (The wake block of a watcher may: TLC refutes WakeBlockIsSafe.)
THEOREM NoUseAfterFree == Spec => []NoFreedPortIsUsed
<1>1. ASSUME BaseInv, TurnInv PROVE NoFreedPortIsUsed
  <2>1. ASSUME ownerOnMain, block.at \in {"main", "loaded", "enabled"}
        PROVE  refs[block.tap] > 0
    <3>1. owner = "up" /\ Watching
      BY <1>1, <2>1 DEF TurnInv, Waking, BaseInv, Stages, Watching
    <3>2. refs[Main] > 0 /\ refs[Gesture] > 0
      BY <1>1, <3>1 DEF BaseInv, Stages, Counted, WatchdogHas, Ports, Main, Gesture
    <3> QED
      BY <1>1, <2>1, <3>2 DEF TurnInv, Waking
  <2> QED
    BY <1>1, <2>1, BaseIsSafe DEF CallbackAndProbeAreSafe, NoFreedPortIsUsed
<1> QED
  BY <1>1, BaseInvariance, TurnInvariance, PTL

\* A release that was not unclean, and an install that failed, leave nothing:
\* no reference, source, pointer or healer, and no tap that is on, unless the
\* wake block of a watcher has switched it on.
THEOREM NothingRemains == Spec => []NothingIsLeft
<1>1. ASSUME BaseInv, TurnInv PROVE NothingIsLeft
  <2> SUFFICES ASSUME owner = "off", ~unclean
               PROVE  /\ \A p \in Ports : refs[p] = 0 /\ ~attached[p]
                      /\ ownerOnMain => \A p \in Ports : ~enabled[p]
                      /\ \A k \in DOMAIN current : current[k] = NoPort
                      /\ observed = NoPort
                      /\ watchdog.state = "none"
                      /\ ~wake
    BY DEF NothingIsLeft
  <2>1. watchdog.state = "none" /\ ~wake /\ observed = NoPort
    BY <1>1 DEF BaseInv, Stages, Pointers
  <2>2. \A p \in Ports : ~OwnerHas(p) /\ ~WatchdogHas(p)
    BY <2>1 DEF OwnerHas, GestureUp, Uninstalling, WatchdogHas, Watching
  <2>3. \A p \in Ports : refs[p] = 0
    BY <1>1, <2>2 DEF BaseInv, Counted
  <2>4. ownerOnMain => \A p \in Ports : ~enabled[p]
    BY <1>1, <2>2 DEF TurnInv, Switched
  <2>5. \A p \in Ports : ~attached[p]
    BY <1>1 DEF BaseInv, Callbacks, GestureUp, Uninstalling
  <2>6. \A k \in DOMAIN current : current[k] = NoPort
    BY <1>1 DEF BaseInv, TypeOK, Pointers, GestureUp, Uninstalling
  <2> QED
    BY <2>1, <2>3, <2>4, <2>5, <2>6
<1> QED
  BY <1>1, BaseInvariance, TurnInvariance, PTL

-----------------------------------------------------------------------------
(* A tap without a source does not stay on.                                *)

LEMMA SourcedStep ==
  ASSUME BaseInv, Sourced, [Next]_vars
  PROVE  Sourced'
<1> USE DEF BaseInv, TypeOK, Pointers, Stages, Sourced, GestureUp, Uninstalling, Main,
    Gesture, Ports, Sessions, Tap, ownerVars, portVars
<1>1. CASE UNCHANGED <<owner, part, session, attached>>
  BY <1>1
<1>2. CASE Install
  BY <1>2 DEF Install, CreateTap, AttachTap, CreateGesture, GestureFails,
     StartWatchdog, WatchdogFails, InstallWake, WakeFails
<1>3. CASE Release
  <2>1. CASE RemoveSource
    BY <2>1, SMTT(60) DEF RemoveSource
  <2>2. CASE FreeTap
    BY <2>2, SMTT(60) DEF FreeTap
  <2>3. CASE Drain \/ ClearPointer \/ DisableAgain
    BY <2>3 DEF Drain, ClearPointer, DisableAgain
  <2>4. CASE Disable \/ ClearObserved \/ DisableGesture \/ CancelWatchdog
             \/ NoHealers \/ JoinWatchdog \/ RemoveWake
    BY <2>4 DEF Disable, ClearObserved, DisableGesture, CancelWatchdog, NoHealers,
       JoinWatchdog, RemoveWake
  <2> QED
    BY <1>3, <2>1, <2>2, <2>3, <2>4 DEF Release
<1>4. CASE ~Install /\ ~Release
  BY <1>1, <1>4 DEF Next, KernelDisables, KernelRefuses, CallbackLoads,
     CallbackEnables, CallbackRechecks, DrainBlockRuns, Probe, ProbeStarts,
     ProbeReenables, ProbeLooks, ProbeRechecks, CancelHandler, WakeLoads,
     WakeEnables, WakeReenables, vars
<1> QED
  BY <1>2, <1>3, <1>4

LEMMA BlocksStep ==
  ASSUME BaseInv, Blocks, [Next]_vars
  PROVE  Blocks'
<1> USE DEF BaseInv, TypeOK, Pointers, Blocks, GestureUp, Uninstalling, Main, Gesture,
    NoPort, Ports, Pointer, Sessions, Healer, Idle, ReenableLoads
<1>1. CASE WakeLoads
  BY <1>1 DEF WakeLoads
<1>2. CASE WakeEnables
  BY <1>2 DEF WakeEnables
<1>3. CASE WakeReenables
  <2>1. CASE block.at = "gesture"
    BY <1>3, <2>1 DEF WakeReenables
  <2>2. CASE block.at \in {"loaded", "enabled"}
    BY <1>3, <2>2 DEF WakeReenables
  <2> QED
    BY <1>3, <2>1, <2>2 DEF WakeReenables
<1>4. CASE UNCHANGED block
  BY <1>4
<1>5. CASE ~WakeLoads /\ ~WakeEnables /\ ~WakeReenables
  BY <1>4, <1>5 DEF Next, KernelDisables, KernelRefuses, CallbackLoads,
     CallbackEnables, CallbackRechecks, DrainBlockRuns, Probe, ProbeStarts,
     ProbeReenables, ProbeLooks, ProbeRechecks, CancelHandler, Install, CreateTap,
     AttachTap, CreateGesture, GestureFails, StartWatchdog, WatchdogFails, InstallWake,
     WakeFails, Release, Disable, ClearObserved, DisableGesture, CancelWatchdog,
     NoHealers, JoinWatchdog, RemoveWake, RemoveSource, Drain, ClearPointer,
     DisableAgain, FreeTap, wakeVars, vars
<1> QED
  BY <1>1, <1>2, <1>3, <1>5

\* A tap whose pointer is published has its source, or its owner has not
\* attached it yet or is about to clear the pointer.
LEMMA PublishedIsServed ==
  ASSUME BaseInv, Sourced, NEW p \in {Main, Gesture}, current[p[1]] # NoPort
  PROVE  \/ attached[p]
         \/ p = Main /\ owner = "created"
         \/ p = Tap /\ owner \in {"drain", "clear"}
<1>1. CASE p = Main
  <2>1. owner # "off" /\ ~(owner \in {"offAgain", "free"} /\ part = "main")
    BY <1>1 DEF BaseInv, Pointers, Main
  <2> QED
    BY <1>1, <2>1 DEF Sourced, Main, Tap, Uninstalling
<1>2. CASE p = Gesture
  <2>1. GestureUp /\ owner \notin {"offAgain", "free"}
    BY <1>2 DEF BaseInv, Pointers, Gesture
  <2> QED
    BY <1>2, <2>1 DEF Sourced, GestureUp, Gesture, Tap, Uninstalling
<1> QED
  BY <1>1, <1>2

LEMMA DetachedStep ==
  ASSUME BaseInv, TurnInv, Blocks, Sourced, Detached, [Next]_vars
  PROVE  Detached'
<1> USE DEF BaseInv, TypeOK, Counted, Pointers, Stages, Probing, Callbacks, Blocks,
    Sourced, Detached, Reason, WakeMayRevive,
    GestureUp, OwnerHas, Watching, WatchdogHas, Uninstalling, Main, Gesture, NoPort,
    Ports, Pointer, Sessions, Healer, Idle, Tap, SwitchOn, SwitchOff,
    ReenableLoads, ReenableRechecks, ownerVars, portVars, watchVars, wakeVars, kernelVars
<1>1. CASE KernelDisables
  BY <1>1, SMTT(60) DEF KernelDisables
<1>2. CASE KernelRefuses
  BY <1>2, SMTT(60) DEF KernelRefuses
<1>3. CASE CallbackLoads
  BY <1>3, SMTT(60) DEF CallbackLoads
<1>4. CASE CallbackEnables
  BY <1>4, SMTT(60) DEF CallbackEnables
<1>5. CASE CallbackRechecks
  <2>1. /\ worker.tap \in {Main, Gesture} /\ worker.tap \in Ports
        /\ worker.at = "enabled"
    BY <1>5 DEF CallbackRechecks
  <2>2. CASE current[worker.tap[1]] = NoPort
    BY <1>5, <2>1, <2>2, SMTT(60) DEF CallbackRechecks
  <2>3. CASE current[worker.tap[1]] # NoPort
    <3>1. \/ attached[worker.tap]
          \/ worker.tap = Main /\ owner = "created"
          \/ worker.tap = Tap /\ owner \in {"drain", "clear"}
      BY <2>1, <2>3, PublishedIsServed
    <3>2. UNCHANGED <<enabled, attached, owner, part, session, probe, watchdog, block,
                      ownerOnMain>>
      BY <1>5, <2>3 DEF CallbackRechecks
    <3> QED
      BY <2>1, <3>1, <3>2, SMTT(60)
  <2> QED
    BY <2>2, <2>3
<1>6. CASE DrainBlockRuns
  BY <1>6, SMTT(60) DEF DrainBlockRuns
<1>7. CASE ProbeStarts
  BY <1>7, SMTT(60) DEF ProbeStarts
<1>8. CASE ProbeReenables
  BY <1>8, SMTT(60) DEF ProbeReenables
<1>9. CASE ProbeLooks
  BY <1>9, SMTT(60) DEF ProbeLooks
<1>10. CASE ProbeRechecks
  BY <1>10, SMTT(60) DEF ProbeRechecks
<1>11. CASE CancelHandler
  BY <1>11, SMTT(60) DEF CancelHandler
<1>12. CASE WakeLoads
  BY <1>12, SMTT(60) DEF WakeLoads
<1>13. CASE WakeEnables
  <2>1. block.tap[1] = "main" /\ \A p \in Ports : enabled'[p] => enabled[p] \/ p = block.tap
    BY <1>13 DEF WakeEnables
  <2>2. ownerOnMain => block.tap = Main /\ attached[Main]
    BY <1>13 DEF WakeEnables, TurnInv, Waking
  <2> QED
    BY <1>13, <2>1, <2>2, SMTT(60) DEF WakeEnables
<1>14. CASE WakeReenables
  BY <1>14, SMTT(60) DEF WakeReenables
<1>15. CASE CreateTap
  BY <1>15, SMTT(60) DEF CreateTap
<1>16. CASE AttachTap
  BY <1>16, SMTT(60) DEF AttachTap
<1>17. CASE CreateGesture
  BY <1>17, SMTT(60) DEF CreateGesture
<1>18. CASE GestureFails
  BY <1>18, SMTT(60) DEF GestureFails
<1>19. CASE StartWatchdog
  BY <1>19, SMTT(60) DEF StartWatchdog
<1>20. CASE WatchdogFails
  BY <1>20, SMTT(60) DEF WatchdogFails
<1>21. CASE InstallWake
  BY <1>21, SMTT(60) DEF InstallWake
<1>22. CASE WakeFails
  BY <1>22, SMTT(60) DEF WakeFails
<1>23. CASE Disable
  BY <1>23, SMTT(60) DEF Disable
<1>24. CASE ClearObserved
  BY <1>24, SMTT(60) DEF ClearObserved
<1>25. CASE DisableGesture
  BY <1>25, SMTT(60) DEF DisableGesture
<1>26. CASE CancelWatchdog
  BY <1>26, SMTT(60) DEF CancelWatchdog
<1>27. CASE NoHealers
  BY <1>27, SMTT(60) DEF NoHealers
<1>28. CASE JoinWatchdog
  BY <1>28, SMTT(60) DEF JoinWatchdog
<1>29. CASE RemoveWake
  BY <1>29, SMTT(60) DEF RemoveWake
<1>30. CASE RemoveSource
  BY <1>30, SMTT(60) DEF RemoveSource
<1>31. CASE Drain
  BY <1>31, SMTT(60) DEF Drain
<1>32. CASE ClearPointer
  BY <1>32, SMTT(60) DEF ClearPointer
<1>33. CASE DisableAgain
  BY <1>33, SMTT(60) DEF DisableAgain
<1>34. CASE FreeTap
  BY <1>34, SMTT(60) DEF FreeTap
<1>35. CASE UNCHANGED vars
  BY <1>35 DEF vars
<1> QED
  BY <1>1, <1>2, <1>3, <1>4, <1>5, <1>6, <1>7, <1>8, <1>9, <1>10, <1>11, <1>12,
     <1>13, <1>14, <1>15, <1>16, <1>17, <1>18, <1>19, <1>20, <1>21, <1>22, <1>23,
     <1>24, <1>25, <1>26, <1>27, <1>28, <1>29, <1>30, <1>31, <1>32, <1>33, <1>34,
     <1>35 DEF Next, Probe, Install, Release

\* No tap is on without a source to serve it, while a session is up or after
\* it, once the callbacks, the probe and the wake block have finished: whoever
\* switched a tap on behind the owner's back looks at the pointer again, or the
\* second CGEventTapEnable(false) of the uninstall comes after him.  The one
\* exception is the main tap in a watcher (WakeMayRevive).
THEOREM NoDetachedTapIsOn == Spec => []DetachedTapsAreOff
<1>1. Init => Sourced /\ Blocks /\ Detached
  BY DEF Init, Sourced, Blocks, Detached, GestureUp, Uninstalling, Idle
<1>2. BaseInv /\ TurnInv /\ Sourced /\ Blocks /\ Detached /\ [Next]_vars
      => Sourced' /\ Blocks' /\ Detached'
  BY SourcedStep, BlocksStep, DetachedStep
<1>3. BaseInv /\ Detached => DetachedTapsAreOff
  BY DEF Detached, Reason, DetachedTapsAreOff
<1> QED
  BY <1>1, <1>2, <1>3, BaseInvariance, TurnInvariance, PTL DEF Spec
=============================================================================
