-------------------------- MODULE SessionLifecycle --------------------------
(***************************************************************************)
(* The threads of one dndmode process from the start of runSession (Step   *)
(* 12) to its exit: who raises the shield, who takes it down, and who      *)
(* waits for whom.                                                         *)
(*                                                                         *)
(*   the main thread   runs [NSApp run], which serves the main queue;      *)
(*   the session       runs Steps 12 to 19 and the LIFO cleanup: on the    *)
(*                     main thread in a one-shot run, on a goroutine of    *)
(*                     its own, once per press, in watch mode;             *)
(*   the supervisor    turns an unlock, a watchdog trip or a cancelled     *)
(*                     context into the cancellation of the session;       *)
(*   the watchdog      latches that the tap is dead, then forwards it.     *)
(*                                                                         *)
(* A context is the flag that it is cancelled: root, and session for the   *)
(* child that a watch session runs under (in a one-shot run the two are    *)
(* one).  AppKit must be called on the main thread: dispatchMainSync runs  *)
(* the call at once on that thread, and otherwise queues it and waits.     *)
(* RunApp has a goroutine of its own that stops the loop when root is      *)
(* cancelled: once, and possibly before [NSApp run] has been entered.      *)
(* What peers do to a session is in PublishProtocol and what a kill leaves *)
(* behind in CrashRestore; here the process is alone.                      *)
(***************************************************************************)
EXTENDS Naturals, Sequences

CONSTANTS
  Modes,        \* values of --watch that are considered
  MaxPresses,   \* bound on the presses of the activation hot key
  MayStopEarly, \* modes in which a stop may arrive while a session is starting
  MayQuit,      \* modes in which [NSApp run] may return on its own (an NSException)
  MayPanic      \* modes in which a session may panic before its shield is up

ASSUME ModeAssumption ==
  {Modes, MayStopEarly, MayQuit, MayPanic} \subseteq SUBSET BOOLEAN
ASSUME BoundAssumption == MaxPresses \in Nat

VARIABLES
  watch,    \* --watch: sessions have a goroutine of their own
  main,     \* the main thread: before RunApp, in it, past it, or the end
  stop,     \* [NSApp stop:] as RunApp's goroutine issues it, once
  queue,    \* the main queue
  reply,    \* what the awaited call on the main thread has returned
  step,     \* the step the session is at
  held,     \* the RestoreState's releasers, in the order of their Push
  live,     \* the effects in place: those the releasers undo
  root,     \* the process's context is cancelled
  session,  \* the session's context is cancelled
  sup,      \* the supervisor goroutine
  trigger,  \* the supervisor's exitTrigger, capacity one, with its sender
  cause,    \* what made the supervisor stop the session
  watchdog, \* the watchdog: "tripped" is latched, "sent" is forwarded
  code,     \* the exit code of the session
  press,    \* the hot key's channel, capacity one, with when it was pressed
  presses   \* number of presses so far

loop == <<main, stop>>
threads == <<loop, queue, reply>>
stopping == <<root, session, sup, trigger, cause, watchdog>>
hotkey == <<watch, press, presses>>
vars == <<threads, step, held, live, stopping, code, hotkey>>

\* What outlives the process; the rest goes with it.
Persistent == {"file", "silence"}
Effects == Persistent \cup {"assertion", "windows", "tap"}

Init ==
  /\ watch \in Modes
  /\ main = IF watch THEN "entering" ELSE "start"
  /\ stop = IF watch THEN "armed" ELSE "none"
  /\ queue = <<>>
  /\ reply = "none"
  /\ step = IF watch THEN "waiting" ELSE "acquire"
  /\ held = IF watch THEN <<>> ELSE <<"file">>
  /\ live = {}
  /\ root = FALSE /\ session = FALSE
  /\ sup = "none" /\ trigger = "none" /\ cause = "none"
  /\ watchdog = "watching"
  /\ code = 0
  /\ press = "none" /\ presses = 0

Over == main \in {"exited", "dead"}
Cancelled == root \/ session
Cancel == IF watch THEN session' = TRUE /\ UNCHANGED root
                   ELSE root' = TRUE /\ UNCHANGED session

Acquired(effect) == live' = live \cup {effect}
Push(releaser) == held' = Append(held, releaser)

-----------------------------------------------------------------------------
(* The session *)

\* Mutant of WaitForPress: the watch loop only waits for the hot key.
WaitForPressOnly ==
  /\ step = "waiting"
  /\ press # "none"
  /\ press' = "none"
  /\ \/ step' = "waiting" /\ UNCHANGED <<held, session>>
     \/ step' = "acquire" /\ held' = <<"file">> /\ session' = FALSE
  /\ UNCHANGED <<threads, live, root, sup, trigger, cause, watchdog, code, watch, presses>>

\* The watch loop's select: the context is done, or a press starts a session
\* unless the context is done by now or the config is unusable.
WaitForPress ==
  /\ step = "waiting"
  /\ \/ /\ root
        /\ step' = "over"
        /\ UNCHANGED <<held, session, press>>
     \/ /\ press # "none"
        /\ press' = "none"
        /\ \/ root /\ step' = "over" /\ UNCHANGED <<held, session>>
           \/ ~root /\ step' = "waiting" /\ UNCHANGED <<held, session>>
           \/ /\ ~root
              /\ step' = "acquire"
              /\ held' = <<"file">>
              /\ session' = FALSE
  /\ UNCHANGED <<threads, live, root, sup, trigger, cause, watchdog, code, watch, presses>>

\* A step of runSession that returns an error: the cleanup runs.
Fail == step' = "cleanup" /\ code' = 2

\* Mutant of Acquire: a failed start returns without the deferred Cleanup.
AcquireNoCleanup ==
  /\ step = "acquire"
  /\ \/ Acquired("assertion") /\ Push("assertion") /\ step' = "publish"
     \/ Acquired("assertion") /\ UNCHANGED held
        /\ step' = IF watch THEN "waiting" ELSE "over"
  /\ UNCHANGED <<threads, stopping, code, hotkey>>

\* Step 13: the awake-lock.
Acquire ==
  /\ step = "acquire"
  /\ \/ /\ Acquired("assertion")
        /\ Push("assertion")
        /\ step' = "publish"
        /\ UNCHANGED code
     \/ Fail /\ UNCHANGED <<live, held>>
  /\ UNCHANGED <<threads, stopping, hotkey>>

\* Step 13.3: runtime.json; its releaser is on the stack already.
Publish ==
  /\ step = "publish"
  /\ \/ /\ Acquired("file")
        /\ step' = "silence"
        /\ UNCHANGED code
     \/ Fail /\ UNCHANGED live
  /\ UNCHANGED <<threads, held, stopping, hotkey>>

\* Step 13.7: Focus and audio, if configured; a failure stops nothing.
Silence ==
  /\ step = "silence"
  /\ \/ /\ live' \in {live, live \cup {"silence"}}
        /\ Push("silence")
     \/ UNCHANGED <<live, held>>
  /\ step' = "init"
  /\ UNCHANGED <<threads, stopping, code, hotkey>>

\* dispatchMainSync off the main thread: the call is queued, and awaited.
Dispatch(call) ==
  /\ watch
  /\ queue' = Append(queue, call)
  /\ reply' = "awaited"

\* Step 14: cocoa.Init; in watch mode it has run before and cannot fail.
InitApp ==
  /\ step = "init"
  /\ \/ Dispatch("init") /\ step' = "initializing" /\ UNCHANGED code
     \/ ~watch /\ step' = "windows" /\ UNCHANGED <<queue, reply, code>>
     \/ ~watch /\ Fail /\ UNCHANGED <<queue, reply>>
  /\ UNCHANGED <<loop, held, live, stopping, hotkey>>

\* Step 15: the overlay windows, on the main thread.
CreateWindows ==
  /\ step = "windows"
  /\ \/ Dispatch("create") /\ step' = "creating" /\ UNCHANGED <<live, held, code>>
     \/ /\ ~watch
        /\ Acquired("windows") /\ Push("windows")
        /\ step' = "supervise"
        /\ UNCHANGED <<queue, reply, code>>
     \/ ~watch /\ Fail /\ UNCHANGED <<queue, reply, live, held>>
  /\ UNCHANGED <<loop, stopping, hotkey>>

\* The rendezvous: the awaited call has returned.
Rendezvous ==
  /\ reply \in {"done", "failed"}
  /\ \/ /\ step = "initializing"
        /\ step' = "windows"
        /\ UNCHANGED <<held, code>>
     \/ /\ step = "creating" /\ reply = "done"
        /\ Push("windows")
        /\ step' = "supervise"
        /\ UNCHANGED code
     \/ /\ step = "creating" /\ reply = "failed"
        /\ Fail
        /\ UNCHANGED held
  /\ reply' = "none"
  /\ UNCHANGED <<loop, queue, live, stopping, hotkey>>

\* Step 16: a supervisor of its own for every session.
Supervise ==
  /\ step = "supervise"
  /\ sup' = "running"
  /\ trigger' = "none" /\ cause' = "none"
  /\ step' = "tap"
  /\ UNCHANGED <<threads, held, live, root, session, watchdog, code, hotkey>>

\* Step 17: InstallAll; StartWatchdog resets the latch.
InstallTap ==
  /\ step = "tap"
  /\ \/ /\ Acquired("tap")
        /\ Push("tap")
        /\ watchdog' = "watching"
        /\ step' = "armed"
        /\ UNCHANGED code
     \/ Fail /\ UNCHANGED <<live, held, watchdog>>
  /\ UNCHANGED <<threads, root, session, sup, trigger, cause, hotkey>>

\* Step 19: a one-shot run calls RunApp, which starts the goroutine that will
\* stop the loop and looks at no context; a watch session only waits.
Enter ==
  /\ step = "armed"
  /\ IF watch THEN step' = "join" /\ UNCHANGED loop
              ELSE step' = "active" /\ main' = "entering" /\ stop' = "armed"
  /\ UNCHANGED <<queue, reply, held, live, stopping, code, hotkey>>

\* Mutant of Join: the watchdog's latch is not looked at.
JoinAlwaysOK ==
  /\ step = "join"
  /\ sup = "done"
  /\ code' = 0
  /\ step' = "cleanup"
  /\ UNCHANGED <<threads, held, live, stopping, hotkey>>

\* sup.Wait returns; the watchdog's latch tells the exit codes apart.
Join ==
  /\ step = "join"
  /\ sup = "done"
  /\ code' = IF watchdog = "watching" THEN 0 ELSE 4
  /\ step' = "cleanup"
  /\ UNCHANGED <<threads, held, live, stopping, hotkey>>

\* Mutant of Release: Cleanup releases in the order of the pushes.
ReleaseInOrder ==
  /\ step = "cleanup"
  /\ held # <<>>
  /\ held' = Tail(held)
  /\ IF Head(held) = "windows" /\ watch
     THEN queue' = Append(queue, "close") /\ UNCHANGED live
     ELSE live' = live \ {Head(held)} /\ UNCHANGED queue
  /\ UNCHANGED <<loop, reply, step, stopping, code, hotkey>>

\* RestoreState.Cleanup: the releaser pushed last goes first.  Off the main
\* thread the controller's Release only queues the closing of its windows.
Release ==
  /\ step = "cleanup"
  /\ held # <<>>
  /\ LET last == held[Len(held)] IN
       IF last = "windows" /\ watch
       THEN queue' = Append(queue, "close") /\ UNCHANGED live
       ELSE live' = live \ {last} /\ UNCHANGED queue
  /\ held' = SubSeq(held, 1, Len(held) - 1)
  /\ UNCHANGED <<loop, reply, step, stopping, code, hotkey>>

\* The session is over: its context is cancelled, which ends a supervisor
\* nobody waited for; the watch loop goes on, a one-shot run returns.
EndSession ==
  /\ step = "cleanup"
  /\ held = <<>>
  /\ IF watch THEN step' = "waiting" /\ session' = TRUE
              ELSE step' = "over" /\ UNCHANGED session
  /\ sup' = "none" /\ trigger' = "none" /\ cause' = "none"
  /\ UNCHANGED <<threads, held, live, root, watchdog, code, hotkey>>

Starting == {"acquire", "publish", "silence", "init", "windows", "supervise",
             "tap", "armed"}

\* A panic in runSession: run()'s defers unwind a one-shot run; on the
\* goroutine of a watch session no frame recovers and the process dies.
Panic ==
  /\ watch \in MayPanic
  /\ step \in Starting
  /\ IF watch
     THEN /\ main' = "dead"
          /\ live' = live \cap Persistent
          /\ UNCHANGED <<step, code>>
     ELSE /\ step' = "cleanup" /\ code' = 8
          /\ UNCHANGED <<main, live>>
  /\ UNCHANGED <<stop, queue, reply, held, stopping, hotkey>>

-----------------------------------------------------------------------------
(* The main thread *)

\* RunApp's call of [NSApp run].
EnterLoop ==
  /\ main = "entering"
  /\ main' = "running"
  /\ UNCHANGED <<stop, queue, reply, step, held, live, stopping, code, hotkey>>

\* RunApp's goroutine: the context is cancelled, so it stops the loop, once.
\* A stop ahead of [NSApp run] may be one that the loop never sees.
IssueStop ==
  /\ root
  /\ stop = "armed"
  /\ \/ main = "running" /\ stop' = "asked"
     \/ main = "entering" /\ stop' \in {"asked", "lost"}
  /\ UNCHANGED <<main, queue, reply, step, held, live, stopping, code, hotkey>>

\* [NSApp run] takes the next block off the main queue.
Serve ==
  /\ main = "running"
  /\ queue # <<>>
  /\ \/ /\ Head(queue) = "init"
        /\ reply' = "done" /\ UNCHANGED live
     \/ /\ Head(queue) = "create"
        /\ \/ reply' = "done" /\ Acquired("windows")
           \/ reply' = "failed" /\ UNCHANGED live
     \/ /\ Head(queue) = "close"
        /\ live' = live \ {"windows"} /\ UNCHANGED reply
  /\ queue' = Tail(queue)
  /\ UNCHANGED <<loop, step, held, stopping, code, hotkey>>

\* RunApp returns: the loop has seen the stop, or it has ended by itself, on
\* which a one-shot run requests a stop.
LeaveLoop ==
  /\ main = "running"
  /\ stop = "asked" \/ watch \in MayQuit
  /\ main' = "left"
  /\ IF watch THEN UNCHANGED <<step, root>>
              ELSE step' = "join" /\ root' = TRUE
  /\ UNCHANGED <<stop, queue, reply, held, live, session, sup, trigger, cause,
                 watchdog, code, hotkey>>

\* Mutant of Exit: the process does not wait for its session goroutine.
ExitAtOnce ==
  /\ main = "left"
  /\ watch \/ step = "over"
  /\ main' = "exited"
  /\ live' = live \cap Persistent
  /\ UNCHANGED <<stop, queue, reply, step, held, stopping, code, hotkey>>

\* sessions.Wait, and the end of the process with what the OS owns of it.
Exit ==
  /\ step = "over"
  /\ main \in IF watch THEN {"left"} ELSE {"start", "left"}
  /\ main' = "exited"
  /\ live' = live \cap Persistent
  /\ UNCHANGED <<stop, queue, reply, step, held, stopping, code, hotkey>>

-----------------------------------------------------------------------------
(* What ends a session *)

\* Mutant of SupervisorFires: run does not select on exitTrigger.
SupervisorDeaf ==
  /\ sup = "running"
  /\ Cancelled
  /\ cause' = "context" /\ UNCHANGED trigger
  /\ sup' = "done"
  /\ Cancel
  /\ UNCHANGED <<threads, step, held, live, watchdog, code, hotkey>>

\* Supervisor.run: any ready source; RequestStop cancels the context.
SupervisorFires ==
  /\ sup = "running"
  /\ \/ /\ trigger # "none"
        /\ cause' = trigger /\ trigger' = "none"
     \/ /\ Cancelled
        /\ cause' = "context" /\ UNCHANGED trigger
  /\ sup' = "done"
  /\ Cancel
  /\ UNCHANGED <<threads, step, held, live, watchdog, code, hotkey>>

\* A send that a full channel drops.
Send(sender) == trigger' = IF trigger = "none" THEN sender ELSE trigger

\* The poller has found the unlock code in the keystrokes.
Unlock ==
  /\ "tap" \in live /\ sup = "running"
  /\ Send("unlock")
  /\ UNCHANGED <<threads, step, held, live, root, session, sup, cause, watchdog,
                 code, hotkey>>

\* Five probes have failed: the latch first, then the send.
WatchdogTrips ==
  /\ "tap" \in live /\ watchdog = "watching"
  /\ watchdog' = "tripped"
  /\ UNCHANGED <<threads, step, held, live, root, session, sup, trigger, cause,
                 code, hotkey>>

WatchdogForwards ==
  /\ "tap" \in live /\ watchdog = "tripped"
  /\ watchdog' = "sent"
  /\ Send("watchdog")
  /\ UNCHANGED <<threads, step, held, live, root, session, sup, cause, code, hotkey>>

\* The --timer of a session, armed before the loop is entered (Step 17.9).
TimerExpires ==
  /\ step \in {"armed", "active", "join"}
  /\ Cancel
  /\ UNCHANGED <<threads, step, held, live, sup, trigger, cause, watchdog, code, hotkey>>

\* SIGINT, SIGTERM, SIGHUP; a second one is absorbed.
Signal ==
  /\ step \in {"waiting", "active", "join", "cleanup"} \/ watch \in MayStopEarly
  /\ ~root
  /\ root' = TRUE
  /\ UNCHANGED <<threads, step, held, live, session, sup, trigger, cause, watchdog,
                 code, hotkey>>

\* The activation hot key, delivered by the run loop while no tap is in front
\* of it; a press that is still unread absorbs the next one.
Press ==
  /\ watch
  /\ main = "running" /\ "tap" \notin live
  /\ presses < MaxPresses
  /\ presses' = presses + 1
  /\ press' = IF press # "none" THEN press
              ELSE IF step \in Starting \cup {"initializing", "creating"}
                   THEN "starting" ELSE "idle"
  /\ UNCHANGED <<threads, step, held, live, stopping, code, watch>>

SessionStep ==
  \/ WaitForPress \/ Acquire \/ Publish \/ Silence \/ InitApp \/ CreateWindows
  \/ Rendezvous \/ Supervise \/ InstallTap \/ Enter \/ Join \/ Release
  \/ EndSession

MainStep == EnterLoop \/ IssueStop \/ Serve \/ LeaveLoop \/ Exit

Next ==
  /\ ~Over
  /\ \/ SessionStep \/ MainStep \/ SupervisorFires \/ Panic
     \/ Unlock \/ WatchdogTrips \/ WatchdogForwards \/ TimerExpires
     \/ Signal \/ Press

Spec == Init /\ [][Next]_vars

\* Every thread that can go on does: none of these steps waits for the user.
\* The loop is fair to its queue, and to a stop that has reached it.
FairSpec ==
  /\ Spec
  /\ WF_vars(~Over /\ SessionStep)
  /\ WF_vars(~Over /\ Serve)
  /\ WF_vars(~Over /\ EnterLoop)
  /\ WF_vars(~Over /\ IssueStop)
  /\ WF_vars(~Over /\ stop = "asked" /\ LeaveLoop)
  /\ WF_vars(~Over /\ Exit)
  /\ WF_vars(~Over /\ SupervisorFires)
  /\ WF_vars(~Over /\ WatchdogForwards)

-----------------------------------------------------------------------------
(* Properties *)

\* Type invariant; the main thread runs the session of a one-shot run itself.
TypeOK ==
  /\ watch \in Modes
  /\ main \in {"start", "entering", "running", "left", "exited", "dead"}
  /\ stop \in {"none", "armed", "asked", "lost"}
  /\ ~watch => /\ queue = <<>>
               /\ main \in {"entering", "running"} <=> step = "active"
  /\ \A i \in DOMAIN queue : queue[i] \in {"init", "create", "close"}
  /\ reply \in {"none", "awaited", "done", "failed"}
  /\ step \in Starting \cup {"waiting", "initializing", "creating", "active",
                             "join", "cleanup", "over"}
  /\ \A i \in DOMAIN held : held[i] \in Effects
  /\ live \subseteq Effects
  /\ root \in BOOLEAN /\ session \in BOOLEAN
  /\ sup \in {"none", "running", "done"}
  /\ trigger \in {"none", "unlock", "watchdog"}
  /\ cause \in {"none", "unlock", "watchdog", "context"}
  /\ watchdog \in {"watching", "tripped", "sent"}
  /\ code \in {0, 2, 4, 8}
  /\ press \in {"none", "idle", "starting"}
  /\ presses \in 0..MaxPresses

\* While the input is held the session is visible to its peers, the machine is
\* kept awake and the screens are covered: the tap goes up last and comes down
\* first (the push order of runSession, RestoreState.Cleanup).
TapIsInnermost ==
  "tap" \in live => {"file", "assertion", "windows"} \subseteq live

\* A process that has ended has left nothing behind, on every path (run's
\* deferred Cleanup, the sessions.Wait of watch mode).
NothingLeftBehind == Over => live = {}

\* Between two sessions a watcher holds nothing, and the windows of the last
\* session are gone or about to go ("no shield, no tap, no assertion, no
\* runtime.json, no Focus").
WaitingHoldsNothing ==
  step = "waiting" /\ ~Over =>
    /\ live \subseteq {"windows"}
    /\ live # {} => \E i \in DOMAIN queue : queue[i] = "close"

\* A session that the watchdog has ended is never reported as a normal one: it
\* exits with 4, or 8 if it panicked on top (the latch is set before the send,
\* and read after sup.Wait).
WatchdogTripIsReported ==
  step = "cleanup" /\ cause = "watchdog" => code \in {4, 8}

\* The one stop of the loop has been issued ahead of [NSApp run], and dropped.
StopIsLost == stop = "lost"

\* Once a trigger is in the channel the input is given back, whatever else
\* the process is doing (Supervisor.run, the LIFO cleanup), unless the stop
\* that follows from it is lost ahead of the run loop of a one-shot run.
TriggerFreesInput ==
  trigger # "none" ~> "tap" \notin live \/ (StopIsLost /\ ~watch)

\* A process that was told to stop ends: a one-shot run that is starting, has
\* its shield up or whose run loop ends by itself, a watcher that waits or has
\* a shield up (Step 19, sessions.Wait).  It is not promised to one whose stop
\* is lost ahead of the run loop (MCLifeLostStop), nor to a watcher with a
\* session just starting (MCLifeStopEarly) or whose loop has ended (MCLifeQuit).
StopIsObeyed ==
  \/ ~watch /\ (root \/ main = "left")
  \/ root /\ step \in {"waiting", "join", "cleanup"}
  ~> Over \/ StopIsLost

\* A process that was told to stop, or whose run loop has ended, ends ("wait
\* on every path out", "every step in that chain is a local release"), unless
\* the stop is lost.
ShutdownCompletes == root \/ main = "left" ~> Over \/ StopIsLost

\* A process that was told to stop is never left with its shield up ("blocks on
\* [NSApp run] until ctx is cancelled"): without the exception for a lost stop.
CancelledRunsEnd == root ~> "tap" \notin live

\* A press while a session is starting does not start another one after it
\* (goGlobalHotkeyFired: "asking twice is asking once").
AskingTwiceIsAskingOnce ==
  [][step = "waiting" /\ step' = "acquire" => press # "starting"]_vars
=============================================================================
