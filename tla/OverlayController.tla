------------------------- MODULE OverlayController -------------------------
(***************************************************************************)
(* The shield's windows: cocoa.Controller, the screen observers, the main  *)
(* queue and the debounce timer, while displays come and go.               *)
(*                                                                         *)
(* The main thread runs the blocks of the main queue, one after another,   *)
(* while [NSApp run] runs.  A session creates a Controller, has it create  *)
(* the windows and releases it at its end: on the main thread in a         *)
(* one-shot run, on a goroutine of its own in watch mode, where what must  *)
(* happen on the main thread is queued (DispatchMain).  The debounce timer *)
(* fires on goroutines of its own.  A Controller's mutex is not a variable:*)
(* what the code does under it is one step here.                           *)
(*                                                                         *)
(* A window is its display and the geometry signature the set of displays  *)
(* it was computed from; moving or resizing a display is a change like     *)
(* plugging one.  What the system tells the observers is external code.    *)
(***************************************************************************)
EXTENDS Naturals, Sequences

CONSTANTS
  Modes,      \* whether --watch may be, and may not be, given
  Displays,   \* displays that may be attached
  Sessions,   \* bound on the number of sessions, one Controller each
  MaxChanges, \* bound on the changes of the attached displays
  MaxFails,   \* bound on the windows that cannot be built
  MaxEvents   \* bound on both together

ASSUME ModeAssumption == Modes \subseteq BOOLEAN
ASSUME BoundAssumption == {Sessions, MaxChanges, MaxFails, MaxEvents} \subseteq Nat

Controllers == 1..Sessions
NoController == 0
NoSig == {NoController}

VARIABLES
  watch,     \* --watch: Release and the timer run off the main thread
  attached,  \* the displays
  screens,   \* [NSScreen screens], which may lag behind
  changes,   \* number of changes so far
  observers, \* the screen observers are registered
  callback,  \* activeOnScreensChanged: a Controller or NoController
  queue,     \* the main queue: blocks of a kind and a Controller
  doing,     \* what the main thread is in the middle of
  loop,      \* [NSApp run] is running
  session,   \* the Controller of the current session
  step,      \* the step this session is at
  pushed,    \* Controllers on a RestoreState
  windows,   \* windows[c]: Controller.windows
  sig,       \* sig[c]: lastGeomSig, or NoSig without haveGeomSig
  hidden,    \* hidden[c]: cursorHidden
  latched,   \* latched[c]: leadingFired
  timer,     \* timer[c]: the debouncer is armed
  fired,     \* fired[c]: timer goroutines ahead of their critical section
  cleared,   \* cleared[c]: ... between it and their Dispatch
  foreground,\* the process is active and not at its at-rest policy
  cursor,    \* CGDisplayHideCursor calls not balanced by a show
  fails      \* number of failed creations so far

display == <<watch, attached, screens, changes>>
system == <<observers, callback, loop>>
controller == <<windows, sig, hidden, latched, timer, fired, cleared>>
look == <<foreground, cursor, fails>>
overlayVars == <<display, system, queue, doing, session, step, pushed, controller, look>>

Block(kind, c) == [kind |-> kind, c |-> c]
NoBlock == Block("idle", NoController)

OverlayInit ==
  /\ watch \in Modes
  /\ attached \in SUBSET Displays /\ screens = attached
  /\ changes = 0
  /\ observers = TRUE        \* cocoa.Init, once per process
  /\ callback = NoController
  /\ queue = <<>> /\ doing = NoBlock
  /\ loop = watch
  /\ session = NoController /\ step = "idle"
  /\ pushed = {}
  /\ windows = [c \in Controllers |-> {}]
  /\ sig = [c \in Controllers |-> NoSig]
  /\ hidden = [c \in Controllers |-> FALSE]
  /\ latched = [c \in Controllers |-> FALSE]
  /\ timer = [c \in Controllers |-> FALSE]
  /\ fired = [c \in Controllers |-> 0]
  /\ cleared = [c \in Controllers |-> 0]
  /\ foreground = FALSE /\ cursor = 0 /\ fails = 0

-----------------------------------------------------------------------------
(* The displays and the observers *)

\* Both observers post the same block; neither posts when unregistered.
Notify == queue' = IF observers THEN Append(queue, Block("event", NoController)) ELSE queue

\* The CGDisplay callback may come before [NSScreen screens] is updated.
Change ==
  /\ changes < MaxChanges /\ changes + fails < MaxEvents
  /\ changes' = changes + 1
  /\ attached' \in SUBSET Displays \ {attached}
  /\ Notify
  /\ UNCHANGED <<watch, screens, system, doing, session, step, pushed, controller, look>>

CatchUp ==
  /\ screens # attached
  /\ screens' = attached
  /\ Notify
  /\ UNCHANGED <<watch, attached, changes, system, doing, session, step,
                 pushed, controller, look>>

-----------------------------------------------------------------------------
(* reconcile and the closing of the windows, on the main thread *)

\* Mutant of Reconcile: the signature only counts the displays.
ReconcileByCount(c, cold) ==
  IF ~cold /\ sig[c] # NoSig /\ (sig[c] = {} <=> screens = {})
  THEN UNCHANGED <<windows, sig, hidden, look>>
  ELSE /\ sig' = [sig EXCEPT ![c] = screens]
       /\ windows' = [windows EXCEPT ![c] = screens]
       /\ hidden' = [hidden EXCEPT ![c] = @ \/ screens # {}]
       /\ foreground' = (foreground \/ screens # {})
       /\ cursor' = IF screens # {} /\ ~hidden[c] THEN cursor + 1 ELSE cursor
       /\ UNCHANGED fails

\* Mutant of Reconcile: the cursor is hidden again by every rebuild.
ReconcileHidesAgain(c, cold) ==
  IF ~cold /\ sig[c] = screens
  THEN UNCHANGED <<windows, sig, hidden, look>>
  ELSE /\ sig' = [sig EXCEPT ![c] = screens]
       /\ windows' = [windows EXCEPT ![c] = screens]
       /\ IF screens = {}
          THEN UNCHANGED <<hidden, foreground, cursor>>
          ELSE /\ hidden' = [hidden EXCEPT ![c] = TRUE]
               /\ foreground' = TRUE
               /\ cursor' = cursor + 1
       /\ UNCHANGED fails

\* All windows are rebuilt, unless the signature is that of the last rebuild.
\* The first windows of a session bring the process to the foreground and hide
\* the cursor.  A window that cannot be built takes the others with it.
Reconcile(c, cold) ==
  IF ~cold /\ sig[c] = screens
  THEN UNCHANGED <<windows, sig, hidden, look>>
  ELSE /\ sig' = [sig EXCEPT ![c] = screens]
       /\ \/ /\ windows' = [windows EXCEPT ![c] = screens]
             /\ IF screens = {} \/ hidden[c]
                THEN UNCHANGED <<hidden, foreground, cursor>>
                ELSE /\ hidden' = [hidden EXCEPT ![c] = TRUE]
                     /\ foreground' = TRUE
                     /\ cursor' = cursor + 1
             /\ UNCHANGED fails
          \/ /\ screens # {} /\ fails < MaxFails
             /\ changes + fails < MaxEvents
             /\ windows' = [windows EXCEPT ![c] = {}]
             /\ fails' = fails + 1
             /\ UNCHANGED <<hidden, foreground, cursor>>

\* Mutant of Close: the windows stay open.
CloseNothing(c) ==
  /\ observers' = FALSE
  /\ hidden' = [hidden EXCEPT ![c] = FALSE]
  /\ foreground' = (foreground /\ ~hidden[c])
  /\ cursor' = IF hidden[c] THEN cursor - 1 ELSE cursor
  /\ UNCHANGED windows

\* Release, steps 3 to 5: the observers go, the windows, the hidden cursor.
Close(c) ==
  /\ observers' = FALSE
  /\ windows' = [windows EXCEPT ![c] = {}]
  /\ hidden' = [hidden EXCEPT ![c] = FALSE]
  /\ IF hidden[c]
     THEN cursor' = cursor - 1 /\ foreground' = FALSE
     ELSE UNCHANGED <<cursor, foreground>>

-----------------------------------------------------------------------------
(* The main thread *)

\* A block that reconciles, and then the rest of CreateWindowsForAllScreens: a
\* Controller whose windows could not be created is not pushed, and ends a
\* one-shot run.
RunCreate(c) ==
  /\ Reconcile(c, TRUE)
  /\ IF fails' = fails
     THEN step' = "active" /\ pushed' = pushed \cup {c}
     ELSE step' = (IF watch THEN "idle" ELSE "over") /\ UNCHANGED pushed

\* [NSApp run] takes a block off the queue.  An event loads the callback.
Serve ==
  /\ loop /\ doing = NoBlock /\ queue # <<>>
  /\ queue' = Tail(queue)
  /\ LET c == Head(queue).c IN
     \/ /\ Head(queue).kind = "event"
        /\ doing' = IF callback = NoController THEN NoBlock ELSE Block("changed", callback)
        /\ UNCHANGED <<observers, step, pushed, windows, sig, hidden, look>>
     \/ /\ Head(queue).kind = "create"
        /\ RunCreate(c)
        /\ UNCHANGED <<observers, doing>>
     \/ /\ Head(queue).kind = "reconcile"
        /\ Reconcile(c, FALSE)
        /\ UNCHANGED <<observers, doing, step, pushed>>
     \/ /\ Head(queue).kind = "close"
        /\ Close(c)
        /\ UNCHANGED <<doing, step, pushed, sig, fails>>
  /\ UNCHANGED <<display, callback, loop, session, latched, timer, fired, cleared>>

\* onScreensChanged, under the mutex: the timer is armed anew; with no window
\* up the first event of a burst does not wait for it.
ScreensChanged ==
  /\ doing.kind = "changed"
  /\ LET c == doing.c
         leading == windows[c] = {} /\ ~latched[c] IN
       /\ latched' = [latched EXCEPT ![c] = @ \/ leading]
       /\ timer' = [timer EXCEPT ![c] = TRUE]
       /\ doing' = IF leading THEN Block("leading", c) ELSE NoBlock
  /\ UNCHANGED <<display, system, queue, session, step, pushed, windows, sig, hidden,
                 fired, cleared, look>>

\* The leading-edge reconcile; the latch is given back if it shows nothing.
LeadingEdge ==
  /\ doing.kind = "leading"
  /\ LET c == doing.c IN
       /\ Reconcile(c, FALSE)
       /\ latched' = [latched EXCEPT ![c] = @ /\ windows'[c] # {}]
  /\ doing' = NoBlock
  /\ UNCHANGED <<display, system, queue, session, step, pushed, timer, fired, cleared>>

-----------------------------------------------------------------------------
(* The timer *)

TimerExpires(c) ==
  /\ timer[c]
  /\ timer' = [timer EXCEPT ![c] = FALSE]
  /\ fired' = [fired EXCEPT ![c] = @ + 1]
  /\ UNCHANGED <<display, system, queue, doing, session, step, pushed, windows, sig,
                 hidden, latched, cleared, look>>

\* Mutant of TimerClears: the latch is left alone.
TimerClearsNothing(c) ==
  /\ fired[c] > 0
  /\ fired' = [fired EXCEPT ![c] = @ - 1]
  /\ cleared' = [cleared EXCEPT ![c] = @ + 1]
  /\ UNCHANGED <<display, system, queue, doing, session, step, pushed, windows, sig,
                 hidden, latched, timer, look>>

TimerClears(c) ==
  /\ fired[c] > 0
  /\ fired' = [fired EXCEPT ![c] = @ - 1]
  /\ latched' = [latched EXCEPT ![c] = FALSE]
  /\ cleared' = [cleared EXCEPT ![c] = @ + 1]
  /\ UNCHANGED <<display, system, queue, doing, session, step, pushed, windows, sig,
                 hidden, timer, look>>

\* A block that is queued past the end of [NSApp run] is never run.
TimerDispatches(c) ==
  /\ cleared[c] > 0
  /\ cleared' = [cleared EXCEPT ![c] = @ - 1]
  /\ queue' = Append(queue, Block("reconcile", c))
  /\ UNCHANGED <<display, system, doing, session, step, pushed, windows, sig, hidden,
                 latched, timer, fired, look>>

-----------------------------------------------------------------------------
(* The sessions *)

\* Step 15: NewController registers its callback.  In watch mode the creation
\* of the windows is queued, in a one-shot run it is done at once.
Begin ==
  /\ step = "idle" /\ session < Sessions
  /\ session' = session + 1
  /\ callback' = session'
  /\ IF watch
     THEN /\ queue' = Append(queue, Block("create", session'))
          /\ step' = "creating"
          /\ UNCHANGED <<pushed, windows, sig, hidden, look>>
     ELSE RunCreate(session') /\ UNCHANGED queue
  /\ UNCHANGED <<display, observers, loop, doing, latched, timer, fired, cleared>>

\* Step 19: a one-shot run enters [NSApp run].
EnterLoop ==
  /\ ~watch /\ ~loop
  /\ step = "active"
  /\ loop' = TRUE
  /\ step' = "up"
  /\ UNCHANGED <<display, observers, callback, queue, doing, session, pushed,
                 controller, look>>

\* The session ends; a one-shot run has left [NSApp run] by then.
End ==
  /\ IF watch THEN step = "active" /\ UNCHANGED loop
              ELSE step = "up" /\ doing = NoBlock /\ loop' = FALSE
  /\ step' = "stop"
  /\ UNCHANGED <<display, observers, callback, queue, doing, session, pushed,
                 controller, look>>

\* Release, step 1: a timer that has not expired never will.
StopTimer ==
  /\ step = "stop"
  /\ timer' = [timer EXCEPT ![session] = FALSE]
  /\ step' = "detach"
  /\ UNCHANGED <<display, system, queue, doing, session, pushed, windows, sig, hidden,
                 latched, fired, cleared, look>>

\* Release, step 2: setOnScreensChanged(nil).
Detach ==
  /\ step = "detach"
  /\ callback' = NoController
  /\ step' = "close"
  /\ UNCHANGED <<display, observers, loop, queue, doing, session, pushed, controller,
                 look>>

\* Release, steps 3 to 5, inline on the main thread and queued off it.
CloseWindows ==
  /\ step = "close"
  /\ IF watch
     THEN /\ queue' = Append(queue, Block("close", session))
          /\ UNCHANGED <<observers, windows, hidden, foreground, cursor>>
     ELSE Close(session) /\ UNCHANGED queue
  /\ step' = IF watch THEN "idle" ELSE "over"
  /\ UNCHANGED <<display, callback, loop, doing, session, pushed, sig, latched, timer,
                 fired, cleared, fails>>

TimerStep(c) == TimerExpires(c) \/ TimerClears(c) \/ TimerDispatches(c)
MainStep == Serve \/ ScreensChanged \/ LeadingEdge

OverlayNext ==
  \/ Change \/ CatchUp \/ MainStep
  \/ \E c \in Controllers : TimerStep(c)
  \/ Begin \/ EnterLoop \/ End \/ StopTimer \/ Detach \/ CloseWindows

OverlaySpec == OverlayInit /\ [][OverlayNext]_overlayVars

\* The system tells of every change, the run loop serves its queue and timers
\* expire; nothing makes a display change, a session start or a session end.
OverlayFairSpec ==
  /\ OverlaySpec
  /\ WF_overlayVars(CatchUp)
  /\ WF_overlayVars(MainStep)
  /\ WF_overlayVars(EnterLoop)
  /\ \A c \in Controllers : WF_overlayVars(TimerStep(c))

-----------------------------------------------------------------------------
(* Properties *)

\* Type invariant.
OverlayTypeOK ==
  /\ watch \in Modes
  /\ attached \subseteq Displays /\ screens \subseteq Displays
  /\ changes \in 0..MaxChanges /\ fails \in 0..MaxFails
  /\ observers \in BOOLEAN /\ loop \in BOOLEAN /\ foreground \in BOOLEAN
  /\ callback \in {NoController, session}
  /\ queue \in Seq([kind : {"create", "reconcile", "close"}, c : Controllers]
                  \cup {Block("event", NoController)})
  /\ doing \in [kind : {"changed", "leading"}, c : Controllers] \cup {NoBlock}
  /\ session \in Controllers \cup {NoController}
  /\ step \in {"idle", "creating", "active", "up", "stop", "detach", "close", "over"}
  /\ pushed \subseteq Controllers
  /\ windows \in [Controllers -> SUBSET Displays]
  /\ sig \in [Controllers -> {NoSig} \cup SUBSET Displays]
  /\ hidden \in [Controllers -> BOOLEAN] /\ latched \in [Controllers -> BOOLEAN]
  /\ timer \in [Controllers -> BOOLEAN]
  /\ fired \in [Controllers -> Nat] /\ cleared \in [Controllers -> Nat]
  /\ cursor \in 0..Sessions

Shielding == step \in {"active", "up"}

\* When no session is up and none is being taken down, no window covers a
\* screen, the cursor is back and the process in the background (Release).
NoShieldBetweenSessions ==
  /\ step \in {"idle", "over"} /\ doing = NoBlock
  /\ \A i \in DOMAIN queue : queue[i].kind # "close"
  => (\A c \in Controllers : windows[c] = {}) /\ cursor = 0 /\ ~foreground

\* The same of a one-shot run, where Release runs on the main thread.
OneShotLeavesNoShield == ~watch => NoShieldBetweenSessions

\* A Controller whose creation failed puts up no windows later on ("a session
\* that cannot start leaves watch mode waiting for the next press").
FailedStartRaisesNothing ==
  \A c \in 1..session :
    c \notin pushed /\ ~(c = session /\ step = "creating") => windows[c] = {}

\* The hidden cursor is counted by the system: it is hidden once for each
\* Controller that has windows up, and given back with them (cursorHidden).
CursorFollowsShield ==
  \A c \in Controllers :
    /\ windows[c] # {} => hidden[c]
    /\ hidden[c] /\ (\A d \in Controllers \ {c} : ~hidden[d]) => cursor = 1
    /\ (\A d \in Controllers : ~hidden[d]) => cursor = 0

\* The latch of the leading edge is held only while something is going to
\* give it back, so that after any burst the next one is answered at once
\* while nothing is shielded (leadingFired).
LeadingEdgeRecovers ==
  \A c \in Controllers :
    latched[c] /\ Shielding /\ c = session =>
      timer[c] \/ fired[c] > 0 \/ doing = Block("leading", c)

\* Whatever is plugged or unplugged, the displays end up covered while the
\* session lasts ("the shield paints itself as soon as a display comes back").
DisplaysGetCovered == Shielding ~> ~Shielding \/ windows[session] = attached

\* The same of a one-shot run, as long as every window could be built.
OneShotCoversDisplays ==
  ~watch =>
    (Shielding ~> ~Shielding \/ windows[session] = attached \/ fails > 0)

\* A rebuild that failed is tried again by the next event that reaches
\* reconcile ("runtime hot-plug logs and waits for next event").
FailedRebuildIsRetried ==
  [][LET ran == IF doing.kind = "leading" /\ doing' = NoBlock THEN doing
                ELSE IF Len(queue') < Len(queue) /\ Head(queue).kind = "reconcile"
                     THEN Head(queue) ELSE NoBlock IN
     ran # NoBlock /\ Shielding /\ screens # {} =>
       windows'[ran.c] # {} \/ fails' > fails]_overlayVars
=============================================================================
