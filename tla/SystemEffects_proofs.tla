------------------------ MODULE SystemEffects_proofs ------------------------
(***************************************************************************)
(* Proofs about what a session takes from the system and has to give back: *)
(* the shield's windows and the hidden cursor (OverlayController), and the *)
(* power assertion (PowerAssertions).  The two modules share no variable;  *)
(* the first part is about OverlaySpec, the second about Spec.             *)
(*                                                                         *)
(* The overlay, for every number of displays, sessions, changes and        *)
(* failures and in both modes: CursorInv counts the hidden cursor,         *)
(* QueueInv says that a queued creation is the one the session waits for,  *)
(* LatchInv who is going to give the latch of the leading edge back, and   *)
(* OneShotInv what a run without --watch, all of it on the main thread,    *)
(* can find in its queue and its timers.                                   *)
(*                                                                         *)
(* The power assertion, for every set of runs, PIDs and callers, and for   *)
(* every Cap: that the scan is cut off never costs a live run its entry.   *)
(* ScanInv says what a run knows of the owners of the entries it has       *)
(* looked at, ReleaseInv how the flag, the mutex and the outcome of an     *)
(* Assertion go together.                                                  *)
(***************************************************************************)
EXTENDS OverlayController, PowerAssertions, FiniteSetTheorems, TLAPS

-----------------------------------------------------------------------------
(* The windows and the cursor. *)

QueueBlock ==
    [kind : {"create", "reconcile", "close"}, c : Controllers]
        \cup {Block("event", NoController)}

Hidden == {c \in Controllers : hidden[c]}

\* The system's count is the number of Controllers that hide the cursor.
CursorInv ==
    /\ cursor = Cardinality(Hidden)
    /\ \A c \in Controllers : windows[c] # {} => hidden[c]

\* A queued creation is the only one, and the session waits for it; what the
\* main thread is in the middle of belongs to a session that has begun.
QueueInv ==
    /\ \A i \in 1..Len(queue) : queue[i].kind = "create" =>
           watch /\ step = "creating" /\ queue[i].c = session
    /\ \A i, j \in 1..Len(queue) :
           queue[i].kind = "create" /\ queue[j].kind = "create" => i = j
    /\ doing # NoBlock => doing.c \in 1..session
    /\ step # "idle" => session # NoController

\* The steps of a session whose timer has been stopped.
Ending == {"detach", "close", "idle", "over"}

\* A latch is held for a timer, or for a session that is past.
LatchInv ==
    \A c \in Controllers : latched[c] =>
        /\ c <= session
        /\ timer[c] \/ fired[c] > 0 \/ c < session \/ step \in Ending

\* A run without --watch has one session, whose windows go up and down on the
\* main thread outside [NSApp run]: only events and rebuilds are ever queued.
OneShotInv ==
    ~watch =>
        /\ step # "creating"
        /\ loop <=> step = "up"
        /\ step # "up" => doing = NoBlock
        /\ step = "idle" <=> session = NoController
        /\ foreground <=> Hidden # {}
        /\ step \in {"idle", "over"} => Hidden = {}
        /\ doing # NoBlock => doing.c = session
        /\ \A i \in 1..Len(queue) :
               queue[i] \in {Block("event", NoController), Block("reconcile", session)}
        /\ \A c \in Controllers \ {session} :
               ~hidden[c] /\ ~timer[c] /\ fired[c] = 0 /\ cleared[c] = 0

-----------------------------------------------------------------------------
LEMMA ControllersAreFew ==
  ASSUME NEW S \in SUBSET Controllers
  PROVE  IsFiniteSet(S) /\ Cardinality(S) \in 0..Sessions
<1>1. Sessions \in Nat
  BY BoundAssumption
<1>2. IsFiniteSet(Controllers) /\ Cardinality(Controllers) = Sessions
  BY <1>1, FS_Interval DEF Controllers
<1> QED
  BY <1>1, <1>2, FS_Subset, FS_CardinalityType

LEMMA QueueTyped ==
  ASSUME OverlayTypeOK
  PROVE  /\ queue \in Seq(QueueBlock)
         /\ queue # <<>> => /\ Head(queue) \in QueueBlock
                            /\ Tail(queue) \in Seq(QueueBlock)
                            /\ Head(queue).kind # "event" => Head(queue).c \in Controllers
<1>1. queue \in Seq(QueueBlock)
  BY DEF OverlayTypeOK, QueueBlock
<1>2. ASSUME queue # <<>>
      PROVE  Head(queue) \in QueueBlock /\ Tail(queue) \in Seq(QueueBlock)
  BY <1>1, <1>2
<1>3. \A b \in QueueBlock : b.kind # "event" => b.c \in Controllers
  BY DEF QueueBlock, Block
<1> QED
  BY <1>1, <1>2, <1>3

LEMMA DoingTyped ==
  ASSUME OverlayTypeOK
  PROVE  /\ doing.kind = "idle" <=> doing = NoBlock
         /\ doing # NoBlock => doing.kind \in {"changed", "leading"}
                               /\ doing.c \in Controllers
<1>1. doing = NoBlock \/ doing \in [kind : {"changed", "leading"}, c : Controllers]
  BY DEF OverlayTypeOK
<1>2. NoBlock.kind = "idle"
  BY DEF NoBlock, Block
<1> QED
  BY <1>1, <1>2

LEMMA ReconcileEffect ==
  ASSUME OverlayTypeOK, NEW c \in Controllers, NEW cold, Reconcile(c, cold)
  PROVE  /\ windows' \in [Controllers -> SUBSET Displays]
         /\ sig' \in [Controllers -> {NoSig} \cup SUBSET Displays]
         /\ hidden' \in [Controllers -> BOOLEAN]
         /\ foreground' \in BOOLEAN /\ fails' \in 0..MaxFails
         /\ \A d \in Controllers \ {c} : windows'[d] = windows[d]
         /\ windows'[c] # {} => hidden'[c] \/ windows'[c] = windows[c]
         /\ \/ UNCHANGED <<hidden, cursor, foreground>>
            \/ /\ ~hidden[c] /\ hidden' = [hidden EXCEPT ![c] = TRUE]
               /\ cursor' = cursor + 1 /\ foreground' = TRUE /\ fails' = fails
<1> USE DEF OverlayTypeOK
<1>0. MaxFails \in Nat
  BY BoundAssumption
<1>1. /\ \/ UNCHANGED sig
         \/ sig' = [sig EXCEPT ![c] = screens]
      /\ \/ UNCHANGED windows
         \/ windows' = [windows EXCEPT ![c] = {}]
         \/ windows' = [windows EXCEPT ![c] = screens] /\ (screens = {} \/ hidden[c])
         \/ windows' = [windows EXCEPT ![c] = screens]
            /\ hidden' = [hidden EXCEPT ![c] = TRUE]
      /\ \/ UNCHANGED fails
         \/ fails < MaxFails /\ fails' = fails + 1
      /\ \/ UNCHANGED <<hidden, cursor, foreground>>
         \/ /\ ~hidden[c] /\ hidden' = [hidden EXCEPT ![c] = TRUE]
            /\ cursor' = cursor + 1 /\ foreground' = TRUE /\ fails' = fails
  BY DEF Reconcile, look
<1>2. sig' \in [Controllers -> {NoSig} \cup SUBSET Displays]
  BY <1>1
<1>3. /\ windows' \in [Controllers -> SUBSET Displays]
      /\ \A d \in Controllers \ {c} : windows'[d] = windows[d]
  BY <1>1
<1>4. hidden' \in [Controllers -> BOOLEAN] /\ foreground' \in BOOLEAN
  BY <1>1, Zenon
<1>5. fails' \in 0..MaxFails
  BY <1>0, <1>1
<1>6. windows'[c] # {} => hidden'[c] \/ windows'[c] = windows[c]
  BY <1>1 DEF Reconcile, look
<1> QED
  BY <1>1, <1>2, <1>3, <1>4, <1>5, <1>6

LEMMA CloseEffect ==
  ASSUME OverlayTypeOK, NEW c \in Controllers, Close(c)
  PROVE  /\ windows' \in [Controllers -> SUBSET Displays]
         /\ hidden' \in [Controllers -> BOOLEAN] /\ ~hidden'[c]
         /\ observers' \in BOOLEAN /\ foreground' \in BOOLEAN
         /\ windows' = [windows EXCEPT ![c] = {}]
         /\ \/ UNCHANGED <<hidden, cursor, foreground>>
            \/ /\ hidden[c] /\ hidden' = [hidden EXCEPT ![c] = FALSE]
               /\ cursor' = cursor - 1 /\ foreground' = FALSE
<1> USE DEF OverlayTypeOK, Close
<1>1. windows' \in [Controllers -> SUBSET Displays] /\ windows' = [windows EXCEPT ![c] = {}]
  OBVIOUS
<1>2. hidden' = [hidden EXCEPT ![c] = FALSE]
  OBVIOUS
<1>3. hidden' \in [Controllers -> BOOLEAN] /\ ~hidden'[c]
  BY <1>2
<1>4. CASE hidden[c]
  BY <1>1, <1>2, <1>3, <1>4
<1>5. CASE ~hidden[c]
  <2>1. hidden' = hidden
    BY <1>2, <1>5
  <2> QED
    BY <1>1, <1>3, <1>5, <2>1
<1> QED
  BY <1>4, <1>5

\* Windows come and go by a rebuild or a closing, and by nothing else.
LEMMA WindowsMove ==
  ASSUME OverlayTypeOK, QueueInv, [OverlayNext]_overlayVars
  PROVE  \/ UNCHANGED <<windows, hidden, cursor, foreground>>
         \/ \E c \in Controllers, cold \in BOOLEAN : Reconcile(c, cold)
         \/ \E c \in Controllers : Close(c)
<1>1. CASE Serve
  <2>1. CASE Head(queue).kind = "event"
    BY <1>1, <2>1 DEF Serve, look
  <2>2. CASE Head(queue).kind # "event"
    <3>1. Head(queue).c \in Controllers
      BY <1>1, <2>2, QueueTyped DEF Serve
    <3>2. \/ Reconcile(Head(queue).c, TRUE) \/ Reconcile(Head(queue).c, FALSE)
          \/ Close(Head(queue).c)
      BY <1>1, <2>2 DEF Serve, RunCreate
    <3> QED
      BY <3>1, <3>2
  <2> QED
    BY <2>1, <2>2
<1>2. CASE LeadingEdge
  <2>1. doing.c \in Controllers
    BY <1>2, DoingTyped DEF LeadingEdge
  <2>2. Reconcile(doing.c, FALSE)
    BY <1>2 DEF LeadingEdge
  <2> QED
    BY <2>1, <2>2
<1>3. CASE Begin
  <2>1. session' \in Controllers
    BY <1>3, BoundAssumption DEF Begin, OverlayTypeOK, Controllers, NoController
  <2>2. UNCHANGED <<windows, hidden, cursor, foreground>> \/ Reconcile(session', TRUE)
    BY <1>3 DEF Begin, RunCreate, look
  <2> QED
    BY <2>1, <2>2
<1>4. CASE CloseWindows
  <2>1. session \in Controllers
    BY <1>4 DEF CloseWindows, OverlayTypeOK, QueueInv
  <2> QED
    BY <1>4, <2>1 DEF CloseWindows
<1>5. CASE Change \/ CatchUp \/ ScreensChanged \/ EnterLoop \/ End \/ StopTimer \/ Detach
           \/ UNCHANGED overlayVars \/ \E c \in Controllers : TimerStep(c)
  BY <1>5 DEF Change, CatchUp, ScreensChanged, EnterLoop, End, StopTimer, Detach,
     TimerStep, TimerExpires, TimerClears, TimerDispatches, overlayVars, controller, look
<1> QED
  BY <1>1, <1>2, <1>3, <1>4, <1>5 DEF OverlayNext, MainStep

\* What a step does to the hidden cursor.
LEMMA CursorMoves ==
  ASSUME OverlayTypeOK, QueueInv, [OverlayNext]_overlayVars
  PROVE  \/ UNCHANGED <<hidden, cursor, foreground>>
         \/ \E c \in Controllers :
                /\ ~hidden[c] /\ hidden' = [hidden EXCEPT ![c] = TRUE]
                /\ cursor' = cursor + 1 /\ foreground' = TRUE
         \/ \E c \in Controllers :
                /\ hidden[c] /\ hidden' = [hidden EXCEPT ![c] = FALSE]
                /\ cursor' = cursor - 1 /\ foreground' = FALSE
<1>1. ASSUME NEW c \in Controllers, NEW cold \in BOOLEAN, Reconcile(c, cold)
      PROVE  \/ UNCHANGED <<hidden, cursor, foreground>>
             \/ /\ ~hidden[c] /\ hidden' = [hidden EXCEPT ![c] = TRUE]
                /\ cursor' = cursor + 1 /\ foreground' = TRUE
  BY <1>1, ReconcileEffect
<1>2. ASSUME NEW c \in Controllers, Close(c)
      PROVE  \/ UNCHANGED <<hidden, cursor, foreground>>
             \/ /\ hidden[c] /\ hidden' = [hidden EXCEPT ![c] = FALSE]
                /\ cursor' = cursor - 1 /\ foreground' = FALSE
  BY <1>2, CloseEffect
<1> QED
  BY <1>1, <1>2, WindowsMove

-----------------------------------------------------------------------------
LEMMA OverlayInitially ==
  OverlayInit => OverlayTypeOK /\ CursorInv /\ QueueInv /\ LatchInv /\ OneShotInv
<1> SUFFICES ASSUME OverlayInit
             PROVE  OverlayTypeOK /\ CursorInv /\ QueueInv /\ LatchInv /\ OneShotInv
  OBVIOUS
<1> USE DEF OverlayInit
<1>1. Sessions \in Nat /\ MaxFails \in Nat /\ MaxChanges \in Nat /\ watch \in BOOLEAN
  BY BoundAssumption, ModeAssumption
<1>2. Hidden = {}
  BY DEF Hidden
<1>3. CursorInv
  BY <1>2, FS_EmptySet DEF CursorInv
<1>4. OverlayTypeOK
  <2>1. observers \in BOOLEAN /\ loop \in BOOLEAN /\ foreground \in BOOLEAN
    BY <1>1, Zenon
  <2>2. hidden \in [Controllers -> BOOLEAN] /\ latched \in [Controllers -> BOOLEAN]
        /\ timer \in [Controllers -> BOOLEAN]
    BY Zenon
  <2>3. /\ windows \in [Controllers -> SUBSET Displays]
        /\ sig \in [Controllers -> {NoSig} \cup SUBSET Displays]
        /\ fired \in [Controllers -> Nat] /\ cleared \in [Controllers -> Nat]
    OBVIOUS
  <2>4. cursor \in 0..Sessions /\ fails \in 0..MaxFails /\ changes \in 0..MaxChanges
    BY <1>1
  <2>5. watch \in Modes /\ attached \subseteq Displays /\ screens \subseteq Displays
    OBVIOUS
  <2> QED
    BY <2>1, <2>2, <2>3, <2>4, <2>5 DEF OverlayTypeOK
<1>5. QueueInv
  BY DEF QueueInv
<1>6. LatchInv
  BY DEF LatchInv
<1>7. OneShotInv
  BY <1>2 DEF OneShotInv
<1> QED
  BY <1>3, <1>4, <1>5, <1>6, <1>7

LEMMA CursorTyped ==
  ASSUME OverlayTypeOK, CursorInv, QueueInv, [OverlayNext]_overlayVars
  PROVE  /\ hidden' \in [Controllers -> BOOLEAN] /\ foreground' \in BOOLEAN
         /\ cursor' = Cardinality(Hidden') /\ cursor' \in 0..Sessions
<1>1. hidden \in [Controllers -> BOOLEAN] /\ foreground \in BOOLEAN
  BY DEF OverlayTypeOK
<1>2. IsFiniteSet(Hidden) /\ cursor = Cardinality(Hidden) /\ cursor \in Int
  BY ControllersAreFew DEF Hidden, CursorInv
<1>3. CASE UNCHANGED <<hidden, cursor, foreground>>
  <2>1. Hidden' = Hidden
    BY <1>3 DEF Hidden
  <2> QED
    BY <1>1, <1>2, <1>3, <2>1, ControllersAreFew DEF Hidden
<1>4. ASSUME NEW c \in Controllers,
             ~hidden[c], hidden' = [hidden EXCEPT ![c] = TRUE],
             cursor' = cursor + 1, foreground' = TRUE
      PROVE  /\ hidden' \in [Controllers -> BOOLEAN] /\ foreground' \in BOOLEAN
             /\ cursor' = Cardinality(Hidden') /\ cursor' \in 0..Sessions
  <2>1. Hidden' = Hidden \cup {c} /\ c \notin Hidden
    BY <1>1, <1>4 DEF Hidden
  <2>2. cursor' = Cardinality(Hidden')
    BY <1>2, <1>4, <2>1, FS_AddElement
  <2>3. Hidden' \in SUBSET Controllers
    BY DEF Hidden
  <2>4. hidden' \in [Controllers -> BOOLEAN] /\ foreground' \in BOOLEAN
    BY <1>1, <1>4, Zenon
  <2> QED
    BY <2>2, <2>3, <2>4, ControllersAreFew
<1>5. ASSUME NEW c \in Controllers,
             hidden[c], hidden' = [hidden EXCEPT ![c] = FALSE],
             cursor' = cursor - 1, foreground' = FALSE
      PROVE  /\ hidden' \in [Controllers -> BOOLEAN] /\ foreground' \in BOOLEAN
             /\ cursor' = Cardinality(Hidden') /\ cursor' \in 0..Sessions
  <2>1. Hidden' = Hidden \ {c} /\ c \in Hidden
    BY <1>1, <1>5 DEF Hidden
  <2>2. cursor' = Cardinality(Hidden')
    BY <1>2, <1>5, <2>1, FS_RemoveElement
  <2>3. Hidden' \in SUBSET Controllers
    BY DEF Hidden
  <2>4. hidden' \in [Controllers -> BOOLEAN] /\ foreground' \in BOOLEAN
    BY <1>1, <1>5, Zenon
  <2> QED
    BY <2>2, <2>3, <2>4, ControllersAreFew
<1> QED
  BY <1>3, <1>4, <1>5, CursorMoves

\* A block that is queued is a block.
LEMMA QueueGrows ==
  ASSUME queue \in Seq(QueueBlock), NEW b \in QueueBlock
  PROVE  Append(queue, b) \in Seq(QueueBlock)
OBVIOUS

LEMMA OverlayTypeStep ==
  ASSUME OverlayTypeOK, CursorInv, QueueInv, [OverlayNext]_overlayVars
  PROVE  OverlayTypeOK'
<1> DEFINE Bounded == /\ watch \in Modes
                      /\ attached \subseteq Displays /\ screens \subseteq Displays
                      /\ changes \in 0..MaxChanges /\ fails \in 0..MaxFails
           Looping == observers \in BOOLEAN /\ loop \in BOOLEAN
           Serving == /\ queue \in Seq(QueueBlock)
                      /\ doing \in [kind : {"changed", "leading"}, c : Controllers]
                                   \cup {NoBlock}
           Session == /\ session \in Controllers \cup {NoController}
                      /\ callback \in {NoController, session}
                      /\ step \in {"idle", "creating", "active", "up", "stop", "detach",
                                  "close", "over"}
                      /\ pushed \subseteq Controllers
           Shown == /\ windows \in [Controllers -> SUBSET Displays]
                    /\ sig \in [Controllers -> {NoSig} \cup SUBSET Displays]
           Timing == /\ latched \in [Controllers -> BOOLEAN]
                     /\ timer \in [Controllers -> BOOLEAN]
                     /\ fired \in [Controllers -> Nat] /\ cleared \in [Controllers -> Nat]
<1>0. /\ MaxChanges \in Nat /\ MaxFails \in Nat /\ Sessions \in Nat /\ watch \in BOOLEAN
      /\ Bounded /\ Looping /\ Serving /\ Session /\ Shown /\ Timing
  BY BoundAssumption, ModeAssumption DEF OverlayTypeOK, QueueBlock
<1>1. \A b \in {"create", "reconcile", "close"}, c \in Controllers : Block(b, c) \in QueueBlock
  BY DEF QueueBlock, Block
<1>2. Block("event", NoController) \in QueueBlock
  BY DEF QueueBlock
<1>3. SUFFICES Bounded' /\ Looping' /\ Serving' /\ Session' /\ Shown' /\ Timing'
  BY CursorTyped DEF OverlayTypeOK, QueueBlock
<1>4. CASE Change \/ CatchUp
  <2>1. UNCHANGED <<watch, observers, callback, loop, doing, session, step, pushed, windows,
                    sig, latched, timer, fired, cleared, fails>>
    BY <1>4 DEF Change, CatchUp, system, controller, look
  <2>2. queue' \in Seq(QueueBlock)
    BY <1>0, <1>2, <1>4, QueueGrows DEF Change, CatchUp, Notify
  <2>3. attached' \subseteq Displays /\ screens' \subseteq Displays /\ changes' \in 0..MaxChanges
    BY <1>0, <1>4 DEF Change, CatchUp
  <2> QED
    BY <1>0, <2>1, <2>2, <2>3
<1>5. CASE Serve
  <2> DEFINE c == Head(queue).c
  <2>1. queue' \in Seq(QueueBlock)
    BY <1>5, QueueTyped DEF Serve
  <2>2. UNCHANGED <<watch, attached, screens, changes, callback, loop, session, latched,
                    timer, fired, cleared>>
    BY <1>5 DEF Serve, display
  <2>3. CASE Head(queue).kind = "event"
    <3>1. UNCHANGED <<observers, step, pushed, windows, sig, fails>>
      BY <1>5, <2>3 DEF Serve, look
    <3>2. doing' = NoBlock \/ (session \in Controllers /\ doing' = Block("changed", session))
      BY <1>0, <1>5, <2>3 DEF Serve
    <3>3. doing' \in [kind : {"changed", "leading"}, c : Controllers] \cup {NoBlock}
      BY <3>2 DEF Block
    <3> QED
      BY <1>0, <2>1, <2>2, <3>1, <3>3
  <2>4. CASE Head(queue).kind # "event"
    <3>1. c \in Controllers
      BY <1>5, <2>4, QueueTyped DEF Serve
    <3>2. UNCHANGED doing
      BY <1>5, <2>4 DEF Serve
    <3>3. step' \in {step, "active", "idle", "over"} /\ pushed' \in {pushed, pushed \cup {c}}
      BY <1>5, <2>4 DEF Serve, RunCreate
    <3>4. Session'
      BY <1>0, <2>2, <3>1, <3>3
    <3>5. \/ (Reconcile(c, TRUE) \/ Reconcile(c, FALSE)) /\ UNCHANGED observers
          \/ Close(c) /\ UNCHANGED <<sig, fails>>
      BY <1>5, <2>4 DEF Serve, RunCreate
    <3> HIDE DEF c
    <3>6. CASE (Reconcile(c, TRUE) \/ Reconcile(c, FALSE)) /\ UNCHANGED observers
      <4>1. Shown' /\ fails' \in 0..MaxFails
        BY <3>1, <3>6, ReconcileEffect
      <4> QED
        BY <1>0, <2>1, <2>2, <3>2, <3>4, <3>6, <4>1
    <3>7. CASE Close(c) /\ UNCHANGED <<sig, fails>>
      <4>1. windows' \in [Controllers -> SUBSET Displays] /\ observers' \in BOOLEAN
        BY <3>1, <3>7, CloseEffect
      <4> QED
        BY <1>0, <2>1, <2>2, <3>2, <3>4, <3>7, <4>1
    <3> QED
      BY <3>5, <3>6, <3>7
  <2> QED
    BY <2>3, <2>4
<1>6. CASE ScreensChanged
  <2>1. UNCHANGED <<watch, attached, screens, changes, observers, callback, loop, queue,
                    session, step, pushed, windows, sig, fired, cleared, fails>>
    BY <1>6 DEF ScreensChanged, display, system, look
  <2>2. doing.c \in Controllers
    BY <1>6, DoingTyped DEF ScreensChanged
  <2>3. timer' \in [Controllers -> BOOLEAN]
    BY <1>0, <1>6, <2>2 DEF ScreensChanged
  <2>4. latched' \in [Controllers -> BOOLEAN]
    BY <1>0, <1>6, <2>2, Zenon DEF ScreensChanged
  <2>5. doing' \in [kind : {"changed", "leading"}, c : Controllers] \cup {NoBlock}
    BY <1>6, <2>2 DEF ScreensChanged, Block
  <2> QED
    BY <1>0, <2>1, <2>3, <2>4, <2>5
<1>7. CASE LeadingEdge
  <2> DEFINE c == doing.c
  <2>1. c \in Controllers
    BY <1>7, DoingTyped DEF LeadingEdge
  <2>2. /\ Reconcile(c, FALSE) /\ doing' = NoBlock
        /\ latched' = [latched EXCEPT ![c] = @ /\ windows'[c] # {}]
        /\ UNCHANGED <<watch, attached, screens, changes, observers, callback, loop, queue,
                       session, step, pushed, timer, fired, cleared>>
    BY <1>7 DEF LeadingEdge, display, system
  <2> HIDE DEF c
  <2>3. Shown' /\ fails' \in 0..MaxFails
    BY <2>1, <2>2, ReconcileEffect
  <2>4. latched' \in [Controllers -> BOOLEAN]
    BY <1>0, <2>1, <2>2, Zenon
  <2> QED
    BY <1>0, <2>2, <2>3, <2>4
<1>8. ASSUME NEW c \in Controllers, TimerStep(c)
      PROVE  Bounded' /\ Looping' /\ Serving' /\ Session' /\ Shown' /\ Timing'
  <2>1. UNCHANGED <<watch, attached, screens, changes, observers, callback, loop, doing,
                    session, step, pushed, windows, sig, fails>>
    BY <1>8 DEF TimerStep, TimerExpires, TimerClears, TimerDispatches, display, system, look
  <2>2. queue' \in Seq(QueueBlock)
    BY <1>0, <1>1, <1>8, QueueGrows DEF TimerStep, TimerExpires, TimerClears,
       TimerDispatches
  <2>3. Timing'
    <3>1. fired[c] \in Nat /\ cleared[c] \in Nat
      BY <1>0
    <3>2. CASE TimerExpires(c)
      BY <1>0, <3>1, <3>2 DEF TimerExpires
    <3>3. CASE TimerClears(c)
      <4>1. fired[c] - 1 \in Nat /\ cleared[c] + 1 \in Nat
        BY <3>1, <3>3 DEF TimerClears
      <4> QED
        BY <1>0, <3>3, <4>1 DEF TimerClears
    <3>4. CASE TimerDispatches(c)
      <4>1. cleared[c] - 1 \in Nat
        BY <3>1, <3>4 DEF TimerDispatches
      <4> QED
        BY <1>0, <3>4, <4>1 DEF TimerDispatches
    <3> QED
      BY <1>8, <3>2, <3>3, <3>4 DEF TimerStep
  <2> QED
    BY <1>0, <2>1, <2>2, <2>3
<1>9. CASE Begin
  <2>1. session' \in Controllers
    BY <1>0, <1>9 DEF Begin, Controllers, NoController
  <2>2. UNCHANGED <<watch, attached, screens, changes, observers, loop, doing, latched, timer,
                    fired, cleared>> /\ callback' = session'
    BY <1>9 DEF Begin, display
  <2>3. queue' \in Seq(QueueBlock)
    BY <1>0, <1>1, <1>9, <2>1, QueueGrows DEF Begin
  <2>4. Session'
    <3>1. step' \in {"idle", "creating", "active", "over"}
      BY <1>9 DEF Begin, RunCreate
    <3>2. pushed' \in {pushed, pushed \cup {session'}}
      BY <1>9 DEF Begin, RunCreate
    <3> QED
      BY <1>0, <2>1, <2>2, <3>1, <3>2
  <2>5. UNCHANGED <<windows, sig, fails>> \/ Reconcile(session', TRUE)
    BY <1>9 DEF Begin, RunCreate, look
  <2>6. Shown' /\ fails' \in 0..MaxFails
    BY <1>0, <2>1, <2>5, ReconcileEffect
  <2> QED
    BY <1>0, <2>2, <2>3, <2>4, <2>6
<1>10. CASE EnterLoop \/ End \/ StopTimer \/ Detach
  <2>1. UNCHANGED <<watch, attached, screens, changes, observers, queue, doing, session, pushed,
                    windows, sig, latched, fired, cleared, fails>>
    BY <1>10 DEF EnterLoop, End, StopTimer, Detach, display, system, controller, look
  <2>2. callback' \in {callback, NoController} /\ step' \in {"up", "stop", "detach", "close"}
    BY <1>10 DEF EnterLoop, End, StopTimer, Detach, system
  <2>3. loop' \in BOOLEAN
    BY <1>0, <1>10, Zenon DEF EnterLoop, End, StopTimer, Detach, system
  <2>4. timer' \in [Controllers -> BOOLEAN]
    BY <1>0, <1>10 DEF EnterLoop, End, StopTimer, Detach, controller
  <2> QED
    BY <1>0, <2>1, <2>2, <2>3, <2>4
<1>11. CASE CloseWindows
  <2>1. session \in Controllers
    BY <1>0, <1>11 DEF CloseWindows, QueueInv
  <2>2. UNCHANGED <<watch, attached, screens, changes, callback, loop, doing, session, pushed,
                    sig, latched, timer, fired, cleared, fails>> /\ step' \in {"idle", "over"}
    BY <1>11 DEF CloseWindows, display
  <2>3. queue' \in Seq(QueueBlock)
    BY <1>0, <1>1, <1>11, <2>1, QueueGrows DEF CloseWindows
  <2>4. UNCHANGED <<windows, observers>> \/ Close(session)
    BY <1>11 DEF CloseWindows
  <2>5. windows' \in [Controllers -> SUBSET Displays] /\ observers' \in BOOLEAN
    BY <1>0, <2>1, <2>4, CloseEffect
  <2> QED
    BY <1>0, <2>2, <2>3, <2>5
<1>12. CASE UNCHANGED overlayVars
  BY <1>0, <1>12 DEF overlayVars, display, system, controller, look
<1> QED
  BY <1>4, <1>5, <1>6, <1>7, <1>8, <1>9, <1>10, <1>11, <1>12 DEF OverlayNext, MainStep

-----------------------------------------------------------------------------
LEMMA CursorStep ==
  ASSUME OverlayTypeOK, CursorInv, QueueInv, [OverlayNext]_overlayVars
  PROVE  CursorInv'
<1>1. cursor' = Cardinality(Hidden')
  BY CursorTyped
<1>2. ASSUME NEW d \in Controllers, windows'[d] # {} PROVE hidden'[d]
  <2>1. windows \in [Controllers -> SUBSET Displays] /\ hidden \in [Controllers -> BOOLEAN]
    BY DEF OverlayTypeOK
  <2>2. CASE UNCHANGED <<windows, hidden, cursor, foreground>>
    BY <1>2, <2>2 DEF CursorInv
  <2>3. ASSUME NEW c \in Controllers, NEW cold \in BOOLEAN, Reconcile(c, cold)
        PROVE  hidden'[d]
    <3>1. /\ \A e \in Controllers \ {c} : windows'[e] = windows[e]
          /\ windows'[c] # {} => hidden'[c] \/ windows'[c] = windows[c]
          /\ hidden' = hidden \/ hidden' = [hidden EXCEPT ![c] = TRUE]
      BY <2>3, ReconcileEffect
    <3>2. hidden[d] => hidden'[d]
      BY <2>1, <3>1
    <3> QED
      BY <1>2, <3>1, <3>2 DEF CursorInv
  <2>4. ASSUME NEW c \in Controllers, Close(c)
        PROVE  hidden'[d]
    <3>1. /\ windows' = [windows EXCEPT ![c] = {}]
          /\ hidden' = hidden \/ hidden' = [hidden EXCEPT ![c] = FALSE]
      BY <2>4, CloseEffect
    <3>2. d # c /\ windows'[d] = windows[d]
      BY <1>2, <2>1, <3>1
    <3> QED
      BY <1>2, <2>1, <3>1, <3>2 DEF CursorInv
  <2> QED
    BY <2>2, <2>3, <2>4, WindowsMove
<1> QED
  BY <1>1, <1>2 DEF CursorInv

\* What a step does to the main queue.
LEMMA QueueMoves ==
  ASSUME OverlayTypeOK, QueueInv, [OverlayNext]_overlayVars
  PROVE  \/ UNCHANGED queue
         \/ Serve /\ queue # <<>> /\ queue' = Tail(queue)
         \/ \E b \in QueueBlock :
                /\ queue' = Append(queue, b)
                /\ b.kind = "create" => watch /\ Begin /\ b = Block("create", session')
                /\ b.kind = "close" => watch
                /\ b.kind = "reconcile" => cleared[b.c] > 0
<1>1. \A b \in {"create", "reconcile", "close"}, c \in Controllers : Block(b, c) \in QueueBlock
  BY DEF QueueBlock, Block
<1>2. Block("event", NoController) \in QueueBlock
  BY DEF QueueBlock
<1>3. \A k, c : Block(k, c).kind = k /\ Block(k, c).c = c
  BY DEF Block
<1>4. CASE Change \/ CatchUp
  BY <1>2, <1>3, <1>4 DEF Change, CatchUp, Notify
<1>5. CASE Serve
  BY <1>5 DEF Serve
<1>6. ASSUME NEW c \in Controllers, TimerStep(c)
      PROVE  \/ UNCHANGED queue
             \/ queue' = Append(queue, Block("reconcile", c)) /\ cleared[c] > 0
  BY <1>6 DEF TimerStep, TimerExpires, TimerClears, TimerDispatches
<1>7. CASE Begin
  <2>1. session' \in Controllers
    BY <1>7, BoundAssumption DEF Begin, OverlayTypeOK, Controllers, NoController
  <2> QED
    BY <1>1, <1>3, <1>7, <2>1 DEF Begin
<1>8. CASE CloseWindows
  <2>1. session \in Controllers
    BY <1>8 DEF CloseWindows, OverlayTypeOK, QueueInv
  <2> QED
    BY <1>1, <1>3, <1>8, <2>1 DEF CloseWindows
<1>9. CASE ScreensChanged \/ LeadingEdge \/ EnterLoop \/ End \/ StopTimer \/ Detach
           \/ UNCHANGED overlayVars
  BY <1>9 DEF ScreensChanged, LeadingEdge, EnterLoop, End, StopTimer, Detach, overlayVars
<1>10. CASE \E c \in Controllers : TimerStep(c)
  BY <1>1, <1>3, <1>6, <1>10
<1> QED
  BY <1>4, <1>5, <1>7, <1>8, <1>9, <1>10 DEF OverlayNext, MainStep

LEMMA AppendAt ==
  ASSUME queue \in Seq(QueueBlock), NEW b \in QueueBlock
  PROVE  /\ Len(Append(queue, b)) = Len(queue) + 1 /\ Len(queue) \in Nat
         /\ \A i \in 1..Len(queue) : Append(queue, b)[i] = queue[i]
         /\ Append(queue, b)[Len(queue) + 1] = b
OBVIOUS

LEMMA TailAt ==
  ASSUME queue \in Seq(QueueBlock), queue # <<>>
  PROVE  /\ Len(Tail(queue)) = Len(queue) - 1 /\ Len(queue) \in Nat \ {0}
         /\ \A i \in 1..Len(Tail(queue)) :
                i + 1 \in 1..Len(queue) /\ Tail(queue)[i] = queue[i + 1]
         /\ Head(queue) = queue[1]
OBVIOUS

\* What a step does to the session and to what the main thread is doing.
LEMMA SessionMoves ==
  ASSUME OverlayTypeOK, QueueInv, [OverlayNext]_overlayVars
  PROVE  /\ watch' = watch
         /\ session' = session \/ (Begin /\ session' = session + 1)
         /\ \/ UNCHANGED step
            \/ Begin \/ EnterLoop \/ End \/ StopTimer \/ Detach \/ CloseWindows
            \/ /\ Serve /\ Head(queue).kind = "create" /\ queue' = Tail(queue)
               /\ queue # <<>> /\ step' \in {"active", "idle", "over"}
         /\ \/ doing' = doing \/ doing' = NoBlock
            \/ \E k \in {"changed", "leading"}, c \in 1..session : doing' = Block(k, c)
<1>1. CASE Serve
  <2>1. \/ Head(queue).kind = "create" /\ step' \in {"active", "idle", "over"}
        \/ UNCHANGED step
    BY <1>1 DEF Serve, RunCreate
  <2>2. \/ doing' = doing \/ doing' = NoBlock
        \/ /\ callback # NoController
           /\ doing' = Block("changed", callback)
    BY <1>1 DEF Serve
  <2>3. callback # NoController => callback \in 1..session
    BY BoundAssumption DEF OverlayTypeOK, Controllers, NoController
  <2> QED
    BY <1>1, <2>1, <2>2, <2>3 DEF Serve, display
<1>2. CASE ScreensChanged
  <2>1. doing # NoBlock
    BY <1>2, DoingTyped DEF ScreensChanged
  <2> QED
    BY <1>2, <2>1 DEF ScreensChanged, display, QueueInv
<1>3. CASE LeadingEdge
  BY <1>3 DEF LeadingEdge, display
<1>4. CASE Begin
  BY <1>4 DEF Begin, display
<1>5. CASE \E c \in Controllers : TimerStep(c)
  BY <1>5 DEF TimerStep, TimerExpires, TimerClears, TimerDispatches, display
<1>6. CASE Change \/ CatchUp
  BY <1>6 DEF Change, CatchUp
<1>7. CASE EnterLoop \/ End \/ StopTimer \/ Detach \/ CloseWindows
  BY <1>7 DEF EnterLoop, End, StopTimer, Detach, CloseWindows, display
<1>8. CASE UNCHANGED overlayVars
  BY <1>8 DEF overlayVars, display
<1> QED
  BY <1>1, <1>2, <1>3, <1>4, <1>5, <1>6, <1>7, <1>8 DEF OverlayNext, MainStep

\* While a creation is queued, the session waits for it.
LEMMA CreatingWaits ==
  ASSUME OverlayTypeOK, QueueInv, [OverlayNext]_overlayVars, step = "creating"
  PROVE  /\ ~Begin
         /\ \/ UNCHANGED <<watch, step, session>>
            \/ Head(queue).kind = "create" /\ queue' = Tail(queue) /\ queue # <<>>
<1>1. ~Begin /\ ~EnterLoop /\ ~StopTimer /\ ~Detach /\ ~CloseWindows
  BY DEF Begin, EnterLoop, StopTimer, Detach, CloseWindows
<1>2. ~End
  BY DEF End
<1> QED
  BY <1>1, <1>2, SessionMoves

LEMMA QueueStep ==
  ASSUME OverlayTypeOK, QueueInv, [OverlayNext]_overlayVars
  PROVE  QueueInv'
<1> DEFINE Waiting(b) == watch /\ step = "creating" /\ b.c = session
           Last == \A i \in 1..Len(queue) : queue[i].kind = "create" => Waiting(queue[i])
           Once == \A i, j \in 1..Len(queue) :
                       queue[i].kind = "create" /\ queue[j].kind = "create" => i = j
<1>0. queue \in Seq(QueueBlock)
  BY QueueTyped
<1>1. Last /\ Once
  BY DEF QueueInv
<1>2. ASSUME UNCHANGED queue
      PROVE  Last' /\ Once'
  <2>1. ASSUME NEW i \in 1..Len(queue'), queue'[i].kind = "create"
        PROVE  watch' /\ step' = "creating" /\ queue'[i].c = session'
    <3>1. Waiting(queue[i])
      BY <1>1, <1>2, <2>1
    <3>2. ~(queue' = Tail(queue) /\ queue # <<>>)
      BY <1>0, <1>2, TailAt
    <3> QED
      BY <1>2, <3>1, <3>2, CreatingWaits
  <2> QED
    BY <1>1, <1>2, <2>1
<1>3. ASSUME queue' = Tail(queue), queue # <<>>
      PROVE  Last' /\ Once'
  <2>1. /\ \A i \in 1..Len(queue') : i + 1 \in 1..Len(queue) /\ queue'[i] = queue[i + 1]
        /\ Head(queue) = queue[1] /\ 1 \in 1..Len(queue) /\ Len(queue') \in Nat
    BY <1>0, <1>3, TailAt
  <2>2. ASSUME NEW i \in 1..Len(queue'), queue'[i].kind = "create"
        PROVE  watch' /\ step' = "creating" /\ queue'[i].c = session'
    <3>1. Waiting(queue[i + 1])
      BY <1>1, <2>1, <2>2
    <3>2. Head(queue).kind # "create"
      <4>1. 1 # i + 1
        BY <2>2
      <4> QED
        BY <1>1, <2>1, <2>2, <4>1
    <3> QED
      BY <2>1, <3>1, <3>2, CreatingWaits
  <2>3. ASSUME NEW i \in 1..Len(queue'), NEW j \in 1..Len(queue'),
               queue'[i].kind = "create", queue'[j].kind = "create"
        PROVE  i = j
    <3>1. i + 1 = j + 1
      BY <1>1, <2>1, <2>3
    <3> QED
      BY <3>1
  <2> QED
    BY <2>2, <2>3
<1>4. ASSUME NEW b \in QueueBlock, queue' = Append(queue, b),
             b.kind = "create" => watch /\ Begin /\ b = Block("create", session')
      PROVE  Last' /\ Once'
  <2>1. /\ Len(queue') = Len(queue) + 1 /\ Len(queue) \in Nat
        /\ \A i \in 1..Len(queue) : queue'[i] = queue[i]
        /\ queue'[Len(queue) + 1] = b
    BY <1>0, <1>4, AppendAt
  <2>2. \A i \in 1..Len(queue') : i = Len(queue) + 1 \/ i \in 1..Len(queue)
    BY <2>1
  <2>3. b.kind = "create" => \A i \in 1..Len(queue) : queue[i].kind # "create"
    BY <1>1, <1>4, CreatingWaits
  <2>4. ASSUME NEW i \in 1..Len(queue'), queue'[i].kind = "create"
        PROVE  watch' /\ step' = "creating" /\ queue'[i].c = session'
    <3>1. CASE i = Len(queue) + 1
      BY <1>4, <2>1, <2>4, <3>1, SessionMoves DEF Begin, Block
    <3>2. CASE i \in 1..Len(queue)
      <4>1. Waiting(queue[i]) /\ queue'[i] = queue[i]
        BY <1>1, <2>1, <2>4, <3>2
      <4>2. ~(queue' = Tail(queue) /\ queue # <<>>)
        BY <1>0, <2>1, TailAt
      <4> QED
        BY <4>1, <4>2, CreatingWaits
    <3> QED
      BY <2>2, <3>1, <3>2
  <2>5. ASSUME NEW i \in 1..Len(queue'), NEW j \in 1..Len(queue'),
               queue'[i].kind = "create", queue'[j].kind = "create"
        PROVE  i = j
    BY <1>1, <2>1, <2>2, <2>3, <2>5
  <2> QED
    BY <2>4, <2>5
<1>5. Last' /\ Once'
  BY <1>2, <1>3, <1>4, QueueMoves
<1>6. session \in Nat /\ session' \in Nat /\ session <= session'
  BY SessionMoves, BoundAssumption DEF OverlayTypeOK, Controllers, NoController
<1>7. doing' # NoBlock => doing'.c \in 1..session'
  BY <1>6, SessionMoves DEF QueueInv, Block
<1>8. step' # "idle" => session' # NoController
  <2>1. CASE Begin
    BY <1>6, <2>1 DEF Begin, NoController
  <2>2. CASE ~Begin
    <3>1. session' = session
      BY <2>2, SessionMoves
    <3>2. ASSUME step = "idle", step' # "idle" PROVE FALSE
      <4>1. Serve /\ Head(queue).kind = "create" /\ queue # <<>>
        BY <2>2, <3>2, SessionMoves DEF EnterLoop, End, StopTimer, Detach, CloseWindows
      <4>2. queue[1].kind = "create" /\ 1 \in 1..Len(queue)
        BY <1>0, <4>1, TailAt
      <4> QED
        BY <1>1, <3>2, <4>2
    <3> QED
      BY <3>1, <3>2 DEF QueueInv
  <2> QED
    BY <2>1, <2>2
<1> QED
  BY <1>5, <1>7, <1>8 DEF QueueInv

-----------------------------------------------------------------------------
LEMMA LatchStep ==
  ASSUME OverlayTypeOK, QueueInv, LatchInv, [OverlayNext]_overlayVars
  PROVE  LatchInv'
<1> DEFINE Held(c) == /\ c <= session
                      /\ timer[c] \/ fired[c] > 0 \/ c < session \/ step \in Ending
<1> SUFFICES ASSUME NEW c \in Controllers, latched'[c]
             PROVE  Held(c)'
  BY DEF LatchInv
<1>0. /\ latched \in [Controllers -> BOOLEAN] /\ timer \in [Controllers -> BOOLEAN]
      /\ fired \in [Controllers -> Nat] /\ c \in Nat
      /\ session \in Nat /\ session' \in Nat /\ session <= session'
  BY SessionMoves, BoundAssumption DEF OverlayTypeOK, Controllers, NoController
<1>1. latched[c] => Held(c)
  BY DEF LatchInv
<1>2. step \in Ending => step' \in Ending \/ session < session'
  <2>1. CASE Serve /\ Head(queue).kind = "create" /\ queue # <<>>
    <3>1. queue[1].kind = "create" /\ 1 \in 1..Len(queue)
      BY <2>1, QueueTyped, TailAt
    <3> QED
      BY <3>1 DEF QueueInv, Ending
  <2>2. CASE Begin
    BY <1>0, <2>2 DEF Begin
  <2>3. CASE EnterLoop \/ End \/ StopTimer \/ Detach \/ CloseWindows
    BY <2>3 DEF EnterLoop, End, StopTimer, Detach, CloseWindows, Ending
  <2> QED
    BY <2>1, <2>2, <2>3, SessionMoves
<1>3. ASSUME latched[c], timer[c] => timer'[c], fired[c] > 0 => fired'[c] > 0
      PROVE  Held(c)'
  BY <1>0, <1>1, <1>2, <1>3
<1>4. CASE ScreensChanged
  <2>1. doing.c \in Controllers /\ doing.c \in 1..session
    BY <1>4, DoingTyped DEF ScreensChanged, QueueInv
  <2>2. timer' = [timer EXCEPT ![doing.c] = TRUE] /\ UNCHANGED <<fired, session>>
    BY <1>4 DEF ScreensChanged
  <2>3. CASE c = doing.c
    BY <1>0, <2>1, <2>2, <2>3
  <2>4. CASE c # doing.c
    <3>1. latched[c]
      BY <1>0, <1>4, <2>1, <2>4 DEF ScreensChanged
    <3> QED
      BY <1>0, <1>3, <2>1, <2>2, <2>4, <3>1
  <2> QED
    BY <2>3, <2>4
<1>5. CASE LeadingEdge
  <2>1. doing.c \in Controllers
    BY <1>5, DoingTyped DEF LeadingEdge
  <2>2. latched[c]
    BY <1>0, <1>5, <2>1 DEF LeadingEdge
  <2> QED
    BY <1>3, <1>5, <2>2 DEF LeadingEdge
<1>6. ASSUME NEW d \in Controllers, TimerStep(d)
      PROVE  Held(c)'
  <2>1. CASE TimerExpires(d)
    BY <1>0, <1>1, <1>3, <2>1 DEF TimerExpires
  <2>2. CASE TimerClears(d)
    <3>1. c # d /\ latched[c]
      BY <1>0, <2>2 DEF TimerClears
    <3>2. fired'[c] = fired[c] /\ timer'[c] = timer[c]
      BY <1>0, <2>2, <3>1 DEF TimerClears
    <3> QED
      BY <1>3, <3>1, <3>2
  <2>3. CASE TimerDispatches(d)
    BY <1>3, <2>3 DEF TimerDispatches
  <2> QED
    BY <1>6, <2>1, <2>2, <2>3 DEF TimerStep
<1>7. CASE StopTimer
  BY <1>0, <1>1, <1>7 DEF StopTimer, Ending
<1>8. CASE Change \/ CatchUp \/ Serve \/ Begin \/ EnterLoop \/ End \/ Detach \/ CloseWindows
           \/ UNCHANGED overlayVars
  <2>1. UNCHANGED <<latched, timer, fired>>
    BY <1>8 DEF Change, CatchUp, Serve, Begin, EnterLoop, End, Detach, CloseWindows,
       overlayVars, controller
  <2> QED
    BY <1>3, <2>1
<1> QED
  BY <1>4, <1>5, <1>6, <1>7, <1>8 DEF OverlayNext, MainStep

-----------------------------------------------------------------------------
\* Without --watch the main queue never holds a creation or a closing.
LEMMA OneShotServes ==
  ASSUME OverlayTypeOK, OneShotInv, ~watch, Serve
  PROVE  /\ step = "up" /\ UNCHANGED <<watch, loop, step, session, timer, fired, cleared>>
         /\ \/ UNCHANGED <<hidden, cursor, foreground>>
               /\ \/ doing' = NoBlock
                  \/ session # NoController /\ doing' = Block("changed", session)
            \/ /\ session \in Controllers /\ Reconcile(session, FALSE)
               /\ UNCHANGED doing
<1>1. queue \in Seq(QueueBlock) /\ queue # <<>>
  BY QueueTyped DEF Serve
<1>2. /\ Head(queue) \in {Block("event", NoController), Block("reconcile", session)}
      /\ Head(queue).kind # "event" => Head(queue).c \in Controllers
  BY <1>1, TailAt, QueueTyped DEF OneShotInv
<1>3. \A k, c : Block(k, c).kind = k /\ Block(k, c).c = c
  BY DEF Block
<1>4. step = "up" /\ UNCHANGED <<watch, loop, session, timer, fired, cleared>>
  BY DEF Serve, OneShotInv, display
<1>5. CASE Head(queue).kind = "event"
  <2>1. UNCHANGED <<step, hidden, cursor, foreground>>
    BY <1>5 DEF Serve, look
  <2>2. \/ doing' = NoBlock
        \/ session # NoController /\ doing' = Block("changed", session)
    BY <1>5 DEF Serve, OverlayTypeOK
  <2> QED
    BY <1>4, <2>1, <2>2
<1>6. CASE Head(queue) = Block("reconcile", session)
  <2>0. Head(queue).kind = "reconcile" /\ Head(queue).c = session
    BY <1>3, <1>6
  <2>1. session \in Controllers
    BY <1>2, <2>0
  <2>2. Reconcile(session, FALSE) /\ UNCHANGED <<doing, step>>
    BY <2>0 DEF Serve
  <2> QED
    BY <1>4, <2>1, <2>2
<1> QED
  BY <1>2, <1>3, <1>5, <1>6

LEMMA OneShotGoesOn ==
  ASSUME OverlayTypeOK, QueueInv, OneShotInv, ~watch, [OverlayNext]_overlayVars
  PROVE  /\ step' # "creating" /\ (loop' <=> step' = "up")
         /\ step' # "up" => doing' = NoBlock
         /\ step' = "idle" <=> session' = NoController
         /\ doing' # NoBlock => doing'.c = session'
<1> USE DEF OneShotInv
<1>1. CASE Serve
  <2>1. step = "up" /\ UNCHANGED <<loop, step, session>>
    BY <1>1, OneShotServes
  <2>2. doing' = NoBlock \/ doing' = Block("changed", session) \/ doing' = doing
    BY <1>1, OneShotServes
  <2>3. doing' # NoBlock => doing'.c = session'
    BY <2>1, <2>2 DEF Block
  <2> QED
    BY <2>1, <2>3
<1>2. CASE ScreensChanged
  <2>1. doing # NoBlock
    BY <1>2, DoingTyped DEF ScreensChanged
  <2> QED
    BY <1>2, <2>1 DEF ScreensChanged, Block, system
<1>3. CASE LeadingEdge
  BY <1>3 DEF LeadingEdge, system
<1>4. CASE Begin
  <2>1. step' \in {"active", "over"} /\ UNCHANGED <<loop, doing>> /\ session' = session + 1
    BY <1>4 DEF Begin, RunCreate
  <2>2. session' # NoController
    BY <2>1, BoundAssumption DEF OverlayTypeOK, Controllers, NoController
  <2> QED
    BY <1>4, <2>1, <2>2 DEF Begin
<1>5. CASE \E c \in Controllers : TimerStep(c)
  BY <1>5 DEF TimerStep, TimerExpires, TimerClears, TimerDispatches, system
<1>6. CASE Change \/ CatchUp \/ UNCHANGED overlayVars
  BY <1>6 DEF Change, CatchUp, system, overlayVars
<1>7. CASE EnterLoop \/ End \/ StopTimer \/ Detach \/ CloseWindows
  BY <1>7 DEF EnterLoop, End, StopTimer, Detach, CloseWindows, system
<1> QED
  BY <1>1, <1>2, <1>3, <1>4, <1>5, <1>6, <1>7 DEF OverlayNext, MainStep

LEMMA OneShotQueues ==
  ASSUME OverlayTypeOK, QueueInv, OneShotInv, ~watch, [OverlayNext]_overlayVars
  PROVE  \A i \in 1..Len(queue') :
             queue'[i] \in {Block("event", NoController), Block("reconcile", session')}
<1> DEFINE Allowed(b) == b \in {Block("event", NoController), Block("reconcile", session)}
           Still(b) == b \in {Block("event", NoController), Block("reconcile", session')}
<1>0. queue \in Seq(QueueBlock)
  BY QueueTyped
<1>1. \A i \in 1..Len(queue) : Allowed(queue[i])
  BY DEF OneShotInv
<1>2. ASSUME NEW b \in QueueBlock, Allowed(b)
      PROVE  Still(b)
  <2>1. CASE b = Block("reconcile", session) /\ session' # session
    <3>1. session = NoController
      BY <2>1, SessionMoves DEF Begin, OneShotInv
    <3>2. NoController \notin Controllers
      BY DEF Controllers, NoController
    <3> QED
      BY <2>1, <3>1, <3>2 DEF QueueBlock, Block
  <2> QED
    BY <1>2, <2>1
<1>3. \A i \in 1..Len(queue) : queue[i] \in QueueBlock
  BY <1>0
<1>4. ASSUME queue' = Tail(queue), queue # <<>>
      PROVE  \A i \in 1..Len(queue') : Still(queue'[i])
  BY <1>0, <1>1, <1>2, <1>3, <1>4, TailAt
<1>5. ASSUME NEW b \in QueueBlock, queue' = Append(queue, b),
             b.kind = "create" => watch, b.kind = "close" => watch,
             b.kind = "reconcile" => cleared[b.c] > 0
      PROVE  \A i \in 1..Len(queue') : Still(queue'[i])
  <2>1. Allowed(b)
    <3>1. b = Block("event", NoController)
          \/ b \in [kind : {"create", "reconcile", "close"}, c : Controllers]
      BY DEF QueueBlock
    <3>2. CASE b \in [kind : {"create", "reconcile", "close"}, c : Controllers]
      <4>1. b.kind = "reconcile" /\ b.c = session
        BY <1>5, <3>2 DEF OneShotInv
      <4> QED
        BY <3>2, <4>1 DEF Block
    <3> QED
      BY <3>1, <3>2
  <2>2. /\ Len(queue') = Len(queue) + 1 /\ Len(queue) \in Nat
        /\ \A i \in 1..Len(queue) : queue'[i] = queue[i]
        /\ queue'[Len(queue) + 1] = b
    BY <1>0, <1>5, AppendAt
  <2>3. \A i \in 1..Len(queue') : i = Len(queue) + 1 \/ i \in 1..Len(queue)
    BY <2>2
  <2> QED
    BY <1>1, <1>2, <1>3, <2>1, <2>2, <2>3
<1>6. UNCHANGED queue => \A i \in 1..Len(queue') : Still(queue'[i])
  BY <1>1, <1>2, <1>3
<1> QED
  BY <1>4, <1>5, <1>6, QueueMoves

LEMMA OneShotTimers ==
  ASSUME OverlayTypeOK, QueueInv, OneShotInv, ~watch, [OverlayNext]_overlayVars,
         NEW c \in Controllers \ {session'}
  PROVE  ~timer'[c] /\ fired'[c] = 0 /\ cleared'[c] = 0
<1>0. /\ timer \in [Controllers -> BOOLEAN] /\ fired \in [Controllers -> Nat]
      /\ cleared \in [Controllers -> Nat]
  BY DEF OverlayTypeOK
<1>1. c # session
  <2>1. session' # session => session = NoController
    BY SessionMoves DEF Begin, OneShotInv
  <2> QED
    BY <2>1 DEF Controllers, NoController
<1>2. ~timer[c] /\ fired[c] = 0 /\ cleared[c] = 0
  BY <1>1 DEF OneShotInv
<1>3. CASE UNCHANGED <<timer, fired, cleared>>
  BY <1>2, <1>3
<1>4. CASE ScreensChanged
  <2>1. doing.c = session
    BY <1>4, DoingTyped DEF ScreensChanged, OneShotInv
  <2> QED
    BY <1>0, <1>1, <1>2, <1>4, <2>1 DEF ScreensChanged
<1>5. ASSUME NEW d \in Controllers, TimerStep(d)
      PROVE  ~timer'[c] /\ fired'[c] = 0 /\ cleared'[c] = 0
  <2>1. d # c
    BY <1>2, <1>5 DEF TimerStep, TimerExpires, TimerClears, TimerDispatches
  <2> QED
    BY <1>0, <1>2, <1>5, <2>1 DEF TimerStep, TimerExpires, TimerClears, TimerDispatches
<1>6. CASE StopTimer
  BY <1>0, <1>1, <1>2, <1>6 DEF StopTimer
<1>7. CASE Change \/ CatchUp \/ Serve \/ LeadingEdge \/ Begin \/ EnterLoop \/ End \/ Detach
           \/ CloseWindows \/ UNCHANGED overlayVars
  BY <1>3, <1>7 DEF Change, CatchUp, Serve, LeadingEdge, Begin, EnterLoop, End, Detach,
     CloseWindows, overlayVars, controller
<1> QED
  BY <1>4, <1>5, <1>6, <1>7 DEF OverlayNext, MainStep

\* Without --watch only the one session hides the cursor, which is back when
\* it is over.
LEMMA OneShotHides ==
  ASSUME OverlayTypeOK, QueueInv, OneShotInv, ~watch, [OverlayNext]_overlayVars
  PROVE  \/ /\ UNCHANGED <<hidden, cursor, foreground>>
            /\ step' \in {"idle", "over"} => Hidden = {}
         \/ /\ session' \in Controllers /\ hidden' = [hidden EXCEPT ![session'] = TRUE]
            /\ foreground' = TRUE /\ step' \notin {"idle", "over"}
         \/ /\ session \in Controllers /\ hidden' = [hidden EXCEPT ![session] = FALSE]
            /\ foreground' = FALSE /\ session' = session
<1>1. CASE Serve
  <2>1. session \in Controllers /\ Reconcile(session, FALSE) =>
          \/ UNCHANGED <<hidden, cursor, foreground>>
          \/ hidden' = [hidden EXCEPT ![session] = TRUE] /\ foreground' = TRUE
    BY ReconcileEffect
  <2> QED
    BY <1>1, <2>1, OneShotServes
<1>2. CASE LeadingEdge
  <2>1. doing.c \in Controllers /\ doing.c = session /\ step = "up"
    BY <1>2, DoingTyped DEF LeadingEdge, OneShotInv
  <2>2. Reconcile(session, FALSE) /\ UNCHANGED <<step, session>>
    BY <1>2, <2>1 DEF LeadingEdge
  <2> QED
    BY <2>1, <2>2, ReconcileEffect
<1>3. CASE Begin
  <2>1. session' \in Controllers
    BY <1>3, BoundAssumption DEF Begin, OverlayTypeOK, Controllers, NoController
  <2>2. Reconcile(session', TRUE) /\ (fails' = fails => step' = "active")
    BY <1>3 DEF Begin, RunCreate
  <2>3. Hidden = {}
    BY <1>3 DEF Begin, OneShotInv
  <2> QED
    BY <2>1, <2>2, <2>3, ReconcileEffect
<1>4. CASE CloseWindows
  <2>1. session \in Controllers /\ session' = session
    BY <1>4 DEF CloseWindows, OverlayTypeOK, QueueInv
  <2>2. Close(session)
    BY <1>4 DEF CloseWindows
  <2>3. ~hidden[session] => Hidden = {}
    BY DEF Hidden, OneShotInv
  <2>4. hidden[session] => hidden' = [hidden EXCEPT ![session] = FALSE] /\ foreground' = FALSE
    BY <2>2 DEF Close
  <2>5. ~hidden[session] => UNCHANGED <<hidden, cursor, foreground>>
    BY <2>1, <2>2, CloseEffect
  <2> QED
    BY <2>1, <2>3, <2>4, <2>5
<1>5. CASE Change \/ CatchUp \/ ScreensChanged \/ UNCHANGED overlayVars
           \/ \E c \in Controllers : TimerStep(c)
  <2>1. UNCHANGED <<hidden, cursor, foreground, step>>
    BY <1>5 DEF Change, CatchUp, ScreensChanged, TimerStep, TimerExpires, TimerClears,
       TimerDispatches, overlayVars, controller, look
  <2> QED
    BY <2>1 DEF OneShotInv
<1>6. CASE EnterLoop \/ End \/ StopTimer \/ Detach
  BY <1>6 DEF EnterLoop, End, StopTimer, Detach, controller, look
<1> QED
  BY <1>1, <1>2, <1>3, <1>4, <1>5, <1>6 DEF OverlayNext, MainStep

LEMMA OneShotStep ==
  ASSUME OverlayTypeOK, QueueInv, OneShotInv, [OverlayNext]_overlayVars
  PROVE  OneShotInv'
<1> SUFFICES ASSUME ~watch
             PROVE  OneShotInv'
  BY SessionMoves DEF OneShotInv
<1>0. hidden \in [Controllers -> BOOLEAN] /\ session' \in {session, session + 1}
  BY SessionMoves DEF OverlayTypeOK
<1>1. \A c \in Controllers \ {session'} : c # session
  <2>1. session' # session => session = NoController
    BY SessionMoves DEF Begin, OneShotInv
  <2> QED
    BY <2>1 DEF Controllers, NoController
<1>2. \A c \in Controllers \ {session} : ~hidden[c]
  BY DEF OneShotInv
<1>3. /\ foreground' <=> Hidden' # {}
      /\ step' \in {"idle", "over"} => Hidden' = {}
      /\ \A c \in Controllers \ {session'} : ~hidden'[c]
  <2>1. CASE UNCHANGED <<hidden, cursor, foreground>>
             /\ (step' \in {"idle", "over"} => Hidden = {})
    <3>1. Hidden' = Hidden
      BY <2>1 DEF Hidden
    <3> QED
      BY <1>1, <1>2, <2>1, <3>1 DEF OneShotInv
  <2>2. CASE /\ session' \in Controllers /\ hidden' = [hidden EXCEPT ![session'] = TRUE]
             /\ foreground' = TRUE /\ step' \notin {"idle", "over"}
    <3>1. session' \in Hidden'
      BY <1>0, <2>2 DEF Hidden
    <3>2. \A c \in Controllers \ {session'} : ~hidden'[c]
      BY <1>0, <1>1, <1>2, <2>2
    <3> QED
      BY <2>2, <3>1, <3>2
  <2>3. CASE /\ session \in Controllers /\ hidden' = [hidden EXCEPT ![session] = FALSE]
             /\ foreground' = FALSE /\ session' = session
    <3>1. \A c \in Controllers : ~hidden'[c]
      BY <1>0, <1>2, <2>3
    <3>2. Hidden' = {}
      BY <3>1 DEF Hidden
    <3> QED
      BY <2>3, <3>1, <3>2
  <2> QED
    BY <2>1, <2>2, <2>3, OneShotHides
<1> QED
  BY <1>3, OneShotGoesOn, OneShotQueues, OneShotTimers DEF OneShotInv

-----------------------------------------------------------------------------
OverlayInv == OverlayTypeOK /\ CursorInv /\ QueueInv /\ LatchInv /\ OneShotInv

\* The inductive invariant of the overlay, its type invariant included.
THEOREM OverlayInvariance == OverlaySpec => []OverlayInv
<1>1. OverlayInit => OverlayInv
  BY OverlayInitially DEF OverlayInv
<1>2. OverlayInv /\ [OverlayNext]_overlayVars => OverlayInv'
  BY OverlayTypeStep, CursorStep, QueueStep, LatchStep, OneShotStep DEF OverlayInv
<1> QED
  BY <1>1, <1>2, PTL DEF OverlaySpec

\* The state of displays, windows, timers and the main queue is well typed, and
\* the callback is that of the current session or of none.
THEOREM OverlayTyping == OverlaySpec => []OverlayTypeOK
<1>1. OverlayInv => OverlayTypeOK
  BY DEF OverlayInv
<1> QED
  BY <1>1, OverlayInvariance, PTL

\* Controller.cursorHidden: the cursor, which the system hides by counting, is
\* hidden once by each Controller that shows windows and is back without one,
\* however the displays change and the windows fail to build.
THEOREM CursorIsGivenBack == OverlaySpec => []CursorFollowsShield
<1>1. OverlayInv => CursorFollowsShield
  <2> SUFFICES ASSUME OverlayInv, NEW c \in Controllers
               PROVE  /\ windows[c] # {} => hidden[c]
                      /\ hidden[c] /\ (\A d \in Controllers \ {c} : ~hidden[d]) => cursor = 1
                      /\ (\A d \in Controllers : ~hidden[d]) => cursor = 0
    BY DEF CursorFollowsShield
  <2>1. ASSUME hidden[c], \A d \in Controllers \ {c} : ~hidden[d]
        PROVE  cursor = 1
    <3>1. Hidden = {c}
      BY <2>1 DEF Hidden
    <3> QED
      BY <3>1, FS_Singleton DEF OverlayInv, CursorInv
  <2>2. ASSUME \A d \in Controllers : ~hidden[d]
        PROVE  cursor = 0
    <3>1. Hidden = {}
      BY <2>2 DEF Hidden
    <3> QED
      BY <3>1, FS_EmptySet DEF OverlayInv, CursorInv
  <2> QED
    BY <2>1, <2>2 DEF OverlayInv, CursorInv
<1> QED
  BY <1>1, OverlayInvariance, PTL

\* leadingFired: while the session lasts, the latch is held only as long as the
\* debounce timer, or its goroutine, is still going to give it back.
THEOREM LatchIsGivenBack == OverlaySpec => []LeadingEdgeRecovers
<1>1. OverlayInv => LeadingEdgeRecovers
  BY DEF OverlayInv, LatchInv, LeadingEdgeRecovers, Shielding, Ending, OverlayTypeOK,
     Controllers
<1> QED
  BY <1>1, OverlayInvariance, PTL

\* Controller.Release in a one-shot run: once it has run, no window of the run
\* covers a display, the cursor is shown and the process is in the background.
THEOREM OneShotClosesAll == OverlaySpec => []OneShotLeavesNoShield
<1>1. OverlayInv => OneShotLeavesNoShield
  <2> SUFFICES ASSUME OverlayInv, ~watch, step \in {"idle", "over"}
               PROVE  (\A c \in Controllers : windows[c] = {}) /\ cursor = 0 /\ ~foreground
    BY DEF OneShotLeavesNoShield, NoShieldBetweenSessions
  <2>1. Hidden = {} /\ ~foreground
    BY DEF OverlayInv, OneShotInv
  <2>2. \A c \in Controllers : windows[c] = {}
    BY <2>1 DEF OverlayInv, CursorInv, Hidden
  <2> QED
    BY <2>1, <2>2, FS_EmptySet DEF OverlayInv, CursorInv
<1> QED
  BY <1>1, OverlayInvariance, PTL

-----------------------------------------------------------------------------
(* The power assertion and the orphans. *)

Gone == {"unborn", "dead", "refused"}
Inside == {"locked", "calls", "called"}

\* A PID is that of one live run at most, and every entry a run knows of
\* carries the PID of its owner, which will not be born again.
Known(e) == e.pid = pid[e.owner] /\ pc[e.owner] # "unborn"

PidInv ==
    /\ \A p \in Procs : p \in live <=> pc[p] \notin Gone
    /\ \A p \in live : pid[p] \in Pids
    /\ \A p, q \in live : pid[p] = pid[q] => p = q
    /\ \A e \in table : Known(e)
    /\ \A p \in Procs : \A e \in orphans[p] : Known(e)

\* What the loop has passed belongs to runs that are gone.
LoopInv ==
    /\ \A p \in Procs : next[p] \subseteq orphans[p]
    /\ \A p \in Procs : target[p] \subseteq orphans[p] \ next[p]
    /\ \A p \in Procs : target[p] # {} => pc[p] = "release"
    /\ \A p \in Procs : \A e \in orphans[p] \ next[p] : e.owner \notin live
    /\ \A p \in Procs : pc[p] \in {"shell", "session"} => next[p] = {}

ScanInv == TypeOK /\ PidInv /\ LoopInv

\* The mutex is with the caller inside, which finds the flag down once it
\* has looked, and the outcome is known from the call of releaseFn on.
ReleaseInv ==
    /\ \A p \in Procs, c \in Callers :
           call[p][c] \in Inside <=> mu[p] = c
    /\ \A p \in Procs, c \in Callers :
           call[p][c] = "calls" => ~released[p] /\ outcome[p] = "none"
    /\ \A p \in Procs, c \in Callers :
           call[p][c] = "called" => ~released[p] /\ outcome[p] # "none"
    /\ \A p \in Procs, c \in Callers : call[p][c] = "returned" => released[p]
    /\ \A p \in Procs : released[p] => outcome[p] # "none"
    /\ \A p \in Procs : outcome[p] # "none" =>
           released[p] \/ \E c \in Callers : call[p][c] = "called"
    /\ \A p \in Procs : pc[p] = "session" /\ outcome[p] = "ok" =>
           Own(p) \notin table

-----------------------------------------------------------------------------
LEMMA TypeInit == Init => TypeOK
BY CapAssumption DEF Init, TypeOK, Idle

\* A scan returns nothing that is not in the table.
LEMMA ScanSees ==
    ASSUME NEW p \in Procs, NEW S \in Clipped(Matching(p)) \cup {{}}
    PROVE  S \subseteq table
BY DEF Clipped, Matching

LEMMA TypeStep == TypeOK /\ PidInv /\ [Next]_vars => TypeOK'
<1> SUFFICES ASSUME TypeOK, PidInv, [Next]_vars PROVE TypeOK'
    OBVIOUS
<1> USE CapAssumption DEF TypeOK, scanVars, assertionVars
<1>1. ASSUME NEW p \in Procs, Start(p) PROVE TypeOK'
    BY <1>1 DEF Start
<1>2. ASSUME NEW p \in Procs, NEW how \in {"dead", "refused"}, Ends(p, how)
      PROVE TypeOK'
    BY <1>2 DEF Ends, Idle
<1>3. ASSUME NEW p \in Procs, Scan(p) PROVE TypeOK'
    BY <1>3, ScanSees DEF Scan
<1>4. ASSUME NEW p \in Procs, ProbeFindsDead(p) PROVE TypeOK'
    BY <1>4 DEF ProbeFindsDead
<1>5. ASSUME NEW p \in Procs, ReleaseOrphan(p) PROVE TypeOK'
    BY <1>5 DEF ReleaseOrphan
<1>6. ASSUME NEW p \in Procs, ScanEnds(p) PROVE TypeOK'
    BY <1>6 DEF ScanEnds
<1>7. ASSUME NEW p \in Procs, Acquire(p) PROVE TypeOK'
  <2>1. pid[p] \in Pids /\ sessions[p] + 1 \in 1 .. MaxSessions
    BY <1>7 DEF Acquire, PidInv, Gone
  <2>2. [Own(p) EXCEPT !.session = @ + 1] \in Entry
    BY <2>1 DEF Own, Entry
  <2>3. table' \subseteq Entry
    BY <1>7, <2>2 DEF Acquire
  <2>4. sessions' \in [Procs -> 0 .. MaxSessions]
    BY <1>7, <2>1 DEF Acquire
  <2> QED BY <1>7, <2>3, <2>4 DEF Acquire, Idle
<1>8. ASSUME NEW p \in Procs, SessionEnds(p) PROVE TypeOK'
    BY <1>8 DEF SessionEnds
<1>9. ASSUME NEW p \in Procs, NEW c \in Callers, Released(p, c) PROVE TypeOK'
  <2>1. CASE FastPath(p, c) BY <2>1 DEF FastPath, Goes
  <2>2. CASE Lock(p, c) BY <2>2 DEF Lock, Goes
  <2>3. CASE DoubleCheck(p, c) BY <2>3 DEF DoubleCheck, Goes
  <2>4. CASE CallReleaseFn(p, c) BY <2>4 DEF CallReleaseFn, Goes
  <2>5. CASE StoreReleased(p, c) BY <2>5 DEF StoreReleased, Goes
  <2> QED BY <1>9, <2>1, <2>2, <2>3, <2>4, <2>5 DEF Released
<1>10. CASE UNCHANGED vars BY <1>10 DEF vars
<1> QED
    BY <1>1, <1>2, <1>3, <1>4, <1>5, <1>6, <1>7, <1>8, <1>9, <1>10
    DEF Next, Dies, ProbeRefuses

-----------------------------------------------------------------------------
LEMMA PidInit == Init => PidInv
BY DEF Init, PidInv, Gone

\* Only Start gives a PID out, to a run no entry belongs to yet.
LEMMA PidStep == TypeOK /\ PidInv /\ [Next]_vars => PidInv'
<1> SUFFICES ASSUME TypeOK, PidInv, [Next]_vars PROVE PidInv'
    OBVIOUS
<1> USE DEF TypeOK, PidInv, Known, Gone, scanVars, assertionVars
<1>1. ASSUME NEW p \in Procs, Start(p) PROVE PidInv'
  <2>1. PICK n \in Pids \ {pid[q] : q \in live} : pid' = [pid EXCEPT ![p] = n]
    BY <1>1 DEF Start
  <2>2. \A q \in live : q # p /\ pid'[q] = pid[q] /\ pid'[q] # n
    BY <1>1, <2>1 DEF Start
  <2>3. \A e \in Entry : Known(e) => Known(e)'
    BY <1>1, <2>1 DEF Start, Entry
  <2>4. pid'[p] = n
    BY <2>1
  <2>5. /\ \A q \in live' : pid'[q] \in Pids
        /\ \A q, r \in live' : pid'[q] = pid'[r] => q = r
    BY <1>1, <2>2, <2>4 DEF Start
  <2>6. \A q \in Procs : q \in live' <=> pc'[q] \notin Gone
    BY <1>1 DEF Start
  <2>7. (\A e \in table' : Known(e)') /\ \A q \in Procs : \A e \in orphans'[q] : Known(e)'
    BY <1>1, <2>3 DEF Start
  <2> QED BY <2>5, <2>6, <2>7
<1>2. ASSUME NEW p \in Procs, NEW how \in {"dead", "refused"}, Ends(p, how)
      PROVE PidInv'
  <2>1. \A e \in Entry : Known(e) => Known(e)'
    BY <1>2 DEF Ends, Entry
  <2>2. table' \subseteq table /\ \A q \in Procs : orphans'[q] \subseteq orphans[q]
    BY <1>2 DEF Ends
  <2>3. (\A e \in table' : Known(e)') /\ \A q \in Procs : \A e \in orphans'[q] : Known(e)'
    BY <2>1, <2>2
  <2>4. pid' = pid /\ live' \subseteq live
    BY <1>2 DEF Ends
  <2>5. \A q \in Procs : q \in live' <=> pc'[q] \notin Gone
    BY <1>2 DEF Ends
  <2> QED BY <2>3, <2>4, <2>5
<1>3. ASSUME NEW p \in Procs, Scan(p) PROVE PidInv'
  <2>1. PICK S \in Clipped(Matching(p)) \cup {{}} :
            orphans' = [orphans EXCEPT ![p] = S]
    BY <1>3 DEF Scan
  <2>2. \A q \in Procs : \A e \in orphans'[q] : e \in table \/ e \in orphans[q]
    BY <2>1, ScanSees
  <2>3. \A e : Known(e) => Known(e)'
    BY <1>3 DEF Scan
  <2> QED BY <1>3, <2>2, <2>3 DEF Scan
<1>4. ASSUME NEW p \in Procs, ProbeFindsDead(p) PROVE PidInv'
    BY <1>4 DEF ProbeFindsDead, Entry
<1>5. ASSUME NEW p \in Procs, ReleaseOrphan(p) PROVE PidInv'
    BY <1>5 DEF ReleaseOrphan, Entry
<1>6. ASSUME NEW p \in Procs, ScanEnds(p) PROVE PidInv'
    BY <1>6 DEF ScanEnds, Entry
<1>7. ASSUME NEW p \in Procs, Acquire(p) PROVE PidInv'
  <2> DEFINE new == [Own(p) EXCEPT !.session = @ + 1]
  <2>1. new.owner = p /\ new.pid = pid[p]
    BY DEF Own
  <2>2. pid' = pid /\ live' = live /\ orphans' = orphans /\ table' = table \cup {new}
    BY <1>7 DEF Acquire
  <2>3. \A q \in Procs : pc'[q] \in Gone <=> pc[q] \in Gone
    BY <1>7 DEF Acquire
  <2>4. \A q \in Procs : pc'[q] = "unborn" <=> pc[q] = "unborn"
    BY <1>7 DEF Acquire
  <2>5. new.pid = pid'[new.owner] /\ pc'[new.owner] # "unborn"
    BY <1>7, <2>1, <2>2 DEF Acquire
  <2>6. \A e \in Entry : Known(e) => Known(e)'
    BY <2>2, <2>4 DEF Entry
  <2>7. (\A e \in table' : Known(e)') /\ \A q \in Procs : \A e \in orphans'[q] : Known(e)'
    BY <2>2, <2>5, <2>6
  <2>8. \A q \in Procs : q \in live' <=> pc'[q] \notin Gone
    BY <2>2, <2>3
  <2> HIDE DEF new
  <2> QED BY <2>2, <2>7, <2>8
<1>8. ASSUME NEW p \in Procs, SessionEnds(p) PROVE PidInv'
    BY <1>8 DEF SessionEnds, Entry
<1>9. ASSUME NEW p \in Procs, NEW c \in Callers, Released(p, c) PROVE PidInv'
  <2>1. UNCHANGED <<live, pid, pc, orphans>> /\ table' \subseteq table
    BY <1>9 DEF Released, FastPath, Lock, DoubleCheck, CallReleaseFn,
                StoreReleased, Goes
  <2> QED BY <2>1
<1>10. CASE UNCHANGED vars BY <1>10 DEF vars
<1> QED
    BY <1>1, <1>2, <1>3, <1>4, <1>5, <1>6, <1>7, <1>8, <1>9, <1>10
    DEF Next, Dies, ProbeRefuses

-----------------------------------------------------------------------------
LEMMA LoopInit == Init => LoopInv
BY DEF Init, LoopInv

\* The loop moves past an entry only when no live run has its PID.
LEMMA LoopStep == ScanInv /\ [Next]_vars => LoopInv'
<1> SUFFICES ASSUME TypeOK, PidInv, LoopInv, [Next]_vars PROVE LoopInv'
    BY DEF ScanInv
<1> USE DEF LoopInv, scanVars, assertionVars
<1>1. ASSUME NEW p \in Procs, Start(p) PROVE LoopInv'
  <2>1. \A q \in Procs : \A e \in orphans[q] : e.owner # p
    BY <1>1 DEF Start, PidInv, Known
  <2> QED BY <1>1, <2>1 DEF Start, TypeOK
<1>2. ASSUME NEW p \in Procs, NEW how \in {"dead", "refused"}, Ends(p, how)
      PROVE LoopInv'
    BY <1>2 DEF Ends, TypeOK
<1>3. ASSUME NEW p \in Procs, Scan(p) PROVE LoopInv'
  <2>1. target[p] = {}
    BY <1>3 DEF Scan
  <2> QED BY <1>3, <2>1 DEF Scan, TypeOK
<1>4. ASSUME NEW p \in Procs, ProbeFindsDead(p) PROVE LoopInv'
  <2>1. PICK e \in next[p] :
            /\ ~IsAlive(p, e.pid)
            /\ target' = [target EXCEPT ![p] = {e}]
            /\ next' = [next EXCEPT ![p] = @ \ {e}]
    BY <1>4 DEF ProbeFindsDead
  <2>2. e.owner \notin live
    BY <2>1 DEF IsAlive, Errno, PidInv, Known
  <2> QED BY <1>4, <2>1, <2>2 DEF ProbeFindsDead, TypeOK
<1>5. ASSUME NEW p \in Procs, ReleaseOrphan(p) PROVE LoopInv'
    BY <1>5 DEF ReleaseOrphan, TypeOK
<1>6. ASSUME NEW p \in Procs, ScanEnds(p) PROVE LoopInv'
    BY <1>6 DEF ScanEnds, TypeOK
<1>7. ASSUME NEW p \in Procs, Acquire(p) PROVE LoopInv'
    BY <1>7 DEF Acquire, TypeOK
<1>8. ASSUME NEW p \in Procs, SessionEnds(p) PROVE LoopInv'
    BY <1>8 DEF SessionEnds, TypeOK
<1>9. ASSUME NEW p \in Procs, NEW c \in Callers, Released(p, c) PROVE LoopInv'
    BY <1>9 DEF Released, FastPath, Lock, DoubleCheck, CallReleaseFn,
                StoreReleased, Goes
<1>10. CASE UNCHANGED vars BY <1>10 DEF vars
<1> QED
    BY <1>1, <1>2, <1>3, <1>4, <1>5, <1>6, <1>7, <1>8, <1>9, <1>10
    DEF Next, Dies, ProbeRefuses

-----------------------------------------------------------------------------
\* What a run knows of the owners of the entries it scanned.
THEOREM ScanInvariance == Spec => []ScanInv
<1>1. Init => ScanInv
    BY TypeInit, PidInit, LoopInit DEF ScanInv
<1>2. ScanInv /\ [Next]_vars => ScanInv'
    BY TypeStep, PidStep, LoopStep DEF ScanInv
<1> QED BY <1>1, <1>2, PTL DEF Spec

\* Type correctness.
THEOREM Typing == Spec => []TypeOK
BY ScanInvariance, PTL DEF ScanInv

\* A start that got past CleanupOrphans runs beside no owner of an entry
\* that its scan returned.
THEOREM HoldersGone == Spec => []SeenHoldersAreGone
<1>1. ScanInv => SeenHoldersAreGone
    BY DEF ScanInv, LoopInv, SeenHoldersAreGone
<1> QED BY <1>1, ScanInvariance, PTL

\* The entry of a run that exists is taken out of the table by nobody else.
THEOREM NobodyElseReleases == Spec => LiveAssertionsStay
<1> DEFINE Stays ==
        \A e \in table \ table' :
            \/ e.owner \notin live'
            \/ \E c \in Callers : /\ call[e.owner][c] = "calls"
                                  /\ call'[e.owner][c] = "called"
<1>1. ScanInv /\ [Next]_vars => Stays
  <2> SUFFICES ASSUME ScanInv, [Next]_vars, NEW e \in table \ table',
                      e.owner \in live'
               PROVE  \E c \in Callers : /\ call[e.owner][c] = "calls"
                                        /\ call'[e.owner][c] = "called"
    OBVIOUS
  <2>1. ASSUME NEW p \in Procs, NEW how \in {"dead", "refused"}, Ends(p, how)
        PROVE  FALSE
    BY <2>1 DEF Ends, EntriesOf
  <2>2. ASSUME NEW p \in Procs, ReleaseOrphan(p) PROVE FALSE
    BY <2>2 DEF ReleaseOrphan, ScanInv, LoopInv
  <2>3. ASSUME NEW p \in Procs, NEW c \in Callers, CallReleaseFn(p, c)
        PROVE  e.owner = p /\ call[p][c] = "calls" /\ call'[p][c] = "called"
    BY <2>3 DEF CallReleaseFn, Goes, Own, ScanInv, TypeOK
  <2>4. ASSUME NEW p \in Procs, Acquire(p) PROVE FALSE
    BY <2>4 DEF Acquire
  <2> QED
    BY <2>1, <2>2, <2>3, <2>4
    DEF Next, vars, Start, Dies, Scan, ProbeRefuses, ProbeFindsDead, ScanEnds,
        SessionEnds, Released, FastPath, Lock, DoubleCheck, StoreReleased, Goes
<1> QED BY <1>1, ScanInvariance, PTL DEF Spec, LiveAssertionsStay

-----------------------------------------------------------------------------
LEMMA ReleaseInit == Init => ReleaseInv
BY CallersAssumption DEF Init, ReleaseInv, Idle, Inside

\* An Assertion is created with nobody inside, and a caller that looked under
\* the mutex is the only one to call releaseFn.
LEMMA ReleaseStep ==
    ScanInv /\ ReleaseInv /\ [Next]_vars => ReleaseInv'
<1> SUFFICES ASSUME TypeOK, PidInv, ReleaseInv, [Next]_vars
             PROVE  ReleaseInv'
    BY DEF ScanInv
<1> USE CallersAssumption DEF ReleaseInv, TypeOK, scanVars, assertionVars
<1>1. ASSUME NEW p \in Procs, Start(p) PROVE ReleaseInv'
    BY <1>1 DEF Start, Own
<1>2. ASSUME NEW p \in Procs, NEW how \in {"dead", "refused"}, Ends(p, how)
      PROVE ReleaseInv'
    BY <1>2 DEF Ends, Own, Idle, Inside
<1>3. ASSUME NEW p \in Procs, Scan(p) PROVE ReleaseInv'
    BY <1>3 DEF Scan, Own
<1>4. ASSUME NEW p \in Procs, ProbeFindsDead(p) PROVE ReleaseInv'
    BY <1>4 DEF ProbeFindsDead, Own
<1>5. ASSUME NEW p \in Procs, ReleaseOrphan(p) PROVE ReleaseInv'
    BY <1>5 DEF ReleaseOrphan, Own
<1>6. ASSUME NEW p \in Procs, ScanEnds(p) PROVE ReleaseInv'
    BY <1>6 DEF ScanEnds, Own
<1>7. ASSUME NEW p \in Procs, Acquire(p) PROVE ReleaseInv'
    BY <1>7 DEF Acquire, Own, Idle, Inside
<1>8. ASSUME NEW p \in Procs, SessionEnds(p) PROVE ReleaseInv'
    BY <1>8 DEF SessionEnds, Own
<1>9. ASSUME NEW p \in Procs, NEW c \in Callers, Released(p, c)
      PROVE ReleaseInv'
  <2>1. CASE FastPath(p, c) BY <2>1 DEF FastPath, Goes, Own, Inside
  <2>2. CASE Lock(p, c) BY <2>2 DEF Lock, Goes, Own, Inside
  <2>3. CASE DoubleCheck(p, c)
    BY <2>3 DEF DoubleCheck, Goes, Own, Inside
  <2>4. CASE CallReleaseFn(p, c)
    BY <2>4 DEF CallReleaseFn, Goes, Own, Inside
  <2>5. CASE StoreReleased(p, c)
    BY <2>5 DEF StoreReleased, Goes, Own, Inside
  <2> QED BY <1>9, <2>1, <2>2, <2>3, <2>4, <2>5 DEF Released
<1>10. CASE UNCHANGED vars BY <1>10 DEF vars, Own
<1> QED
    BY <1>1, <1>2, <1>3, <1>4, <1>5, <1>6, <1>7, <1>8, <1>9, <1>10
    DEF Next, Dies, ProbeRefuses

\* How the flag, the mutex and the outcome of an Assertion go together.
THEOREM ReleaseInvariance == Spec => []ReleaseInv
<1>1. Init => ReleaseInv
    BY ReleaseInit
<1>2. ScanInv /\ ReleaseInv /\ [Next]_vars => ReleaseInv'
    BY ReleaseStep
<1> QED BY <1>1, <1>2, ScanInvariance, PTL DEF Spec

\* Whoever returns from Release leaves no entry, unless IOKit refused.
THEOREM ReturnsReleased == Spec => []ReturnedMeansReleased
<1>1. TypeOK /\ ReleaseInv => ReturnedMeansReleased
    BY DEF TypeOK, ReleaseInv, ReturnedMeansReleased
<1> QED BY <1>1, Typing, ReleaseInvariance, PTL

\* IOKit is asked once.
THEOREM AskedOnce == Spec => ReleasedOnce
<1> DEFINE Once ==
        \A p \in Procs, c \in Callers :
           call[p][c] = "calls" /\ call'[p][c] = "called"
               => outcome[p] = "none"
<1>1. ReleaseInv => Once
    BY DEF ReleaseInv
<1> QED BY <1>1, ReleaseInvariance, PTL DEF ReleasedOnce
=============================================================================
