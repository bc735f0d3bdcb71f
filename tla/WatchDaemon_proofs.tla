------------------------- MODULE WatchDaemon_proofs -------------------------
(***************************************************************************)
(* Theorems about WatchDaemon, for any sets of watchers, killers, PIDs and *)
(* combinations.  The state is well typed; a start is refused only beside  *)
(* a watcher that is there; a launcher tells the truth; and, if no --kill  *)
(* runs during a start and probes do not fail, whoever watches is the one  *)
(* the record names, and a --kill that returns 0 has left nobody watching. *)
(***************************************************************************)
EXTENDS WatchDaemon, TLAPS

(* Who has a PID, and who has been launched. *)

\* A PID that names a watcher names one that is there and has that PID.
Holders ==
  \A n \in Pids : table[n] \in Watchers =>
                    Alive(table[n]) /\ pid[table[n]] = n

\* A child is new as long as its launcher is.
Launched == \A w \in Watchers : launcher[w] = "new" <=> step[w] = "new"

ProcInv == TypeOK /\ Holders /\ Launched

LEMMA ProcInit == Init => ProcInv
BY ProcAssumption DEF Init, ProcInv, TypeOK, Holders, Launched, Alive, Records,
   None, Corrupt, Free, Other, Past, Unknown, StartSteps, EndSteps, KillSteps

LEMMA ExitKeepsProcInv ==
  ASSUME ProcInv, NEW w \in Watchers, Alive(w), Exit(w),
         clean' \subseteq Watchers,
         launcher' \in [Watchers -> {"new", "wait", "reap", "gone", "zero", "nonzero"}],
         \A v \in Watchers : launcher'[v] = "new" <=> launcher[v] = "new",
         UNCHANGED <<ready, record, killer, target>>
  PROVE  ProcInv'
<1> USE ProcAssumption
<1> USE DEF ProcInv, TypeOK, Holders, Launched, Alive, Exit, Goto, Free
<1>1. pid[w] \in Pids /\ table[pid[w]] = w /\ w # Free
  OBVIOUS
<1>2. step' \in [Watchers -> StartSteps \cup EndSteps \cup {"new", "watching", "gone"}]
  OBVIOUS
<1>3. \A v \in Watchers : Alive(v)' => v # w /\ Alive(v)
  OBVIOUS
<1>4. \A v \in Watchers : Alive(v)' =>
        pid'[v] \in Pids /\ table'[pid'[v]] = v
  BY <1>1, <1>3
<1>5. Holders'
  BY <1>1, <1>3
<1>6. \A v \in Watchers : step'[v] \in {"inspect", "write"} <=> lock' = v
  <2> TAKE v \in Watchers
  <2>1. step[v] \in {"inspect", "write"} <=> lock = v
    OBVIOUS
  <2>2. CASE v = w
    BY <2>1, <2>2, <1>1
  <2>3. CASE v # w
    BY <2>1, <2>3
  <2> QED
    BY <2>2, <2>3
<1>7. Launched'
  BY <1>1
<1>8. table' \in [Pids -> Watchers \cup {Free, Other}]
      /\ pid' \in [Watchers -> Pids \cup {Free}]
      /\ combo' \in [Watchers -> Combos \cup {Free}]
      /\ term' \subseteq Watchers /\ lock' \in Watchers \cup {Free}
  OBVIOUS
<1> QED
  BY <1>2, <1>4, <1>5, <1>6, <1>7, <1>8

LEMMA WatcherStepKeepsProcInv ==
  ASSUME ProcInv, NEW w \in Watchers, WatcherStep(w)
  PROVE  ProcInv'
<1> USE ProcAssumption
<1> USE DEF ProcInv, TypeOK, Holders, Launched, Alive, Goto, StartSteps, EndSteps
<1>1. CASE Check(w)
  BY <1>1 DEF Check
<1>2. CASE Granted(w)
  BY <1>2 DEF Granted
<1>3. CASE Register(w)
  BY <1>3 DEF Register
<1>4. CASE Lock(w)
  BY <1>4 DEF Lock, Free
<1>5. CASE Recheck(w)
  BY <1>5 DEF Recheck, Free
<1>6. CASE Write(w)
  BY <1>6 DEF Write, Records, Free
<1>7. CASE Ready(w)
  BY <1>7 DEF Ready
<1>8. CASE StopWatching(w)
  BY <1>8 DEF StopWatching
<1>9. CASE Unrecord(w)
  BY <1>9 DEF Unrecord
<1>10. CASE Unregister(w)
  BY <1>10 DEF Unregister
<1>11. CASE Leave(w)
  BY <1>11, ExitKeepsProcInv DEF Leave
<1> QED
  BY <1>1, <1>2, <1>3, <1>4, <1>5, <1>6, <1>7, <1>8, <1>9, <1>10, <1>11
     DEF WatcherStep

LEMMA LauncherStepKeepsProcInv ==
  ASSUME ProcInv, NEW w \in Watchers,
         LauncherStep(w) \/ Interrupt(w) \/ LauncherDies(w) \/ Killed(w)
  PROVE  ProcInv'
<1> USE ProcAssumption
<1>1. CASE Killed(w)
  <2>1. clean' \subseteq Watchers
    BY <1>1 DEF Killed, ProcInv, TypeOK
  <2>2. launcher' \in [Watchers -> {"new", "wait", "reap", "gone", "zero", "nonzero"}]
    BY <1>1 DEF Killed, ProcInv, TypeOK
  <2> QED
    BY <1>1, <2>1, <2>2, ExitKeepsProcInv DEF Killed
<1>2. CASE Reap(w) /\ Alive(w)
  <2>1. clean' \subseteq Watchers
    BY <1>2 DEF Reap, ProcInv, TypeOK
  <2>2. launcher' \in [Watchers -> {"new", "wait", "reap", "gone", "zero", "nonzero"}]
    BY <1>2 DEF Reap, ProcInv, TypeOK
  <2>3. \A v \in Watchers : launcher'[v] = "new" <=> launcher[v] = "new"
    BY <1>2 DEF Reap, ProcInv, TypeOK
  <2> QED
    BY <1>2, <2>1, <2>2, <2>3, ExitKeepsProcInv DEF Reap
<1> USE DEF ProcInv, TypeOK, Holders, Launched, Alive, watcher
<1>3. CASE Reap(w) /\ ~Alive(w)
  BY <1>3 DEF Reap
<1>4. CASE Succeed(w)
  BY <1>4 DEF Succeed
<1>5. CASE EndOfFile(w)
  BY <1>5 DEF EndOfFile
<1>6. CASE Interrupt(w)
  BY <1>6 DEF Interrupt
<1>7. CASE LauncherDies(w)
  BY <1>7 DEF LauncherDies
<1> QED
  BY <1>1, <1>2, <1>3, <1>4, <1>5, <1>6, <1>7 DEF LauncherStep

LEMMA LaunchKeepsProcInv ==
  ASSUME ProcInv, NEW w \in Watchers, NEW n \in Pids, Launch(w, n)
  PROVE  ProcInv'
<1> USE ProcAssumption
<1> USE DEF ProcInv, TypeOK, Holders, Launched, Alive, Goto, Launch, Free
<1>1. step[w] = "new" /\ w # Free /\ lock # w
  OBVIOUS
<1>2. \A v \in Watchers : Alive(v)' =>
        pid'[v] \in Pids /\ table'[pid'[v]] = v
  BY <1>1
<1>3. Holders'
  BY <1>1
<1>4. Launched'
  OBVIOUS
<1>5. step' \in [Watchers -> StartSteps \cup EndSteps \cup {"new", "watching", "gone"}]
  BY DEF StartSteps
<1>6. combo' \in [Watchers -> Combos \cup {Free}]
  OBVIOUS
<1>7. \A v \in Watchers : step'[v] \in {"inspect", "write"} <=> lock' = v
  BY <1>1
<1> QED
  BY <1>2, <1>3, <1>4, <1>5, <1>6, <1>7

LEMMA RecycleKeepsProcInv ==
  ASSUME ProcInv, NEW n \in Pids, Recycle(n)
  PROVE  ProcInv'
BY ProcAssumption
   DEF ProcInv, TypeOK, Holders, Launched, Alive, Recycle, watcher, Free, Other

LEMMA KillerStepKeepsProcInv ==
  ASSUME ProcInv, NEW k \in Killers, KillerStep(k)
  PROVE  ProcInv'
<1> USE ProcAssumption
<1> USE DEF ProcInv, TypeOK, Holders, Launched, Alive, watcher
<1>1. ASSUME NEW s \in KillSteps \cup {"zero", "nonzero"}, At(k, s)
      PROVE  /\ killer' \in [Killers -> KillSteps \cup {"new", "zero", "nonzero"}]
             /\ target' \in [Killers -> Records \cup {None, Corrupt}]
  BY <1>1 DEF At
<1> USE DEF KillSteps
<1>2. CASE Find(k)
  BY <1>1, <1>2 DEF Find, Inspect
<1>3. CASE ClearStale(k)
  BY <1>1, <1>3 DEF ClearStale
<1>4. CASE Signal(k)
  BY <1>1, <1>4 DEF Signal
<1>5. CASE Poll(k)
  BY <1>1, <1>5 DEF Poll
<1>6. CASE Reread(k)
  BY <1>1, <1>6 DEF Reread
<1>7. CASE Remove(k)
  BY <1>1, <1>7 DEF Remove
<1> QED
  BY <1>2, <1>3, <1>4, <1>5, <1>6, <1>7 DEF KillerStep

LEMMA ProcStep == ProcInv /\ [Next]_vars => ProcInv'
<1> SUFFICES ASSUME ProcInv, [Next]_vars PROVE ProcInv'
  OBVIOUS
<1>1. CASE UNCHANGED vars
  BY <1>1 DEF vars, watcher, ProcInv, TypeOK, Holders, Launched, Alive
<1>2. CASE Next
  BY <1>2, WatcherStepKeepsProcInv, LauncherStepKeepsProcInv, LaunchKeepsProcInv,
     RecycleKeepsProcInv, KillerStepKeepsProcInv DEF Next
<1> QED
  BY <1>1, <1>2

LEMMA ProcInvariance == Spec => []ProcInv
BY ProcInit, ProcStep, PTL DEF Spec

\* For any processes, PIDs and combinations the state is well typed, and the
\* lock is held by exactly the watcher that re-checks and writes the record.
THEOREM TypeCorrect == Spec => []TypeOK
<1>1. ProcInv => TypeOK
  BY DEF ProcInv
<1> QED
  BY <1>1, ProcInvariance, PTL

-----------------------------------------------------------------------------
(* Refusals.  A record with a start time of a watcher was written by it. *)

Unwritten == {"new", "check", "grants", "register", "publish", "inspect", "write"}

WriterHasWritten ==
  record.start \in Watchers => step[record.start] \notin Unwritten

LEMMA WriterStep ==
  ProcInv /\ WriterHasWritten /\ [Next]_vars => WriterHasWritten'
<1> SUFFICES ASSUME ProcInv, WriterHasWritten, [Next]_vars
             PROVE  WriterHasWritten'
  OBVIOUS
<1> USE ProcAssumption DEF WriterHasWritten, Unwritten
<1>1. /\ step \in [Watchers -> StartSteps \cup EndSteps \cup {"new", "watching", "gone"}]
      /\ None.start \notin Watchers /\ Unknown \notin Watchers
      /\ \A v \in Watchers : launcher[v] = "new" <=> step[v] = "new"
  BY DEF ProcInv, TypeOK, Launched, None
<1>2. ASSUME NEW w \in Watchers, WatcherStep(w) PROVE WriterHasWritten'
  <2>1. CASE Write(w)
    BY <1>1, <2>1 DEF Write, Goto
  <2>2. CASE Unrecord(w)
    BY <1>1, <2>2 DEF Unrecord, Goto
  <2>3. CASE ~Write(w) /\ ~Unrecord(w)
    BY <1>1, <1>2, <2>3
       DEF WatcherStep, Check, Granted, Register, Lock, Recheck, Ready, StopWatching,
           Unregister, Leave, Exit, Goto
  <2> QED
    BY <2>1, <2>2, <2>3
<1>3. ASSUME NEW w \in Watchers,
             LauncherStep(w) \/ Interrupt(w) \/ LauncherDies(w) \/ Killed(w)
      PROVE  WriterHasWritten'
  BY <1>1, <1>3 DEF LauncherStep, Succeed, EndOfFile, Reap, Interrupt, LauncherDies,
     Killed, Exit, Goto, watcher
<1>4. ASSUME NEW w \in Watchers, NEW n \in Pids, Launch(w, n)
      PROVE  WriterHasWritten'
  BY <1>1, <1>4 DEF Launch, Goto
<1>5. ASSUME NEW k \in Killers, KillerStep(k) PROVE WriterHasWritten'
  BY <1>1, <1>5 DEF KillerStep, Find, ClearStale, Signal, Poll, Reread, Remove, watcher
<1>6. ASSUME NEW n \in Pids, Recycle(n) PROVE WriterHasWritten'
  BY <1>6 DEF Recycle, watcher
<1>7. CASE UNCHANGED vars
  BY <1>7 DEF vars, watcher
<1> QED
  BY <1>2, <1>3, <1>4, <1>5, <1>6, <1>7 DEF Next

\* Who reads that a watcher runs has read the record of one that is there.
LEMMA RunningIsThere ==
  ASSUME ProcInv, record \in Records, Names(record), record.start # Unknown
  PROVE  record.start \in Watchers /\ Alive(record.start)
BY ProcAssumption
   DEF ProcInv, TypeOK, Holders, Names, Records, Free, Other, Past, Unknown

\* A start is refused only beside another watcher that is there, whatever is
\* left behind, recycled, killed or misread.
THEOREM RefusalsAreFounded == Spec => OnlyWatchersRefuse
<1> DEFINE Refused(w) ==
      \/ step[w] = "check" /\ step'[w] = "leave"
      \/ step[w] = "inspect" /\ step'[w] = "unregister"
<1>1. Init => WriterHasWritten
  BY ProcAssumption DEF Init, WriterHasWritten, None, Corrupt, Free, Other, Past
<1>2. ASSUME ProcInv, WriterHasWritten, Next, NEW w \in Watchers, Refused(w)
      PROVE  \/ record.start = Unknown
             \/ record.start \in Watchers \ {w} /\ Alive(record.start)
  <2>1. step \in [Watchers -> StartSteps \cup EndSteps \cup {"new", "watching", "gone"}]
    BY <1>2 DEF ProcInv, TypeOK
  <2>2. Check(w) \/ Recheck(w)
    <3>1. CASE \E v \in Watchers : WatcherStep(v)
      <4> PICK v \in Watchers : WatcherStep(v)
        BY <3>1
      <4>1. v = w
        BY <1>2, <2>1 DEF WatcherStep, Check, Granted, Register, Lock, Recheck, Write,
           Ready, StopWatching, Unrecord, Unregister, Leave, Exit, Goto
      <4> QED
        BY <1>2, <2>1, <4>1 DEF WatcherStep, Granted, Register, Lock, Write,
           Ready, StopWatching, Unrecord, Unregister, Leave, Exit, Goto
    <3>2. CASE \E v \in Watchers : \/ LauncherStep(v) \/ Interrupt(v) \/ LauncherDies(v)
                                  \/ Killed(v) \/ \E n \in Pids : Launch(v, n)
      BY <1>2, <2>1, <3>2 DEF LauncherStep, Succeed, EndOfFile, Reap, Interrupt,
         LauncherDies, Killed, Launch, Exit, Goto, watcher
    <3>3. CASE \E k \in Killers : KillerStep(k)
      BY <1>2, <2>1, <3>3 DEF KillerStep, Find, ClearStale, Signal, Poll, Reread,
         Remove, watcher
    <3>4. CASE \E n \in Pids : Recycle(n)
      BY <1>2, <2>1, <3>4 DEF Recycle, watcher
    <3> QED
      BY <1>2, <3>1, <3>2, <3>3, <3>4 DEF Next
  <2>3. "running" \in Inspect
    BY <1>2, <2>1, <2>2 DEF Check, Recheck, Goto
  <2>4. record \in Records /\ Names(record)
    BY <1>2, <2>3 DEF Inspect, ProcInv, TypeOK
  <2>5. record.start # w
    BY <1>2 DEF WriterHasWritten, Unwritten
  <2> QED
    BY <1>2, <2>4, <2>5, RunningIsThere
<1>3. ProcInv /\ WriterHasWritten /\ [Next]_vars
      => [\A w \in Watchers : Refused(w) =>
            \/ record.start = Unknown
            \/ record.start \in Watchers \ {w} /\ Alive(record.start)]_vars
  BY <1>2
<1> QED
  BY <1>1, <1>3, WriterStep, ProcInvariance, PTL DEF Spec, OnlyWatchersRefuse

-----------------------------------------------------------------------------
(* The launcher. *)

\* Who has written the token is past its start, and who ends with exit code 0
\* had written it.
TokenInv ==
  \A w \in Watchers :
    /\ w \in ready => step[w] \notin StartSteps \cup {"new"}
    /\ step[w] = "watching" => w \in ready
    /\ w \in clean => w \in ready
    /\ launcher[w] = "zero" => w \in ready
    /\ launcher[w] = "nonzero" => step[w] = "gone"

LEMMA TokenStep == ProcInv /\ TokenInv /\ [Next]_vars => TokenInv'
<1> SUFFICES ASSUME ProcInv, TokenInv, [Next]_vars PROVE TokenInv'
  OBVIOUS
<1> USE DEF TokenInv, StartSteps
<1>1. /\ step \in [Watchers -> StartSteps \cup EndSteps \cup {"new", "watching", "gone"}]
      /\ launcher \in [Watchers -> {"new", "wait", "reap", "gone", "zero", "nonzero"}]
      /\ \A v \in Watchers : launcher[v] = "new" <=> step[v] = "new"
  BY DEF ProcInv, TypeOK, Launched
<1>2. ASSUME NEW w \in Watchers, WatcherStep(w) PROVE TokenInv'
  <2>1. CASE Ready(w)
    BY <1>1, <2>1 DEF Ready, Goto
  <2>2. CASE StopWatching(w)
    BY <1>1, <2>2 DEF StopWatching, Goto
  <2>3. CASE ~Ready(w) /\ ~StopWatching(w)
    BY <1>1, <1>2, <2>3
       DEF WatcherStep, Check, Granted, Register, Lock, Recheck, Write, Unrecord,
           Unregister, Leave, Exit, Goto
  <2> QED
    BY <2>1, <2>2, <2>3
<1>3. ASSUME NEW w \in Watchers,
             LauncherStep(w) \/ Interrupt(w) \/ LauncherDies(w) \/ Killed(w)
      PROVE  TokenInv'
  <2>1. CASE Reap(w)
    BY <1>1, <2>1 DEF Reap, Exit, Goto, Alive
  <2>2. CASE Succeed(w) \/ EndOfFile(w) \/ Interrupt(w) \/ LauncherDies(w)
    BY <1>1, <2>2 DEF Succeed, EndOfFile, Interrupt, LauncherDies, watcher
  <2>3. CASE Killed(w)
    BY <1>1, <2>3 DEF Killed, Exit, Goto, Alive
  <2> QED
    BY <1>3, <2>1, <2>2, <2>3 DEF LauncherStep
<1>4. ASSUME NEW w \in Watchers, NEW n \in Pids, Launch(w, n) PROVE TokenInv'
  BY <1>1, <1>4 DEF Launch, Goto
<1>5. ASSUME NEW k \in Killers, KillerStep(k) PROVE TokenInv'
  BY <1>1, <1>5 DEF KillerStep, Find, ClearStale, Signal, Poll, Reread, Remove, watcher
<1>6. ASSUME NEW n \in Pids, Recycle(n) PROVE TokenInv'
  BY <1>6 DEF Recycle, watcher
<1>7. CASE UNCHANGED vars
  BY <1>7 DEF vars, watcher
<1> QED
  BY <1>2, <1>3, <1>4, <1>5, <1>6, <1>7 DEF Next

\* A launcher that returned 0 has started a watcher, one that returned anything
\* else has left none behind.
THEOREM TrueReport == Spec => []LauncherTellsTheTruth
<1>1. Init => TokenInv
  BY DEF Init, TokenInv
<1>2. TokenInv => LauncherTellsTheTruth
  BY DEF TokenInv, LauncherTellsTheTruth, Alive
<1> QED
  BY <1>1, <1>2, TokenStep, ProcInvariance, PTL DEF Spec

-----------------------------------------------------------------------------
(* The record.  From its write to its removal it is the writer's. *)

Written(w) == [pid |-> pid[w], start |-> IF w \in Blind THEN Unknown ELSE w]
Recorded == {"log", "watching", "unrecord"}

OwnRecord ==
  \A w \in Watchers : step[w] \in Recorded => record = Written(w)

\* Who is about to write has seen under the lock that nobody runs.
WritesAlone ==
  \A w \in Watchers : step[w] = "write" =>
    \A v \in Watchers : step[v] \notin Recorded

\* While a --kill is under way nobody starts; one that removes a record has
\* seen that nobody runs, and the one it waits for is the only one that may.
KillsAlone ==
  \A k \in Killers : killer[k] \in KillSteps =>
    \A w \in Watchers :
      /\ step[w] \notin StartSteps
      /\ step[w] \in Recorded =>
           killer[k] \in {"signal", "poll"} /\ target[k] = Written(w)

RecordInv == OwnRecord /\ WritesAlone /\ KillsAlone

\* Who is recorded is found, if the probe does not fail.
LEMMA RecordedIsNamed ==
  ASSUME ProcInv, NEW w \in Watchers, step[w] \in Recorded
  PROVE  Written(w) \in Records /\ Names(Written(w))
BY ProcAssumption
   DEF ProcInv, TypeOK, Alive, Recorded, Written, Records, Names, Free, Unknown

LEMMA NotRunningNotThere ==
  ASSUME ProcInv, OwnRecord, ~MayMisread, Inspect # {"running"}
  PROVE  \A w \in Watchers : step[w] \notin Recorded
<1> SUFFICES ASSUME NEW w \in Watchers, step[w] \in Recorded PROVE FALSE
  OBVIOUS
<1>1. record \in Records /\ Names(record)
  BY RecordedIsNamed DEF OwnRecord
<1>2. record # None /\ record # Corrupt
  BY <1>1, ProcAssumption DEF Records, None, Corrupt
<1> QED
  BY <1>1, <1>2 DEF Inspect

\* The PIDs of two that are there differ.
LEMMA PidsDiffer ==
  ASSUME ProcInv, NEW w \in Watchers, NEW v \in Watchers, Alive(w), Alive(v),
         pid[v] = pid[w]
  PROVE  v = w
BY DEF ProcInv, TypeOK

LEMMA WatcherStepKeepsRecordInv ==
  ASSUME ~MayMisread, ProcInv, RecordInv, NEW w \in Watchers, WatcherStep(w)
  PROVE  RecordInv'
<1>1. /\ step \in [Watchers -> StartSteps \cup EndSteps \cup {"new", "watching", "gone"}]
      /\ pid \in [Watchers -> Pids \cup {Free}]
      /\ \A v \in Watchers : step[v] \in {"inspect", "write"} <=> lock = v
  BY DEF ProcInv, TypeOK
<1> USE DEF RecordInv, OwnRecord, WritesAlone, KillsAlone, Recorded, Written,
            StartSteps, Goto
<1>2. CASE Check(w) \/ Granted(w) \/ Register(w) \/ Lock(w)
  BY <1>1, <1>2 DEF Check, Granted, Register, Lock
<1>3. CASE Recheck(w)
  <2>1. "running" \in Inspect \/ \A v \in Watchers : step[v] \notin Recorded
    BY NotRunningNotThere
  <2>2. CASE step'[w] = "unregister"
    BY <1>1, <1>3, <2>2 DEF Recheck
  <2>3. CASE step'[w] = "write"
    <3>1. \A v \in Watchers : step[v] \notin Recorded
      <4>1. PICK found \in Inspect : found # "running"
        BY <1>1, <1>3, <2>3 DEF Recheck
      <4> QED
        BY <4>1, NotRunningNotThere
    <3> QED
      BY <1>1, <1>3, <2>3, <3>1 DEF Recheck
  <2> QED
    BY <1>1, <1>3, <2>2, <2>3 DEF Recheck
<1>4. CASE Write(w)
  BY <1>1, <1>4 DEF Write
<1>5. CASE Ready(w)
  BY <1>1, <1>5 DEF Ready
<1>6. CASE StopWatching(w)
  BY <1>1, <1>6 DEF StopWatching
<1>7. CASE Unrecord(w)
  <2>1. \A v \in Watchers : step[v] \in Recorded => v = w
    <3> SUFFICES ASSUME NEW v \in Watchers, step[v] \in Recorded PROVE v = w
      OBVIOUS
    <3>1. pid[v] = pid[w]
      BY <1>7 DEF Unrecord
    <3> QED
      BY <3>1, <1>7, PidsDiffer DEF Unrecord, Alive
  <2> QED
    BY <1>1, <1>7, <2>1 DEF Unrecord
<1>8. CASE Unregister(w)
  BY <1>1, <1>8 DEF Unregister
<1>9. CASE Leave(w)
  BY <1>1, <1>9 DEF Leave, Exit
<1> QED
  BY <1>2, <1>3, <1>4, <1>5, <1>6, <1>7, <1>8, <1>9 DEF WatcherStep

LEMMA KillerStepKeepsRecordInv ==
  ASSUME ~MayRace, ~MayMisread, ProcInv, RecordInv, NEW k \in Killers, KillerStep(k)
  PROVE  RecordInv'
<1>1. /\ killer \in [Killers -> KillSteps \cup {"new", "zero", "nonzero"}]
      /\ target \in [Killers -> Records \cup {None, Corrupt}]
  BY DEF ProcInv, TypeOK
<1>2. UNCHANGED <<step, pid>>
  BY DEF KillerStep, Find, ClearStale, Signal, Poll, Reread, Remove, watcher
<1> USE DEF RecordInv, OwnRecord, WritesAlone, KillsAlone, At, KillSteps
<1>3. CASE Find(k)
  <2>1. UNCHANGED record
    BY <1>3 DEF Find
  <2>2. CASE killer'[k] \notin KillSteps
    <3>1. \A j \in Killers \ {k} : killer'[j] = killer[j] /\ target'[j] = target[j]
      BY <1>1, <1>3 DEF Find
    <3> QED
      BY <1>2, <2>1, <2>2, <3>1 DEF Written
  <2>3. CASE killer'[k] \in KillSteps
    <3>1. PICK found \in Inspect :
            At(k, CASE found = "none" -> "zero"
                    [] found = "stale" -> "stale"
                    [] found = "running" -> "signal"
                    [] found = "inconclusive" -> "nonzero")
      BY <1>3 DEF Find
    <3>2. \A w \in Watchers : step[w] \notin StartSteps
      BY <1>3 DEF Find
    <3>3. found \in {"none", "inconclusive", "stale", "running"}
      BY DEF Inspect
    <3>4. CASE found = "stale"
      <4>1. \A w \in Watchers : step[w] \notin Recorded
        BY <3>4, NotRunningNotThere
      <4> QED
        BY <1>1, <1>2, <2>1, <3>1, <3>2, <3>4, <4>1 DEF Written, StartSteps
    <3>5. CASE found = "running"
      <4>1. killer' = [killer EXCEPT ![k] = "signal"]
        BY <3>1, <3>5
      <4>2. target' = [target EXCEPT ![k] = record]
        BY <1>3, <3>1, <3>5 DEF Find
      <4> QED
        BY <1>1, <1>2, <2>1, <3>2, <4>1, <4>2 DEF Written, StartSteps
    <3> QED
      BY <1>1, <2>3, <3>1, <3>3, <3>4, <3>5
  <2> QED
    BY <2>2, <2>3
<1>4. CASE ClearStale(k)
  BY <1>1, <1>2, <1>4 DEF ClearStale, Written, StartSteps, Recorded
<1>5. CASE Signal(k)
  BY <1>1, <1>2, <1>5 DEF Signal, Written
<1>6. CASE Poll(k)
  <2>1. CASE ~Names(target[k])
    <3>1. \A w \in Watchers : step[w] \notin Recorded
      BY <1>6, <2>1, RecordedIsNamed DEF Poll
    <3> QED
      BY <1>1, <1>2, <1>6, <3>1 DEF Poll, Written
  <2>2. CASE Names(target[k])
    BY <1>1, <1>2, <1>6, <2>2 DEF Poll, Written
  <2> QED
    BY <2>1, <2>2
<1>7. CASE Reread(k)
  BY <1>1, <1>2, <1>7 DEF Reread, Written
<1>8. CASE Remove(k)
  BY <1>1, <1>2, <1>8 DEF Remove, Written, StartSteps, Recorded
<1> QED
  BY <1>3, <1>4, <1>5, <1>6, <1>7, <1>8 DEF KillerStep

LEMMA RecordStep ==
  ~MayRace /\ ~MayMisread /\ ProcInv /\ RecordInv /\ [Next]_vars => RecordInv'
<1> SUFFICES ASSUME ~MayRace, ~MayMisread, ProcInv, RecordInv, [Next]_vars
             PROVE  RecordInv'
  OBVIOUS
<1>1. /\ step \in [Watchers -> StartSteps \cup EndSteps \cup {"new", "watching", "gone"}]
      /\ pid \in [Watchers -> Pids \cup {Free}]
      /\ \A v \in Watchers : launcher[v] = "new" <=> step[v] = "new"
  BY DEF ProcInv, TypeOK, Launched
<1> USE DEF RecordInv, OwnRecord, WritesAlone, KillsAlone, Recorded, Written,
            StartSteps
<1>2. ASSUME NEW w \in Watchers,
             LauncherStep(w) \/ Interrupt(w) \/ LauncherDies(w) \/ Killed(w)
      PROVE  RecordInv'
  <2>1. CASE Killed(w) \/ Reap(w)
    BY <1>1, <2>1 DEF Killed, Reap, Exit, Goto
  <2>2. CASE Succeed(w) \/ EndOfFile(w) \/ Interrupt(w) \/ LauncherDies(w)
    BY <2>2 DEF Succeed, EndOfFile, Interrupt, LauncherDies, watcher
  <2> QED
    BY <1>2, <2>1, <2>2 DEF LauncherStep
<1>3. ASSUME NEW w \in Watchers, NEW n \in Pids, Launch(w, n) PROVE RecordInv'
  BY <1>1, <1>3 DEF Launch, Goto
<1>4. ASSUME NEW n \in Pids, Recycle(n) PROVE RecordInv'
  BY <1>4 DEF Recycle, watcher
<1>5. CASE UNCHANGED vars
  BY <1>5 DEF vars, watcher
<1> QED
  BY <1>2, <1>3, <1>4, <1>5, WatcherStepKeepsRecordInv, KillerStepKeepsRecordInv
     DEF Next

LEMMA RecordInvariance ==
  ASSUME ~MayRace, ~MayMisread
  PROVE  Spec => []RecordInv
<1>1. Init => RecordInv
  BY DEF Init, RecordInv, OwnRecord, WritesAlone, KillsAlone, Recorded, KillSteps
<1>2. ProcInv /\ RecordInv /\ [Next]_vars => RecordInv'
  BY RecordStep
<1> QED
  BY <1>1, <1>2, ProcInvariance, PTL DEF Spec

\* Whoever watches is the one the record names, if no --kill runs during a
\* start and probes do not fail.
THEOREM Reachable ==
  ASSUME ~MayRace, ~MayMisread
  PROVE  Spec => []WatcherIsReachable
<1>1. ProcInv /\ RecordInv => WatcherIsReachable
  BY RecordedIsNamed
     DEF RecordInv, OwnRecord, Recorded, Written, WatcherIsReachable
<1> QED
  BY <1>1, ProcInvariance, RecordInvariance, PTL

\* A --kill that returns 0 has left nobody watching, under the same assumptions.
THEOREM KillIsTrue ==
  ASSUME ~MayRace, ~MayMisread
  PROVE  Spec => KilledMeansNotWatching
<1> DEFINE Zero(k) == killer[k] # "zero" /\ killer'[k] = "zero"
<1>1. ASSUME ProcInv, RecordInv, Next, NEW k \in Killers, Zero(k),
             NEW w \in Watchers
      PROVE  step[w] # "watching"
  <2>1. killer \in [Killers -> KillSteps \cup {"new", "zero", "nonzero"}]
    BY <1>1 DEF ProcInv, TypeOK
  <2>2. KillerStep(k)
    <3>1. PICK j \in Killers : KillerStep(j)
      BY <1>1 DEF Next, WatcherStep, Check, Granted, Register, Lock, Recheck, Write,
         Ready, StopWatching, Unrecord, Unregister, Leave, LauncherStep, Succeed,
         EndOfFile, Reap, Interrupt, LauncherDies, Killed, Launch, Recycle, watcher
    <3>2. j = k
      BY <1>1, <2>1, <3>1 DEF KillerStep, Find, ClearStale, Signal, Poll, Reread,
         Remove, At
    <3> QED
      BY <3>1, <3>2
  <2>3. CASE Find(k)
    <3>1. PICK found \in Inspect :
            At(k, CASE found = "none" -> "zero"
                    [] found = "stale" -> "stale"
                    [] found = "running" -> "signal"
                    [] found = "inconclusive" -> "nonzero")
      BY <2>3 DEF Find
    <3>2. found = "none"
      BY <1>1, <2>1, <3>1 DEF At, Inspect
    <3> QED
      BY <1>1, <3>2, NotRunningNotThere DEF RecordInv, Recorded
  <2>4. CASE ~Find(k)
    <3>1. killer[k] \in {"stale", "reread", "remove"}
      BY <1>1, <2>1, <2>2, <2>4 DEF KillerStep, ClearStale, Signal, Poll, Reread,
         Remove, At
    <3> QED
      BY <1>1, <3>1 DEF RecordInv, KillsAlone, KillSteps, Recorded
  <2> QED
    BY <2>3, <2>4
<1>2. ProcInv /\ RecordInv /\ [Next]_vars
      => [\A k \in Killers : Zero(k) =>
            \A w \in Watchers : step[w] # "watching"]_vars
  BY <1>1
<1> QED
  BY <1>2, ProcInvariance, RecordInvariance, PTL DEF Spec, KilledMeansNotWatching
=============================================================================
