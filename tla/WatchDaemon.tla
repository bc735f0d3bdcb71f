----------------------------- MODULE WatchDaemon -----------------------------
(***************************************************************************)
(* The background process of `dndmode --watch`: its launcher, its record   *)
(* watch.json, and the `--kill` that finds it by that record.              *)
(*                                                                         *)
(*   a launcher  re-executes the binary as a detached child, waits on a    *)
(*               pipe for its ready token and reports the outcome;         *)
(*   a watcher   is such a child: it claims the activation hot key, writes *)
(*               the record under the publish lock and watches;            *)
(*   a killer    is a `--kill`: it signals the process the record names,   *)
(*               waits for its end, and removes what is left of it.        *)
(*                                                                         *)
(* A process is its PID and its start time, since PIDs are reused; here    *)
(* the start time is the watcher itself.  What a watcher does while it     *)
(* watches is in SessionLifecycle.  `--status` only reads, like the        *)
(* Inspect of a killer.  Other users of the publish lock are not modelled: *)
(* to a watcher they are one of the reasons not to get it.                 *)
(***************************************************************************)

CONSTANTS
  Watchers,   \* background processes, each with a launcher of its own
  Killers,    \* `--kill` runs
  Pids,       \* process IDs
  Combos,     \* activation combinations in config.yml, over time
  Blind,      \* watchers that cannot read their own start time
  MayRace,    \* a `--kill` may run while a `--watch` is starting
  MayMisread  \* the probe of a PID may fail

Free == "free"       \* no process, no holder, no record
Other == "other"     \* a process that is not dndmode's
Past == "past"       \* the start of a watcher of former days, or no PID at all
Unknown == "unknown" \* a start time that is not in the record
None == [pid |-> Free, start |-> Free]
Corrupt == [pid |-> Free, start |-> Other]

ASSUME ProcAssumption ==
  /\ Watchers \cap {Free, Other, Past, Unknown} = {}
  /\ Free \notin Pids
  /\ Blind \subseteq Watchers
ASSUME SwitchAssumption == {MayRace, MayMisread} \subseteq BOOLEAN

VARIABLES
  table,    \* table[n]: the process with the PID n
  pid,      \* pid[w]: the PID w was given
  step,     \* step[w]: the step w is at
  combo,    \* combo[w]: the combination w has loaded
  term,     \* watchers that have received a SIGTERM
  ready,    \* watchers that have written the ready token
  clean,    \* watchers that are ending, or have ended, with exit code 0
  lock,     \* holder of the publish lock
  record,   \* watch.json
  launcher, \* launcher[w]: waiting, reaping, gone, or its exit code
  killer,   \* killer[k]: the step k is at, or how it has ended
  target    \* target[k]: the record k acts on

watcher == <<step, combo, term, ready, clean>>
vars == <<table, pid, watcher, lock, record, launcher, killer, target>>

Records == [pid : Pids, start : Watchers \cup {Past, Unknown}]

Init ==
  /\ table = [n \in Pids |-> Free]
  /\ pid = [w \in Watchers |-> Free]
  /\ step = [w \in Watchers |-> "new"]
  /\ combo = [w \in Watchers |-> Free]
  /\ term = {} /\ ready = {} /\ clean = {}
  /\ lock = Free
  /\ record \in {None, Corrupt} \cup [pid : Pids, start : {Past}]
  /\ launcher = [w \in Watchers |-> "new"]
  /\ killer = [k \in Killers |-> "new"]
  /\ target = [k \in Killers |-> None]

-----------------------------------------------------------------------------
(* Helpers *)

Alive(w) == step[w] \notin {"new", "gone"}
Goto(w, s) == step' = [step EXCEPT ![w] = s]

\* Mutant of Names: a process is identified by its PID alone.
NamesByPid(r) == table[r.pid] # Free

\* The process a record was written by is there: some process has its PID,
\* and was started when the record says, if it does.
Names(r) == table[r.pid] # Free /\ r.start \in {table[r.pid], Unknown}

\* Inspect: what the record says, or that nothing can be said.
Inspect ==
  IF record = None THEN {"none"}
  ELSE IF record = Corrupt THEN {"inconclusive"}
  ELSE {IF Names(record) THEN "running" ELSE "stale"}
       \cup (IF MayMisread THEN {"inconclusive"} ELSE {})

\* w ends: its PID, its lock and its hot key are free, its record stays.
Exit(w) ==
  /\ Goto(w, "gone")
  /\ table' = [table EXCEPT ![pid[w]] = Free]
  /\ pid' = [pid EXCEPT ![w] = Free]
  /\ combo' = [combo EXCEPT ![w] = Free]
  /\ term' = term \ {w}
  /\ lock' = IF lock = w THEN Free ELSE lock

Registered == {"publish", "inspect", "write", "log", "watching", "unrecord",
               "unregister"}
StartSteps == {"check", "grants", "register", "publish", "inspect", "write", "log"}
EndSteps == {"unrecord", "unregister", "leave"}
KillSteps == {"stale", "signal", "poll", "reread", "remove"}

-----------------------------------------------------------------------------
(* A watcher *)

\* Step 5d: refuse beside a watcher that is running.
Check(w) ==
  /\ step[w] = "check"
  /\ \E found \in Inspect :
       Goto(w, IF found = "running" THEN "leave" ELSE "grants")
  /\ UNCHANGED <<table, pid, combo, term, ready, clean, lock, record, launcher, killer, target>>

\* Steps 8 to 12: whatever they wait for, they are past it or give up.
Granted(w) ==
  /\ step[w] = "grants"
  /\ Goto(w, "register") \/ Goto(w, "leave")
  /\ UNCHANGED <<table, pid, combo, term, ready, clean, lock, record, launcher, killer, target>>

\* globalhotkey.Register: exclusive for a combination.
Register(w) ==
  /\ step[w] = "register"
  /\ \/ /\ \A v \in Watchers : step[v] \in Registered => combo[v] # combo[w]
        /\ Goto(w, "publish")
     \/ Goto(w, "leave")
  /\ UNCHANGED <<table, pid, combo, term, ready, clean, lock, record, launcher, killer, target>>

\* becomeWatchDaemon: the publish lock, within a bounded wait.
Lock(w) ==
  /\ step[w] = "publish"
  /\ \/ lock = Free /\ lock' = w /\ Goto(w, "inspect")
     \/ Goto(w, "unregister") /\ UNCHANGED lock
  /\ UNCHANGED <<table, pid, combo, term, ready, clean, record, launcher, killer, target>>

\* Mutant of Recheck: Step 5d is relied upon.
NoRecheck(w) ==
  /\ step[w] = "inspect"
  /\ Goto(w, "write")
  /\ UNCHANGED <<table, pid, combo, term, ready, clean, lock, record, launcher, killer,
                 target>>

\* The re-check under the lock; an inconclusive one is a warning only.
Recheck(w) ==
  /\ step[w] = "inspect"
  /\ \E found \in Inspect :
       IF found = "running"
       THEN Goto(w, "unregister") /\ lock' = Free
       ELSE Goto(w, "write") /\ UNCHANGED lock
  /\ UNCHANGED <<table, pid, combo, term, ready, clean, record, launcher, killer, target>>

\* Manager.Write, and the lock is dropped.
Write(w) ==
  /\ step[w] = "write"
  /\ \/ /\ record' = [pid |-> pid[w], start |-> IF w \in Blind THEN Unknown ELSE w]
        /\ Goto(w, "log")
     \/ /\ Goto(w, "unregister")
        /\ UNCHANGED record
  /\ lock' = Free
  /\ UNCHANGED <<table, pid, combo, term, ready, clean, launcher, killer, target>>

\* The log, the banner, the redirect and the token.
Ready(w) ==
  /\ step[w] = "log"
  /\ \/ Goto(w, "watching") /\ ready' = ready \cup {w}
     \/ Goto(w, "unrecord") /\ UNCHANGED ready
  /\ UNCHANGED <<table, pid, combo, term, clean, lock, record, launcher, killer, target>>

\* A SIGTERM, or the run loop ends; the sessions have unwound.
StopWatching(w) ==
  /\ step[w] = "watching"
  /\ Goto(w, "unrecord")
  /\ clean' \in IF w \in term THEN {clean \cup {w}} ELSE {clean, clean \cup {w}}
  /\ UNCHANGED <<table, pid, combo, term, ready, lock, record, launcher, killer, target>>

\* Cleanup: Manager.Release removes what is at the path, or fails to.
Unrecord(w) ==
  /\ step[w] = "unrecord"
  /\ record' \in {record, None}
  /\ Goto(w, "unregister")
  /\ UNCHANGED <<table, pid, combo, term, ready, clean, lock, launcher, killer, target>>

\* Cleanup: the hot key.
Unregister(w) ==
  /\ step[w] = "unregister"
  /\ Goto(w, "leave")
  /\ UNCHANGED <<table, pid, combo, term, ready, clean, lock, record, launcher, killer, target>>

\* The end of the process.
Leave(w) ==
  /\ step[w] = "leave"
  /\ Exit(w)
  /\ UNCHANGED <<ready, clean, record, launcher, killer, target>>

\* SIGKILL.
Killed(w) ==
  /\ Alive(w)
  /\ Exit(w)
  /\ clean' = clean \ {w}
  /\ UNCHANGED <<ready, record, launcher, killer, target>>

\* PIDs of ended processes go to other programs, which end too.
Recycle(n) ==
  /\ table[n] \in {Free, Other}
  /\ table' = [table EXCEPT ![n] = IF @ = Free THEN Other ELSE Free]
  /\ UNCHANGED <<pid, watcher, lock, record, launcher, killer, target>>

-----------------------------------------------------------------------------
(* A launcher *)

\* launchDetached: the child gets a PID that is free, and loads what is in
\* config.yml.
Launch(w, n) ==
  /\ launcher[w] = "new"
  /\ MayRace \/ \A k \in Killers : killer[k] \notin KillSteps
  /\ table[n] = Free
  /\ table' = [table EXCEPT ![n] = w]
  /\ pid' = [pid EXCEPT ![w] = n]
  /\ combo' \in {[combo EXCEPT ![w] = c] : c \in Combos}
  /\ Goto(w, "check")
  /\ launcher' = [launcher EXCEPT ![w] = "wait"]
  /\ UNCHANGED <<term, ready, clean, lock, record, killer, target>>

\* The reader has found the token, which outlives the child in the pipe.
Succeed(w) ==
  /\ launcher[w] = "wait"
  /\ w \in ready
  /\ launcher' = [launcher EXCEPT ![w] = "zero"]
  /\ UNCHANGED <<table, pid, watcher, lock, record, killer, target>>

\* Mutant of EndOfFile: the launcher keeps its own copy of the write end.
EndOfFileNever(w) == FALSE /\ UNCHANGED vars

\* EOF without the token.
EndOfFile(w) ==
  /\ launcher[w] = "wait"
  /\ ~Alive(w) /\ w \notin ready
  /\ launcher' = [launcher EXCEPT ![w] = "reap"]
  /\ UNCHANGED <<table, pid, watcher, lock, record, killer, target>>

\* The user interrupts it: SIGTERM for the child.
Interrupt(w) ==
  /\ launcher[w] = "wait"
  /\ launcher' = [launcher EXCEPT ![w] = "reap"]
  /\ term' = IF Alive(w) THEN term \cup {w} ELSE term
  /\ UNCHANGED <<table, pid, step, combo, ready, clean, lock, record, killer, target>>

\* Mutant of Reap: a child that does not end in time is left alone.
ReapOrLeave(w) ==
  /\ launcher[w] = "reap"
  /\ launcher' = [launcher EXCEPT ![w] = IF ~Alive(w) /\ w \in clean THEN "zero"
                                                                  ELSE "nonzero"]
  /\ UNCHANGED <<table, pid, watcher, lock, record, killer, target>>

\* waitBounded: the child has ended, or is killed after the grace.
Reap(w) ==
  /\ launcher[w] = "reap"
  /\ IF Alive(w)
     THEN /\ Exit(w)
          /\ clean' = clean \ {w}
          /\ launcher' = [launcher EXCEPT ![w] = "nonzero"]
     ELSE /\ launcher' = [launcher EXCEPT ![w] = IF w \in clean THEN "zero" ELSE "nonzero"]
          /\ UNCHANGED <<table, pid, step, combo, term, clean, lock>>
  /\ UNCHANGED <<ready, record, killer, target>>

\* Its terminal is closed; the child carries on.
LauncherDies(w) ==
  /\ launcher[w] \in {"wait", "reap"}
  /\ launcher' = [launcher EXCEPT ![w] = "gone"]
  /\ UNCHANGED <<table, pid, watcher, lock, record, killer, target>>

-----------------------------------------------------------------------------
(* A killer *)

At(k, s) ==
  /\ killer' = [killer EXCEPT ![k] = s]
  /\ target' = [target EXCEPT ![k] = IF s \notin KillSteps THEN None
                                     ELSE IF killer[k] = "new" THEN record ELSE @]

\* Stop: Inspect.
Find(k) ==
  /\ killer[k] = "new"
  /\ MayRace \/ \A w \in Watchers : step[w] \notin StartSteps
  /\ \E found \in Inspect :
       At(k, CASE found = "none" -> "zero"
               [] found = "stale" -> "stale"
               [] found = "running" -> "signal"
               [] found = "inconclusive" -> "nonzero")
  /\ UNCHANGED <<table, pid, watcher, lock, record, launcher>>

\* A stale record is removed, whatever is at the path by now.
ClearStale(k) ==
  /\ killer[k] = "stale"
  /\ \/ record' = None /\ At(k, "zero")
     \/ UNCHANGED record /\ At(k, "nonzero")
  /\ UNCHANGED <<table, pid, watcher, lock, launcher>>

\* kill(pid, SIGTERM), to whoever has that PID by now, if it is ours to kill.
Signal(k) ==
  /\ killer[k] = "signal"
  /\ LET hit == table[target[k].pid] IN
       \/ hit \in {Free, Other} /\ At(k, "nonzero") /\ UNCHANGED term
       \/ hit # Free /\ At(k, "poll") /\ term' = term \cup ({hit} \cap Watchers)
  /\ UNCHANGED <<table, pid, step, combo, ready, clean, lock, record, launcher>>

\* Mutant of Poll: the wait running out counts as a stop.
PollUntilTimeout(k) ==
  /\ killer[k] = "poll"
  /\ At(k, "reread")
  /\ UNCHANGED <<table, pid, watcher, lock, record, launcher>>

\* Polling: the process has gone, or the wait has run out.
Poll(k) ==
  /\ killer[k] = "poll"
  /\ \/ ~Names(target[k]) /\ At(k, "reread")
     \/ (Names(target[k]) \/ MayMisread) /\ At(k, "nonzero")
  /\ UNCHANGED <<table, pid, watcher, lock, record, launcher>>

\* removeIfStillOurs: the record is read again ...
Reread(k) ==
  /\ killer[k] = "reread"
  /\ At(k, IF record \in Records /\ record.pid = target[k].pid THEN "remove" ELSE "zero")
  /\ UNCHANGED <<table, pid, watcher, lock, record, launcher>>

\* ... and removed, whatever is at the path by now.
Remove(k) ==
  /\ killer[k] = "remove"
  /\ \/ record' = None /\ At(k, "zero")
     \/ UNCHANGED record /\ At(k, "nonzero")
  /\ UNCHANGED <<table, pid, watcher, lock, launcher>>

WatcherStep(w) ==
  \/ Check(w) \/ Granted(w) \/ Register(w) \/ Lock(w) \/ Recheck(w) \/ Write(w)
  \/ Ready(w) \/ StopWatching(w) \/ Unrecord(w) \/ Unregister(w)
  \/ Leave(w)

LauncherStep(w) == Succeed(w) \/ EndOfFile(w) \/ Reap(w)

KillerStep(k) ==
  \/ Find(k) \/ ClearStale(k) \/ Signal(k) \/ Poll(k) \/ Reread(k) \/ Remove(k)

Next ==
  \/ \E w \in Watchers :
       \/ WatcherStep(w) \/ Killed(w)
       \/ LauncherStep(w) \/ Interrupt(w) \/ LauncherDies(w)
       \/ \E n \in Pids : Launch(w, n)
  \/ \E k \in Killers : KillerStep(k)
  \/ \E n \in Pids : Recycle(n)

Spec == Init /\ [][Next]_vars

\* The steps that wait for no user: a start but for the grants, the end of a
\* watcher once its sessions have unwound, and the launcher.
FairSpec ==
  /\ Spec
  /\ \A w \in Watchers :
       /\ WF_vars(step[w] \notin {"grants", "watching"} /\ WatcherStep(w))
       /\ WF_vars(LauncherStep(w))

-----------------------------------------------------------------------------
(* Properties *)

\* Type invariant; the lock is held by the watcher that inspects and writes.
TypeOK ==
  /\ table \in [Pids -> Watchers \cup {Free, Other}]
  /\ pid \in [Watchers -> Pids \cup {Free}]
  /\ \A w \in Watchers : Alive(w) => pid[w] \in Pids /\ table[pid[w]] = w
  /\ step \in [Watchers -> StartSteps \cup EndSteps \cup {"new", "watching", "gone"}]
  /\ combo \in [Watchers -> Combos \cup {Free}]
  /\ term \subseteq Watchers /\ ready \subseteq Watchers /\ clean \subseteq Watchers
  /\ lock \in Watchers \cup {Free}
  /\ \A w \in Watchers : step[w] \in {"inspect", "write"} <=> lock = w
  /\ record \in Records \cup {None, Corrupt}
  /\ launcher \in [Watchers -> {"new", "wait", "reap", "gone", "zero", "nonzero"}]
  /\ killer \in [Killers -> KillSteps \cup {"new", "zero", "nonzero"}]
  /\ target \in [Killers -> Records \cup {None, Corrupt}]

\* A process that watches is the one watch.json names, so that --status sees
\* it and --kill reaches it; there is no second one beside it
\* (becomeWatchDaemon, removeIfStillOurs).
WatcherIsReachable ==
  \A w \in Watchers :
    step[w] = "watching" => record \in Records /\ record.pid = pid[w]

\* A start is refused only beside another watcher that is there, and never for
\* a record that somebody left: not even if its PID has been given away
\* (Inspect), unless the record has no start time to tell.
OnlyWatchersRefuse ==
  [][\A w \in Watchers :
       \/ step[w] = "check" /\ step'[w] = "leave"
       \/ step[w] = "inspect" /\ step'[w] = "unregister"
       => \/ record.start = Unknown
          \/ record.start \in Watchers \ {w} /\ Alive(record.start)]_vars

\* When --kill returns 0, nothing is watching: "Exit 0 whenever not running is
\* true on return" (runKill).
KilledMeansNotWatching ==
  [][\A k \in Killers :
       killer[k] # "zero" /\ killer'[k] = "zero" =>
         \A w \in Watchers : step[w] # "watching"]_vars

\* A launcher that returns 0 has started a watcher, and one that returns
\* anything else has left none behind, even if it was interrupted just when
\* the child became ready (launchDetached, waitBounded).
LauncherTellsTheTruth ==
  \A w \in Watchers :
    /\ launcher[w] = "zero" => w \in ready /\ step[w] \notin StartSteps
    /\ launcher[w] = "nonzero" => ~Alive(w)

\* The terminal is given back: an interrupted launcher returns within the
\* grace, and one that was not as soon as its child is past the grants,
\* whatever becomes of the child (launchDetached).
LauncherReturns ==
  \A w \in Watchers :
    \/ launcher[w] = "reap"
    \/ launcher[w] = "wait" /\ step[w] \notin {"check", "grants"}
    ~> launcher[w] \notin {"wait", "reap"}
=============================================================================
