-------------------------- MODULE PowerAssertions --------------------------
(***************************************************************************)
(* The awake-lock (internal/macos/powerassert).  Every dndmode process of  *)
(* the machine, of whatever user, puts its "dndmode active" entry into the *)
(* one table that IOKit keeps.  A start scans that table for entries other *)
(* runs left behind (orphan.go, pm_darwin.c) before it takes its own       *)
(* (Acquire), and the entry goes with Assertion.Release (assertion.go),    *)
(* which overlapping clean-ups may call at the same time.                  *)
(*                                                                         *)
(* A member of Procs is one run of the program: it lives once, under a PID *)
(* the kernel may have taken from an earlier run.  The kernel reaps the    *)
(* entries of a process that ends, or leaves them in the table, which is   *)
(* the case CleanupOrphans was written for.                                *)
(***************************************************************************)
EXTENDS FiniteSets, Integers

CONSTANTS
    Procs,           \* the runs of dndmode
    Foreign,         \* those of another user: kill(2) answers EPERM
    Pids,            \* the PIDs the kernel hands out
    Callers,         \* goroutines that call Release on one Assertion
    MaxSessions,     \* bound: sessions of one run (more than one: --watch)
    Cap              \* entries one scan returns at most (64 in the code)

ASSUME ProcsAssumption == Foreign \subseteq Procs
ASSUME CapAssumption == Cap \in Nat \ {0} /\ MaxSessions \in Nat \ {0}

VARIABLES
    live,            \* the runs that exist
    pid,             \* and their PIDs
    table,           \* IOKit's entries named "dndmode active"
    pc,              \* where a run is
    orphans,         \* what its scan returned
    next,            \* what of that CleanupOrphans has not looked at
    target,          \* the entry it is about to release
    sessions,        \* assertions it has acquired so far
    released, mu,    \* the current Assertion: its flag and its mutex
    call,            \* where each caller of its Release is
    outcome          \* what releaseFn returned

scanVars == <<orphans, next, target>>
assertionVars == <<released, mu, call, outcome>>
vars == <<live, pid, table, pc, scanVars, sessions, assertionVars>>

Nobody == "nobody"
ASSUME CallersAssumption == Nobody \notin Callers

Entry == [owner : Procs, pid : Pids, session : 1 .. MaxSessions]
NoPid == "none"

\* The entry of p's current session.
Own(p) == [owner |-> p, pid |-> pid[p], session |-> sessions[p]]
EntriesOf(p) == {e \in table : e.owner = p}

Idle == [c \in Callers |-> "idle"]

-----------------------------------------------------------------------------
\* kill(pid, 0), and what kernLiveChecker makes of its errno.
Errno(p, n) ==
    LET there == {q \in live : pid[q] = n}
    IN  IF there = {} THEN "ESRCH"
        ELSE IF \A q \in there : (q \in Foreign) = (p \in Foreign) THEN "nil"
        ELSE "EPERM"

\* Mutant of IsAlive: EPERM counts as dead.
EpermIsDead(p, n) == Errno(p, n) = "nil"

IsAlive(p, n) == Errno(p, n) # "ESRCH"

\* The entries of other PIDs, in the order of a dictionary, cut off at Cap.
Matching(p) == {e \in table : e.pid # pid[p]}

Clipped(S) ==
    {T \in SUBSET S : \/ T = S /\ Cardinality(S) <= Cap
                      \/ Cardinality(T) = Cap}

-----------------------------------------------------------------------------
Init ==
    /\ live = {} /\ table = {}
    /\ pid = [p \in Procs |-> NoPid]
    /\ pc = [p \in Procs |-> "unborn"]
    /\ orphans = [p \in Procs |-> {}] /\ next = [p \in Procs |-> {}]
    /\ target = [p \in Procs |-> {}]
    /\ sessions = [p \in Procs |-> 0]
    /\ released = [p \in Procs |-> FALSE]
    /\ mu = [p \in Procs |-> Nobody]
    /\ call = [p \in Procs |-> Idle]
    /\ outcome = [p \in Procs |-> "none"]

\* The process starts under a free PID, and gets as far as Step 11.
Start(p) ==
    /\ pc[p] = "unborn"
    /\ \E n \in Pids \ {pid[q] : q \in live} : pid' = [pid EXCEPT ![p] = n]
    /\ live' = live \cup {p}
    /\ pc' = [pc EXCEPT ![p] = "scan"]
    /\ UNCHANGED <<table, scanVars, sessions, assertionVars>>

\* The process ends, killed or of itself, and its memory with it.
Ends(p, how) ==
    /\ live' = live \ {p}
    /\ pc' = [pc EXCEPT ![p] = how]
    /\ \E R \in SUBSET EntriesOf(p) : table' = table \ R
    /\ orphans' = [orphans EXCEPT ![p] = {}]
    /\ next' = [next EXCEPT ![p] = {}]
    /\ target' = [target EXCEPT ![p] = {}]
    /\ mu' = [mu EXCEPT ![p] = Nobody]
    /\ call' = [call EXCEPT ![p] = Idle]
    /\ released' = [released EXCEPT ![p] = FALSE]
    /\ outcome' = [outcome EXCEPT ![p] = "none"]
    /\ UNCHANGED <<pid, sessions>>

Dies(p) == p \in live /\ Ends(p, "dead")

\* Enumerate: a failure of IOPMCopyAssertionsByProcess reads as no entry.
Scan(p) ==
    /\ pc[p] = "scan"
    /\ \E S \in Clipped(Matching(p)) \cup {{}} :
           /\ orphans' = [orphans EXCEPT ![p] = S]
           /\ next' = [next EXCEPT ![p] = S]
    /\ pc' = [pc EXCEPT ![p] = "probe"]
    /\ UNCHANGED <<live, pid, table, target, sessions, assertionVars>>

\* The loop of CleanupOrphans: a live PID ends it, and the start with it.
ProbeRefuses(p) ==
    /\ pc[p] = "probe"
    /\ \E e \in next[p] : IsAlive(p, e.pid)
    /\ Ends(p, "refused")

\* Mutant of ProbeFindsDead: an entry is released on its name alone.
ReleaseUnprobed(p) ==
    /\ pc[p] = "probe"
    /\ \E e \in next[p] :
           /\ target' = [target EXCEPT ![p] = {e}]
           /\ next' = [next EXCEPT ![p] = @ \ {e}]
    /\ pc' = [pc EXCEPT ![p] = "release"]
    /\ UNCHANGED <<live, pid, table, orphans, sessions, assertionVars>>

ProbeFindsDead(p) ==
    /\ pc[p] = "probe"
    /\ \E e \in next[p] :
           /\ ~IsAlive(p, e.pid)
           /\ target' = [target EXCEPT ![p] = {e}]
           /\ next' = [next EXCEPT ![p] = @ \ {e}]
    /\ pc' = [pc EXCEPT ![p] = "release"]
    /\ UNCHANGED <<live, pid, table, orphans, sessions, assertionVars>>

\* rel.Release(o.ID): a failure is a warning, and the loop goes on.
ReleaseOrphan(p) ==
    /\ pc[p] = "release"
    /\ table' \in {table, table \ target[p]}
    /\ target' = [target EXCEPT ![p] = {}]
    /\ pc' = [pc EXCEPT ![p] = "probe"]
    /\ UNCHANGED <<live, pid, orphans, next, sessions, assertionVars>>

ScanEnds(p) ==
    /\ pc[p] = "probe" /\ next[p] = {}
    /\ pc' = [pc EXCEPT ![p] = "shell"]
    /\ UNCHANGED <<live, pid, table, scanVars, sessions, assertionVars>>

-----------------------------------------------------------------------------
\* Step 13 of a session: a fresh Assertion.  (That it fails is Dies, or a
\* session of --watch that never was.)
Acquire(p) ==
    /\ pc[p] = "shell" /\ sessions[p] < MaxSessions
    /\ sessions' = [sessions EXCEPT ![p] = @ + 1]
    /\ table' = table \cup {[Own(p) EXCEPT !.session = @ + 1]}
    /\ released' = [released EXCEPT ![p] = FALSE]
    /\ mu' = [mu EXCEPT ![p] = Nobody]
    /\ call' = [call EXCEPT ![p] = Idle]
    /\ outcome' = [outcome EXCEPT ![p] = "none"]
    /\ pc' = [pc EXCEPT ![p] = "session"]
    /\ UNCHANGED <<live, pid, scanVars>>

Goes(p, c, from, to) ==
    /\ pc[p] = "session" /\ call[p][c] = from
    /\ call' = [call EXCEPT ![p][c] = to]
    /\ UNCHANGED <<live, pid, pc, scanVars, sessions>>

\* Release: the load of the flag before the mutex.
FastPath(p, c) ==
    /\ Goes(p, c, "idle", IF released[p] THEN "returned" ELSE "waits")
    /\ UNCHANGED <<table, released, mu, outcome>>

Lock(p, c) ==
    /\ mu[p] = Nobody
    /\ Goes(p, c, "waits", "locked")
    /\ mu' = [mu EXCEPT ![p] = c]
    /\ UNCHANGED <<table, released, outcome>>

\* Mutant of DoubleCheck: the flag goes up before releaseFn is called.
FlagFirst(p, c) ==
    /\ Goes(p, c, "locked", IF released[p] THEN "returned" ELSE "calls")
    /\ mu' = [mu EXCEPT ![p] = IF released[p] THEN Nobody ELSE @]
    /\ released' = [released EXCEPT ![p] = TRUE]
    /\ UNCHANGED <<table, outcome>>

\* The load under the mutex; the deferred Unlock is the early return's too.
DoubleCheck(p, c) ==
    /\ Goes(p, c, "locked", IF released[p] THEN "returned" ELSE "calls")
    /\ mu' = [mu EXCEPT ![p] = IF released[p] THEN Nobody ELSE @]
    /\ UNCHANGED <<table, released, outcome>>

\* releaseFn, that is IOPMAssertionRelease: it takes the entry, or fails.
CallReleaseFn(p, c) ==
    /\ Goes(p, c, "calls", "called")
    /\ \/ /\ table' = table \ {Own(p)}
          /\ outcome' = [outcome EXCEPT ![p] = "ok"]
       \/ /\ table' = table
          /\ outcome' = [outcome EXCEPT ![p] = "err"]
    /\ UNCHANGED <<released, mu>>

StoreReleased(p, c) ==
    /\ Goes(p, c, "called", "returned")
    /\ released' = [released EXCEPT ![p] = TRUE]
    /\ mu' = [mu EXCEPT ![p] = Nobody]
    /\ UNCHANGED <<table, outcome>>

\* The clean-up is over and, under --watch, the shell waits for a press.
SessionEnds(p) ==
    /\ pc[p] = "session"
    /\ \E c \in Callers : call[p][c] = "returned"
    /\ \A c \in Callers : call[p][c] \in {"idle", "returned"}
    /\ pc' = [pc EXCEPT ![p] = "shell"]
    /\ UNCHANGED <<live, pid, table, scanVars, sessions, assertionVars>>

-----------------------------------------------------------------------------
Released(p, c) ==
    \/ FastPath(p, c) \/ Lock(p, c) \/ DoubleCheck(p, c)
    \/ CallReleaseFn(p, c) \/ StoreReleased(p, c)

Next ==
    \E p \in Procs :
        \/ Start(p) \/ Dies(p) \/ Scan(p) \/ ProbeRefuses(p)
        \/ ProbeFindsDead(p) \/ ReleaseOrphan(p) \/ ScanEnds(p)
        \/ Acquire(p) \/ SessionEnds(p)
        \/ \E c \in Callers : Released(p, c)

Spec == Init /\ [][Next]_vars

-----------------------------------------------------------------------------
\* Every variable holds a value of its kind.
TypeOK ==
    /\ live \subseteq Procs /\ pid \in [Procs -> Pids \cup {NoPid}]
    /\ table \subseteq Entry
    /\ pc \in [Procs -> {"unborn", "scan", "probe", "release", "shell",
                        "session", "dead", "refused"}]
    /\ orphans \in [Procs -> SUBSET Entry] /\ next \in [Procs -> SUBSET Entry]
    /\ target \in [Procs -> SUBSET Entry]
    /\ sessions \in [Procs -> 0 .. MaxSessions]
    /\ released \in [Procs -> BOOLEAN]
    /\ mu \in [Procs -> Callers \cup {Nobody}]
    /\ call \in [Procs -> [Callers -> {"idle", "waits", "locked", "calls",
                                     "called", "returned"}]]
    /\ outcome \in [Procs -> {"none", "ok", "err"}]

\* The entry of a run that exists leaves the table only by that run's own
\* releaseFn: whatever PIDs were recycled, whoever the user is and however
\* two scans overlap, a start never takes the awake-lock of another run away.
LiveAssertionsStay ==
    [][\A e \in table \ table' :
           \/ e.owner \notin live'
           \/ \E c \in Callers : /\ call[e.owner][c] = "calls"
                                 /\ call'[e.owner][c] = "called"]_vars

\* A start that got past CleanupOrphans is not running beside any owner of an
\* entry its scan returned: they are all gone, and a run that came back under
\* the PID of one of them is another run.
SeenHoldersAreGone ==
    \A p \in Procs : pc[p] \in {"shell", "session"} =>
        \A e \in orphans[p] : e.owner \notin live

\* However many clean-ups overlap, when any one of them has returned the
\* entry is out of the table, unless IOKit refused to release it: nobody
\* returns while another caller is still inside releaseFn.
ReturnedMeansReleased ==
    \A p \in Procs, c \in Callers :
        pc[p] = "session" /\ call[p][c] = "returned"
            => outcome[p] = "err" \/ Own(p) \notin table

\* IOKit is asked to release an assertion once.
ReleasedOnce ==
    [][\A p \in Procs, c \in Callers :
           call[p][c] = "calls" /\ call'[p][c] = "called"
               => outcome[p] = "none"]_vars
=============================================================================
