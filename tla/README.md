# A TLA+ model of dndmode

dndmode is a macOS command-line tool.  It covers every display with a shield,
swallows all keyboard and mouse input except an unlock code, keeps the machine
awake, and can mute the audio and turn a Focus on while the shield is up.  The
same binary can wait in the background for an activation hot key (`--watch`),
and can replace the unlock code (`--set-password`).  Several of these processes
may run side by side; they see each other through files.

What can go wrong is rarely in one function.  It is in the order in which two
processes look at a file and act on what they saw; in what a kill between two
steps leaves behind; in who may call AppKit on which thread; in a release that
races a timer.  The modules here model those parts, TLC checks them on small
instances, and TLAPS proves every safety property of the passing runs for every
value of the constants.

All paths below are relative to the repository (`src/` is its root), and line
numbers are those of the commit the model was written from.  `PROJECT.json`
maps each definition to the lines it models.

## 1. Inventory

| Component | State it keeps | Operations | What is hard |
|---|---|---|---|
| Command and session driver (`cmd/dndmode/main.go`) | the release stack, the context of the process and of the session, the exit code | `run`, `runSession`, `runOneWatchSession`, `dispatchMainSync`, `armTimer` | two threading regimes for the same 19 steps; every early return must undo what was done |
| Publish lock (`cmd/dndmode/publishlock.go`) | a flock on `runtime.lock` | `acquirePublishLock`, `withPublishLock` | bounded wait, crash of the holder, who holds it across what |
| Runtime snapshot (`internal/state/runtime`) | `runtime.json`; the `released` latch of a Manager | `Write`, `Disown`, `Release`, `IsLiveInstance`, `RecoverFromCrash` | check then act on a path; recycled PIDs; the 24 h window |
| `--set-password` (`cmd/dndmode/setpassword.go`, `eventtap/capture.go`, `config/rewrite.go`) | the captured code; the new `config.yml` | probe, capture, probe again, save | must neither run in front of a shield nor change the code under one; signal against commit |
| Config (`internal/config`) | `config.yml` | load and create, resolve, migrate, rewrite | rewriting a user's file line by line; racing rewriters |
| Release stack (`internal/state/restore.go`) | LIFO of releasers, a `sync.Once` | `Push`, `Cleanup` | order; every path runs it exactly once |
| Supervisor (`internal/supervisor`) | exit trigger (capacity 1), done channel | `Start`, `run`, `Wait` | unlock, watchdog, timer and signals race |
| Run loop and dispatch (`internal/macos/cocoa/app, dispatch`) | `[NSApp run]`, the main queue | `RunApp`, `DispatchMain` | waiting for a thread that waits for you |
| Overlay controller (`internal/macos/cocoa/controller`, `screens`) | windows, geometry signature, debounce timer, leading-edge latch, cursor count | create, reconcile, onScreensChanged, Release | display events, timers and Release on three threads |
| Event tap, key ring, poller (`internal/macos/eventtap`) | the tap, a ring of key codes, global callbacks | `InstallAll`, `Release`, `pollSequence` | C callbacks against Go release; overflow of the ring |
| Watchdog and wake observer (`eventtap/watchdog, wake`) | failed probes in a row, the tripped latch | probe, trip, stop | latch before send; stop while a callback runs |
| Matcher (`internal/matcher`) | the digest of the code | match a window of keys | window bounds |
| Audio and Focus (`audiomute`, `focus`) | the prior mute state | query, set, release | external commands that fail; a kill between them |
| Power assertion (`powerassert`) | an IOKit assertion | acquire, release, find orphans | a live peer must not be robbed of its own |
| Watch daemon (`daemon.go`, `control.go`, `state/watch`) | the daemon's record | launch, probe, `--kill`, `--status` | stale records, a launcher that gives up early |
| Permissions (`permissions`) | none | probe, wait for grants | a wait of any length between two checks |
| Hot key (`globalhotkey`) | a channel of capacity one | the C callback | a press that is read late |
| State machine (`state/machine.go`), caffeinate mode, overlay styles, usage text | | | outside the main path, or drawing and text |

What makes each correct, in one line: **publish protocol** - one input tap on
the machine, every shield visible to its peers and answering to the secret in
force; **crash recovery** - whatever is killed, audio and Focus come back once,
and never under a shield; **lifecycle** - input comes free on every trigger, the
process ends on every stop, nothing is left behind; **overlay** - the displays
are covered while a session is up and bare when none is; **watch daemon** - the
process that watches is the one `--status` and `--kill` find, and the launcher's
exit code says whether there is one; **key ring** - what unlocks was typed, and
what was typed unlocks, without a lock between the writer and the reader;
**taps and watchdog** - nobody uses a freed port, a dead tap is noticed, nothing
is left on after a release; **capture** - the code that is saved was typed twice,
and the command says truly whether it was saved; **awake-lock** - a start clears
away the entries of the dead only.

Interaction.  Processes interact only through `runtime.json`, `runtime.lock`,
`config.yml` and the machine-wide effects (tap, assertion, mute, Focus).  Within
a process, the session calls the components in the order of Steps 12 to 19 and
pushes a releaser for each; the poller, the watchdog, the timer and the signal
handlers reach it through the supervisor's channel or the context; AppKit is
reached through the main queue.

## 2. The modules

| Module | What it is |
|---|---|
| `KeyboardOwner` | abstract specification: who owns the keyboard, and which secret a shield answers to |
| `PublishProtocol` | the processes, files and lock that implement it |
| `PublishProtocol_proofs` | its theorems |
| `CrashRestore` | audio, Focus and the snapshot over sessions, kills and recoveries |
| `CrashRestore_proofs` | its theorems |
| `SessionLifecycle` | the threads of one process from Step 12 to its exit |
| `SessionLifecycle_proofs` | its theorems |
| `OverlayController` | the shield's windows while displays come and go |
| `WatchDaemon` | the background process of `--watch`, its launcher, `watch.json` and `--kill` |
| `WatchDaemon_proofs` | its theorems |
| `KeyRing` | the ring of key presses, its lock-free writer and the copy a reader makes |
| `CodeWatch` | abstract specification: a poller that looks at the log of key presses at one moment |
| `KeyPoller` | the unlock code's poller over that ring, with its install and teardown |
| `KeyPoller_proofs` | the theorems of both |
| `TapRelease` | the two event taps, the watchdog and the wake observer, from install to release |
| `TapRelease_proofs` | its theorems |
| `CodeCapture` | `--set-password` from the raw terminal to its exit |
| `CodeCapture_proofs` | its theorems |
| `PowerAssertions` | the awake-lock: orphans, Acquire and Release, over the runs of the machine |
| `SystemEffects_proofs` | the theorems of `OverlayController` and of `PowerAssertions` |
| `MC...` | the instances TLC checks; a module whose constants a `.cfg` can give has only the `.cfg` |

Each models one slice through the same 19 steps, and says at its head what it
leaves to the others.  The publish section of a session is nine steps in
`PublishProtocol`, one in `CrashRestore` (which needs the lock only as what
makes it one) and one in `SessionLifecycle` (where the process is alone).

**PublishProtocol.**  `Sessions`, `Watchers` and `Setters` are the processes.
`pc[p]` is the step a process is at, named after the comment of the code:
`precheck` is Step 5c, `migrate` 5.9, `grants` 9 to 10, `recover` 10.5,
`orphans` 11, `publish`, `check`, `compare`, `write` are Step 13.3, and
`unassert`, `unpublish` the release stack.  `lock` is the flock, which the
kernel drops with its holder (`Killed`).  `runtime` is the PID in
`runtime.json`, or why it names none (absent, unreadable, without PID, a dead
one).  `config` is the secret in `config.yml` and whether its comments are
current; `loaded[p]` is what the process resolved its verifier from, compared
by `CompareFingerprint`.  `latched` is `Manager.released`, which `Disown` sets
so that the release stack does not delete a peer's file.

**CrashRestore.**  Every external command (`Focus`, `Mute`, `Unmute`,
`Unfocus`, and those of recovery) is a step, because a kill may come between
any two; `snap` is the snapshot with `prior_muted` and `focus_enabled`;
`wants` is what the user had set, which does not change meanwhile.  `MayAge`
lets a snapshot leave the 24 h window while its owner is alive: recovery tests
`started_at` before it believes the PID (`recovery.go:184-193`), and then gives
sound and banners back whether or not the owner still has its shield up.

**SessionLifecycle.**  `main` is the main thread (before, in, or past
`[NSApp run]`), `step` the session, `held` the release stack, `live` the
effects in place, `queue` and `reply` the main queue and the rendezvous of
`dispatchMainSync`.  `watch` is a variable that no step changes, so that one
run covers both regimes.  `stop` is the one stop that `RunApp`'s goroutine issues
when the context is cancelled (`app_darwin.go:127-130`): it may come before
`[NSApp run]` is entered at line 133 (`main = "entering"`), and nothing in the
code looks at the context in between; the loop may see such a stop or drop it.

**OverlayController.**  A window is its display, and the signature is the set
of displays it was computed from.  `queue` and `doing` are the main thread;
`fired` and `cleared` are timer goroutines before and after their critical
section, which is what `debouncer.Stop` cannot take back.

**WatchDaemon.**  `table[n]` is the process that has the PID `n`: a watcher,
another program or nobody; a record names a process by its PID and its start
time, and the start time is the watcher itself, or a watcher of former days, or
unknown (`Blind`).  `step[w]` follows a child from Step 5d to its exit,
`launcher[w]` the process the user typed `--watch` into, which waits for the
token, or for the end of the child (`ready`, `clean`).  `killer[k]` and
`target[k]` are a `--kill` between `Inspect` and the removal of the record.  Of
the sessions a watcher runs there is only that they end before it does.
`MayRace` lets a `--kill` run while a `--watch` is starting, `MayMisread` lets
the probe of a PID fail.

**KeyRing and KeyPoller.**  `ring` and `seq` are `g_ring` and `g_seq`.  The
callback's two plain stores and the RELEASE of the counter are three steps
(`writing`), the reader's `memcpy` is one step per slot (`copy`, `next`), and
they interleave; that is the data race `tap_darwin.m` argues about.  `typed` is
the log of presses since the last wipe, against which the properties are stated.
`lastSeq` and `base` are the poller's, `phase` is how far `InstallAll` and
`Release` are with the parts that start, stop and wipe.  A code is a sequence of
records; the digest that `matchAny` computes is equality of sequences.  What is
`lost` is what the ring had recycled by the time the poller looked.  `CodeWatch`
is the same without the ring: presses are appended to a log, and a look at its
first `to` presses unlocks if and only if the code ends among those not looked at
before, less what is further back than `Reach`.  The mapping takes `typed` for the
log, from the install to the join of the poller, `lastSeq` for what has been
looked at, and `Cap - MaxL`, the bound of `clampFrom`, for `Reach`.

**TapRelease.**  Every party that switches a tap on behind the owner's back -
both callbacks on the worker thread, the probe on its dispatch queue, the wake
block on the main thread - loads a pointer in one step and uses its copy in
others (`worker`, `probe`, `block`).  `refs` counts the references to a port;
without any it is freed memory.  `owner` and `part` are the place of
`InstallAll` and `Releaser.Release`; every install step may fail, and every
bounded wait (drain, join) may give up, which sets `unclean`.  `ownerOnMain` is
a variable that no step changes: a one-shot run installs its taps once, on the
main thread, where it takes turns with the wake block; a watcher installs and
releases them per session, on a goroutine.  `Regimes` says which of the two an
instance has.  The registration with the worker cannot fail
(`eventtap_register_worker_runloop` returns 0 always); a panic of that goroutine
ahead of the handshake (`tap_darwin.go:912-919`) is left out.

**CodeCapture.**  `pc` follows the command through `MakeRaw`, `signal.Notify`,
the two passes of `CaptureConfirmed`, the commit under `commitMu` and the
deferred calls in their order; `handler` is the goroutine that waits for a
signal.  The ring is the log `typed`, of which a reader reaches the last
`Cap - 1`; that this is what it reaches is what `KeyPoller` shows.  The ceilings
(`TimesOut`) may strike at any time and never have to.

**PowerAssertions.**  `table` is IOKit's, with entries whose owner may be gone;
a run scans it (`orphans`, `next`, `target`), asks the kernel about each PID
(`Errno`, `IsAlive`) and releases what belongs to nobody.  `released`, `mu` and
`call` are the flag, the mutex and the callers of `Assertion.Release`.  A member
of `Procs` is one run of the program; PIDs are given out again.  An entry stands
for its assertion ID: that IOKit does not give the ID of a released assertion to
another one while somebody still holds it is assumed.

## 3. What is checked

Each property has a variant of the code that breaks it (the definitions
commented "Mutant of ..."): a plausible bug - a lock not taken, a release in
the wrong order, a latch not cleared - with which TLC reports the violation.

| Run | Instance | What it shows |
|---|---|---|
| `publish` | one session, one watcher, two setters; existing config | `KeyboardHasOneOwner`, `LiveShieldIsPublished`, `ShieldAnswersToConfig`, `OnlySetPasswordChangesSecret`, and that the protocol implements `KeyboardOwner` |
| `publish_fair` | one session, one watcher, one setter; first run; aging snapshots | `StartDecides`, `LockIsDropped` |
| `crash` | three sessions and a watcher, one at a time, kills and recycled PIDs | `RestoredWhenIdle` |
| `crash_overlap` | two sessions and a watcher side by side, kills, failures, recycled PIDs | `SilenceLasts`, as long as no live owner's snapshot ages (`MayAge = FALSE`) |
| `life` | both regimes; three presses; stops and ends of the run loop at any step; panics in a one-shot run | `NothingLeftBehind`, `TapIsInnermost`, `WaitingHoldsNothing`, `WatchdogTripIsReported`, `TriggerFreesInput`, `StopIsObeyed`; the last two except a stop that is lost ahead of the run loop |
| `overlay` | both regimes; two sessions, two displays, two changes, one failed window | `OneShotLeavesNoShield`, `OneShotCoversDisplays`, `CursorFollowsShield`, `LeadingEdgeRecovers` |
| `daemon` | two launchers and their watchers, a `--kill`, two PIDs and two combinations, any record left behind | `WatcherIsReachable`, `OnlyWatchersRefuse`, `KilledMeansNotWatching`, `LauncherTellsTheTruth`, `LauncherReturns` |
| `ring` | four slots, codes of one and two presses, five presses between wipes, one press inside a copy | `CodeIsNotMissed`, `CodeIsSignalled`, and that the ring and its poller implement `CodeWatch` |
| `tap` | a one-shot run with its one install and a watcher with two sessions; three kicks of the kernel, a threshold of two | `NoFreedPortIsUsed`, `DetachedTapsAreOff`, `NothingIsLeft`, `SessionsDoNotMix`, `DeadTapIsNoticed` |
| `commit` | two keys, four slots, codes of one and two steps, six presses, one signal | `SavedIsConfirmed`, `ToldTheTruth`, `TerminalIsRestored`, `AbortIsFinal`, `SignalEndsIt` |
| `power` | three runs of two users, two PIDs, two sessions each, two callers, a scan cut off at one entry | `SeenHoldersAreGone`, `ReturnedMeansReleased`, `LiveAssertionsStay` |

The type invariants are in none of the runs, because they are proved (section 4).

Bounds.  Two processes that can raise a shield and two that can capture are
enough for every pairwise race of the protocol, with the third and fourth as
the process that acts on a file in between.  A watcher loops for ever, so the
number of sessions in `PublishProtocol` and `CrashRestore` is not bounded; only
one-shot processes end.  In `life`, three presses are a session, a press during
it and a press after it.  In `overlay`, two displays give all four geometries,
and two changes (`MaxChanges`) a burst with a return to the first of them;
`MaxFails` is one because a second failure finds the state of the first, and
`MaxEvents` bounds the notifications that are under way at once.
In `daemon`, two starts race each other over a record of a third process, which
is in place from the beginning or is that of a killed watcher, and two PIDs are
enough for each of them to be reused by the other watcher or by a program that
is not dndmode's.  The `--kill` of that run does not overlap a start: it removes
records by their path, and a start that overlaps it can lose its own
(`MCWatchKillRace.cfg` below).  `OnlyWatchersRefuse` and `LauncherTellsTheTruth`
hold with `MayRace` too.
In `ring`, four slots and codes of up to two presses leave the admitted tail
smaller than the ring, as 32 steps and 64 slots do in the code, and five presses
wrap around it; `MaxDuringCopy = 1` is the code's own assumption, that a copy of
1 KiB is shorter than two presses, and is named because the properties are
false without it (`MCKeyPollerLongCopy.cfg`).  In `tap`, two sessions of a watcher
show what one session leaves to the next, and two failing probes are as good as
five.  In
`commit`, six presses are two codes of two steps with their Returns; a second
signal finds the channel, or the handler, as the first one left it.  In `power`,
three runs are the one that scans, the one whose entry it sees and the one that
gets a recycled PID, and a cut-off after one entry makes every scan partial; the
callers and the PIDs are symmetric.

Fairness.  `PublishProtocol!FairSpec`: weak fairness of what a process does
without waiting for its user (`OnItsOwn`); the grants, the idle watcher and the
raised shield may last for ever.  Nothing needs the lock to be granted fairly,
because the wait for it is bounded in the code and its failure is a refusal.
`SessionLifecycle!FairSpec`: each thread goes on when it can (the Go scheduler
and `[NSApp run]` starve nobody): main enters the loop, the goroutine in `RunApp`
issues its stop once the context is cancelled, and the loop ends when that stop
has reached it (`stop = "asked"`).  Nothing ends a loop whose stop was lost.  No
fairness on unlock, signal, timer, watchdog trip or press.  `OverlayController!OverlayFairSpec`: the system
delivers its notifications, the loop serves its queue, timers expire; nothing
makes a display change or a session begin or end.  `WatchDaemon!FairSpec`: the
launcher and a starting or ending watcher go on; the grants and the watching may
last for ever, and the grace of `waitBounded` makes `Reap` one step.
`KeyPoller!Spec`: a callback that has begun ends, the ticker of the poller goes on, and
an install that has registered its tap starts the poller; nothing makes a key
come.  `TapRelease!Spec`: the probe of the watchdog, which a timer fires every
five seconds; nothing makes a wake notification, a kick of the kernel or the
owner come.  `CodeCapture!FairSpec`: the command and its signal handler go on;
the ceilings are left out on purpose, since `SignalEndsIt` must not have to wait
for one.  `PowerAssertions` has no liveness property and states no fairness.

Deadlock is not checked in these runs: a process that has ended, a watcher that
waits for its user, a display that does not change any more, a process whose
teardown was unclean and accepts no further install, and a `--set-password` that
is done are states in which the system really stops.  What must not stop is
stated as liveness.

### Where the code and its comments disagree

One run ends in a counterexample; `PROJECT.json` quotes the lines.

| Run | Property | What happens |
|---|---|---|
| `tap_watch_mode` | `WakeBlockIsSafe` | in `--watch` mode `Release` runs on a session's goroutine: a wake block on the main thread that has loaded the tap (`wake_darwin.m:98`) enables it at line 102 after `Release` has freed it.  Lines 40-47 rest on one thread for both and name this as the case in which the argument collapses; the comments at `tap_darwin.go:502-505` and `wake_darwin.m:147-148` say `Release` is routed to the main thread, which no caller does |

Further disagreements are stated by properties of the modules and reproduced by
configurations kept here (`tlc -config X.cfg M`, with the module of that name or,
where there is none, the module it is an instance of), without a run of their own:

- `MCCrashPress.cfg`, `RestoredWhenIdle`: the next session after a kill is a
  press of a waiting watcher, which writes over the snapshot
  (`cmd/dndmode/main.go:1321`); the audio stays muted.
- `MCCrashStaleQuery.cfg`, `RestoredWhenIdle`: the mute state is asked before the
  lock (`main.go:1188`) and used after it: "already muted" is a peer's mute.
- `MCLifeStopEarly.cfg`, `ShutdownCompletes`: a SIGTERM while a watch session is
  starting: main waits for the session, the session for the main queue
  (`main.go:1728`).
- `MCOverlaySecondPress.cfg`, `DisplaysGetCovered`: the first session's `Release`
  unregisters observers that are registered once per process
  (`controller_darwin.go:482`).
- `MCKeyPollerLongCopy.cfg`, `NoInventedMatch` and `CodeIsNotMissed`: with two
  presses inside one copy of the ring, a slot the reader still takes for its own
  is half rewritten.  `tap_darwin.m:288-296` allows for the slot that is being
  written only, and says the writer does not come back to one it has published
  for another `DND_RING_CAP` presses; the margin is one slot.
- `MCCodeCaptureEarly.cfg`, `TerminalIsRestored`: a signal between `MakeRaw`
  (`setpassword.go:646`) and `signal.Notify` (line 676) ends the process with
  the terminal raw, against lines 533-534.
- `MCPublishFirstRun.cfg`, `OnlySetPasswordChangesSecret`: `LoadWithSource`
  finds no file and `writeDefault` renames a default one into place, without
  the lock and whatever is there by then (`internal/config/config.go:801`); a
  start that stalls in between undoes a `--set-password`.
  `internal/config/rewrite.go:387-388` says "nothing else in the codebase
  modifies an existing config."
- `MCPublishLongWait.cfg`, `LiveShieldIsPublished`: a start that has passed
  Step 5c waits for its grants for more than 24 h beside a session that came up
  after it; recovery takes the live snapshot for a recycled PID
  (`internal/state/runtime/recovery.go:187`).  Lines 181-183 say a "genuinely-live
  concurrent dndmode will have a fresh StartedAt within the window".
- `MCCrashLongSession.cfg`, `SilenceLasts`: the same test of `started_at` ends a
  silence: a start beside a shield that is up for more than a day (or whose clock
  was set) takes its snapshot for that of a dead process
  (`recovery.go:184-193`), unmutes and turns Focus off under it.
- `MCLifeLostStop.cfg`, `CancelledRunsEnd`: a one-shot run is told to stop
  between Step 12 and its entry of `[NSApp run]`; `cocoa_stop_app` is called once
  (`app_darwin.go:128`), ahead of the loop, which may then run for ever with the
  shield up.  There is no look at the context at `main.go:1526`; the unlock code
  would ask for a stop that has been asked for already.
- `MCPublishLeftover.cfg`, `OnlyPeersRefuse`: a watcher that failed to remove
  its `runtime.json` refuses its own next session (`cmd/dndmode/main.go:1285`);
  line 1279 says "Only a LIVE peer refuses."
- `MCCrashRecycled.cfg`, `StaleSnapshotNeverRefuses`: Step 5c does not look at
  `started_at` (`cmd/dndmode/main.go:948`), so the stale-snapshot rule of
  recovery (`recovery.go:37-40`) is not reached when the PID is recycled.
- `MCLifeQuit.cfg`, `ShutdownCompletes`: the run loop of a watcher ends by
  itself; nothing cancels the context its session goroutine selects on, and
  `sessions.Wait` (`cmd/dndmode/main.go:1701`) never returns.
- `MCLifePanic.cfg`, `NothingLeftBehind`: nothing recovers on the goroutine of a
  watch session (`cmd/dndmode/main.go:1651`), so a panic leaves `runtime.json`
  and the mute; lines 401-404 describe a drained release stack.
- `MCLifePressTwice.cfg`, `AskingTwiceIsAskingOnce`: a second press before the
  tap is up raises another shield after the unlock
  (`internal/macos/globalhotkey/hotkey_darwin.go:46-48`).
- `MCOverlayLateTimer.cfg`, `NoShieldBetweenSessions`: a reconcile queued by a
  timer that was already running puts the windows up behind their closing
  (`internal/macos/cocoa/controller_darwin.go:413`, against line 453).
- `MCOverlayFailedStart.cfg`, `FailedStartRaisesNothing`: a controller whose
  windows could not be built stays registered (`cmd/dndmode/main.go:1416`), and
  raises a shield with the next display event; lines 1756-1757 say "a session
  that cannot start leaves watch mode waiting for the next press."
- `MCOverlayFailedRebuild.cfg`, `FailedRebuildIsRetried`: the signature is
  recorded before the windows are built (`controller_darwin.go:321`), so the
  next event of the same geometry is skipped, against lines 287-289.
- `MCWatchKillRace.cfg`, `WatcherIsReachable`: a `--kill` that has found a stale
  record removes what is at the path (`internal/state/watch/probe.go:217`), which
  may be the record of a watcher that has just started: it watches, and neither
  `--status` nor `--kill` sees it.  Lines 186-193 guard against exactly this,
  "deleting it would leave a live watch process invisible to every probe", but
  in the other branch, where a read and the removal are still two steps.

Some comments are out of date without a property here: in watch mode the
controller's `Release` returns an error that the queued closure sets later, and
`InstallAll` runs once per session, not "exactly once per process"
(`tap_darwin.go:127`); `CleanupOrphans` promises the error of the IOKit query
(`orphan.go:54-56`), which `pm_darwin.c` answers with an empty list.  And two
consequences of going by PIDs: an orphan whose PID has been given to another
program refuses every start until that program ends, and one under the PID of
the start itself is left alone.

## 4. What is proved

`PublishProtocol_proofs` proves, for any sets of sessions, watchers and setters:

| Theorem | Statement | Assumes |
|---|---|---|
| `TypeCorrect` | `Spec => []TypeOK`, with the lock discipline in it | |
| `OneOwner` | `Spec => []KeyboardHasOneOwner` | `~MayAge` |
| `ShieldIsVisible` | `Spec => []LiveShieldIsPublished` | `~MayAge` |
| `SecretChangesOnlyByCommit` | `Spec => OnlySetPasswordChangesSecret` | `~FirstRun` |
| `ShieldIsCurrent` | `Spec => []ShieldAnswersToConfig` | `~MayAge`, `~FirstRun` |
| `Refinement` | `Spec => ImplementsKeyboardOwner` | `~MayAge`, `~FirstRun` |

The two assumptions are not a convenience: without them the properties are
false, as `MCPublishLongWait.cfg` and `MCPublishFirstRun.cfg` show.

The argument.  `TypeOK` says that the lock is held by exactly the process that
is at a locked step, which makes the sections under it exclusive.  That there is
one owner is not inductive: it must be known why nobody else can be past its
check.  `OwnFile` adds that a session from its write to its removal is the one
`runtime.json` names, unless it is latched and will remove nothing; `SawNoPeer`
that whoever is about to delete or replace that file, or to capture, has seen no
live instance and, holding the lock, still would see none.  Together they are
inductive (`NextExclusionInv`) and give both `KeyboardHasOneOwner` and
`LiveShieldIsPublished`.  For the secret, `NoOldBytes` says that the bytes a
migration is about to write back are those of the file, and `ArmedIsCurrent` that
from the fingerprint comparison to the end of the shield the loaded bytes carry
the secret in force: only a commit changes it, and a commit has seen no peer.
For the refinement, the steps that raise or lower a shield, begin or end a
capture or commit are mapped one by one to the actions of `KeyboardOwner`; every
other step leaves the mapped state alone (`OtherStepsMoveNoTap`).

`CrashRestore_proofs` proves, for any sets of sessions and watchers, and any
choice of who mutes and who uses a Focus:

| Theorem | Statement | Assumes |
|---|---|---|
| `TypeCorrect` | `Spec => []TypeOK`, with the lock of recovery in it | |
| `SilenceHolds` | `Spec => SilenceLasts` | `~MayAge` |
| `EverythingIsRestored` | `Spec => []RestoredWhenIdle` | `OneAtATime`, `~MayFail` |
| `EverySessionStartsClean` | `Spec => []SessionsStartClean` | `OneAtATime`, `~MayFail` |

`SilenceHolds` is the stronger half: with processes side by side, failing
commands and recycled PIDs, nothing gives sound or banners back under a shield.
Its invariant (`SilenceInv`) says that from its write of `runtime.json` to the
removal a session is the one the snapshot names (`OwnSnapshot`), and that a
snapshot under recovery, or one that has left the 24 h window, names a process
that has ended (`OldSnapshot`), so that nobody recovers from a live one.  The
second half of `OldSnapshot` is what `~MayAge` gives; without it the property is
false (`MCCrashLongSession.cfg`).

`EverythingIsRestored` needs its assumptions: `MCCrashPress.cfg` and
`MCCrashStaleQuery.cfg` are counterexamples with launches that overlap, and a
command that fails is logged and not repeated.  What it says is that no kill,
wherever it falls, also within a recovery, loses the user's setting.  Its
invariant (`RestoreInv`) is that whatever is not as the user has it is recorded
in the snapshot (`Covered`), that what is recorded is true (`TruePriors`), and
how much has been given back at each step of the release and of the recovery
(`Progress`); with `Alone`, a second process cannot come between.

`SessionLifecycle_proofs` proves, for any number of presses and any choice of
the modes in which a process may be stopped early, panic or lose its run loop:

| Theorem | Statement | Assumes |
|---|---|---|
| `Typing` | `Spec => []TypeOK` | |
| `TapUnderTheRest` | `Spec => []TapIsInnermost` | |
| `TripIsTold` | `Spec => []WatchdogTripIsReported` | |
| `WatcherIsIdle` | `Spec => []WaitingHoldsNothing` | |
| `NothingRemains` | `Spec => []NothingLeftBehind` | `TRUE \notin MayPanic` |

What is in place is not a function of the step: a cleanup may begin at any step.
It is one of the release stack, so the invariant (`LifeInv`) is about the stack.
`Stack` says which of its eight contents each step may have, `MainQueue` what is
queued behind what, `InPlace` what each content of the stack, and the queue, imply of the effects,
and `Verdict` that a trip is latched before it is sent, read only after the
supervisor has stopped, and not overwritten.  `EndInv` is what an exit and a
panic leave.  A panic on a watch session's goroutine is the one path that leaves
something (`MCLifePanic.cfg`).

`WatchDaemon_proofs` proves, for any watchers, killers, PIDs and combinations:

| Theorem | Statement | Assumes |
|---|---|---|
| `TypeCorrect` | `Spec => []TypeOK`, with the lock in it | |
| `RefusalsAreFounded` | `Spec => OnlyWatchersRefuse` | |
| `TrueReport` | `Spec => []LauncherTellsTheTruth` | |
| `Reachable` | `Spec => []WatcherIsReachable` | `~MayRace`, `~MayMisread` |
| `KillIsTrue` | `Spec => KilledMeansNotWatching` | `~MayRace`, `~MayMisread` |

`ProcInv` ties the table of PIDs to the processes.  `TokenInv` is how far a child
is that has written the ready token; that a launcher tells the truth needs
nothing else, not even that the record is right.  `RecordInv` is who is past the
re-check under the lock: from the write to the removal a watcher is the one the
record names (`OwnRecord`), whoever is about to write has seen nobody
(`WritesAlone`), and a `--kill` sees at most the one it waits for (`KillsAlone`).
The two assumptions are needed: `MCWatchKillRace.cfg` is a counterexample to the
first without `~MayRace`, `MCWatchMisread.cfg` without `~MayMisread`: a start whose
re-check is inconclusive goes on by design (`daemon.go:387`) and writes over the
record of a live watcher with another hot key.

`KeyPoller_proofs` proves, for any ring, keys and codes:

| Theorem | Statement | Assumes |
|---|---|---|
| `Typing` | `Spec => []TypeOK` | `MaxDuringCopy <= 1` |
| `NothingInvented` | `Spec => NoInventedMatch` | `MaxDuringCopy <= 1` |
| `AtomicScan` | `Spec => ImplementsCodeWatch` | `MaxDuringCopy <= 1` |
| `NothingMissed` | `Spec => []CodeIsNotMissed` | `MaxDuringCopy <= 1` |
| `WipedRing` | `Spec => []RingIsClean` | `MaxDuringCopy <= 1` |

`RingInv` says which of the last `Cap` records are in their slots while another
is being written, `SnapInv` what of a running copy is already trustworthy:
everything but the oldest slot, which is the one `clampFrom` gives up.  From it
follows that a window of the snapshot is the window of the log at the same place
(`WindowIsTyped`), that `matchAny` finds the code exactly where it was typed
(`MatchIsTyped`, `ScanIsLook`), and with that the refinement, the strongest of
these results: the end of a scan is a `Look` at the log as it stood when the
counter was loaded, a `Publish` is a `Type`, `InstallTap` is the `Begin` and the
wipe after the join the `End`; every other step leaves the mapped state alone.
That a code is never invented and never missed within reach are two consequences
of it, stated on their own because they are what a user would ask.

`CodeCapture_proofs` proves, for any keys, limits, presses and signals:

| Theorem | Statement | Assumes |
|---|---|---|
| `Typing` | `Spec => []TypeOK` | |
| `ConfirmedSave` | `Spec => []SavedIsConfirmed` | |
| `TrueReport` | `Spec => []ToldTheTruth` | |
| `SaneTerminal` | `Spec => []TerminalIsRestored` | `~EarlySignal` |
| `FinalAbort` | `Spec => AbortIsFinal` | `~EarlySignal` |

The invariant has two halves.  `DataInv` says that the log of presses begins with
what the passes have collected (`PassInv`) and what is on disk for each report;
no timing of a signal disturbs it.  `ControlInv` says that a terminal which is
cooked again means an abort or the end, and that nobody renames after that
without `commitMu`; it needs the handler to be there before the first signal.

`TapRelease_proofs` proves, for any number of installs, kicks and probes, of a
one-shot run and of a watcher alike:

| Theorem | Statement | Assumes |
|---|---|---|
| `Typing` | `Spec => []TypeOK` | |
| `NoMixing` | `Spec => []SessionsDoNotMix` | |
| `NoUseAfterFree` | `Spec => []NoFreedPortIsUsed` | |
| `NothingRemains` | `Spec => []NothingIsLeft` | |
| `NoDetachedTapIsOn` | `Spec => []DetachedTapsAreOff` | |

`BaseInv` counts: every reference is the owner's, the watchdog's or leaked by an
unclean teardown (`Counted`), a probe runs only while the watchdog's references
are there (`Probing`), and a callback only on a port the owner has not yet given
up (`Callbacks`).  It holds in either regime and gives `NoMixing` by itself: a
callback or a probe that outlives its teardown has made it unclean, after which
`CreateTap` is refused.  `TurnInv` adds what one thread for owner and wake block
gives, so it is about one-shot runs only (`ownerOnMain`).

The wake block of a watcher is what the properties except, each by name and no
further than the code forces: `NoFreedPortIsUsed` says of the wake block what a
one-shot run guarantees (the rest is `WakeBlockIsSafe`, which TLC refutes),
`NothingIsLeft` that no tap is on, and `DetachedTapsAreOff` excepts the main tap
(`WakeMayRevive`), which `wake_darwin.m:102` enables without a second look at the
pointer.  The gesture tap is not excepted: `gesturetap_reenable` looks again.

That a tap without a source is off is true only when everybody is at rest; in
between, a party that loaded the tap before its source was removed may switch it
on again.  `Detached` lists the places from which a tap can be on without a
source (`Reason`): it has been created and is not attached yet, or it is between
the removal of its source and the second `CGEventTapEnable(false)`, or somebody
who has just enabled it is about to look again.  `Sourced` says at which steps of
install and release the source is there, `Blocks` which tap the wake block has in
hand.

`SystemEffects_proofs` is about what a session takes from the system and has to
give back.  Of `OverlayController` it proves, for any displays, sessions, changes
and failures and in both modes:

| Theorem | Statement | Assumes |
|---|---|---|
| `OverlayTyping` | `OverlaySpec => []OverlayTypeOK` | |
| `CursorIsGivenBack` | `OverlaySpec => []CursorFollowsShield` | |
| `LatchIsGivenBack` | `OverlaySpec => []LeadingEdgeRecovers` | |
| `OneShotClosesAll` | `OverlaySpec => []OneShotLeavesNoShield` | |

They follow from one inductive invariant (`OverlayInvariance`).  `CursorInv`
counts: the system's count is the number of Controllers with `cursorHidden`, and
a Controller with windows has it.  That is about every block that may run on the
main thread, so it needs `QueueInv`, which says what a queued creation and a
block in progress belong to: the creation is the only one, its session waits for
it and cannot end meanwhile.  `LatchInv` says that a latch is held for an armed
timer, for a goroutine of one that has expired, for a session whose timer has
been stopped, or for one that is past.  `OneShotInv` is the whole of a run
without `--watch`: its queue holds only events and rebuilds, of its one session,
and no block runs outside `[NSApp run]`, which has ended before `Release`.  This
is why a late timer, which in `--watch` mode puts the windows up again
(`MCOverlayLateTimer.cfg`), cannot do so here: its block is never served.

Of `PowerAssertions` it proves, for any runs, users, PIDs, callers and cut-off:

| Theorem | Statement | Assumes |
|---|---|---|
| `Typing` | `Spec => []TypeOK` | |
| `HoldersGone` | `Spec => []SeenHoldersAreGone` | |
| `NobodyElseReleases` | `Spec => LiveAssertionsStay` | |
| `ReturnsReleased` | `Spec => []ReturnedMeansReleased` | |
| `AskedOnce` | `Spec => ReleasedOnce` | |

`LoopInv` says that what a start has passed in its scan belonged to runs that are
gone, and stays so because a run lives once, whatever becomes of its PID
(`PidInv`); `ReleaseInv` ties the flag, the mutex and the outcome to the place of
each caller.

Only model-checked: all liveness, since TLAPS reasons about neither fairness nor
ENABLED here (`StartDecides`, `LockIsDropped`, `TriggerFreesInput`,
`StopIsObeyed`, `OneShotCoversDisplays`, `LauncherReturns`, `CodeIsSignalled`,
`DeadTapIsNoticed`, `SignalEndsIt`).  Nothing is computed by recursion over data,
so no property rests on an induction that the provers could not do.

## 5. Not modelled

The parsing and formatting of the files (abstracted to what the checks tell
apart); the drawing of the overlay styles; the usage text; the state machine
table, which the main path does not consult; the cryptographic digest.  Of C and
header files most are tables that a generator has written (`terminalcorpus_darwin.h`,
`dvdlogo_darwin.h`): they hold the glyphs of two overlay styles and no logic.  The
logic is in the Go and Objective-C sources, and in `pm_darwin.c` and
`tap_ring.h`, which `PowerAssertions` and `KeyRing` model.

What is left, in the order of its weight:

1. `ConfigRewrite`: migration and rewrite as functions on lines; every other
   byte is kept, a second run changes nothing.
2. A retry of the commands that recovery could not run (`recovery.go:263`),
   once the code has one.
3. The `caffeinate` mode, a child that is waited for, and the output of
   `--status`, which only reads.
