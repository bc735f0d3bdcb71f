---------------------------- MODULE CodeCapture ----------------------------
(***************************************************************************)
(* dndmode --set-password from the publish lock on (setpassword.go): the   *)
(* raw terminal, the private signal handler, the two capture passes over   *)
(* one input tap (capture.go) and the save of the new code.                *)
(*                                                                         *)
(* Three threads act: the command itself, the goroutine that waits for a   *)
(* signal, and the keyboard, whose presses the tap's callback appends to   *)
(* the key ring.  The ring is seen as the log of presses of which a reader *)
(* gets the last Cap - 1 unharmed; KeyRing and KeyPoller have it slot by   *)
(* slot and show that this is what a reader gets.                          *)
(***************************************************************************)
EXTENDS Integers, Sequences

CONSTANTS
    Plain,        \* keys that can be a step of a code
    Return, Esc,  \* the two keys that end a pass, without modifiers
    Cap,          \* slots of the key ring
    MinSteps,     \* shortest code validateCapturedCode accepts
    MaxSteps,     \* hotkey.MaxSteps
    Old,          \* the code config.yml names before
    MaxPress,     \* bound: presses while the tap is up
    MaxSignals,   \* bound: signals sent to the process
    EarlySignal   \* a signal may fall between MakeRaw and signal.Notify

Terminator == {Return, Esc}

ASSUME KeyAssumption == Return # Esc /\ Plain \cap Terminator = {}
ASSUME StepAssumption ==
    MinSteps \in Nat /\ MaxSteps \in Nat /\ Cap \in Nat \ {0}
ASSUME OldAssumption == Old \notin Seq(Plain)
ASSUME BoundAssumption ==
    MaxPress \in Nat /\ MaxSignals \in Nat /\ EarlySignal \in BOOLEAN

VARIABLES
    pc,         \* how far the command has come
    tty,        \* mode of the terminal
    tap,        \* the input tap is up
    typed,      \* history: every press since the tap went up
    last,       \* lastSeq of the running pass
    steps,      \* the steps the running pass has collected
    first,      \* what the first pass returned
    report,     \* the line the command prints before it ends
    saved,      \* the code config.yml names
    mu,         \* commitMu
    cancelled,  \* capCtx
    notified,   \* signals go to sigCh instead of killing the process
    sigCh,      \* sigCh holds a signal
    sent,       \* history: signals sent
    handler     \* the goroutine that waits on sigCh and capCtx

captureVars == <<tap, typed, last, steps, first>>
commitVars == <<report, saved, mu>>
signalVars == <<notified, sigCh, sent, handler>>
vars == <<pc, tty, cancelled, captureVars, commitVars, signalVars>>

Passes == {"pass1", "pass2"}

Stages == Passes \cup
    {"start", "raw", "armed", "release", "decide", "check", "rename",
     "unlock", "print", "restore", "cancel", "stop", "gone"}

CodeTypeOK ==
    /\ typed \in Seq(Plain \cup Terminator)
    /\ last \in 0 .. Len(typed)
    /\ steps \in Seq(Plain) /\ Len(steps) <= MaxSteps
    /\ first \in Seq(Plain) /\ Len(first) <= MaxSteps
    /\ saved \in {Old} \cup Seq(Plain)

ControlTypeOK ==
    /\ pc \in Stages
    /\ tty \in {"cooked", "raw"}
    /\ tap \in BOOLEAN
    /\ report \in {"none", "refused", "failed", "aborted", "updated"}
    /\ mu \in {"free", "main"}
    /\ cancelled \in BOOLEAN
    /\ notified \in BOOLEAN
    /\ sigCh \in BOOLEAN
    /\ sent \in Nat
    /\ handler \in {"none", "waiting", "caught", "restoring", "done"}

TypeOK == CodeTypeOK /\ ControlTypeOK

Init ==
    /\ pc = "start"
    /\ tty = "cooked"
    /\ tap = FALSE
    /\ typed = << >>
    /\ last = 0
    /\ steps = << >>
    /\ first = << >>
    /\ report = "none"
    /\ saved = Old
    /\ mu = "free"
    /\ cancelled = FALSE
    /\ notified = FALSE
    /\ sigCh = FALSE
    /\ sent = 0
    /\ handler = "none"

----------------------------------------------------------------------------
(* Up to the tap.                                                          *)

\* The publish lock, the peer probe, TIOCGETA or MakeRaw says no.
Refused ==
    /\ pc = "start"
    /\ pc' = "gone"
    /\ report' = "refused"
    /\ UNCHANGED <<tty, cancelled, captureVars, saved, mu, signalVars>>

MakeRaw ==
    /\ pc = "start"
    /\ pc' = "raw"
    /\ tty' = "raw"
    /\ UNCHANGED <<cancelled, captureVars, commitVars, signalVars>>

\* signal.Notify, capCtx and the goroutine.
Notify ==
    /\ pc = "raw"
    /\ pc' = "armed"
    /\ notified' = TRUE
    /\ handler' = "waiting"
    /\ UNCHANGED <<tty, cancelled, captureVars, commitVars, sigCh, sent>>

\* CaptureConfirmed: installForCapture hands back the baseline of the ring
\* it has just wiped, and the first pass starts from it.
InstallTap ==
    /\ pc = "armed"
    /\ pc' = "pass1"
    /\ tap' = TRUE
    /\ UNCHANGED <<tty, cancelled, typed, last, steps, first, commitVars,
                   signalVars>>

InstallFails ==
    /\ pc = "armed"
    /\ pc' = "restore"
    /\ report' = "failed"
    /\ UNCHANGED <<tty, cancelled, captureVars, saved, mu, signalVars>>

----------------------------------------------------------------------------
(* collectSteps, once for each pass.                                       *)

\* A pass that ends without a sequence; CaptureConfirmed's defer is next.
GiveUp(why) ==
    /\ pc' = "release"
    /\ report' = why
    /\ steps' = << >>
    /\ first' = << >>
    /\ UNCHANGED <<tty, cancelled, tap, typed, last, saved, mu, signalVars>>

CtxDone ==
    /\ pc \in Passes
    /\ cancelled
    /\ GiveUp("aborted")

\* captureIdleTimeout or captureTotalTimeout.
TimesOut ==
    /\ pc \in Passes
    /\ GiveUp("failed")

Cur == Len(typed)
Lagged == Cur > Cap - 1 /\ last < Cur - (Cap - 1)

\* The presses the snapshot shows beyond lastSeq begin with n steps.
StepsAhead(n) ==
    /\ last + n <= Cur
    /\ \A i \in 1 .. n : typed[last + i] \in Plain

Ahead(n) == [i \in 1 .. n |-> typed[last + i]]

\* len(steps) stays within hotkey.MaxSteps after n more.
Fits(n) == Len(steps) + n <= MaxSteps

TickLags ==
    /\ pc \in Passes
    /\ Lagged
    /\ GiveUp("failed")

TickEscapes ==
    /\ pc \in Passes
    /\ ~Lagged
    /\ \E n \in 0 .. Cur - last :
        /\ StepsAhead(n)
        /\ Fits(n)
        /\ last + n < Cur
        /\ typed[last + n + 1] = Esc
    /\ GiveUp("failed")

TickTooLong ==
    /\ pc \in Passes
    /\ ~Lagged
    /\ \E n \in 0 .. Cur - last : StepsAhead(n) /\ ~Fits(n)
    /\ GiveUp("failed")

TickReads ==
    /\ pc \in Passes
    /\ ~Lagged
    /\ last < Cur
    /\ StepsAhead(Cur - last)
    /\ Fits(Cur - last)
    /\ steps' = steps \o Ahead(Cur - last)
    /\ last' = Cur
    /\ UNCHANGED <<pc, tty, cancelled, tap, typed, first, commitVars,
                   signalVars>>

\* The next n presses are steps and the one after them is Return.
ReturnAfter(n) ==
    /\ ~Lagged
    /\ StepsAhead(n)
    /\ Fits(n)
    /\ last + n < Cur
    /\ typed[last + n + 1] = Return

\* Mutant of FirstPassEnds: the second pass starts from the baseline the
\* tap was installed with.
FirstPassEndsAtBase ==
    /\ pc = "pass1"
    /\ \E n \in 0 .. Cur - last :
        /\ ReturnAfter(n)
        /\ first' = steps \o Ahead(n)
    /\ last' = 0
    /\ steps' = << >>
    /\ pc' = "pass2"
    /\ UNCHANGED <<tty, cancelled, tap, typed, commitVars, signalVars>>

\* The second pass starts one past the first one's Return.
FirstPassEnds ==
    /\ pc = "pass1"
    /\ \E n \in 0 .. Cur - last :
        /\ ReturnAfter(n)
        /\ first' = steps \o Ahead(n)
        /\ last' = last + n + 1
    /\ steps' = << >>
    /\ pc' = "pass2"
    /\ UNCHANGED <<tty, cancelled, tap, typed, commitVars, signalVars>>

Confirms ==
    /\ pc = "pass2"
    /\ \E n \in 0 .. Cur - last :
        ReturnAfter(n) /\ steps \o Ahead(n) = first
    /\ steps' = << >>
    /\ pc' = "release"
    /\ UNCHANGED <<tty, cancelled, tap, typed, last, first, commitVars,
                   signalVars>>

Mismatch ==
    /\ pc = "pass2"
    /\ \E n \in 0 .. Cur - last :
        ReturnAfter(n) /\ steps \o Ahead(n) # first
    /\ GiveUp("failed")

CollectSteps ==
    TickLags \/ TickEscapes \/ TickTooLong \/ TickReads \/ FirstPassEnds
        \/ Confirms \/ Mismatch

----------------------------------------------------------------------------
(* After the capture.                                                      *)

\* The deferred Release; an error goes straight to the deferred restore.
ReleaseTap ==
    /\ pc = "release"
    /\ tap' = FALSE
    /\ pc' = IF report = "none" THEN "decide" ELSE "restore"
    /\ UNCHANGED <<tty, cancelled, typed, last, steps, first, commitVars,
                   signalVars>>

\* The code is too short, or a peer has appeared since the first probe.
Rejected ==
    /\ pc = "decide"
    /\ report' = "refused"
    /\ pc' = "restore"
    /\ UNCHANGED <<tty, cancelled, captureVars, saved, mu, signalVars>>

\* Mutant of LockCommit: the commit takes no lock.
LockCommitNot ==
    /\ pc = "decide"
    /\ Len(first) >= MinSteps
    /\ pc' = "check"
    /\ UNCHANGED <<tty, cancelled, captureVars, commitVars, signalVars>>

\* validateCapturedCode and the last probe agree, and commitMu is taken.
LockCommit ==
    /\ pc = "decide"
    /\ Len(first) >= MinSteps
    /\ mu = "free"
    /\ mu' = "main"
    /\ pc' = "check"
    /\ UNCHANGED <<tty, cancelled, captureVars, report, saved, signalVars>>

\* capErr := capCtx.Err().
Check ==
    /\ pc = "check"
    /\ pc' = IF cancelled THEN "unlock" ELSE "rename"
    /\ report' = IF cancelled THEN "aborted" ELSE "none"
    /\ UNCHANGED <<tty, cancelled, captureVars, saved, mu, signalVars>>

Save ==
    /\ pc = "rename"
    /\ saved' = first
    /\ report' = "updated"
    /\ pc' = "unlock"
    /\ UNCHANGED <<tty, cancelled, captureVars, mu, signalVars>>

\* Every error of SaveUnlockHash comes before its rename takes effect.
SaveFails ==
    /\ pc = "rename"
    /\ report' = "failed"
    /\ pc' = "unlock"
    /\ UNCHANGED <<tty, cancelled, captureVars, saved, mu, signalVars>>

Unlock ==
    /\ pc = "unlock"
    /\ mu' = "free"
    /\ pc' = "print"
    /\ UNCHANGED <<tty, cancelled, captureVars, report, saved, signalVars>>

\* Mutant of PrintReport: capCtx.Err() is read again for the report.
PrintRereads ==
    /\ pc = "print"
    /\ report' = IF cancelled THEN "aborted" ELSE report
    /\ pc' = "restore"
    /\ UNCHANGED <<tty, cancelled, captureVars, saved, mu, signalVars>>

PrintReport ==
    /\ pc = "print"
    /\ pc' = "restore"
    /\ UNCHANGED <<tty, cancelled, captureVars, commitVars, signalVars>>

----------------------------------------------------------------------------
(* The deferred restore, capCancel and signal.Stop, in this order.         *)

\* Mutant of Restore: signal.Stop comes first.
RestoreAfterStop ==
    /\ pc = "restore"
    /\ notified' = FALSE
    /\ pc' = "cancel"
    /\ UNCHANGED <<tty, cancelled, captureVars, commitVars, sigCh, sent,
                   handler>>

Restore ==
    /\ pc = "restore"
    /\ tty' = "cooked"
    /\ pc' = "cancel"
    /\ UNCHANGED <<cancelled, captureVars, commitVars, signalVars>>

CapCancel ==
    /\ pc = "cancel"
    /\ cancelled' = TRUE
    /\ pc' = "stop"
    /\ UNCHANGED <<tty, captureVars, commitVars, signalVars>>

StopSignals ==
    /\ pc = "stop"
    /\ notified' = FALSE
    /\ pc' = "gone"
    /\ UNCHANGED <<tty, cancelled, captureVars, commitVars, sigCh, sent,
                   handler>>

----------------------------------------------------------------------------
(* Signals, and the goroutine that waits for one.                          *)

\* SIGINT, SIGTERM or SIGHUP: to the channel, which keeps one, or, with the
\* default disposition, the end of the process.
SignalArrives ==
    /\ pc # "gone"
    /\ sent < MaxSignals
    /\ pc = "raw" => EarlySignal
    /\ sent' = sent + 1
    /\ sigCh' = (sigCh \/ notified)
    /\ pc' = IF notified THEN pc ELSE "gone"
    /\ tap' = (tap /\ notified)
    /\ UNCHANGED <<tty, cancelled, typed, last, steps, first, commitVars,
                   notified, handler>>

HandlerCatches ==
    /\ pc # "gone"
    /\ handler = "waiting"
    /\ sigCh
    /\ sigCh' = FALSE
    /\ handler' = "caught"
    /\ UNCHANGED <<pc, tty, cancelled, captureVars, commitVars, notified,
                   sent>>

\* Mutant of HandlerCancels: the terminal is restored but nothing cancelled.
HandlerForgets ==
    /\ pc # "gone"
    /\ handler = "caught"
    /\ mu = "free"
    /\ handler' = "restoring"
    /\ UNCHANGED <<pc, tty, cancelled, captureVars, commitVars, notified,
                   sigCh, sent>>

\* Lock, capCancel, Unlock: one step, for it needs commitMu throughout.
HandlerCancels ==
    /\ pc # "gone"
    /\ handler = "caught"
    /\ mu = "free"
    /\ cancelled' = TRUE
    /\ handler' = "restoring"
    /\ UNCHANGED <<pc, tty, captureVars, commitVars, notified, sigCh, sent>>

HandlerRestores ==
    /\ pc # "gone"
    /\ handler = "restoring"
    /\ tty' = "cooked"
    /\ handler' = "done"
    /\ UNCHANGED <<pc, cancelled, captureVars, commitVars, notified, sigCh,
                   sent>>

HandlerLeaves ==
    /\ pc # "gone"
    /\ handler = "waiting"
    /\ cancelled
    /\ handler' = "done"
    /\ UNCHANGED <<pc, tty, cancelled, captureVars, commitVars, notified,
                   sigCh, sent>>

\* A key goes down while the tap is up: the callback appends a record.
Press ==
    /\ tap
    /\ Len(typed) < MaxPress
    /\ \E k \in Plain \cup Terminator : typed' = Append(typed, k)
    /\ UNCHANGED <<pc, tty, cancelled, tap, last, steps, first, commitVars,
                   signalVars>>

----------------------------------------------------------------------------

Proceeds ==
    \/ MakeRaw \/ Notify \/ InstallTap \/ InstallFails
    \/ CtxDone \/ CollectSteps \/ ReleaseTap
    \/ Rejected \/ LockCommit \/ Check \/ Save \/ SaveFails \/ Unlock
    \/ PrintReport
    \/ Restore \/ CapCancel \/ StopSignals

Handles ==
    HandlerCatches \/ HandlerCancels \/ HandlerRestores \/ HandlerLeaves

Next == Refused \/ Proceeds \/ TimesOut \/ Handles \/ SignalArrives \/ Press

Spec == Init /\ [][Next]_vars

\* The threads run; the ceilings are left out, for a signal must not have
\* to wait for them, and nothing is assumed of the keyboard.
Fairness == WF_vars(Proceeds) /\ WF_vars(Handles)

FairSpec == Spec /\ Fairness

----------------------------------------------------------------------------

\* The log of presses begins with this code and Return, twice over.
TypedTwice(code) ==
    /\ Len(typed) >= 2 * Len(code) + 2
    /\ \A i \in 1 .. Len(code) :
        typed[i] = code[i] /\ typed[Len(code) + 1 + i] = code[i]
    /\ typed[Len(code) + 1] = Return
    /\ typed[2 * Len(code) + 2] = Return

\* The code config.yml ends up with was typed twice, Return after each time,
\* and nothing was typed before or between (collectSteps' baselines and lag
\* check, confirmPasses).
SavedIsConfirmed == saved # Old => TypedTwice(saved)

\* Once the run is abandoned or the terminal handed back, the config stays
\* as it is: the rename is never later than what looks like an abort
\* (commitMu, setpassword.go).
AbortIsFinal == [][cancelled \/ tty = "cooked" => saved' = saved]_vars

\* What the command says it did is what happened to config.yml.
ToldTheTruth ==
    /\ report = "updated" => saved # Old
    /\ report \in {"refused", "failed", "aborted"} => saved = Old

\* However the process ends once its signal handler is installed, it does not
\* leave a raw terminal behind (the order of the deferred calls and the signal
\* handler).  A signal between MakeRaw and Notify does (EarlySignal).
TerminalIsRestored == pc = "gone" => tty = "cooked"

\* A signal that reaches the channel ends the run, without a ceiling.
SignalEndsIt == sigCh ~> pc = "gone"
=============================================================================
