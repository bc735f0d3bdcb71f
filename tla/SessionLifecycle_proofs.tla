---------------------- MODULE SessionLifecycle_proofs ----------------------
(***************************************************************************)
(* Theorems about SessionLifecycle, for any number of presses and any      *)
(* choice of when a process may be stopped, panic or lose its run loop:    *)
(* the state is well typed, the tap is up only under everything else, a    *)
(* watchdog trip is reported, a watcher holds nothing between two sessions *)
(* and, if no watch session panics, nothing outlives the process.          *)
(***************************************************************************)
EXTENDS SessionLifecycle, SequenceTheorems, TLAPS

(* The release stack, by what has been pushed. *)

OfLength(n) == {s \in Seq(Effects) : Len(s) = n}

Registered == {s \in OfLength(1) : s[1] = "file"}
Awake == {s \in OfLength(2) : s[1] = "file" /\ s[2] = "assertion"}
Silent ==
  {s \in OfLength(3) : s[1] = "file" /\ s[2] = "assertion" /\ s[3] = "silence"}
PlainlyCovered ==
  {s \in OfLength(3) : s[1] = "file" /\ s[2] = "assertion" /\ s[3] = "windows"}
QuietlyCovered ==
  {s \in OfLength(4) : /\ s[1] = "file" /\ s[2] = "assertion"
                       /\ s[3] = "silence" /\ s[4] = "windows"}
PlainlyArmed ==
  {s \in OfLength(4) : /\ s[1] = "file" /\ s[2] = "assertion"
                       /\ s[3] = "windows" /\ s[4] = "tap"}
QuietlyArmed ==
  {s \in OfLength(5) : /\ s[1] = "file" /\ s[2] = "assertion"
                       /\ s[3] = "silence" /\ s[4] = "windows" /\ s[5] = "tap"}
Covered == PlainlyCovered \cup QuietlyCovered
Armed == PlainlyArmed \cup QuietlyArmed
Stacks == {<<>>} \cup Registered \cup Awake \cup Silent \cup Covered \cup Armed

Ended == {"waiting", "over"}
BeforeWindows == {"init", "initializing", "windows", "creating"}
Up == {"armed", "active", "join"}

\* What is on the stack at every step.
Stack ==
  /\ step \in Ended => held = <<>>
  /\ step = "acquire" => held \in Registered
  /\ step \in {"publish", "silence"} => held \in Awake
  /\ step \in BeforeWindows => held \in Awake \cup Silent
  /\ step \in {"supervise", "tap"} => held \in Covered
  /\ step \in Up => held \in Armed
  /\ held \in Stacks

Calls == {"init", "create", "close"}
Asked == {q \in Seq(Calls) : Len(q) = 1 /\ q[1] = "init"}
AskedLate == {q \in Seq(Calls) : Len(q) = 2 /\ q[1] = "close" /\ q[2] = "init"}
Wanted == {q \in Seq(Calls) : Len(q) = 1 /\ q[1] = "create"}
Closing == {q \in Seq(Calls) : Len(q) = 1 /\ q[1] = "close"}

\* What is on the main queue: at most the closing of the last session's
\* windows, and behind it what the session waits for.
MainQueue ==
  /\ queue \in {<<>>} \cup Asked \cup AskedLate \cup Wanted \cup Closing
  /\ ~watch => queue = <<>>
  /\ reply = "awaited" =>
       \/ step = "initializing" /\ queue \in Asked \cup AskedLate
       \/ step = "creating" /\ queue \in Wanted
  /\ reply \in {"done", "failed"} =>
       step \in {"initializing", "creating"} /\ queue = <<>>
  /\ reply = "none" => /\ step \notin {"initializing", "creating"}
                       /\ queue \in {<<>>} \cup Closing
  /\ step \in {"windows", "supervise", "tap"} \cup Up => queue = <<>>
  /\ held \in Covered \cup Armed => queue = <<>>

\* What is in place: what is on the stack, and windows that are about to be
\* closed or have just been created.
InPlace ==
  /\ "file" \in live => held # <<>>
  /\ "assertion" \in live => held \notin {<<>>} \cup Registered
  /\ "silence" \in live =>
       held \in Silent \cup QuietlyCovered \cup QuietlyArmed
  /\ "tap" \in live <=> held \in Armed
  /\ "windows" \in live =>
       \/ held \in Covered \cup Armed
       \/ step = "creating" /\ reply = "done"
       \/ queue \in Closing \cup AskedLate
  /\ step = "creating" /\ reply = "done" => "windows" \in live
  /\ step \in {"publish", "silence"} \cup BeforeWindows => "assertion" \in live
  /\ step \in {"silence"} \cup BeforeWindows => "file" \in live
  /\ held \in Covered \cup Armed => {"file", "assertion", "windows"} \subseteq live

\* What has been sent to the supervisor, and which exit code it comes to.
Verdict ==
  /\ step \notin Up \cup {"cleanup"} => cause # "watchdog" /\ trigger = "none"
  /\ trigger = "watchdog" \/ cause = "watchdog" => watchdog # "watching"
  /\ step = "cleanup" /\ cause = "watchdog" => code \in {4, 8}
  /\ step = "cleanup" /\ sup = "running" =>
       code = 8 \/ ("tap" \notin live /\ trigger = "none")

\* Inductive; after the process has ended only the types are left to say.
LifeInv == TypeOK /\ (~Over => Stack /\ MainQueue /\ InPlace /\ Verdict)

-----------------------------------------------------------------------------
(* The stacks and the queues as sequences *)

Top(s) == s[Len(s)]
Under(s) == SubSeq(s, 1, Len(s) - 1)

\* One release on a stack of a given length.
LEMMA OnePop ==
  ASSUME NEW n \in Nat \ {0}, NEW s \in OfLength(n)
  PROVE  /\ Top(s) = s[n]
         /\ Under(s) \in OfLength(n - 1)
         /\ \A i \in 1..(n - 1) : Under(s)[i] = s[i]
<1>1. s \in Seq(Effects) /\ Len(s) = n
  BY DEF OfLength
<1>2. \A i \in 1..(n - 1) : s[i] \in Effects
  BY <1>1, ElementOfSeq
<1>3. /\ SubSeq(s, 1, n - 1) \in Seq(Effects)
      /\ Len(SubSeq(s, 1, n - 1)) = n - 1
      /\ \A i \in 1..(n - 1) : SubSeq(s, 1, n - 1)[i] = s[i]
  BY <1>2, SubSeqProperties
<1>4. QED
  BY <1>1, <1>3 DEF OfLength, Top, Under

\* What a Push of runSession puts on which stack.
LEMMA Pushes ==
  /\ \A s \in Registered : Append(s, "assertion") \in Awake
  /\ \A s \in Awake : Append(s, "silence") \in Silent
  /\ \A s \in Awake : Append(s, "windows") \in Covered
  /\ \A s \in Silent : Append(s, "windows") \in QuietlyCovered
  /\ \A s \in Covered : Append(s, "tap") \in Armed
  /\ \A s \in QuietlyCovered : Append(s, "tap") \in QuietlyArmed
<1>1. ASSUME NEW s \in Registered, NEW e \in Effects, e = "assertion"
      PROVE  Append(s, e) \in Awake
  <2> DEFINE t == Append(s, e)
  <2>1. s \in Seq(Effects) /\ e \in Effects
    BY DEF Registered, OfLength
  <2>2. /\ t \in Seq(Effects) /\ Len(t) = Len(s) + 1
        /\ \A i \in 1..Len(s) : t[i] = s[i]
        /\ t[Len(s) + 1] = e
    BY <2>1, AppendProperties
  <2> HIDE DEF t
  <2>3. Len(s) = 1
    BY DEF Registered, OfLength
  <2>4. Len(t) = 2 /\ t[2] = e /\ t[1] = s[1]
    BY <2>2, <2>3
  <2>5. t \in OfLength(2) /\ t[1] = "file"
    BY <2>2, <2>4 DEF Registered, OfLength
  <2>6. QED
    BY <1>1, <2>4, <2>5 DEF Awake, t
<1>2. ASSUME NEW s \in Awake, NEW e \in Effects, e = "silence"
      PROVE  Append(s, e) \in Silent
  <2> DEFINE t == Append(s, e)
  <2>1. s \in Seq(Effects) /\ e \in Effects
    BY DEF Awake, OfLength
  <2>2. /\ t \in Seq(Effects) /\ Len(t) = Len(s) + 1
        /\ \A i \in 1..Len(s) : t[i] = s[i]
        /\ t[Len(s) + 1] = e
    BY <2>1, AppendProperties
  <2> HIDE DEF t
  <2>3. Len(s) = 2
    BY DEF Awake, OfLength
  <2>4. Len(t) = 3 /\ t[3] = e /\ t[1] = s[1] /\ t[2] = s[2]
    BY <2>2, <2>3
  <2>5. t \in OfLength(3) /\ t[1] = "file" /\ t[2] = "assertion"
    BY <2>2, <2>4 DEF Awake, OfLength
  <2>6. QED
    BY <1>2, <2>4, <2>5 DEF Silent, t
<1>3. ASSUME NEW s \in Awake, NEW e \in Effects, e = "windows"
      PROVE  Append(s, e) \in PlainlyCovered
  <2> DEFINE t == Append(s, e)
  <2>1. s \in Seq(Effects) /\ e \in Effects
    BY DEF Awake, OfLength
  <2>2. /\ t \in Seq(Effects) /\ Len(t) = Len(s) + 1
        /\ \A i \in 1..Len(s) : t[i] = s[i]
        /\ t[Len(s) + 1] = e
    BY <2>1, AppendProperties
  <2> HIDE DEF t
  <2>3. Len(s) = 2
    BY DEF Awake, OfLength
  <2>4. Len(t) = 3 /\ t[3] = e /\ t[1] = s[1] /\ t[2] = s[2]
    BY <2>2, <2>3
  <2>5. t \in OfLength(3) /\ t[1] = "file" /\ t[2] = "assertion"
    BY <2>2, <2>4 DEF Awake, OfLength
  <2>6. QED
    BY <1>3, <2>4, <2>5 DEF PlainlyCovered, t
<1>4. ASSUME NEW s \in Silent, NEW e \in Effects, e = "windows"
      PROVE  Append(s, e) \in QuietlyCovered
  <2> DEFINE t == Append(s, e)
  <2>1. s \in Seq(Effects) /\ e \in Effects
    BY DEF Silent, OfLength
  <2>2. /\ t \in Seq(Effects) /\ Len(t) = Len(s) + 1
        /\ \A i \in 1..Len(s) : t[i] = s[i]
        /\ t[Len(s) + 1] = e
    BY <2>1, AppendProperties
  <2> HIDE DEF t
  <2>3. Len(s) = 3
    BY DEF Silent, OfLength
  <2>4. Len(t) = 4 /\ t[4] = e /\ t[1] = s[1] /\ t[2] = s[2] /\ t[3] = s[3]
    BY <2>2, <2>3
  <2>5. t \in OfLength(4) /\ t[1] = "file" /\ t[2] = "assertion" /\ t[3] = "silence"
    BY <2>2, <2>4 DEF Silent, OfLength
  <2>6. QED
    BY <1>4, <2>4, <2>5 DEF QuietlyCovered, t
<1>5. ASSUME NEW s \in PlainlyCovered, NEW e \in Effects, e = "tap"
      PROVE  Append(s, e) \in PlainlyArmed
  <2> DEFINE t == Append(s, e)
  <2>1. s \in Seq(Effects) /\ e \in Effects
    BY DEF PlainlyCovered, OfLength
  <2>2. /\ t \in Seq(Effects) /\ Len(t) = Len(s) + 1
        /\ \A i \in 1..Len(s) : t[i] = s[i]
        /\ t[Len(s) + 1] = e
    BY <2>1, AppendProperties
  <2> HIDE DEF t
  <2>3. Len(s) = 3
    BY DEF PlainlyCovered, OfLength
  <2>4. Len(t) = 4 /\ t[4] = e /\ t[1] = s[1] /\ t[2] = s[2] /\ t[3] = s[3]
    BY <2>2, <2>3
  <2>5. t \in OfLength(4) /\ t[1] = "file" /\ t[2] = "assertion" /\ t[3] = "windows"
    BY <2>2, <2>4 DEF PlainlyCovered, OfLength
  <2>6. QED
    BY <1>5, <2>4, <2>5 DEF PlainlyArmed, t
<1>6. ASSUME NEW s \in QuietlyCovered, NEW e \in Effects, e = "tap"
      PROVE  Append(s, e) \in QuietlyArmed
  <2> DEFINE t == Append(s, e)
  <2>1. s \in Seq(Effects) /\ e \in Effects
    BY DEF QuietlyCovered, OfLength
  <2>2. /\ t \in Seq(Effects) /\ Len(t) = Len(s) + 1
        /\ \A i \in 1..Len(s) : t[i] = s[i]
        /\ t[Len(s) + 1] = e
    BY <2>1, AppendProperties
  <2> HIDE DEF t
  <2>3. Len(s) = 4
    BY DEF QuietlyCovered, OfLength
  <2>4. Len(t) = 5 /\ t[5] = e /\ t[1] = s[1] /\ t[2] = s[2] /\ t[3] = s[3] /\ t[4] = s[4]
    BY <2>2, <2>3
  <2>5. /\ t \in OfLength(5) /\ t[1] = "file" /\ t[2] = "assertion"
        /\ t[3] = "silence" /\ t[4] = "windows"
    BY <2>2, <2>4 DEF QuietlyCovered, OfLength
  <2>6. QED
    BY <1>6, <2>4, <2>5 DEF QuietlyArmed, t
<1>7. QED
  BY <1>1, <1>2, <1>3, <1>4, <1>5, <1>6
  DEF Covered, Armed, Effects, Persistent

\* The stacks are told apart by what is on them.
LEMMA Apart ==
  /\ <<>> \notin Registered \cup Awake \cup Silent \cup Covered \cup Armed
  /\ Registered \cap (Awake \cup Silent \cup Covered \cup Armed) = {}
  /\ Awake \cap (Silent \cup Covered \cup Armed) = {}
  /\ Silent \cap (Covered \cup Armed) = {}
  /\ Covered \cap Armed = {}
  /\ QuietlyCovered \subseteq Covered
  /\ QuietlyArmed \subseteq Armed
<1>1. /\ Registered \subseteq OfLength(1) /\ Awake \subseteq OfLength(2)
      /\ Silent \subseteq OfLength(3) /\ PlainlyCovered \subseteq OfLength(3)
      /\ QuietlyCovered \subseteq OfLength(4) /\ PlainlyArmed \subseteq OfLength(4)
      /\ QuietlyArmed \subseteq OfLength(5)
  BY DEF Registered, Awake, Silent, PlainlyCovered, QuietlyCovered, PlainlyArmed,
         QuietlyArmed
<1>2. /\ \A s \in Silent : s[3] = "silence"
      /\ \A s \in PlainlyCovered : s[3] = "windows"
      /\ \A s \in QuietlyCovered : s[4] = "windows"
      /\ \A s \in PlainlyArmed : s[4] = "tap"
  BY DEF Silent, PlainlyCovered, QuietlyCovered, PlainlyArmed
<1>3. /\ \A n \in Nat : \A s \in OfLength(n) : Len(s) = n
      /\ Len(<<>>) = 0
  BY DEF OfLength
<1>4. QED
  BY <1>1, <1>2, <1>3 DEF Covered, Armed

\* What Cleanup takes off which stack, and what it leaves.
LEMMA Pops ==
  /\ \A s \in Registered : Top(s) = "file" /\ Under(s) = <<>>
  /\ \A s \in Awake : Top(s) = "assertion" /\ Under(s) \in Registered
  /\ \A s \in Silent : Top(s) = "silence" /\ Under(s) \in Awake
  /\ \A s \in Covered : Top(s) = "windows" /\ Under(s) \in Awake \cup Silent
  /\ \A s \in QuietlyCovered : Under(s) \in Silent
  /\ \A s \in Armed : Top(s) = "tap" /\ Under(s) \in Covered
  /\ \A s \in QuietlyArmed : Under(s) \in QuietlyCovered
<1>1. ASSUME NEW s \in Awake PROVE Top(s) = "assertion" /\ Under(s) \in Registered
  <2>1. s \in OfLength(2)
    BY DEF Awake
  <2>2. /\ Top(s) = s[2] /\ Under(s) \in OfLength(1)
        /\ \A i \in 1..1 : Under(s)[i] = s[i]
    BY <2>1, OnePop
  <2>3. QED
    BY <1>1, <2>2 DEF Awake, Registered
<1>2. ASSUME NEW s \in Silent PROVE Top(s) = "silence" /\ Under(s) \in Awake
  <2>1. s \in OfLength(3)
    BY DEF Silent
  <2>2. /\ Top(s) = s[3] /\ Under(s) \in OfLength(2)
        /\ \A i \in 1..2 : Under(s)[i] = s[i]
    BY <2>1, OnePop
  <2>3. QED
    BY <1>2, <2>2 DEF Silent, Awake
<1>3. ASSUME NEW s \in QuietlyCovered PROVE Top(s) = "windows" /\ Under(s) \in Silent
  <2>1. s \in OfLength(4)
    BY DEF QuietlyCovered
  <2>2. /\ Top(s) = s[4] /\ Under(s) \in OfLength(3)
        /\ \A i \in 1..3 : Under(s)[i] = s[i]
    BY <2>1, OnePop
  <2>3. QED
    BY <1>3, <2>2 DEF QuietlyCovered, Silent
<1>4. ASSUME NEW s \in PlainlyCovered PROVE Top(s) = "windows" /\ Under(s) \in Awake
  <2>1. s \in OfLength(3)
    BY DEF PlainlyCovered
  <2>2. /\ Top(s) = s[3] /\ Under(s) \in OfLength(2)
        /\ \A i \in 1..2 : Under(s)[i] = s[i]
    BY <2>1, OnePop
  <2>3. QED
    BY <1>4, <2>2 DEF PlainlyCovered, Awake
<1>5. ASSUME NEW s \in QuietlyArmed PROVE Top(s) = "tap" /\ Under(s) \in QuietlyCovered
  <2>1. s \in OfLength(5)
    BY DEF QuietlyArmed
  <2>2. /\ Top(s) = s[5] /\ Under(s) \in OfLength(4)
        /\ \A i \in 1..4 : Under(s)[i] = s[i]
    BY <2>1, OnePop
  <2>3. QED
    BY <1>5, <2>2 DEF QuietlyArmed, QuietlyCovered
<1>6. ASSUME NEW s \in PlainlyArmed PROVE Top(s) = "tap" /\ Under(s) \in PlainlyCovered
  <2>1. s \in OfLength(4)
    BY DEF PlainlyArmed
  <2>2. /\ Top(s) = s[4] /\ Under(s) \in OfLength(3)
        /\ \A i \in 1..3 : Under(s)[i] = s[i]
    BY <2>1, OnePop
  <2>3. QED
    BY <1>6, <2>2 DEF PlainlyArmed, PlainlyCovered
<1>7. ASSUME NEW s \in Registered PROVE Top(s) = "file" /\ Under(s) = <<>>
  BY SubSeqEmpty DEF Registered, OfLength, Top, Under
<1>8. QED
  BY <1>1, <1>2, <1>3, <1>4, <1>5, <1>6, <1>7 DEF Covered, Armed

\* So are the queues.
LEMMA QueuesApart ==
  /\ <<>> \notin Asked \cup AskedLate \cup Wanted \cup Closing
  /\ Asked \cap (AskedLate \cup Wanted \cup Closing) = {}
  /\ AskedLate \cap (Wanted \cup Closing) = {}
  /\ Wanted \cap Closing = {}
BY DEF Asked, AskedLate, Wanted, Closing

\* How the main queue grows and shrinks.
LEMMA Queues ==
  /\ Append(<<>>, "init") \in Asked
  /\ \A q \in Closing : Append(q, "init") \in AskedLate
  /\ Append(<<>>, "create") \in Wanted
  /\ Append(<<>>, "close") \in Closing
  /\ \A q \in Asked : Head(q) = "init" /\ Tail(q) = <<>>
  /\ \A q \in Wanted : Head(q) = "create" /\ Tail(q) = <<>>
  /\ \A q \in Closing : Head(q) = "close" /\ Tail(q) = <<>>
  /\ \A q \in AskedLate : Head(q) = "close" /\ Tail(q) \in Asked
<1>1. /\ Append(<<>>, "init") \in Asked
      /\ Append(<<>>, "create") \in Wanted
      /\ Append(<<>>, "close") \in Closing
  BY DEF Calls, Asked, Wanted, Closing
<1>2. ASSUME NEW q \in Closing, NEW c \in Calls, c = "init"
      PROVE  Append(q, c) \in AskedLate
  <2> DEFINE r == Append(q, c)
  <2>1. q \in Seq(Calls) /\ c \in Calls
    BY DEF Closing
  <2>2. /\ r \in Seq(Calls) /\ Len(r) = Len(q) + 1
        /\ \A i \in 1..Len(q) : r[i] = q[i]
        /\ r[Len(q) + 1] = c
    BY <2>1, AppendProperties
  <2> HIDE DEF r
  <2>3. Len(q) = 1
    BY DEF Closing
  <2>4. Len(r) = 2 /\ r[1] = q[1] /\ r[2] = c
    BY <2>2, <2>3
  <2>5. r[1] = "close"
    BY <2>4 DEF Closing
  <2>6. QED
    BY <1>2, <2>2, <2>4, <2>5 DEF AskedLate, r
<1>3. ASSUME NEW q \in Seq(Calls), Len(q) = 1
      PROVE  Head(q) = q[1] /\ Tail(q) = <<>>
  <2>1. q # <<>>
    BY <1>3, EmptySeq
  <2>2. Tail(q) \in Seq(Calls) /\ Len(Tail(q)) = 0
    BY <1>3, <2>1, HeadTailProperties
  <2>3. Tail(q) = <<>>
    BY <2>2, EmptySeq
  <2>4. QED
    BY <1>3, <2>1, <2>3
<1>4. ASSUME NEW q \in AskedLate PROVE Head(q) = "close" /\ Tail(q) \in Asked
  <2>1. q \in Seq(Calls) /\ Len(q) = 2 /\ q[1] = "close" /\ q[2] = "init"
    BY DEF AskedLate
  <2>2. q # <<>>
    BY <2>1, EmptySeq
  <2> DEFINE r == Tail(q)
  <2>3. /\ r \in Seq(Calls) /\ Len(r) = Len(q) - 1
        /\ \A i \in 1..Len(r) : r[i] = q[i + 1]
    BY <2>1, <2>2, HeadTailProperties
  <2> HIDE DEF r
  <2>4. r \in Asked
    BY <2>1, <2>3 DEF Asked
  <2>5. QED
    BY <2>1, <2>2, <2>4 DEF r
<1>6. /\ \A q \in Asked : Head(q) = "init" /\ Tail(q) = <<>>
      /\ \A q \in Wanted : Head(q) = "create" /\ Tail(q) = <<>>
      /\ \A q \in Closing : Head(q) = "close" /\ Tail(q) = <<>>
  BY <1>3 DEF Asked, Wanted, Closing
<1>7. QED
  BY <1>1, <1>2, <1>4, <1>6 DEF Calls

-----------------------------------------------------------------------------
(* The steps keep the invariant *)

Queued == {<<>>} \cup Asked \cup AskedLate \cup Wanted \cup Closing

\* A stack and a queue hold what the type invariant says.
LEMMA Typed ==
  /\ \A s \in Stacks : \A i \in DOMAIN s : s[i] \in Effects
  /\ \A q \in Queued : \A i \in DOMAIN q : q[i] \in {"init", "create", "close"}
<1>1. Stacks \subseteq Seq(Effects)
  BY EmptySeq DEF Stacks, Registered, Awake, Silent, PlainlyCovered, QuietlyCovered,
     Covered, PlainlyArmed, QuietlyArmed, Armed, OfLength
<1>2. Queued \subseteq Seq(Calls)
  BY EmptySeq DEF Queued, Asked, AskedLate, Wanted, Closing
<1>3. \A S : \A s \in Seq(S) : \A i \in DOMAIN s : s[i] \in S
  BY LenProperties, ElementOfSeq
<1>4. QED
  BY <1>1, <1>2, <1>3 DEF Calls

USE DEF Starting, Over, vars, loop, threads, stopping, hotkey, Ended, BeforeWindows, Up

\* One lemma per step of a thread: whatever the session, the main thread, the
\* supervisor, the watchdog or the user does next, the invariant holds after it.
LEMMA WaitForPressKeeps ==
  ASSUME LifeInv, ~Over, WaitForPress
  PROVE  LifeInv'
<1>1. <<"file">> \in Registered
  BY DEF Registered, OfLength, Effects, Persistent
<1>2. TypeOK'
  <2>1. root' \in BOOLEAN /\ session' \in BOOLEAN
    BY Zenon DEF LifeInv, TypeOK, WaitForPress
  <2>2. held' \in Stacks /\ queue' \in Queued
    BY Apart, <1>1 DEF LifeInv, TypeOK, Stack, Stacks, MainQueue, Queued,
      WaitForPress
  <2>3. live' \subseteq Effects
    BY <2>1, <1>1 DEF LifeInv, TypeOK, WaitForPress, Effects, Persistent
  <2>4. presses' \in 0..MaxPresses
    BY BoundAssumption DEF LifeInv, TypeOK, WaitForPress
  <2>5. QED
    BY <2>1, <2>2, <2>3, <2>4, Typed, <1>1 DEF LifeInv, TypeOK, WaitForPress
<1> USE Apart
    DEF LifeInv, TypeOK, Stack, Stacks, MainQueue, InPlace, Verdict, WaitForPress
<1>3. Stack'
  BY <1>1
<1>4. MainQueue'
  BY <1>1
<1>5. InPlace'
  BY <1>1
<1>6. Verdict'
  BY <1>1
<1>7. QED
  BY <1>3, <1>4, <1>5, <1>6, <1>2

LEMMA AcquireKeeps ==
  ASSUME LifeInv, ~Over, Acquire
  PROVE  LifeInv'
<1>1. step = "acquire" /\ Push("assertion") => held' \in Awake
  BY Pushes DEF LifeInv, Stack, Push
<1>2. TypeOK'
  <2>1. root' \in BOOLEAN /\ session' \in BOOLEAN
    BY Zenon DEF LifeInv, TypeOK, Acquire, Acquired, Fail
  <2>2. held' \in Stacks /\ queue' \in Queued
    BY Apart, <1>1 DEF LifeInv, TypeOK, Stack, Stacks, MainQueue, Queued, Acquire,
      Acquired, Fail
  <2>3. live' \subseteq Effects
    BY <2>1, <1>1 DEF LifeInv, TypeOK, Acquire, Acquired, Fail, Effects, Persistent
  <2>4. presses' \in 0..MaxPresses
    BY BoundAssumption DEF LifeInv, TypeOK, Acquire, Acquired, Fail
  <2>5. QED
    BY <2>1, <2>2, <2>3, <2>4, Typed, <1>1 DEF LifeInv, TypeOK, Acquire, Acquired,
      Fail
<1> USE Apart
    DEF LifeInv, TypeOK, Stack, Stacks, MainQueue, InPlace, Verdict, Acquire,
      Acquired, Fail
<1>3. Stack'
  BY <1>1
<1>4. MainQueue'
  BY <1>1
<1>5. InPlace'
  BY <1>1
<1>6. Verdict'
  BY <1>1
<1>7. QED
  BY <1>3, <1>4, <1>5, <1>6, <1>2

LEMMA PublishKeeps ==
  ASSUME LifeInv, ~Over, Publish
  PROVE  LifeInv'
<1>1. TypeOK'
  <2>1. root' \in BOOLEAN /\ session' \in BOOLEAN
    BY Zenon DEF LifeInv, TypeOK, Publish, Acquired, Fail
  <2>2. held' \in Stacks /\ queue' \in Queued
    BY Apart DEF LifeInv, TypeOK, Stack, Stacks, MainQueue, Queued, Publish,
      Acquired, Fail
  <2>3. live' \subseteq Effects
    BY <2>1 DEF LifeInv, TypeOK, Publish, Acquired, Fail, Effects, Persistent
  <2>4. presses' \in 0..MaxPresses
    BY BoundAssumption DEF LifeInv, TypeOK, Publish, Acquired, Fail
  <2>5. QED
    BY <2>1, <2>2, <2>3, <2>4, Typed DEF LifeInv, TypeOK, Publish, Acquired, Fail
<1> USE Apart
    DEF LifeInv, TypeOK, Stack, Stacks, MainQueue, InPlace, Verdict, Publish,
      Acquired, Fail
<1>2. Stack'
  OBVIOUS
<1>3. MainQueue'
  OBVIOUS
<1>4. InPlace'
  OBVIOUS
<1>5. Verdict'
  OBVIOUS
<1>6. QED
  BY <1>2, <1>3, <1>4, <1>5, <1>1

LEMMA SilenceKeeps ==
  ASSUME LifeInv, ~Over, Silence
  PROVE  LifeInv'
<1>1. step = "silence" /\ Push("silence") => held' \in Silent
  BY Pushes DEF LifeInv, Stack, Push
<1>2. TypeOK'
  <2>1. root' \in BOOLEAN /\ session' \in BOOLEAN
    BY Zenon DEF LifeInv, TypeOK, Silence
  <2>2. held' \in Stacks /\ queue' \in Queued
    BY Apart, <1>1 DEF LifeInv, TypeOK, Stack, Stacks, MainQueue, Queued, Silence
  <2>3. live' \subseteq Effects
    BY <2>1, <1>1 DEF LifeInv, TypeOK, Silence, Effects, Persistent
  <2>4. presses' \in 0..MaxPresses
    BY BoundAssumption DEF LifeInv, TypeOK, Silence
  <2>5. QED
    BY <2>1, <2>2, <2>3, <2>4, Typed, <1>1 DEF LifeInv, TypeOK, Silence
<1> USE Apart
    DEF LifeInv, TypeOK, Stack, Stacks, MainQueue, InPlace, Verdict, Silence
<1>3. Stack'
  BY <1>1
<1>4. MainQueue'
  BY <1>1
<1>5. InPlace'
  BY <1>1
<1>6. Verdict'
  BY <1>1
<1>7. QED
  BY <1>3, <1>4, <1>5, <1>6, <1>2

LEMMA InitAppKeeps ==
  ASSUME LifeInv, ~Over, InitApp
  PROVE  LifeInv'
<1>1. step = "init" /\ Dispatch("init") =>
        watch /\ queue' \in Asked \cup AskedLate /\ reply' = "awaited"
      /\ (queue \in Closing => queue' \in AskedLate)
  BY Queues DEF LifeInv, TypeOK, MainQueue, Dispatch
<1>2. TypeOK'
  <2>1. root' \in BOOLEAN /\ session' \in BOOLEAN
    BY Zenon DEF LifeInv, TypeOK, InitApp, Fail
  <2>2. held' \in Stacks /\ queue' \in Queued
    BY Apart, <1>1 DEF LifeInv, TypeOK, Stack, Stacks, MainQueue, Queued, InitApp,
      Fail
  <2>3. live' \subseteq Effects
    BY <2>1, <1>1 DEF LifeInv, TypeOK, InitApp, Fail, Effects, Persistent
  <2>4. presses' \in 0..MaxPresses
    BY BoundAssumption DEF LifeInv, TypeOK, InitApp, Fail
  <2>5. QED
    BY <2>1, <2>2, <2>3, <2>4, Typed, <1>1 DEF LifeInv, TypeOK, InitApp, Fail
<1> USE Apart
    DEF LifeInv, TypeOK, Stack, Stacks, MainQueue, InPlace, Verdict, InitApp, Fail
<1>3. Stack'
  BY <1>1
<1>4. MainQueue'
  BY <1>1
<1>5. InPlace'
  <2>1. CASE Dispatch("init") /\ step' = "initializing"
    BY <1>1, QueuesApart, <2>1
  <2>2. CASE UNCHANGED queue /\ (step' = "windows" \/ step' = "cleanup")
    BY <1>1, QueuesApart, <2>2
  <2>3. QED
    BY <2>1, <2>2
<1>6. Verdict'
  BY <1>1
<1>7. QED
  BY <1>3, <1>4, <1>5, <1>6, <1>2

LEMMA CreateWindowsKeeps ==
  ASSUME LifeInv, ~Over, CreateWindows
  PROVE  LifeInv'
<1>1. step = "windows" /\ Dispatch("create") =>
        watch /\ queue' \in Wanted /\ reply' = "awaited"
  BY Queues DEF LifeInv, MainQueue, Dispatch
<1>2. step = "windows" /\ Push("windows") =>
        held' \in Covered /\ (held \in Silent => held' \in QuietlyCovered)
  BY Pushes, Apart DEF LifeInv, Stack, Push
<1>3. TypeOK'
  <2>1. root' \in BOOLEAN /\ session' \in BOOLEAN
    BY Zenon DEF LifeInv, TypeOK, CreateWindows, Acquired, Fail
  <2>2. held' \in Stacks /\ queue' \in Queued
    BY Apart, <1>1, <1>2 DEF LifeInv, TypeOK, Stack, Stacks, MainQueue, Queued,
      CreateWindows, Acquired, Fail
  <2>3. live' \subseteq Effects
    BY <2>1, <1>1, <1>2 DEF LifeInv, TypeOK, CreateWindows, Acquired, Fail,
      Effects, Persistent
  <2>4. presses' \in 0..MaxPresses
    BY BoundAssumption DEF LifeInv, TypeOK, CreateWindows, Acquired, Fail
  <2>5. QED
    BY <2>1, <2>2, <2>3, <2>4, Typed, <1>1, <1>2 DEF LifeInv, TypeOK,
      CreateWindows, Acquired, Fail
<1> USE Apart
    DEF LifeInv, TypeOK, Stack, Stacks, MainQueue, InPlace, Verdict,
      CreateWindows, Acquired, Fail
<1>4. Stack'
  BY <1>1, <1>2
<1>5. MainQueue'
  BY <1>1, <1>2
<1>6. InPlace'
  <2>1. CASE Dispatch("create") /\ step' = "creating" /\ UNCHANGED <<live, held>>
    BY <1>1, <1>2, QueuesApart, <2>1
  <2>2. CASE /\ ~watch /\ Acquired("windows") /\ Push("windows")
             /\ step' = "supervise" /\ UNCHANGED queue
    BY <1>1, <1>2, QueuesApart, <2>2
  <2>3. CASE ~watch /\ step' = "cleanup" /\ UNCHANGED <<queue, live, held>>
    BY <1>1, <1>2, QueuesApart, <2>3
  <2>4. QED
    BY <2>1, <2>2, <2>3
<1>7. Verdict'
  BY <1>1, <1>2
<1>8. QED
  BY <1>4, <1>5, <1>6, <1>7, <1>3

LEMMA RendezvousKeeps ==
  ASSUME LifeInv, ~Over, Rendezvous
  PROVE  LifeInv'
<1>1. step = "creating" /\ Push("windows") =>
        held' \in Covered /\ (held \in Silent => held' \in QuietlyCovered)
  BY Pushes, Apart DEF LifeInv, Stack, Push
<1>2. TypeOK'
  <2>1. root' \in BOOLEAN /\ session' \in BOOLEAN
    BY Zenon DEF LifeInv, TypeOK, Rendezvous, Fail
  <2>2. held' \in Stacks /\ queue' \in Queued
    BY Apart, <1>1 DEF LifeInv, TypeOK, Stack, Stacks, MainQueue, Queued,
      Rendezvous, Fail
  <2>3. live' \subseteq Effects
    BY <2>1, <1>1 DEF LifeInv, TypeOK, Rendezvous, Fail, Effects, Persistent
  <2>4. presses' \in 0..MaxPresses
    BY BoundAssumption DEF LifeInv, TypeOK, Rendezvous, Fail
  <2>5. QED
    BY <2>1, <2>2, <2>3, <2>4, Typed, <1>1 DEF LifeInv, TypeOK, Rendezvous, Fail
<1> USE Apart
    DEF LifeInv, TypeOK, Stack, Stacks, MainQueue, InPlace, Verdict, Rendezvous,
      Fail
<1>3. Stack'
  BY <1>1
<1>4. MainQueue'
  BY <1>1
<1>5. InPlace'
  BY <1>1
<1>6. Verdict'
  BY <1>1
<1>7. QED
  BY <1>3, <1>4, <1>5, <1>6, <1>2

LEMMA SuperviseKeeps ==
  ASSUME LifeInv, ~Over, Supervise
  PROVE  LifeInv'
<1>1. TypeOK'
  <2>1. root' \in BOOLEAN /\ session' \in BOOLEAN
    BY Zenon DEF LifeInv, TypeOK, Supervise
  <2>2. held' \in Stacks /\ queue' \in Queued
    BY Apart DEF LifeInv, TypeOK, Stack, Stacks, MainQueue, Queued, Supervise
  <2>3. live' \subseteq Effects
    BY <2>1 DEF LifeInv, TypeOK, Supervise, Effects, Persistent
  <2>4. presses' \in 0..MaxPresses
    BY BoundAssumption DEF LifeInv, TypeOK, Supervise
  <2>5. QED
    BY <2>1, <2>2, <2>3, <2>4, Typed DEF LifeInv, TypeOK, Supervise
<1> USE Apart
    DEF LifeInv, TypeOK, Stack, Stacks, MainQueue, InPlace, Verdict, Supervise
<1>2. Stack'
  OBVIOUS
<1>3. MainQueue'
  OBVIOUS
<1>4. InPlace'
  OBVIOUS
<1>5. Verdict'
  OBVIOUS
<1>6. QED
  BY <1>2, <1>3, <1>4, <1>5, <1>1

LEMMA InstallTapKeeps ==
  ASSUME LifeInv, ~Over, InstallTap
  PROVE  LifeInv'
<1>1. step = "tap" /\ Push("tap") =>
        held' \in Armed /\ (held \in QuietlyCovered => held' \in QuietlyArmed)
  BY Pushes DEF LifeInv, Stack, Push
<1>2. TypeOK'
  <2>1. root' \in BOOLEAN /\ session' \in BOOLEAN
    BY Zenon DEF LifeInv, TypeOK, InstallTap, Acquired, Fail
  <2>2. held' \in Stacks /\ queue' \in Queued
    BY Apart, <1>1 DEF LifeInv, TypeOK, Stack, Stacks, MainQueue, Queued,
      InstallTap, Acquired, Fail
  <2>3. live' \subseteq Effects
    BY <2>1, <1>1 DEF LifeInv, TypeOK, InstallTap, Acquired, Fail, Effects,
      Persistent
  <2>4. presses' \in 0..MaxPresses
    BY BoundAssumption DEF LifeInv, TypeOK, InstallTap, Acquired, Fail
  <2>5. QED
    BY <2>1, <2>2, <2>3, <2>4, Typed, <1>1 DEF LifeInv, TypeOK, InstallTap,
      Acquired, Fail
<1> USE Apart
    DEF LifeInv, TypeOK, Stack, Stacks, MainQueue, InPlace, Verdict, InstallTap,
      Acquired, Fail
<1>3. Stack'
  BY <1>1
<1>4. MainQueue'
  BY <1>1
<1>5. InPlace'
  BY <1>1
<1>6. Verdict'
  BY <1>1
<1>7. QED
  BY <1>3, <1>4, <1>5, <1>6, <1>2

LEMMA EnterKeeps ==
  ASSUME LifeInv, ~Over, Enter
  PROVE  LifeInv'
<1>1. TypeOK'
  <2>1. root' \in BOOLEAN /\ session' \in BOOLEAN
    BY Zenon DEF LifeInv, TypeOK, Enter
  <2>2. held' \in Stacks /\ queue' \in Queued
    BY Apart DEF LifeInv, TypeOK, Stack, Stacks, MainQueue, Queued, Enter
  <2>3. live' \subseteq Effects
    BY <2>1 DEF LifeInv, TypeOK, Enter, Effects, Persistent
  <2>4. presses' \in 0..MaxPresses
    BY BoundAssumption DEF LifeInv, TypeOK, Enter
  <2>5. QED
    BY <2>1, <2>2, <2>3, <2>4, Typed DEF LifeInv, TypeOK, Enter
<1> USE Apart
    DEF LifeInv, TypeOK, Stack, Stacks, MainQueue, InPlace, Verdict, Enter
<1>2. Stack'
  OBVIOUS
<1>3. MainQueue'
  OBVIOUS
<1>4. InPlace'
  OBVIOUS
<1>5. Verdict'
  OBVIOUS
<1>6. QED
  BY <1>2, <1>3, <1>4, <1>5, <1>1

LEMMA JoinKeeps ==
  ASSUME LifeInv, ~Over, Join
  PROVE  LifeInv'
<1>1. TypeOK'
  <2>1. root' \in BOOLEAN /\ session' \in BOOLEAN
    BY Zenon DEF LifeInv, TypeOK, Join
  <2>2. held' \in Stacks /\ queue' \in Queued
    BY Apart DEF LifeInv, TypeOK, Stack, Stacks, MainQueue, Queued, Join
  <2>3. live' \subseteq Effects
    BY <2>1 DEF LifeInv, TypeOK, Join, Effects, Persistent
  <2>4. presses' \in 0..MaxPresses
    BY BoundAssumption DEF LifeInv, TypeOK, Join
  <2>5. QED
    BY <2>1, <2>2, <2>3, <2>4, Typed DEF LifeInv, TypeOK, Join
<1> USE Apart
    DEF LifeInv, TypeOK, Stack, Stacks, MainQueue, InPlace, Verdict, Join
<1>2. Stack'
  OBVIOUS
<1>3. MainQueue'
  OBVIOUS
<1>4. InPlace'
  OBVIOUS
<1>5. Verdict'
  OBVIOUS
<1>6. QED
  BY <1>2, <1>3, <1>4, <1>5, <1>1

\* What one release does, by what is on top of the stack.
LEMMA ReleaseCases ==
  ASSUME LifeInv, ~Over, Release
  PROVE  /\ step = "cleanup" /\ held \in Stacks /\ held # <<>>
         /\ held' = Under(held)
         /\ \/ /\ held \in Covered /\ watch
               /\ queue' = Append(queue, "close") /\ UNCHANGED live
            \/ /\ held \notin Covered \/ ~watch
               /\ live' = live \ {Top(held)} /\ UNCHANGED queue
         /\ UNCHANGED <<loop, reply, step, stopping, code, hotkey>>
<1>1. held \in Stacks /\ held # <<>> /\ step = "cleanup"
  BY DEF LifeInv, Stack, Release
<1>2. held \in Covered <=> Top(held) = "windows"
  BY <1>1, Pops DEF Stacks
<1>3. QED
  BY <1>1, <1>2 DEF Release, Top, Under

LEMMA ReleaseKeeps ==
  ASSUME LifeInv, ~Over, Release
  PROVE  LifeInv'
<1>1. Stack'
  BY ReleaseCases, Pops DEF LifeInv, Stack, Stacks
<1>2. MainQueue'
  <2>1. held' \notin Armed /\ (held' \in Covered => held \in Armed)
    BY ReleaseCases, Pops, Apart DEF Stacks
  <2>2. CASE UNCHANGED queue
    BY <2>1, <2>2, ReleaseCases DEF LifeInv, MainQueue
  <2>3. CASE held \in Covered /\ watch /\ queue' = Append(queue, "close")
    <3>1. queue' \in Closing
      BY <2>3, Queues DEF LifeInv, MainQueue
    <3>2. held' \notin Covered
      BY <2>1, <2>3, Apart
    <3>3. QED
      BY <2>1, <2>3, <3>1, <3>2, ReleaseCases DEF LifeInv, MainQueue
  <2>4. QED
    BY <2>2, <2>3, ReleaseCases
<1>3. InPlace'
  BY ReleaseCases, Pops, Apart, Queues, QueuesApart DEF LifeInv, InPlace,
    MainQueue, Stacks
<1>4. Verdict'
  BY ReleaseCases DEF LifeInv, Verdict
<1>5. TypeOK'
  BY <1>1, <1>2, ReleaseCases, Typed DEF LifeInv, Stack, MainQueue, Queued, TypeOK
<1>6. QED
  BY <1>1, <1>2, <1>3, <1>4, <1>5 DEF LifeInv

LEMMA EndSessionKeeps ==
  ASSUME LifeInv, ~Over, EndSession
  PROVE  LifeInv'
<1>1. TypeOK'
  <2>1. root' \in BOOLEAN /\ session' \in BOOLEAN
    BY Zenon DEF LifeInv, TypeOK, EndSession
  <2>2. held' \in Stacks /\ queue' \in Queued
    BY Apart DEF LifeInv, TypeOK, Stack, Stacks, MainQueue, Queued, EndSession
  <2>3. live' \subseteq Effects
    BY <2>1 DEF LifeInv, TypeOK, EndSession, Effects, Persistent
  <2>4. presses' \in 0..MaxPresses
    BY BoundAssumption DEF LifeInv, TypeOK, EndSession
  <2>5. QED
    BY <2>1, <2>2, <2>3, <2>4, Typed DEF LifeInv, TypeOK, EndSession
<1> USE Apart
    DEF LifeInv, TypeOK, Stack, Stacks, MainQueue, InPlace, Verdict, EndSession
<1>2. Stack'
  OBVIOUS
<1>3. MainQueue'
  OBVIOUS
<1>4. InPlace'
  OBVIOUS
<1>5. Verdict'
  OBVIOUS
<1>6. QED
  BY <1>2, <1>3, <1>4, <1>5, <1>1

LEMMA PanicKeeps ==
  ASSUME LifeInv, ~Over, Panic
  PROVE  LifeInv'
<1>1. TypeOK'
  <2>1. root' \in BOOLEAN /\ session' \in BOOLEAN
    BY Zenon DEF LifeInv, TypeOK, Panic
  <2>2. held' \in Stacks /\ queue' \in Queued
    BY Apart DEF LifeInv, TypeOK, Stack, Stacks, MainQueue, Queued, Panic
  <2>3. live' \subseteq Effects
    BY <2>1 DEF LifeInv, TypeOK, Panic, Effects, Persistent
  <2>4. presses' \in 0..MaxPresses
    BY BoundAssumption DEF LifeInv, TypeOK, Panic
  <2>5. QED
    BY <2>1, <2>2, <2>3, <2>4, Typed DEF LifeInv, TypeOK, Panic
<1> USE DEF Panic
<1>2. CASE watch
  BY <1>2, <1>1 DEF LifeInv
<1>3. CASE ~watch
  <2>1. Stack'
    BY <1>3 DEF LifeInv, Stack, Stacks
  <2>2. MainQueue'
    BY <1>3 DEF LifeInv, MainQueue
  <2>3. InPlace'
    BY <1>3 DEF LifeInv, InPlace, MainQueue
  <2>4. Verdict'
    BY <1>3 DEF LifeInv, Verdict
  <2>5. QED
    BY <1>3, <1>1, <2>1, <2>2, <2>3, <2>4 DEF LifeInv
<1>4. QED
  BY <1>2, <1>3

LEMMA EnterLoopKeeps ==
  ASSUME LifeInv, ~Over, EnterLoop
  PROVE  LifeInv'
<1>1. TypeOK'
  <2>1. root' \in BOOLEAN /\ session' \in BOOLEAN
    BY Zenon DEF LifeInv, TypeOK, EnterLoop
  <2>2. held' \in Stacks /\ queue' \in Queued
    BY Apart DEF LifeInv, TypeOK, Stack, Stacks, MainQueue, Queued, EnterLoop
  <2>3. live' \subseteq Effects
    BY <2>1 DEF LifeInv, TypeOK, EnterLoop, Effects, Persistent
  <2>4. presses' \in 0..MaxPresses
    BY BoundAssumption DEF LifeInv, TypeOK, EnterLoop
  <2>5. QED
    BY <2>1, <2>2, <2>3, <2>4, Typed DEF LifeInv, TypeOK, EnterLoop
<1> USE Apart
    DEF LifeInv, TypeOK, Stack, Stacks, MainQueue, InPlace, Verdict, EnterLoop
<1>2. Stack'
  OBVIOUS
<1>3. MainQueue'
  OBVIOUS
<1>4. InPlace'
  OBVIOUS
<1>5. Verdict'
  OBVIOUS
<1>6. QED
  BY <1>2, <1>3, <1>4, <1>5, <1>1

LEMMA IssueStopKeeps ==
  ASSUME LifeInv, ~Over, IssueStop
  PROVE  LifeInv'
<1>1. TypeOK'
  <2>1. root' \in BOOLEAN /\ session' \in BOOLEAN
    BY Zenon DEF LifeInv, TypeOK, IssueStop
  <2>2. held' \in Stacks /\ queue' \in Queued
    BY Apart DEF LifeInv, TypeOK, Stack, Stacks, MainQueue, Queued, IssueStop
  <2>3. live' \subseteq Effects
    BY <2>1 DEF LifeInv, TypeOK, IssueStop, Effects, Persistent
  <2>4. presses' \in 0..MaxPresses
    BY BoundAssumption DEF LifeInv, TypeOK, IssueStop
  <2>5. QED
    BY <2>1, <2>2, <2>3, <2>4, Typed DEF LifeInv, TypeOK, IssueStop
<1> USE Apart
    DEF LifeInv, TypeOK, Stack, Stacks, MainQueue, InPlace, Verdict, IssueStop
<1>2. Stack'
  OBVIOUS
<1>3. MainQueue'
  OBVIOUS
<1>4. InPlace'
  OBVIOUS
<1>5. Verdict'
  OBVIOUS
<1>6. QED
  BY <1>2, <1>3, <1>4, <1>5, <1>1

LEMMA ServeKeeps ==
  ASSUME LifeInv, ~Over, Serve
  PROVE  LifeInv'
<1>1. TypeOK'
  <2>1. root' \in BOOLEAN /\ session' \in BOOLEAN
    BY Zenon DEF LifeInv, TypeOK, Serve, Acquired
  <2>2. held' \in Stacks /\ queue' \in Queued
    BY Apart, Queues DEF LifeInv, TypeOK, Stack, Stacks, MainQueue, Queued, Serve,
      Acquired
  <2>3. live' \subseteq Effects
    BY <2>1, Queues DEF LifeInv, TypeOK, Serve, Acquired, Effects, Persistent
  <2>4. presses' \in 0..MaxPresses
    BY BoundAssumption DEF LifeInv, TypeOK, Serve, Acquired
  <2>5. reply' \in {"none", "awaited", "done", "failed"}
    BY DEF LifeInv, TypeOK, Serve
  <2>6. watch /\ UNCHANGED <<loop, step, held, stopping, code, hotkey>>
    BY DEF LifeInv, MainQueue, Serve
  <2>7. watch' /\ watch' \in Modes
    BY <2>6 DEF LifeInv, TypeOK
  <2>8. /\ \A i \in DOMAIN held' : held'[i] \in Effects
        /\ \A i \in DOMAIN queue' : queue'[i] \in {"init", "create", "close"}
    BY <2>2, Typed
  <2>9. /\ main' \in {"start", "entering", "running", "left", "exited", "dead"}
        /\ stop' \in {"none", "armed", "asked", "lost"}
        /\ reply' \in {"none", "awaited", "done", "failed"}
        /\ step' \in Starting \cup {"waiting", "initializing", "creating", "active",
                                    "join", "cleanup", "over"}
        /\ sup' \in {"none", "running", "done"}
        /\ trigger' \in {"none", "unlock", "watchdog"}
        /\ cause' \in {"none", "unlock", "watchdog", "context"}
        /\ watchdog' \in {"watching", "tripped", "sent"}
        /\ code' \in {0, 2, 4, 8}
        /\ press' \in {"none", "idle", "starting"}
    BY <2>5, <2>6 DEF LifeInv, TypeOK
  <2>10. QED
    BY <2>1, <2>3, <2>4, <2>7, <2>8, <2>9 DEF TypeOK
<1> USE Apart, Queues
    DEF LifeInv, TypeOK, Stack, Stacks, MainQueue, InPlace, Verdict, Serve, Acquired
<1>2. Stack'
  OBVIOUS
<1>3. MainQueue'
  OBVIOUS
<1>4. InPlace'
  OBVIOUS
<1>5. Verdict'
  OBVIOUS
<1>6. QED
  BY <1>2, <1>3, <1>4, <1>5, <1>1

LEMMA LeaveLoopKeeps ==
  ASSUME LifeInv, ~Over, LeaveLoop
  PROVE  LifeInv'
<1>1. TypeOK'
  <2>1. root' \in BOOLEAN /\ session' \in BOOLEAN
    BY Zenon DEF LifeInv, TypeOK, LeaveLoop
  <2>2. held' \in Stacks /\ queue' \in Queued
    BY Apart DEF LifeInv, TypeOK, Stack, Stacks, MainQueue, Queued, LeaveLoop
  <2>3. live' \subseteq Effects
    BY <2>1 DEF LifeInv, TypeOK, LeaveLoop, Effects, Persistent
  <2>4. presses' \in 0..MaxPresses
    BY BoundAssumption DEF LifeInv, TypeOK, LeaveLoop
  <2>5. QED
    BY <2>1, <2>2, <2>3, <2>4, Typed DEF LifeInv, TypeOK, LeaveLoop
<1> USE Apart
    DEF LifeInv, TypeOK, Stack, Stacks, MainQueue, InPlace, Verdict, LeaveLoop
<1>2. Stack'
  OBVIOUS
<1>3. MainQueue'
  OBVIOUS
<1>4. InPlace'
  OBVIOUS
<1>5. Verdict'
  OBVIOUS
<1>6. QED
  BY <1>2, <1>3, <1>4, <1>5, <1>1

LEMMA ExitKeeps ==
  ASSUME LifeInv, ~Over, Exit
  PROVE  LifeInv'
<1>1. TypeOK'
  <2>1. root' \in BOOLEAN /\ session' \in BOOLEAN
    BY Zenon DEF LifeInv, TypeOK, Exit
  <2>2. held' \in Stacks /\ queue' \in Queued
    BY Apart DEF LifeInv, TypeOK, Stack, Stacks, MainQueue, Queued, Exit
  <2>3. live' \subseteq Effects
    BY <2>1 DEF LifeInv, TypeOK, Exit, Effects, Persistent
  <2>4. presses' \in 0..MaxPresses
    BY BoundAssumption DEF LifeInv, TypeOK, Exit
  <2>5. QED
    BY <2>1, <2>2, <2>3, <2>4, Typed DEF LifeInv, TypeOK, Exit
<1> USE Apart
    DEF LifeInv, TypeOK, Stack, Stacks, MainQueue, InPlace, Verdict, Exit
<1>2. Stack'
  OBVIOUS
<1>3. MainQueue'
  OBVIOUS
<1>4. InPlace'
  OBVIOUS
<1>5. Verdict'
  OBVIOUS
<1>6. QED
  BY <1>2, <1>3, <1>4, <1>5, <1>1

LEMMA SupervisorFiresKeeps ==
  ASSUME LifeInv, ~Over, SupervisorFires
  PROVE  LifeInv'
<1>1. TypeOK'
  <2>1. root' \in BOOLEAN /\ session' \in BOOLEAN
    BY Zenon DEF LifeInv, TypeOK, SupervisorFires, Cancel, Cancelled
  <2>2. held' \in Stacks /\ queue' \in Queued
    BY Apart DEF LifeInv, TypeOK, Stack, Stacks, MainQueue, Queued,
      SupervisorFires, Cancel, Cancelled
  <2>3. live' \subseteq Effects
    BY <2>1 DEF LifeInv, TypeOK, SupervisorFires, Cancel, Cancelled, Effects,
      Persistent
  <2>4. presses' \in 0..MaxPresses
    BY BoundAssumption DEF LifeInv, TypeOK, SupervisorFires, Cancel, Cancelled
  <2>5. QED
    BY <2>1, <2>2, <2>3, <2>4, Typed DEF LifeInv, TypeOK, SupervisorFires, Cancel,
      Cancelled
<1> USE Apart
    DEF LifeInv, TypeOK, Stack, Stacks, MainQueue, InPlace, Verdict,
      SupervisorFires, Cancel, Cancelled
<1>2. Stack'
  OBVIOUS
<1>3. MainQueue'
  OBVIOUS
<1>4. InPlace'
  OBVIOUS
<1>5. Verdict'
  OBVIOUS
<1>6. QED
  BY <1>2, <1>3, <1>4, <1>5, <1>1

LEMMA UnlockKeeps ==
  ASSUME LifeInv, ~Over, Unlock
  PROVE  LifeInv'
<1>1. TypeOK'
  <2>1. root' \in BOOLEAN /\ session' \in BOOLEAN
    BY Zenon DEF LifeInv, TypeOK, Unlock, Send
  <2>2. held' \in Stacks /\ queue' \in Queued
    BY Apart DEF LifeInv, TypeOK, Stack, Stacks, MainQueue, Queued, Unlock, Send
  <2>3. live' \subseteq Effects
    BY <2>1 DEF LifeInv, TypeOK, Unlock, Send, Effects, Persistent
  <2>4. presses' \in 0..MaxPresses
    BY BoundAssumption DEF LifeInv, TypeOK, Unlock, Send
  <2>5. QED
    BY <2>1, <2>2, <2>3, <2>4, Typed DEF LifeInv, TypeOK, Unlock, Send
<1> USE Apart
    DEF LifeInv, TypeOK, Stack, Stacks, MainQueue, InPlace, Verdict, Unlock, Send
<1>2. Stack'
  OBVIOUS
<1>3. MainQueue'
  OBVIOUS
<1>4. InPlace'
  OBVIOUS
<1>5. Verdict'
  OBVIOUS
<1>6. QED
  BY <1>2, <1>3, <1>4, <1>5, <1>1

LEMMA WatchdogTripsKeeps ==
  ASSUME LifeInv, ~Over, WatchdogTrips
  PROVE  LifeInv'
<1>1. TypeOK'
  <2>1. root' \in BOOLEAN /\ session' \in BOOLEAN
    BY Zenon DEF LifeInv, TypeOK, WatchdogTrips
  <2>2. held' \in Stacks /\ queue' \in Queued
    BY Apart DEF LifeInv, TypeOK, Stack, Stacks, MainQueue, Queued, WatchdogTrips
  <2>3. live' \subseteq Effects
    BY <2>1 DEF LifeInv, TypeOK, WatchdogTrips, Effects, Persistent
  <2>4. presses' \in 0..MaxPresses
    BY BoundAssumption DEF LifeInv, TypeOK, WatchdogTrips
  <2>5. QED
    BY <2>1, <2>2, <2>3, <2>4, Typed DEF LifeInv, TypeOK, WatchdogTrips
<1> USE Apart
    DEF LifeInv, TypeOK, Stack, Stacks, MainQueue, InPlace, Verdict, WatchdogTrips
<1>2. Stack'
  OBVIOUS
<1>3. MainQueue'
  OBVIOUS
<1>4. InPlace'
  OBVIOUS
<1>5. Verdict'
  OBVIOUS
<1>6. QED
  BY <1>2, <1>3, <1>4, <1>5, <1>1

LEMMA WatchdogForwardsKeeps ==
  ASSUME LifeInv, ~Over, WatchdogForwards
  PROVE  LifeInv'
<1>1. TypeOK'
  <2>1. root' \in BOOLEAN /\ session' \in BOOLEAN
    BY Zenon DEF LifeInv, TypeOK, WatchdogForwards, Send
  <2>2. held' \in Stacks /\ queue' \in Queued
    BY Apart DEF LifeInv, TypeOK, Stack, Stacks, MainQueue, Queued,
      WatchdogForwards, Send
  <2>3. live' \subseteq Effects
    BY <2>1 DEF LifeInv, TypeOK, WatchdogForwards, Send, Effects, Persistent
  <2>4. presses' \in 0..MaxPresses
    BY BoundAssumption DEF LifeInv, TypeOK, WatchdogForwards, Send
  <2>5. QED
    BY <2>1, <2>2, <2>3, <2>4, Typed DEF LifeInv, TypeOK, WatchdogForwards, Send
<1> USE Apart
    DEF LifeInv, TypeOK, Stack, Stacks, MainQueue, InPlace, Verdict,
      WatchdogForwards, Send
<1>2. Stack'
  OBVIOUS
<1>3. MainQueue'
  OBVIOUS
<1>4. InPlace'
  OBVIOUS
<1>5. Verdict'
  OBVIOUS
<1>6. QED
  BY <1>2, <1>3, <1>4, <1>5, <1>1

LEMMA TimerExpiresKeeps ==
  ASSUME LifeInv, ~Over, TimerExpires
  PROVE  LifeInv'
<1>1. TypeOK'
  <2>1. root' \in BOOLEAN /\ session' \in BOOLEAN
    BY Zenon DEF LifeInv, TypeOK, TimerExpires, Cancel
  <2>2. held' \in Stacks /\ queue' \in Queued
    BY Apart DEF LifeInv, TypeOK, Stack, Stacks, MainQueue, Queued, TimerExpires,
      Cancel
  <2>3. live' \subseteq Effects
    BY <2>1 DEF LifeInv, TypeOK, TimerExpires, Cancel, Effects, Persistent
  <2>4. presses' \in 0..MaxPresses
    BY BoundAssumption DEF LifeInv, TypeOK, TimerExpires, Cancel
  <2>5. QED
    BY <2>1, <2>2, <2>3, <2>4, Typed DEF LifeInv, TypeOK, TimerExpires, Cancel
<1> USE Apart
    DEF LifeInv, TypeOK, Stack, Stacks, MainQueue, InPlace, Verdict, TimerExpires,
      Cancel
<1>2. Stack'
  OBVIOUS
<1>3. MainQueue'
  OBVIOUS
<1>4. InPlace'
  OBVIOUS
<1>5. Verdict'
  OBVIOUS
<1>6. QED
  BY <1>2, <1>3, <1>4, <1>5, <1>1

LEMMA SignalKeeps ==
  ASSUME LifeInv, ~Over, Signal
  PROVE  LifeInv'
<1>1. TypeOK'
  <2>1. root' \in BOOLEAN /\ session' \in BOOLEAN
    BY Zenon DEF LifeInv, TypeOK, Signal
  <2>2. held' \in Stacks /\ queue' \in Queued
    BY Apart DEF LifeInv, TypeOK, Stack, Stacks, MainQueue, Queued, Signal
  <2>3. live' \subseteq Effects
    BY <2>1 DEF LifeInv, TypeOK, Signal, Effects, Persistent
  <2>4. presses' \in 0..MaxPresses
    BY BoundAssumption DEF LifeInv, TypeOK, Signal
  <2>5. QED
    BY <2>1, <2>2, <2>3, <2>4, Typed DEF LifeInv, TypeOK, Signal
<1> USE Apart
    DEF LifeInv, TypeOK, Stack, Stacks, MainQueue, InPlace, Verdict, Signal
<1>2. Stack'
  OBVIOUS
<1>3. MainQueue'
  OBVIOUS
<1>4. InPlace'
  OBVIOUS
<1>5. Verdict'
  OBVIOUS
<1>6. QED
  BY <1>2, <1>3, <1>4, <1>5, <1>1

LEMMA PressKeeps ==
  ASSUME LifeInv, ~Over, Press
  PROVE  LifeInv'
<1>1. TypeOK'
  <2>1. root' \in BOOLEAN /\ session' \in BOOLEAN
    BY Zenon DEF LifeInv, TypeOK, Press
  <2>2. held' \in Stacks /\ queue' \in Queued
    BY Apart DEF LifeInv, TypeOK, Stack, Stacks, MainQueue, Queued, Press
  <2>3. live' \subseteq Effects
    BY <2>1, BoundAssumption DEF LifeInv, TypeOK, Press, Effects, Persistent
  <2>4. presses' \in 0..MaxPresses
    BY BoundAssumption DEF LifeInv, TypeOK, Press
  <2>5. press' \in {"none", "idle", "starting"}
    BY DEF LifeInv, TypeOK, Press
  <2>6. watch /\ UNCHANGED <<threads, step, held, live, stopping, code, watch>>
    BY DEF Press
  <2>7. watch' /\ watch' \in Modes
    BY <2>6 DEF LifeInv, TypeOK
  <2>8. /\ \A i \in DOMAIN held' : held'[i] \in Effects
        /\ \A i \in DOMAIN queue' : queue'[i] \in {"init", "create", "close"}
    BY <2>2, Typed
  <2>9. /\ main' \in {"start", "entering", "running", "left", "exited", "dead"}
        /\ stop' \in {"none", "armed", "asked", "lost"}
        /\ reply' \in {"none", "awaited", "done", "failed"}
        /\ step' \in Starting \cup {"waiting", "initializing", "creating", "active",
                                    "join", "cleanup", "over"}
        /\ sup' \in {"none", "running", "done"}
        /\ trigger' \in {"none", "unlock", "watchdog"}
        /\ cause' \in {"none", "unlock", "watchdog", "context"}
        /\ watchdog' \in {"watching", "tripped", "sent"}
        /\ code' \in {0, 2, 4, 8}
        /\ press' \in {"none", "idle", "starting"}
    BY <2>5, <2>6 DEF LifeInv, TypeOK
  <2>10. QED
    BY <2>1, <2>3, <2>4, <2>7, <2>8, <2>9 DEF TypeOK
<1> USE Apart
    DEF LifeInv, TypeOK, Stack, Stacks, MainQueue, InPlace, Verdict, Press
<1>2. Stack'
  OBVIOUS
<1>3. MainQueue'
  OBVIOUS
<1>4. InPlace'
  OBVIOUS
<1>5. Verdict'
  OBVIOUS
<1>6. QED
  BY <1>2, <1>3, <1>4, <1>5, <1>1

-----------------------------------------------------------------------------
(* The invariant *)

\* A process starts in it, and every step keeps it.
LEMMA InitHolds == Init => LifeInv
<1> SUFFICES ASSUME Init PROVE LifeInv
  OBVIOUS
<1>1. <<"file">> \in Registered
  BY DEF Registered, OfLength, Effects, Persistent
<1>2. held \in Stacks /\ queue \in Queued
  BY <1>1 DEF Init, Stacks, Queued
<1>3. TypeOK
  <2>1. root \in BOOLEAN /\ session \in BOOLEAN
    BY Zenon DEF Init
  <2>2. /\ \A i \in DOMAIN held : held[i] \in Effects
        /\ \A i \in DOMAIN queue : queue[i] \in {"init", "create", "close"}
    BY <1>2, Typed
  <2>3. QED
    BY <2>1, <2>2, BoundAssumption DEF Init, TypeOK
<1>4. Stack /\ MainQueue
  BY <1>1 DEF Init, Stack, Stacks, MainQueue
<1>5. InPlace /\ Verdict
  BY <1>1, Apart DEF Init, InPlace, Verdict
<1>6. QED
  BY <1>3, <1>4, <1>5 DEF LifeInv

LEMMA StepKeeps ==
  ASSUME LifeInv, [Next]_vars
  PROVE  LifeInv'
<1>1. CASE Next
  <2>1. ~Over
    BY <1>1 DEF Next
  <2>2. CASE SessionStep
    BY <2>1, <2>2, WaitForPressKeeps, AcquireKeeps, PublishKeeps, SilenceKeeps,
       InitAppKeeps, CreateWindowsKeeps, RendezvousKeeps, SuperviseKeeps,
       InstallTapKeeps, EnterKeeps, JoinKeeps, ReleaseKeeps, EndSessionKeeps
    DEF SessionStep
  <2>3. CASE MainStep
    BY <2>1, <2>3, EnterLoopKeeps, IssueStopKeeps, ServeKeeps, LeaveLoopKeeps,
       ExitKeeps DEF MainStep
  <2>4. CASE \/ SupervisorFires \/ Panic \/ Unlock \/ WatchdogTrips
             \/ WatchdogForwards \/ TimerExpires \/ Signal \/ Press
    BY <2>1, <2>4, SupervisorFiresKeeps, PanicKeeps, UnlockKeeps,
      WatchdogTripsKeeps,
       WatchdogForwardsKeeps, TimerExpiresKeeps, SignalKeeps, PressKeeps
  <2>5. QED
    BY <1>1, <2>2, <2>3, <2>4 DEF Next
<1>2. CASE UNCHANGED vars
  BY <1>2 DEF LifeInv, TypeOK, Stack, MainQueue, InPlace, Verdict
<1>3. QED
  BY <1>1, <1>2

\* What is left when the process is over, and where its session was.
EndInv ==
  /\ Over => live \subseteq Persistent /\ step \in Starting \cup {"over"}
  /\ main = "exited" => live = {}

\* Only two steps end the process.
LEMMA WhatEnds ==
  ASSUME ~Over, Next, Over'
  PROVE  Exit \/ (Panic /\ watch)
<1>1. CASE SessionStep
  BY <1>1 DEF SessionStep, WaitForPress, Acquire, Publish, Silence, InitApp,
    CreateWindows, Rendezvous, Supervise, InstallTap, Enter, Join, Release,
    EndSession
<1>2. CASE EnterLoop \/ IssueStop \/ Serve \/ LeaveLoop
  BY <1>2 DEF EnterLoop, IssueStop, Serve, LeaveLoop
<1>3. CASE \/ SupervisorFires \/ Unlock \/ WatchdogTrips \/ WatchdogForwards
           \/ TimerExpires \/ Signal \/ Press
  BY <1>3 DEF SupervisorFires, Unlock, WatchdogTrips, WatchdogForwards,
    TimerExpires, Signal, Press
<1>4. CASE Panic
  BY <1>4 DEF Panic
<1>5. QED
  BY <1>1, <1>2, <1>3, <1>4 DEF Next, MainStep

\* What an ending step leaves follows from what was on the stack.
LEMMA EndStep ==
  ASSUME LifeInv, EndInv, [Next]_vars
  PROVE  EndInv'
<1>1. CASE UNCHANGED vars
  BY <1>1 DEF EndInv
<1>2. CASE Next /\ ~Over'
  BY <1>2 DEF EndInv
<1>3. CASE Next /\ Over'
  <2>1. ~Over
    BY <1>3 DEF Next
  <2>2. CASE Exit
    <3>1. held = <<>> /\ step = "over"
      BY <2>1, <2>2 DEF LifeInv, Stack, Exit
    <3>2. "file" \notin live /\ "silence" \notin live
      BY <2>1, <3>1, Apart DEF LifeInv, InPlace
    <3>3. QED
      BY <2>2, <3>1, <3>2 DEF EndInv, Persistent, Exit
  <2>3. CASE Panic /\ watch
    BY <2>3 DEF EndInv, Panic
  <2>4. QED
    BY <1>3, <2>1, <2>2, <2>3, WhatEnds
<1>4. QED
  BY <1>1, <1>2, <1>3

\* The invariant of a running process, and of one that is over.
THEOREM Invariant == Spec => [](LifeInv /\ EndInv)
<1>1. Init => EndInv
  BY DEF Init, EndInv
<1>2. QED
  BY <1>1, InitHolds, StepKeeps, EndStep, PTL DEF Spec

-----------------------------------------------------------------------------
(* Theorems *)

\* The state of the process, its session, its supervisor and its queue is of
\* the type the code gives it (runSession, Supervisor, RestoreState).
THEOREM Typing == Spec => []TypeOK
<1>1. LifeInv => TypeOK
  BY DEF LifeInv
<1>2. QED
  BY <1>1, Invariant, PTL

\* The input is never held by a session that has not published itself, taken
\* the awake-lock and covered the screens, on any path through runSession and
\* its cleanup (the push order, RestoreState.Cleanup).
THEOREM TapUnderTheRest == Spec => []TapIsInnermost
<1>1. LifeInv /\ EndInv => TapIsInnermost
  BY DEF LifeInv, InPlace, EndInv, Persistent, TapIsInnermost
<1>2. QED
  BY <1>1, Invariant, PTL

\* A session the watchdog has ended exits with 4, or with 8 after a panic
\* (wdExitCode 4 is latched before the send).
THEOREM TripIsTold == Spec => []WatchdogTripIsReported
<1>1. LifeInv /\ EndInv => WatchdogTripIsReported
  BY DEF LifeInv, Verdict, EndInv, WatchdogTripIsReported
<1>2. QED
  BY <1>1, Invariant, PTL

\* A watcher that waits for a press holds nothing, but for windows whose
\* closing is already on the main queue (the watch loop, controller Release).
THEOREM WatcherIsIdle == Spec => []WaitingHoldsNothing
<1>1. ASSUME LifeInv, step = "waiting", ~Over
      PROVE  /\ live \subseteq {"windows"}
             /\ live # {} => \E i \in DOMAIN queue : queue[i] = "close"
  <2>1. held = <<>> /\ live \subseteq Effects
    BY <1>1 DEF LifeInv, Stack, TypeOK
  <2>2. live \subseteq {"windows"}
    BY <1>1, <2>1, Apart DEF LifeInv, InPlace, Effects, Persistent
  <2>3. "windows" \in live => queue \in Closing
    BY <1>1, <2>1, Apart, QueuesApart DEF LifeInv, TypeOK, InPlace, MainQueue
  <2>4. queue \in Closing => 1 \in DOMAIN queue /\ queue[1] = "close"
    BY DEF Closing
  <2>5. QED
    BY <2>2, <2>3, <2>4
<1>2. LifeInv => WaitingHoldsNothing
  BY <1>1 DEF WaitingHoldsNothing
<1>3. QED
  BY <1>2, Invariant, PTL

\* If no session of a watcher panics, a process that has ended has taken down
\* whatever it had put up, whichever step failed, panicked or was interrupted
\* (run's deferred Cleanup, sessions.Wait).
THEOREM NothingRemains ==
  ASSUME TRUE \notin MayPanic
  PROVE  Spec => []NothingLeftBehind
<1> DEFINE Alive == main # "dead"
<1>1. Init => Alive
  BY DEF Init
<1>2. LifeInv /\ Alive /\ [Next]_vars => Alive'
  <2> SUFFICES ASSUME LifeInv, Alive, [Next]_vars
               PROVE  main' # "dead"
    OBVIOUS
  <2>1. CASE UNCHANGED vars
    BY <2>1
  <2>2. CASE Next /\ Over'
    <3>1. Exit \/ (Panic /\ watch)
      BY <2>2, WhatEnds DEF Next
    <3>2. ~(Panic /\ watch)
      BY DEF LifeInv, TypeOK, Panic
    <3>3. QED
      BY <3>1, <3>2 DEF Exit
  <2>3. QED
    BY <2>1, <2>2
<1>3. LifeInv /\ EndInv /\ Alive => NothingLeftBehind
  BY DEF EndInv, NothingLeftBehind
<1> HIDE DEF Alive
<1>4. QED
  BY <1>1, <1>2, <1>3, Invariant, PTL DEF Spec
=============================================================================
