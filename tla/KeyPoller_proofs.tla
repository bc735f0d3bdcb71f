-------------------------- MODULE KeyPoller_proofs --------------------------
(***************************************************************************)
(* Theorems about KeyPoller for a ring, codes and keys of any size.  The   *)
(* one timing assumption is MaxDuringCopy <= 1: while the reader copies    *)
(* the ring the callback begins at most one record beyond the counter.     *)
(***************************************************************************)
EXTENDS KeyPoller, TLAPS

----------------------------------------------------------------------------
(* The ring's index arithmetic.                                            *)

\* Every sequence number has a slot.
LEMMA SlotInRing ==
    ASSUME NEW s \in Nat
    PROVE  Slot(s) \in Slots
BY CapAssumption DEF Slot, Slots

\* Two records less than a ring apart do not share a slot.
LEMMA SlotsDiffer ==
    ASSUME NEW s \in Nat, NEW t \in Nat, s < t, t < s + Cap
    PROVE  Slot(s) # Slot(t)
<1> SUFFICES ASSUME s % Cap = t % Cap
             PROVE  FALSE
    BY DEF Slot
<1> DEFINE p == s \div Cap
           q == t \div Cap
<1>1. /\ s = p * Cap + (s % Cap) /\ p \in Int
      /\ t = q * Cap + (t % Cap) /\ q \in Int
      /\ s % Cap \in 0 .. Cap - 1
    BY CapAssumption
<1> HIDE DEF p, q
<1>2. CASE p < q
    <2>1. p * Cap + Cap <= q * Cap
        BY <1>1, <1>2, CapAssumption
    <2>2. p * Cap \in Int /\ q * Cap \in Int /\ s % Cap \in Int
        BY <1>1, CapAssumption
    <2> QED BY <1>1, <2>1, <2>2, CapAssumption
<1>3. CASE q < p
    <2>1. q * Cap + Cap <= p * Cap
        BY <1>1, <1>3, CapAssumption
    <2>2. p * Cap \in Int /\ q * Cap \in Int /\ s % Cap \in Int
        BY <1>1, CapAssumption
    <2> QED BY <1>1, <2>1, <2>2, CapAssumption
<1>4. CASE p = q
    BY <1>1, <1>4, CapAssumption
<1> QED BY <1>1, <1>2, <1>3, <1>4

\* clampFrom: every tail matchAny tries begins strictly inside the ring.
LEMMA TailsAreReadable ==
    ASSUME NEW from \in Nat, NEW to \in Nat,
           NEW end \in ClampFrom(from, to, MaxL) .. to - 1,
           NEW l \in 1 .. MaxL, end + 1 >= l,
           NEW i \in 1 .. l
    PROVE  /\ end + 1 - l + i - 1 \in 0 .. to - 1
           /\ end + 1 - l + i - 1 + Cap > to
<1>1. Cap \in Nat /\ MaxL \in Nat /\ MaxL <= Cap
    BY CapAssumption, CodeAssumption
<1> QED BY <1>1 DEF ClampFrom

\* What the clamp leaves out is what the ring cannot hold any more.
LEMMA ClampIsTight ==
    ASSUME NEW from \in Nat, NEW to \in Nat, NEW end \in from .. to - 1,
           end < ClampFrom(from, to, MaxL)
    PROVE  from < to - (Cap - MaxL) /\ end < to - (Cap - MaxL)
BY CapAssumption, CodeAssumption DEF ClampFrom

----------------------------------------------------------------------------
(* The inductive invariant.                                                *)

\* Who may be doing what: the poller runs between its start and its join,
\* a snapshot is open only while it runs, the wipe comes after the join.
ControlInv ==
    /\ base = 0
    /\ poller = "ticking" => phase \in {"live", "stopping"}
    /\ phase = "armed" => poller = "off"
    /\ copy # "idle" => poller = "ticking" /\ lastSeq <= cur /\ cur <= seq
    /\ wipe = "queued" => phase \in {"wiping", "draining", "off"}
    /\ unclean => phase = "off"
    /\ phase \in {"live", "stopping"} => lastSeq <= seq
    /\ phase = "off" /\ ~unclean =>
           wipe # "queued" /\ writing = "no" /\ ring = Zeros /\ seq = 0

\* The log has one entry per published press.
LogInv == Len(typed) = seq

\* The record being written is in its slot as far as it has come.
WriterInv ==
    /\ writing = "flags" => ring[Slot(seq)].flags = key.flags
    /\ writing = "record" => ring[Slot(seq)] = key

\* The last Cap records are in the ring, the oldest of them until the
\* callback stores into its slot.
RingInv ==
    \A s \in 0 .. seq - 1 :
        s + Cap > seq \/ (s + Cap = seq /\ writing \in {"no", "begun"})
            => ring[Slot(s)] = typed[s + 1]

\* While the copy lasts the writer gets at most one record ahead of it, and
\* what was copied of the last Cap - 1 records is what was typed.
SnapInv ==
    /\ copy = "copying" => seq = cur \/ (seq = cur + 1 /\ writing = "no")
    /\ copy # "idle" =>
           \A s \in 0 .. cur - 1 :
               s + Cap > cur /\ (copy = "copied" \/ Slot(s) < next)
                   => snap[Slot(s)] = typed[s + 1]

Inv == TypeOK /\ ControlInv /\ LogInv /\ WriterInv /\ RingInv /\ SnapInv

\* The initial state.
LEMMA InitInv == Init => Inv
<1> SUFFICES ASSUME Init
             PROVE  Inv
    OBVIOUS
<1> USE CapAssumption, KeysAssumption
<1>1. TypeOK
    BY DEF Init, RingInit, TypeOK, RingTypeOK, Zeros, Slots
<1>2. ControlInv /\ LogInv /\ WriterInv /\ RingInv /\ SnapInv
    BY DEF Init, RingInit, ControlInv, LogInv, WriterInv, RingInv, SnapInv
<1> QED BY <1>1, <1>2 DEF Inv

----------------------------------------------------------------------------
(* The worker's steps.                                                     *)

\* A press that begins touches only the writer's progress.
LEMMA PressStep ==
    ASSUME Inv, PressArrives, MaxDuringCopy <= 1
    PROVE  Inv'
<1> USE CapAssumption, KeysAssumption, BoundsAssumption
        DEF PressArrives, Press, Inv, ownerVars, pollVars, copyVars
<1>1. TypeOK'
    BY DEF TypeOK, RingTypeOK
<1>2. ControlInv' /\ LogInv' /\ WriterInv'
    BY DEF ControlInv, LogInv, WriterInv, TypeOK, RingTypeOK
<1>3. RingInv'
    BY DEF RingInv, TypeOK, RingTypeOK, Slot
<1>4. SnapInv'
    BY DEF SnapInv, ControlInv, TypeOK, RingTypeOK, Slot
<1> QED BY <1>1, <1>2, <1>3, <1>4

\* A store into the slot of record seq leaves the records that count alone:
\* the only one it overwrites is the one a full ring behind.
LEMMA StoreKeepsOthers ==
    ASSUME Inv, NEW s \in 0 .. seq - 1, s + Cap > seq,
           ring' = [ring EXCEPT ![Slot(seq)] = ring'[Slot(seq)]]
    PROVE  ring'[Slot(s)] = ring[Slot(s)]
<1>1. s \in Nat /\ seq \in Nat /\ s < seq /\ seq < s + Cap
    BY CapAssumption DEF Inv, TypeOK, RingTypeOK
<1>2. Slot(s) # Slot(seq)
    BY <1>1, SlotsDiffer
<1>3. Slot(s) \in Slots /\ ring \in [Slots -> Rec]
    BY <1>1, SlotInRing DEF Inv, TypeOK, RingTypeOK
<1> QED BY <1>2, <1>3

\* The first plain store.
LEMMA StoreFlagsStep ==
    ASSUME Inv, StoreFlags, UNCHANGED <<ownerVars, pollVars>>
    PROVE  Inv'
<1> USE DEF StoreFlags, Inv, ownerVars, pollVars, copyVars
<1>1. Slot(seq) \in Slots /\ ring \in [Slots -> Rec] /\ key \in Rec
    BY SlotInRing DEF TypeOK, RingTypeOK
<1>2. ring' \in [Slots -> Rec] /\ ring'[Slot(seq)].flags = key.flags
    BY <1>1 DEF Rec
<1>3. TypeOK'
    BY <1>2 DEF TypeOK, RingTypeOK
<1>4. ControlInv' /\ LogInv' /\ WriterInv'
    BY <1>2 DEF ControlInv, LogInv, WriterInv
<1>5. ring' = [ring EXCEPT ![Slot(seq)] = ring'[Slot(seq)]]
    BY <1>1
<1>6. RingInv'
    BY <1>5, StoreKeepsOthers DEF RingInv
<1>7. SnapInv'
    BY DEF SnapInv
<1> QED BY <1>3, <1>4, <1>6, <1>7

\* The second plain store.
LEMMA StoreKeycodeStep ==
    ASSUME Inv, StoreKeycode, UNCHANGED <<ownerVars, pollVars>>
    PROVE  Inv'
<1> USE DEF StoreKeycode, Inv, ownerVars, pollVars, copyVars
<1>1. Slot(seq) \in Slots /\ ring \in [Slots -> Rec] /\ key \in Rec
    BY SlotInRing DEF TypeOK, RingTypeOK
<1>2. ring' \in [Slots -> Rec] /\ ring'[Slot(seq)] = key
    BY <1>1 DEF Rec, WriterInv
<1>3. TypeOK'
    BY <1>2 DEF TypeOK, RingTypeOK
<1>4. ControlInv' /\ LogInv' /\ WriterInv'
    BY <1>2 DEF ControlInv, LogInv, WriterInv
<1>5. ring' = [ring EXCEPT ![Slot(seq)] = ring'[Slot(seq)]]
    BY <1>1
<1>6. RingInv'
    BY <1>5, StoreKeepsOthers DEF RingInv
<1>7. SnapInv'
    BY DEF SnapInv
<1> QED BY <1>3, <1>4, <1>6, <1>7

\* The RELEASE store.
LEMMA PublishStep ==
    ASSUME Inv, Publish, UNCHANGED <<ownerVars, pollVars>>
    PROVE  Inv'
<1> USE CapAssumption DEF Publish, Inv, ownerVars, pollVars, copyVars
<1>1. /\ typed \in Seq(Rec) /\ key \in Rec /\ seq \in Nat /\ cur \in Nat
      /\ Len(typed) = seq
    BY DEF TypeOK, RingTypeOK, LogInv
<1>2. /\ typed' \in Seq(Rec) /\ Len(typed') = seq + 1
      /\ typed'[seq + 1] = key
      /\ \A i \in 1 .. seq : typed'[i] = typed[i]
    BY <1>1
<1>3. TypeOK'
    BY <1>1, <1>2 DEF TypeOK, RingTypeOK
<1>4. ControlInv' /\ LogInv' /\ WriterInv'
    BY <1>1, <1>2 DEF ControlInv, LogInv, WriterInv, TypeOK
<1>5. RingInv'
    <2> SUFFICES ASSUME NEW s \in 0 .. seq, s + Cap >= seq + 1
                 PROVE  ring[Slot(s)] = typed'[s + 1]
        BY <1>1 DEF RingInv
    <2>1. CASE s = seq
        BY <2>1, <1>2 DEF WriterInv
    <2>2. CASE s # seq
        <3>1. s \in 0 .. seq - 1 /\ s + Cap > seq /\ s + 1 \in 1 .. seq
            BY <2>2, <1>1
        <3> QED BY <3>1, <1>2 DEF RingInv
    <2> QED BY <2>1, <2>2
<1>6. SnapInv'
    <2>1. copy = "copying" => seq = cur
        BY DEF SnapInv
    <2>2. copy # "idle" => \A s \in 0 .. cur - 1 : s + 1 \in 1 .. seq
        BY <1>1 DEF ControlInv
    <2> QED BY <1>1, <1>2, <2>1, <2>2 DEF SnapInv
<1> QED BY <1>3, <1>4, <1>5, <1>6

\* A wipe empties the log with the ring, and no snapshot is open.
LEMMA WipeStep ==
    ASSUME Inv, WipeRing, writing = "no", copy = "idle",
           UNCHANGED <<writing, key, copyVars>>
    PROVE  /\ RingTypeOK' /\ LogInv' /\ WriterInv' /\ RingInv' /\ SnapInv'
           /\ ring' = Zeros /\ seq' = 0
BY CapAssumption, KeysAssumption
   DEF Inv, WipeRing, copyVars, TypeOK, RingTypeOK, Zeros, Slots, LogInv,
       WriterInv, RingInv, SnapInv

\* The wipe block on the worker.
LEMMA WorkerWipesStep ==
    ASSUME Inv, WorkerWipes
    PROVE  Inv'
<1> USE DEF WorkerWipes, Inv
<1>1. copy = "idle" /\ phase \in {"wiping", "draining", "off"}
    BY DEF ControlInv, TypeOK, RingTypeOK
<1>2. /\ RingTypeOK' /\ LogInv' /\ WriterInv' /\ RingInv' /\ SnapInv'
      /\ ring' = Zeros /\ seq' = 0
    BY <1>1, WipeStep
<1>3. TypeOK'
    BY <1>2 DEF TypeOK, pollVars
<1>4. ControlInv'
    BY <1>1, <1>2 DEF ControlInv, copyVars, pollVars
<1> QED BY <1>2, <1>3, <1>4

----------------------------------------------------------------------------
(* The owner's steps.                                                      *)

\* A step that leaves the ring and the snapshot alone keeps what is said of
\* them.
LEMMA RingUnchanged ==
    ASSUME Inv, UNCHANGED ringVars
    PROVE  RingTypeOK' /\ LogInv' /\ WriterInv' /\ RingInv' /\ SnapInv'
BY DEF Inv, ringVars, writerVars, copyVars, TypeOK, RingTypeOK, LogInv,
       WriterInv, RingInv, SnapInv, Slot

\* Install, Release up to the join, and the end of a Release that timed out.
LEMMA OwnerStep ==
    ASSUME Inv, StartPoller \/ CloseStop \/ QueueWipe \/ RemoveSource
                \/ DrainTimesOut
    PROVE  Inv'
<1> USE DEF StartPoller, CloseStop, QueueWipe, RemoveSource, DrainTimesOut,
            Inv, pollVars
<1>1. RingTypeOK' /\ LogInv' /\ WriterInv' /\ RingInv' /\ SnapInv'
    BY RingUnchanged
<1>2. TypeOK'
    BY <1>1 DEF TypeOK
<1>3. ControlInv'
    BY DEF ControlInv, TypeOK, RingTypeOK, ringVars, writerVars, copyVars
<1> QED BY <1>1, <1>2, <1>3

\* The two wipes of the owner: on the way in and after a drain.
LEMMA OwnerWipesStep ==
    ASSUME Inv, InstallTap \/ Drained
    PROVE  Inv'
<1>1. copy = "idle" /\ writing = "no" /\ wipe # "queued"
    <2>1. ControlInv
        BY DEF Inv
    <2>2. phase \in {"off", "draining"}
        BY DEF InstallTap, Drained
    <2>3. copy = "idle"
        BY <2>1, <2>2 DEF ControlInv
    <2>4. CASE InstallTap
        BY <2>1, <2>3, <2>4 DEF InstallTap, ControlInv
    <2>5. CASE Drained
        BY <2>3, <2>5 DEF Drained
    <2> QED BY <2>4, <2>5
<1>2. WipeRing /\ UNCHANGED <<writing, key, copyVars>>
    BY DEF InstallTap, Drained
<1>3. /\ RingTypeOK' /\ LogInv' /\ WriterInv' /\ RingInv' /\ SnapInv'
      /\ ring' = Zeros /\ seq' = 0
    BY <1>1, <1>2, WipeStep
<1>4. TypeOK' /\ ControlInv'
    <2>1. CASE InstallTap
        <3>1. /\ phase' = "armed" /\ wipe' = "none" /\ poller' = "off"
              /\ base' = 0 /\ lastSeq' = 0 /\ signalled' = FALSE
              /\ lost' = 0 /\ unclean' = unclean /\ ~unclean
              /\ copy' = copy
            BY <2>1, <1>3 DEF InstallTap, copyVars
        <3>2. TypeOK'
            BY <1>3, <3>1 DEF TypeOK, Inv
        <3>3. ControlInv'
            BY <1>1, <3>1 DEF ControlInv
        <3> QED BY <3>2, <3>3
    <2>2. CASE Drained
        <3>1. /\ phase' = "off" /\ UNCHANGED <<unclean, wipe, copy, writing>>
              /\ UNCHANGED <<poller, base, lastSeq, signalled, lost>>
              /\ phase = "draining"
            BY <2>2 DEF Drained, copyVars, pollVars
        <3>2. TypeOK'
            BY <1>3, <3>1 DEF TypeOK, Inv
        <3>3. ControlInv'
            BY <1>1, <1>3, <3>1 DEF ControlInv, Inv
        <3> QED BY <3>2, <3>3
    <2> QED BY <2>1, <2>2
<1> QED BY <1>3, <1>4 DEF Inv

----------------------------------------------------------------------------
(* The poller's steps.                                                     *)

\* A tick opens a snapshot.
LEMMA TickStep ==
    ASSUME Inv, Tick
    PROVE  Inv'
<1> USE CapAssumption
        DEF Tick, LoadCounter, Inv, ownerVars, pollVars, writerVars
<1>1. TypeOK'
    BY DEF TypeOK, RingTypeOK, Slots
<1>2. ControlInv'
    BY DEF ControlInv, TypeOK, RingTypeOK
<1>3. LogInv' /\ WriterInv' /\ RingInv'
    BY DEF LogInv, WriterInv, RingInv
<1>4. SnapInv'
    <2>1. \A s \in 0 .. seq - 1 : ~(Slot(s) < 0)
        BY SlotInRing DEF Slots, TypeOK, RingTypeOK
    <2> QED BY <2>1 DEF SnapInv, Slot
<1> QED BY <1>1, <1>2, <1>3, <1>4

\* memcpy reads one slot: what it finds there is still the record wanted.
LEMMA CopyStep ==
    ASSUME Inv, CopyRing
    PROVE  Inv'
<1> USE CapAssumption
        DEF CopyRing, CopySlot, Inv, ownerVars, pollVars, writerVars
<1>1. /\ seq \in Nat /\ cur \in Nat /\ next \in 0 .. Cap - 1
      /\ ring \in [Slots -> Rec] /\ snap \in [Slots -> Rec]
    BY DEF TypeOK, RingTypeOK, Slots
<1>2. IF next + 1 = Cap THEN next' = 0 ELSE next' = next + 1
    <2>1. Cap % Cap = 0 /\ \A n \in 0 .. Cap - 1 : n % Cap = n
        OBVIOUS
    <2> QED BY <1>1, <2>1 DEF Slot
<1>3. TypeOK'
    BY <1>1, <1>2 DEF TypeOK, RingTypeOK, Slots
<1>4. ControlInv' /\ LogInv' /\ WriterInv' /\ RingInv'
    BY DEF ControlInv, LogInv, WriterInv, RingInv
<1>5. SnapInv'
    <2> SUFFICES ASSUME NEW s \in 0 .. cur - 1, s + Cap > cur,
                        copy' = "copied" \/ Slot(s) < next'
                 PROVE  snap'[Slot(s)] = typed[s + 1]
        BY DEF SnapInv
    <2>1. Slot(s) \in 0 .. Cap - 1
        BY <1>1, SlotInRing DEF Slots
    <2>2. CASE Slot(s) = next
        <3>1. s \in 0 .. seq - 1
            BY <1>1 DEF ControlInv
        <3>2. s + Cap > seq \/ (s + Cap = seq /\ writing = "no")
            BY <1>1 DEF SnapInv
        <3>3. ring[Slot(s)] = typed[s + 1]
            BY <3>1, <3>2 DEF RingInv
        <3> QED BY <1>1, <2>2, <3>3 DEF Slots
    <2>3. CASE Slot(s) # next
        <3>1. Slot(s) < next
            BY <1>1, <1>2, <2>1, <2>3
        <3> QED BY <1>1, <2>1, <2>3, <3>1 DEF SnapInv, Slots
    <2> QED BY <2>2, <2>3
<1> QED BY <1>3, <1>4, <1>5

\* The scan and the stop end the snapshot or the poller.
LEMMA ScanStep ==
    ASSUME Inv, ScanMatches \/ ScanFindsNothing \/ PollerStops
    PROVE  Inv'
<1> USE CapAssumption, CodeAssumption
        DEF ScanMatches, ScanFindsNothing, ScanDone, PollerStops, Inv,
            ownerVars, writerVars, ringVars, copyVars
<1>1. TypeOK'
    <2>1. lost' \in Nat
        BY DEF TypeOK, RingTypeOK, Recycled
    <2> QED BY <2>1 DEF TypeOK, RingTypeOK
<1>2. ControlInv'
    BY DEF ControlInv, TypeOK, RingTypeOK
<1>3. LogInv' /\ WriterInv' /\ RingInv'
    BY DEF LogInv, WriterInv, RingInv
<1>4. SnapInv'
    BY DEF SnapInv
<1> QED BY <1>1, <1>2, <1>3, <1>4

----------------------------------------------------------------------------
(* The invariant holds.                                                    *)

\* Every step keeps the invariant.
LEMMA NextInv ==
    ASSUME Inv, [Next]_vars, MaxDuringCopy <= 1
    PROVE  Inv'
<1>1. CASE PressArrives
    BY <1>1, PressStep
<1>2. CASE Worker
    BY <1>2, StoreFlagsStep, StoreKeycodeStep, PublishStep, WorkerWipesStep
       DEF Worker, CallbackRuns, FinishPress
<1>3. CASE Owner
    BY <1>3, OwnerStep, OwnerWipesStep DEF Owner
<1>4. CASE Poller
    BY <1>4, TickStep, CopyStep, ScanStep DEF Poller
<1>5. CASE UNCHANGED vars
    <2>1. RingTypeOK' /\ LogInv' /\ WriterInv' /\ RingInv' /\ SnapInv'
        BY <1>5, RingUnchanged DEF vars
    <2> QED BY <1>5, <2>1
            DEF Inv, TypeOK, ControlInv, vars, ringVars, writerVars, copyVars,
                ownerVars, pollVars
<1> QED BY <1>1, <1>2, <1>3, <1>4, <1>5 DEF Next

\* The invariant, for a copy that is shorter than two presses.
THEOREM Invariance ==
    ASSUME MaxDuringCopy <= 1
    PROVE  Spec => []Inv
BY InitInv, NextInv, PTL DEF Spec

\* Every variable keeps its type (eventtap's ring, poller and teardown).
THEOREM Typing ==
    ASSUME MaxDuringCopy <= 1
    PROVE  Spec => []TypeOK
<1>1. Inv => TypeOK
    BY DEF Inv
<1> QED BY <1>1, Invariance, PTL

\* A teardown that is not unclean leaves a ring of zeros (Release,
\* eventtap_uninstall_c).
THEOREM WipedRing ==
    ASSUME MaxDuringCopy <= 1
    PROVE  Spec => []RingIsClean
<1>1. Inv => RingIsClean
    BY DEF Inv, ControlInv, RingIsClean
<1> QED BY <1>1, Invariance, PTL

----------------------------------------------------------------------------
(* What the matcher sees is what was typed.                                *)

\* A tail that matchAny tries, read from the snapshot, is the tail of the
\* log at the same place.
LEMMA WindowIsTyped ==
    ASSUME Inv, copy = "copied",
           NEW end \in ClampFrom(lastSeq, cur, MaxL) .. cur - 1,
           NEW l \in MinL .. MaxL, end + 1 >= l,
           NEW i \in 1 .. l
    PROVE  /\ Window(snap, end + 1 - l, l)[i] = typed[end + 1 - l + i]
           /\ end + 1 - l + i \in 1 .. seq
<1> USE CodeAssumption DEF Inv
<1>1. lastSeq \in Nat /\ cur \in Nat /\ seq \in Nat /\ cur <= seq
    BY DEF TypeOK, RingTypeOK, ControlInv
<1>2. l \in 1 .. MaxL
    OBVIOUS
<1>3. /\ end + 1 - l + i - 1 \in 0 .. cur - 1
      /\ end + 1 - l + i - 1 + Cap > cur
    BY <1>1, <1>2, TailsAreReadable
<1>4. end \in Int
    BY <1>1, CapAssumption DEF ClampFrom
<1>5. (end + 1 - l + i - 1) + 1 = end + 1 - l + i
    BY <1>2, <1>4
<1>6. snap[Slot(end + 1 - l + i - 1)] = typed[end + 1 - l + i]
    BY <1>3, <1>5 DEF SnapInv
<1> QED BY <1>1, <1>2, <1>3, <1>4, <1>6 DEF Window

\* So matchAny finds the code exactly where it was typed.
LEMMA MatchIsTyped ==
    ASSUME Inv, copy = "copied",
           NEW end \in ClampFrom(lastSeq, cur, MaxL) .. cur - 1
    PROVE  (\E l \in MinL .. MaxL :
               end + 1 >= base + l /\ Window(snap, end + 1 - l, l) = Secret)
           <=> OccursAt(Secret, typed, end + 1)
<1> USE CodeAssumption
<1>1. base = 0 /\ Len(typed) = seq /\ cur <= seq /\ cur \in Nat /\ seq \in Nat
      /\ lastSeq \in Nat
    BY DEF Inv, ControlInv, LogInv, TypeOK, RingTypeOK
<1>2. end \in Int /\ end < cur
    BY <1>1, CapAssumption DEF ClampFrom
<1>3. ASSUME NEW l \in MinL .. MaxL, end + 1 >= l,
             Window(snap, end + 1 - l, l) = Secret
      PROVE  OccursAt(Secret, typed, end + 1)
    <2>1. Len(Secret) = l
        <3>1. DOMAIN Window(snap, end + 1 - l, l) = 1 .. l
            BY DEF Window
        <3> QED BY <1>3, <3>1
    <2>2. \A i \in 1 .. l : typed[end + 1 - l + i] = Secret[i]
        BY <1>3, WindowIsTyped
    <2> QED BY <1>1, <1>2, <1>3, <2>1, <2>2 DEF OccursAt
<1>4. ASSUME OccursAt(Secret, typed, end + 1)
      PROVE  \E l \in MinL .. MaxL :
                 end + 1 >= l /\ Window(snap, end + 1 - l, l) = Secret
    <2> DEFINE l == Len(Secret)
    <2>1. l \in MinL .. MaxL /\ end + 1 >= l
        BY <1>4 DEF OccursAt
    <2>2. \A i \in 1 .. l : Window(snap, end + 1 - l, l)[i] = Secret[i]
        BY <1>4, <2>1, WindowIsTyped DEF OccursAt
    <2>3. Window(snap, end + 1 - l, l) = [i \in 1 .. l |-> Secret[i]]
        BY <2>2 DEF Window
    <2>4. Secret = [i \in 1 .. l |-> Secret[i]]
        OBVIOUS
    <2> QED BY <2>1, <2>3, <2>4
<1> QED BY <1>1, <1>2, <1>3, <1>4

\* The unlock is signalled only for a code that was typed (pollSequence,
\* matchAny, clampFrom, eventtap_snapshot).
THEOREM NothingInvented ==
    ASSUME MaxDuringCopy <= 1
    PROVE  Spec => NoInventedMatch
<1>1. ASSUME Inv, [Next]_vars
      PROVE  [signalled' /\ ~signalled => Occurs(Secret, typed)]_vars
    <2> SUFFICES ASSUME signalled', ~signalled
                 PROVE  Occurs(Secret, typed)
        OBVIOUS
    <2>1. ScanMatches
        BY <1>1 DEF Next, vars, PressArrives, Worker, CallbackRuns,
           WorkerWipes, Owner, InstallTap, StartPoller, CloseStop, QueueWipe,
           RemoveSource, Drained, DrainTimesOut, Poller, Tick, CopyRing,
           ScanFindsNothing, PollerStops, pollVars
    <2>2. copy = "copied" /\ MatchAny(snap, base, lastSeq, cur)
        BY <2>1 DEF ScanMatches, ScanDone
    <2>3. PICK end \in ClampFrom(lastSeq, cur, MaxL) .. cur - 1 :
              OccursAt(Secret, typed, end + 1)
        BY <1>1, <2>2, MatchIsTyped DEF MatchAny
    <2>4. end + 1 \in 1 .. Len(typed)
        <3>1. /\ lastSeq \in Nat /\ cur \in Nat /\ seq \in Nat
              /\ cur <= seq /\ Len(typed) = seq
            BY <1>1, <2>2 DEF Inv, TypeOK, RingTypeOK, ControlInv, LogInv
        <3>2. ClampFrom(lastSeq, cur, MaxL) \in Nat
            BY <3>1, CapAssumption, CodeAssumption DEF ClampFrom
        <3> QED BY <3>1, <3>2
    <2> QED BY <2>3, <2>4 DEF Occurs
<1> QED BY <1>1, Invariance, PTL DEF Spec, NoInventedMatch

\* A code the poller has gone past was signalled or had left the ring
\* (pollSequence, matchAny, clampFrom).
THEOREM NothingMissed ==
    ASSUME MaxDuringCopy <= 1
    PROVE  Spec => []CodeIsNotMissed
<1>1. Init => CodeIsNotMissed
    BY DEF Init, CodeIsNotMissed
<1>2. ASSUME Inv, CodeIsNotMissed, [Next]_vars
      PROVE  CodeIsNotMissed'
    <2> USE DEF CodeIsNotMissed
    <2>1. CASE PressArrives
        BY <1>2, <2>1
           DEF PressArrives, Press, ownerVars, pollVars, OccursAt
    <2>2. CASE CallbackRuns
        <3>1. CASE StoreFlags \/ StoreKeycode
            BY <1>2, <2>2, <3>1
               DEF CallbackRuns, StoreFlags, StoreKeycode, ownerVars,
                   pollVars, OccursAt
        <3>2. CASE Publish
            <4>1. UNCHANGED <<ownerVars, pollVars>>
                BY <2>2 DEF CallbackRuns
            <4>2. /\ typed \in Seq(Rec) /\ Len(typed) = seq
                  /\ typed' = Append(typed, key) /\ lastSeq \in Nat
                BY <1>2, <3>2 DEF Publish, Inv, TypeOK, RingTypeOK, LogInv
            <4> SUFFICES ASSUME phase \in {"live", "stopping"},
                                NEW e \in 1 .. lastSeq,
                                OccursAt(Secret, typed', e)
                         PROVE  OccursAt(Secret, typed, e)
                BY <1>2, <4>1 DEF ownerVars, pollVars
            <4>3. lastSeq <= seq
                BY <1>2 DEF Inv, ControlInv
            <4>4. e <= Len(typed) /\ \A j \in 1 .. e : typed'[j] = typed[j]
                BY <4>2, <4>3
            <4> QED BY <4>4, CodeAssumption DEF OccursAt
        <3> QED BY <2>2, <3>1, <3>2 DEF CallbackRuns, FinishPress
    <2>3. CASE WorkerWipes
        <3>1. phase \notin {"live", "stopping"}
            BY <1>2, <2>3 DEF WorkerWipes, Inv, ControlInv
        <3> QED BY <2>3, <3>1 DEF WorkerWipes, pollVars
    <2>4. CASE Owner
        BY <1>2, <2>4
           DEF Owner, InstallTap, StartPoller, CloseStop, QueueWipe,
               RemoveSource, Drained, DrainTimesOut, pollVars, ringVars,
               writerVars, OccursAt, Inv, ControlInv
    <2>5. CASE Tick \/ CopyRing \/ PollerStops
        BY <1>2, <2>5
           DEF Tick, LoadCounter, CopyRing, CopySlot, PollerStops, ownerVars,
               pollVars, ringVars, writerVars, OccursAt, Inv, ControlInv
    <2>6. CASE ScanMatches
        BY <2>6 DEF ScanMatches
    <2>7. CASE ScanFindsNothing
        <3>1. /\ copy = "copied" /\ lastSeq' = cur /\ typed' = typed
              /\ ~MatchAny(snap, base, lastSeq, cur)
              /\ lost' = IF lastSeq < Recycled THEN Recycled ELSE lost
              /\ UNCHANGED <<phase, poller, signalled>>
            BY <2>7 DEF ScanFindsNothing, ScanDone, writerVars, ownerVars
        <3>2. /\ lastSeq \in Nat /\ cur \in Nat /\ lost \in Nat
              /\ Recycled = cur - (Cap - MaxL) /\ Recycled \in Int
              /\ ClampFrom(lastSeq, cur, MaxL) \in Nat
            BY <1>2, CapAssumption, CodeAssumption
               DEF Inv, TypeOK, RingTypeOK, Recycled, ClampFrom
        <3> SUFFICES ASSUME poller # "off", phase \in {"live", "stopping"},
                            ~signalled, NEW e \in 1 .. cur,
                            OccursAt(Secret, typed, e)
                     PROVE  e <= lost'
            BY <3>1 DEF OccursAt
        <3>3. CASE e <= lastSeq
            BY <1>2, <3>1, <3>2, <3>3
        <3>4. CASE e > lastSeq /\ e - 1 < ClampFrom(lastSeq, cur, MaxL)
            <4>1. lastSeq < Recycled /\ e - 1 < Recycled
                BY <3>2, <3>4, ClampIsTight
            <4> QED BY <3>1, <3>2, <4>1
        <3>5. CASE e > lastSeq /\ e - 1 >= ClampFrom(lastSeq, cur, MaxL)
            <4>1. e - 1 \in ClampFrom(lastSeq, cur, MaxL) .. cur - 1
                  /\ (e - 1) + 1 = e
                BY <3>2, <3>5
            <4>2. \E l \in MinL .. MaxL :
                      /\ (e - 1) + 1 >= base + l
                      /\ Window(snap, (e - 1) + 1 - l, l) = Secret
                BY <1>2, <3>1, <4>1, MatchIsTyped
            <4> QED BY <3>1, <4>1, <4>2 DEF MatchAny
        <3> QED BY <3>2, <3>3, <3>4, <3>5
    <2>8. CASE UNCHANGED vars
        BY <1>2, <2>8 DEF vars, ringVars, writerVars, ownerVars, pollVars,
                          OccursAt
    <2> QED BY <1>2, <2>1, <2>2, <2>3, <2>4, <2>5, <2>6, <2>7, <2>8
            DEF Next, Worker, Poller
<1> QED BY <1>1, <1>2, Invariance, PTL DEF Spec

----------------------------------------------------------------------------
(* Refinement of CodeWatch.                                                *)

\* A record is one of a press, and a poller that has signalled has ended.
WatchInv ==
    /\ writing # "no" => key \in Keys
    /\ Watched /\ poller # "done" => ~signalled

LEMMA WatchInvStep ==
    ASSUME Inv, WatchInv, [Next]_vars
    PROVE  WatchInv'
<1> USE DEF WatchInv, Watched
<1>0. phase = "armed" => poller = "off"
    BY DEF Inv, ControlInv
<1>1. CASE PressArrives
    BY <1>1 DEF PressArrives, Press, ownerVars, pollVars
<1>2. CASE Worker
    BY <1>2 DEF Worker, CallbackRuns, FinishPress, StoreFlags, StoreKeycode,
        Publish, WorkerWipes, ownerVars, pollVars
<1>3. CASE Owner
    <2>1. UNCHANGED <<writing, key>>
        BY <1>3 DEF Owner, InstallTap, StartPoller, CloseStop, QueueWipe,
            RemoveSource, Drained, DrainTimesOut, ringVars, writerVars
    <2>2. Watched' /\ poller' # "done" => ~signalled'
        BY <1>0, <1>3 DEF Owner, InstallTap, StartPoller, CloseStop, QueueWipe,
            RemoveSource, Drained, DrainTimesOut, pollVars
    <2> QED BY <2>1, <2>2
<1>4. CASE Poller
    <2>1. UNCHANGED <<writing, key>>
        BY <1>4 DEF Poller, Tick, LoadCounter, CopyRing, CopySlot, ScanMatches,
            ScanFindsNothing, ScanDone, PollerStops, ringVars, writerVars
    <2>2. Watched' /\ poller' # "done" => ~signalled'
        BY <1>4 DEF Poller, Tick, CopyRing, ScanMatches, ScanFindsNothing,
            ScanDone, PollerStops, ownerVars, pollVars
    <2> QED BY <2>1, <2>2
<1>5. CASE UNCHANGED vars
    BY <1>5 DEF vars, ringVars, writerVars, ownerVars, pollVars
<1> QED BY <1>1, <1>2, <1>3, <1>4, <1>5 DEF Next

\* clampFrom skips what CodeWatch may skip.
LEMMA ClampIsSkip ==
    ASSUME NEW from \in Nat, NEW to \in Nat
    PROVE  ClampFrom(from, to, MaxL) =
               IF to - (Cap - MaxL) > from THEN to - (Cap - MaxL) ELSE from
BY CapAssumption, CodeAssumption DEF ClampFrom

\* A scan of the snapshot finds what a look at the log finds.
LEMMA ScanIsLook ==
    ASSUME Inv, copy = "copied"
    PROVE  MatchAny(snap, base, lastSeq, cur) <=>
               \E e \in ClampFrom(lastSeq, cur, MaxL) + 1 .. cur :
                   OccursAt(Secret, typed, e)
<1> DEFINE first == ClampFrom(lastSeq, cur, MaxL)
<1>1. first \in Nat /\ cur \in Nat
    BY CapAssumption, CodeAssumption DEF Inv, TypeOK, RingTypeOK, ClampFrom
<1>2. MatchAny(snap, base, lastSeq, cur) <=>
          \E end \in first .. cur - 1 : OccursAt(Secret, typed, end + 1)
    BY MatchIsTyped DEF MatchAny
<1> HIDE DEF first
<1>3. ASSUME NEW end \in first .. cur - 1, OccursAt(Secret, typed, end + 1)
      PROVE  \E e \in first + 1 .. cur : OccursAt(Secret, typed, e)
    BY <1>1, <1>3
<1>4. ASSUME NEW e \in first + 1 .. cur, OccursAt(Secret, typed, e)
      PROVE  \E end \in first .. cur - 1 : OccursAt(Secret, typed, end + 1)
    <2>1. e - 1 \in first .. cur - 1 /\ (e - 1) + 1 = e
        BY <1>1
    <2> QED BY <1>4, <2>1
<1> QED BY <1>2, <1>3, <1>4 DEF first

\* A scan that is done is a look at the log as it stood when the counter was
\* loaded.
LEMMA ScanRefines ==
    ASSUME Inv, WatchInv, ScanMatches \/ ScanFindsNothing
    PROVE  Watch!Look
<1>1. /\ copy = "copied" /\ poller = "ticking" /\ phase \in {"live", "stopping"}
      /\ lastSeq <= cur /\ cur <= seq /\ Len(typed) = seq
      /\ lastSeq \in Nat /\ cur \in Nat /\ seq \in Nat
    BY DEF ScanMatches, ScanFindsNothing, ScanDone, Inv, ControlInv, LogInv,
           TypeOK, RingTypeOK
<1>2. Watched /\ Watched' /\ ~signalled /\ poller' # "off" /\ UNCHANGED typed
    BY <1>1 DEF ScanMatches, ScanFindsNothing, ScanDone, WatchInv, Watched,
                ownerVars, writerVars
<1> DEFINE first == ClampFrom(lastSeq, cur, MaxL)
           found == \E e \in first + 1 .. cur : OccursAt(Secret, typed, e)
<1>3. /\ signalled' <=> found
      /\ lastSeq' = IF found THEN lastSeq ELSE cur
    <2>1. MatchAny(snap, base, lastSeq, cur) <=> found
        BY <1>1, ScanIsLook
    <2>2. CASE ScanMatches
        BY <2>1, <2>2 DEF ScanMatches
    <2>3. CASE ScanFindsNothing
        BY <1>2, <2>1, <2>3 DEF ScanFindsNothing
    <2> QED BY <2>2, <2>3
<1>4. \A e \in first + 1 .. cur :
          OccursAt(Secret, typed, e) <=>
              /\ Len(Secret) <= e
              /\ \A i \in 1 .. Len(Secret) :
                     typed[e - Len(Secret) + i] = Secret[i]
    <2>1. first \in Nat
        BY <1>1, CapAssumption, CodeAssumption DEF ClampFrom
    <2> QED BY <1>1, <2>1 DEF OccursAt
<1>5. first = IF cur - (Cap - MaxL) > lastSeq THEN cur - (Cap - MaxL) ELSE lastSeq
    BY <1>1, ClampIsSkip
<1> HIDE DEF first
<1>6. cur \in lastSeq .. Len(typed)
    BY <1>1
<1> QED
    BY <1>1, <1>2, <1>3, <1>4, <1>5, <1>6
       DEF Watch!Look, Watch!Skipped, Watch!CodeEndsAt

\* What a step does that moves none of the mapped state.
LEMMA StillWatch ==
    ASSUME UNCHANGED <<typed, phase, poller, lastSeq, signalled>>
    PROVE  UNCHANGED Watch!watch
BY DEF Watch!watch, Watched

\* Every step is one of CodeWatch or leaves the mapped state alone.
LEMMA NextRefines ==
    ASSUME Inv, WatchInv, [Next]_vars
    PROVE  [Watch!Next]_(Watch!watch)
<1>0. /\ phase = "armed" => poller = "off"
      /\ poller = "ticking" => phase \in {"live", "stopping"}
      /\ wipe = "queued" => phase \in {"wiping", "draining", "off"}
      /\ base = 0
    BY DEF Inv, ControlInv
<1>1. CASE PressArrives
    BY <1>1, StillWatch
       DEF PressArrives, Press, ownerVars, pollVars
<1>2. CASE CallbackRuns
    <2>1. CASE StoreFlags \/ StoreKeycode
        BY <1>2, <2>1, StillWatch
           DEF CallbackRuns, StoreFlags, StoreKeycode, ownerVars, pollVars
    <2>2. CASE Publish
        <3>1. /\ typed' = Append(typed, key) /\ key \in Keys
              /\ UNCHANGED <<phase, poller, lastSeq, signalled>>
            BY <1>2, <2>2 DEF CallbackRuns, Publish, ownerVars, pollVars, WatchInv
        <3>2. CASE Watched
            <4>1. Watch!Type
                BY <3>1, <3>2 DEF Watch!Type, Watched
            <4> QED BY <4>1 DEF Watch!Next
        <3>3. CASE ~Watched
            BY <3>1, <3>3 DEF Watch!watch, Watched
        <3> QED BY <3>2, <3>3
    <2> QED BY <1>2, <2>1, <2>2 DEF CallbackRuns, FinishPress
<1>3. CASE WorkerWipes
    <2>1. ~Watched /\ ~Watched'
        BY <1>0, <1>3 DEF WorkerWipes, Watched, pollVars
    <2> QED BY <2>1 DEF Watch!watch, Watched
<1>4. CASE InstallTap
    <2>1. ~Watched /\ Watched' /\ typed' = << >> /\ poller' = "off"
        BY <1>0, <1>4 DEF InstallTap, WipeRing, Watched
    <2>2. Watch!Begin
        BY <2>1 DEF Watch!Begin
    <2> QED BY <2>2 DEF Watch!Next
<1>5. CASE StartPoller
    <2>1. /\ Watched /\ Watched' /\ poller = "off" /\ ~signalled
          /\ lastSeq' = 0 /\ UNCHANGED <<typed, signalled>>
        BY <1>0, <1>5 DEF StartPoller, Watched, WatchInv, ringVars, writerVars
    <2> QED BY <2>1 DEF Watch!watch, Watched
<1>6. CASE CloseStop
    <2>1. /\ Watched /\ Watched'
          /\ UNCHANGED <<typed, poller, lastSeq, signalled>>
        BY <1>6 DEF CloseStop, Watched, ringVars, writerVars, pollVars
    <2> QED BY <2>1 DEF Watch!watch, Watched
<1>7. CASE QueueWipe
    <2>1. Watched /\ ~Watched'
        BY <1>7 DEF QueueWipe, Watched, pollVars
    <2>2. Watch!End
        BY <2>1 DEF Watch!End
    <2> QED BY <2>2 DEF Watch!Next
<1>8. CASE RemoveSource \/ Drained \/ DrainTimesOut
    <2>1. ~Watched /\ ~Watched'
        BY <1>0, <1>8 DEF RemoveSource, Drained, DrainTimesOut, Watched, pollVars
    <2> QED BY <2>1 DEF Watch!watch, Watched
<1>9. CASE Tick \/ CopyRing
    BY <1>9, StillWatch
       DEF Tick, LoadCounter, CopyRing, CopySlot, writerVars, ownerVars, pollVars
<1>10. CASE ScanMatches \/ ScanFindsNothing
    BY <1>10, ScanRefines DEF Watch!Next
<1>11. CASE PollerStops
    <2>1. /\ Watched /\ Watched' /\ poller # "off" /\ poller' # "off"
          /\ UNCHANGED <<typed, lastSeq, signalled>>
        BY <1>11 DEF PollerStops, Watched, ringVars, writerVars, ownerVars
    <2> QED BY <2>1 DEF Watch!watch, Watched
<1>12. CASE UNCHANGED vars
    BY <1>12, StillWatch DEF vars, ringVars, writerVars, ownerVars, pollVars
<1> QED
    BY <1>1, <1>2, <1>3, <1>4, <1>5, <1>6, <1>7, <1>8, <1>9, <1>10, <1>11, <1>12
       DEF Next, Worker, Owner, Poller

\* The lock-free ring under its poller implements CodeWatch, which looks at
\* the log of presses at one moment (pollSequence, matchAny, clampFrom,
\* eventtap_snapshot, and the install and release around them).
THEOREM AtomicScan ==
    ASSUME MaxDuringCopy <= 1
    PROVE  Spec => ImplementsCodeWatch
<1>1. Init => WatchInv /\ Watch!Init
    BY DEF Init, RingInit, WatchInv, Watched, Watch!Init
<1>2. Inv /\ WatchInv /\ [Next]_vars => WatchInv' /\ [Watch!Next]_(Watch!watch)
    BY WatchInvStep, NextRefines
<1> QED
    BY <1>1, <1>2, Invariance, PTL DEF Spec, ImplementsCodeWatch, Watch!Spec
=============================================================================
