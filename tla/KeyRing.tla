------------------------------ MODULE KeyRing ------------------------------
(***************************************************************************)
(* The key ring of internal/macos/eventtap: a static array that the event  *)
(* tap's callback (tap_darwin.m) appends to on the worker thread and that  *)
(* a reader on another thread (poller.go, capture.go) copies without any   *)
(* lock.  The only synchronisation is the counter: the callback stores the *)
(* two fields of a record with plain stores and then advances the counter  *)
(* with RELEASE; the reader loads the counter with ACQUIRE and then copies *)
(* the whole array, which the callback may go on writing meanwhile.        *)
(*                                                                         *)
(* This module has the writer, the copy and the helpers both readers use;  *)
(* KeyPoller adds the reader of a session, and CodeCapture has that of     *)
(* --set-password over a ring it takes only the counter and the reach of.  *)
(***************************************************************************)
EXTENDS Integers, Sequences

CONSTANTS
    Cap,            \* slots of the ring (DND_RING_CAP, 64)
    Flags, Codes,   \* values of a record's two fields
    Keys,           \* the records a press can make
    Zero,           \* the record memset leaves: no modifier, key code 0 (`a')
    MaxPress,       \* bound: presses between two wipes
    MaxDuringCopy   \* presses begun between a snapshot's load and its end

Rec == [flags : Flags, keycode : Codes]

ASSUME CapAssumption == Cap \in Nat \ {0}
ASSUME KeysAssumption == Keys \subseteq Rec /\ Zero \in Rec
ASSUME BoundsAssumption == MaxPress \in Nat /\ MaxDuringCopy \in Nat

VARIABLES
    ring,     \* g_ring
    seq,      \* g_seq: how many presses were published
    writing,  \* how far the callback has come with the record at seq
    key,      \* the record it is writing
    typed,    \* history: the presses published since the last wipe
    copy,     \* where the reader's snapshot stands
    cur,      \* the counter the snapshot returned
    next,     \* the next slot memcpy reads
    snap      \* the reader's buffer

writerVars == <<ring, seq, writing, key, typed>>
copyVars == <<copy, cur, next, snap>>
ringVars == <<writerVars, copyVars>>

Slots == 0 .. Cap - 1
Slot(s) == s % Cap
Zeros == [j \in Slots |-> Zero]

RingTypeOK ==
    /\ ring \in [Slots -> Rec]
    /\ seq \in Nat
    /\ writing \in {"no", "begun", "flags", "record"}
    /\ key \in Rec
    /\ typed \in Seq(Rec)
    /\ copy \in {"idle", "copying", "copied"}
    /\ cur \in Nat
    /\ next \in Slots
    /\ snap \in [Slots -> Rec]

RingInit ==
    /\ ring = Zeros
    /\ seq = 0
    /\ writing = "no"
    /\ key = Zero
    /\ typed = << >>
    /\ copy = "idle"
    /\ cur = 0
    /\ next = 0
    /\ snap = Zeros

----------------------------------------------------------------------------
(* The callback.  A key held down (autorepeat), a key released, a modifier *)
(* or a mouse event touches none of this state.                            *)

\* A fresh key press enters the callback; nothing is stored yet.
Press ==
    /\ writing = "no"
    /\ seq < MaxPress
    /\ copy = "copying" => seq - cur < MaxDuringCopy
    /\ key' \in Keys
    /\ writing' = "begun"
    /\ UNCHANGED <<ring, seq, typed, copyVars>>

StoreFlags ==
    /\ writing = "begun"
    /\ ring' = [ring EXCEPT ![Slot(seq)] =
                   [flags |-> key.flags, keycode |-> ring[Slot(seq)].keycode]]
    /\ writing' = "flags"
    /\ UNCHANGED <<seq, key, typed, copyVars>>

StoreKeycode ==
    /\ writing = "flags"
    /\ ring' = [ring EXCEPT ![Slot(seq)] =
                   [flags |-> ring[Slot(seq)].flags, keycode |-> key.keycode]]
    /\ writing' = "record"
    /\ UNCHANGED <<seq, key, typed, copyVars>>

\* The RELEASE store that publishes the record.
Publish ==
    /\ writing = "record"
    /\ seq' = seq + 1
    /\ typed' = Append(typed, key)
    /\ writing' = "no"
    /\ UNCHANGED <<ring, key, copyVars>>

FinishPress == StoreFlags \/ StoreKeycode \/ Publish

----------------------------------------------------------------------------
(* eventtap_snapshot: one ACQUIRE load, then memcpy, slot by slot.         *)

LoadCounter ==
    /\ copy = "idle"
    /\ copy' = "copying"
    /\ cur' = seq
    /\ next' = 0
    /\ UNCHANGED <<writerVars, snap>>

CopySlot ==
    /\ copy = "copying"
    /\ snap' = [snap EXCEPT ![next] = ring[next]]
    /\ next' = Slot(next + 1)
    /\ copy' = IF next + 1 = Cap THEN "copied" ELSE "copying"
    /\ UNCHANGED <<writerVars, cur>>

\* eventtap_wipe_ring, as the effect it has on the writer's state.
WipeRing ==
    /\ ring' = Zeros
    /\ seq' = 0
    /\ typed' = << >>

----------------------------------------------------------------------------
(* Helpers of poller.go that both readers call.                            *)

\* clampFrom: the oldest `end' a reader may use, and whether records older
\* than that were dropped unread.
ClampFrom(from, to, maxL) ==
    IF maxL > Cap THEN to
    ELSE IF to <= Cap - maxL THEN from
    ELSE IF from >= to - (Cap - maxL) THEN from
    ELSE to - (Cap - maxL)

Dropped(from, to, maxL) ==
    \/ maxL > Cap
    \/ to > Cap - maxL /\ from < to - (Cap - maxL)

\* The `l' records of a buffer from sequence number `start' on.
Window(buf, start, l) == [i \in 1 .. l |-> buf[Slot(start + i - 1)]]

\* The log of presses has `code' as the tail that ends with its e-th press.
OccursAt(code, log, e) ==
    /\ Len(code) <= e
    /\ e <= Len(log)
    /\ \A i \in 1 .. Len(code) : log[e - Len(code) + i] = code[i]

Occurs(code, log) == \E e \in 1 .. Len(log) : OccursAt(code, log, e)
=============================================================================
