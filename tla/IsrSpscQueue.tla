---------------------------- MODULE IsrSpscQueue ----------------------------
(***************************************************************************)
(* emb::isr_spsc_inplace_queue: the lock-free queue between one producer   *)
(* (an interrupt handler or a thread) and one consumer.                    *)
(*                                                                         *)
(* A step is one access to state the other side can see: the load of the   *)
(* other side's index, the construction, move, copy or destruction of the  *)
(* object in a slot, the store of the own index.  The load of a side's own *)
(* index is folded into the load that follows it: nobody else writes it.   *)
(* Each index has one writer, who publishes it with release, and is read   *)
(* with acquire, so the steps are interleaved as sequentially consistent.  *)
(*                                                                         *)
(* The indices run freely and wrap at 2^w (IndexMod); a slot is the index  *)
(* modulo Capacity.  alive is the set of slots holding a constructed       *)
(* object; data keeps the last value built there, as the memory does.      *)
(***************************************************************************)
EXTENDS Naturals, FiniteSets

CONSTANTS
  Capacity,   \* the template parameter, a power of two
  IndexMod,   \* 2^w for the w-bit atomic index
  Values,     \* the values producers push
  NoValue     \* std::nullopt

\* std::has_single_bit(Capacity) and 2^w: Capacity divides IndexMod.  The
\* index must count past Capacity, or a full queue would look empty.
ASSUME QueueAssumption ==
  /\ Capacity \in Nat \ {0}
  /\ IndexMod \in Nat
  /\ IndexMod >= 2 * Capacity
  /\ IndexMod % Capacity = 0
  /\ NoValue \notin Values

VARIABLES
  front,      \* front_: written by the consumer only
  back,       \* back_: written by the producer only
  data,       \* the value last constructed in each slot
  alive,      \* the slots that hold a live object
  ppc,        \* where the producer is in try_emplace
  pval,       \* the argument of try_emplace
  accepted,   \* what try_emplace last returned
  cpc,        \* where the consumer is in try_pop, front or clear
  got,        \* try_pop's local result
  cursor,     \* clear's local f
  bound,      \* clear's local b
  result      \* what try_pop or front last returned

producerVars == <<ppc, pval, accepted>>
consumerVars == <<cpc, got, cursor, bound, result>>
slotVars == <<data, alive>>
vars == <<front, back, data, alive, ppc, pval, accepted,
          cpc, got, cursor, bound, result>>

Indices == 0 .. IndexMod - 1
Slots == 0 .. Capacity - 1

\* Unsigned increment and subtraction modulo 2^w, without a division.
Incr(i) == IF i = IndexMod - 1 THEN 0 ELSE i + 1
Distance(f, b) == IF b >= f THEN b - f ELSE b + IndexMod - f

\* index_of: the mask is a remainder because Capacity is a power of two.
IndexOf(i) == i % Capacity

Size == Distance(front, back)

Init ==
  /\ front = 0
  /\ back = 0
  /\ data = [s \in Slots |-> NoValue]
  /\ alive = {}
  /\ ppc = "idle"
  /\ pval = NoValue
  /\ accepted = FALSE
  /\ cpc = "idle"
  /\ got = NoValue
  /\ cursor = 0
  /\ bound = 0
  /\ result = NoValue

-----------------------------------------------------------------------------
(* Producer side: try_push and try_emplace.                                *)

\* Faulty TryEmplaceFull: one slot is sacrificed to tell full from empty.
TryEmplaceFullEarly ==
  /\ ppc = "idle"
  /\ Size >= Capacity - 1
  /\ accepted' = FALSE
  /\ UNCHANGED <<front, back, slotVars, ppc, pval, consumerVars>>

TryEmplaceFull ==
  /\ ppc = "idle"
  /\ Size = Capacity
  /\ accepted' = FALSE
  /\ UNCHANGED <<front, back, slotVars, ppc, pval, consumerVars>>

\* Faulty TryEmplaceRoom: the test for a full queue lets one more in.
TryEmplaceRoomLate(v) ==
  /\ ppc = "idle"
  /\ Size <= Capacity
  /\ ppc' = "construct"
  /\ pval' = v
  /\ UNCHANGED <<front, back, slotVars, accepted, consumerVars>>

TryEmplaceRoom(v) ==
  /\ ppc = "idle"
  /\ Size # Capacity
  /\ ppc' = "construct"
  /\ pval' = v
  /\ UNCHANGED <<front, back, slotVars, accepted, consumerVars>>

Construct ==
  /\ ppc = "construct"
  /\ data' = [data EXCEPT ![IndexOf(back)] = pval]
  /\ alive' = alive \cup {IndexOf(back)}
  /\ ppc' = "publish"
  /\ UNCHANGED <<front, back, pval, accepted, consumerVars>>

Publish ==
  /\ ppc = "publish"
  /\ back' = Incr(back)
  /\ accepted' = TRUE
  /\ ppc' = "idle"
  /\ pval' = NoValue
  /\ UNCHANGED <<front, slotVars, consumerVars>>

-----------------------------------------------------------------------------
(* Consumer side: try_pop, front and clear.                                *)

\* try_pop and front return nullopt.
FindEmpty ==
  /\ cpc = "idle"
  /\ front = back
  /\ result' = NoValue
  /\ UNCHANGED <<front, back, slotVars, producerVars, cpc, got, cursor, bound>>

TryPop ==
  /\ cpc = "idle"
  /\ front # back
  /\ cpc' = "move"
  /\ UNCHANGED <<front, back, slotVars, producerVars, got, cursor, bound, result>>

\* Faulty MoveOut: the moved-from object is not destroyed.
MoveOutNoDestroy ==
  /\ cpc = "move"
  /\ got' = data[IndexOf(front)]
  /\ cpc' = "retire"
  /\ UNCHANGED <<front, back, slotVars, producerVars, cursor, bound, result>>

MoveOut ==
  /\ cpc = "move"
  /\ got' = data[IndexOf(front)]
  /\ cpc' = "destroy"
  /\ UNCHANGED <<front, back, slotVars, producerVars, cursor, bound, result>>

DestroyHead ==
  /\ cpc = "destroy"
  /\ alive' = alive \ {IndexOf(front)}
  /\ cpc' = "retire"
  /\ UNCHANGED <<front, back, data, producerVars, got, cursor, bound, result>>

Retire ==
  /\ cpc = "retire"
  /\ front' = Incr(front)
  /\ result' = got
  /\ got' = NoValue
  /\ cpc' = "idle"
  /\ UNCHANGED <<back, slotVars, producerVars, cursor, bound>>

Front ==
  /\ cpc = "idle"
  /\ front # back
  /\ cpc' = "copy"
  /\ UNCHANGED <<front, back, slotVars, producerVars, got, cursor, bound, result>>

CopyHead ==
  /\ cpc = "copy"
  /\ result' = data[IndexOf(front)]
  /\ cpc' = "idle"
  /\ UNCHANGED <<front, back, slotVars, producerVars, got, cursor, bound>>

\* clear() samples back once: what is pushed later is not its business.
Clear ==
  /\ cpc = "idle"
  /\ bound' = back
  /\ cursor' = front
  /\ cpc' = "clearing"
  /\ UNCHANGED <<front, back, slotVars, producerVars, got, result>>

\* Faulty ClearSlot: the cursor stays.
ClearSlotNoAdvance ==
  /\ cpc = "clearing"
  /\ cursor # bound
  /\ alive' = alive \ {IndexOf(cursor)}
  /\ UNCHANGED <<front, back, data, producerVars, cpc, got, cursor, bound, result>>

ClearSlot ==
  /\ cpc = "clearing"
  /\ cursor # bound
  /\ alive' = alive \ {IndexOf(cursor)}
  /\ cursor' = Incr(cursor)
  /\ UNCHANGED <<front, back, data, producerVars, cpc, got, bound, result>>

ClearDone ==
  /\ cpc = "clearing"
  /\ cursor = bound
  /\ front' = bound
  /\ cpc' = "idle"
  /\ cursor' = 0
  /\ bound' = 0
  /\ UNCHANGED <<back, slotVars, producerVars, got, result>>

-----------------------------------------------------------------------------
\* The steps of an operation already begun, and the calls that begin one.
ProducerStep == Construct \/ Publish
ConsumerStep == MoveOut \/ DestroyHead \/ Retire \/ CopyHead \/ ClearSlot \/ ClearDone
ProducerCall == TryEmplaceFull \/ \E v \in Values : TryEmplaceRoom(v)
ConsumerCall == FindEmpty \/ TryPop \/ Front \/ Clear

Next == ProducerStep \/ ConsumerStep \/ ProducerCall \/ ConsumerCall

\* An operation begun is executed to its end: the processor returns to the
\* interrupted side.  Nobody is obliged to begin one.
Fairness == WF_vars(ProducerStep) /\ WF_vars(ConsumerStep)

Spec == Init /\ [][Next]_vars /\ Fairness

-----------------------------------------------------------------------------
\* Every variable stays in its type.
TypeOK ==
  /\ front \in Indices
  /\ back \in Indices
  /\ data \in [Slots -> Values \cup {NoValue}]
  /\ alive \in SUBSET Slots
  /\ ppc \in {"idle", "construct", "publish"}
  /\ pval \in Values \cup {NoValue}
  /\ accepted \in BOOLEAN
  /\ cpc \in {"idle", "move", "destroy", "retire", "copy", "clearing"}
  /\ got \in Values \cup {NoValue}
  /\ cursor \in Indices
  /\ bound \in Indices
  /\ result \in Values \cup {NoValue}

\* The slot the producer is about to construct in, or has constructed in and
\* not yet published.
ProducerSlots == IF ppc = "idle" THEN {} ELSE {IndexOf(back)}

\* The slot the consumer moves from, copies from or destroys next.
ConsumerSlots ==
  IF cpc \in {"move", "destroy", "copy"} THEN {IndexOf(front)}
  ELSE IF cpc = "clearing" /\ cursor # bound THEN {IndexOf(cursor)}
  ELSE {}

\* The two sides are never in the same slot, although neither locks it: the
\* data race the index protocol exists to exclude.
NoSlotRace == ProducerSlots \cap ConsumerSlots = {}

\* How many elements at the front the consumer has destroyed but not retired.
Destroyed ==
  IF cpc = "retire" THEN 1
  ELSE IF cpc = "clearing" THEN Distance(front, cursor)
  ELSE 0

\* How many elements are built: the published ones and the one in the making.
Built == Size + (IF ppc = "publish" THEN 1 ELSE 0)

\* The slots of the elements numbered m to n - 1, counting from index f.
Window(f, m, n) == {IndexOf(f + k) : k \in m .. n - 1}

\* Object lifetime: the live slots are exactly those from the consumer's
\* progress to the producer's.  So nothing is constructed over a live object,
\* nothing dead is moved, copied or destroyed again, nothing leaks, and there
\* are never more than Capacity objects, across the wrap of both indices.
LifetimeExact ==
  /\ Destroyed <= Size
  /\ Built <= Capacity
  /\ alive = Window(front, Destroyed, Built)

\* What each side knows in the middle of an operation, whatever the other has
\* done since: the producer its room, the consumer its element, clear() its
\* range.
ControlInv ==
  /\ ppc = "construct" => Size < Capacity
  /\ cpc \in {"move", "destroy", "retire", "copy"} => Size > 0
  /\ cpc = "clearing" => /\ Distance(front, cursor) <= Distance(front, bound)
                         /\ Distance(front, bound) <= Size

\* The inductive invariant: what the other properties are proved from.
IInv == TypeOK /\ LifetimeExact /\ ControlInv

\* The queue implements a bounded FIFO: no value is lost, duplicated or
\* reordered, try_push fails only when it is full and try_pop only when it is
\* empty, whatever the other side is in the middle of.
Fifo == INSTANCE BoundedFifo
          WITH q <- [k \in 1 .. Size |-> data[IndexOf(front + k - 1)]]

ImplementsFifo == Fifo!Spec

\* Every call returns (wait-freedom), clear() included, however fast the
\* other side pushes.
OperationsComplete ==
  /\ ppc # "idle" ~> ppc = "idle"
  /\ cpc # "idle" ~> cpc = "idle"
=============================================================================
