------------------------- MODULE IsrSpscQueueProofs -------------------------
(***************************************************************************)
(* The safety of emb::isr_spsc_inplace_queue for every Capacity, every     *)
(* index width and every set of values: types, object lifetime, the        *)
(* absence of a data race on a slot, and that it implements BoundedFifo.   *)
(***************************************************************************)
EXTENDS IsrSpscQueue, ModArith, SequenceTheorems

LEMMA ConstantTypes ==
  /\ Capacity \in Nat \ {0}
  /\ IndexMod \in Nat
  /\ IndexMod >= 2 * Capacity
  /\ IndexMod % Capacity = 0
  BY QueueAssumption

LEMMA IndexOfType ==
  ASSUME NEW i \in Nat
  PROVE  IndexOf(i) \in Slots
<1>1. Capacity \in Nat \ {0}
  BY ConstantTypes
<1>2. i % Capacity \in 0 .. Capacity - 1
  BY <1>1, DivMod
<1> QED
  BY <1>2 DEF IndexOf, Slots

LEMMA IncrType ==
  ASSUME NEW i \in Indices
  PROVE  Incr(i) \in Indices
  BY ConstantTypes DEF Incr, Indices

LEMMA DistanceType ==
  ASSUME NEW f \in Indices, NEW b \in Indices
  PROVE  Distance(f, b) \in 0 .. IndexMod - 1
  BY ConstantTypes DEF Distance, Indices

-----------------------------------------------------------------------------
(* Wrapping does not move a slot: f + Distance(f, b) and b share one.      *)

LEMMA IndexOfWrap ==
  ASSUME NEW i \in Nat
  PROVE  IndexOf(i + IndexMod) = IndexOf(i)
<1>1. Capacity \in Nat \ {0} /\ IndexMod \in Nat /\ IndexMod % Capacity = 0
  BY ConstantTypes
<1>2. (i + IndexMod) % Capacity = i % Capacity
  BY <1>1, ModShift
<1> QED
  BY <1>2 DEF IndexOf

LEMMA SlotAtDistance ==
  ASSUME NEW f \in Indices, NEW b \in Indices, NEW k \in Nat
  PROVE  IndexOf(f + (Distance(f, b) + k)) = IndexOf(b + k)
<1>1. CASE b >= f
  <2>1. f + (Distance(f, b) + k) = b + k
    BY <1>1, ConstantTypes DEF Distance, Indices
  <2> QED BY <2>1
<1>2. CASE ~(b >= f)
  <2>1. f + (Distance(f, b) + k) = (b + k) + IndexMod
    BY <1>2, ConstantTypes DEF Distance, Indices
  <2>2. b + k \in Nat
    BY ConstantTypes DEF Indices
  <2> QED BY <2>1, <2>2, IndexOfWrap
<1> QED
  BY <1>1, <1>2

LEMMA SlotAfterIncr ==
  ASSUME NEW f \in Indices, NEW k \in Nat
  PROVE  IndexOf(Incr(f) + k) = IndexOf(f + (k + 1))
<1>1. CASE f = IndexMod - 1
  <2>1. Incr(f) + k = k /\ f + (k + 1) = k + IndexMod
    BY <1>1, ConstantTypes DEF Incr, Indices
  <2> QED BY <2>1, IndexOfWrap
<1>2. CASE f # IndexMod - 1
  <2>1. Incr(f) + k = f + (k + 1)
    BY <1>2, ConstantTypes DEF Incr, Indices
  <2> QED BY <2>1
<1> QED
  BY <1>1, <1>2

\* Slots less than Capacity apart are different.
LEMMA SlotsDiffer ==
  ASSUME NEW f \in Nat, NEW j \in Nat, NEW k \in Nat, j < k, k < j + Capacity
  PROVE  IndexOf(f + j) # IndexOf(f + k)
<1>1. Capacity \in Nat \ {0}
  BY ConstantTypes
<1>2. f + j \in Nat /\ f + k \in Nat /\ f + j < f + k /\ f + k < (f + j) + Capacity
  BY <1>1
<1>3. (f + j) % Capacity # (f + k) % Capacity
  BY <1>1, <1>2, ModWindow
<1> QED
  BY <1>3 DEF IndexOf

-----------------------------------------------------------------------------
(* Distances between the indices.                                          *)

LEMMA DistanceZero ==
  ASSUME NEW f \in Indices, NEW b \in Indices
  PROVE  (Distance(f, b) = 0) <=> (f = b)
  BY ConstantTypes DEF Distance, Indices

LEMMA DistanceInjective ==
  ASSUME NEW f \in Indices, NEW b \in Indices, NEW c \in Indices,
         Distance(f, b) = Distance(f, c)
  PROVE  b = c
  BY ConstantTypes DEF Distance, Indices

LEMMA DistanceIncrBack ==
  ASSUME NEW f \in Indices, NEW b \in Indices, Distance(f, b) < IndexMod - 1
  PROVE  Distance(f, Incr(b)) = Distance(f, b) + 1
  BY ConstantTypes DEF Distance, Incr, Indices

LEMMA DistanceIncrFront ==
  ASSUME NEW f \in Indices, NEW b \in Indices, Distance(f, b) > 0
  PROVE  Distance(Incr(f), b) = Distance(f, b) - 1
  BY ConstantTypes DEF Distance, Incr, Indices

LEMMA DistanceSplit ==
  ASSUME NEW f \in Indices, NEW g \in Indices, NEW b \in Indices,
         Distance(f, g) <= Distance(f, b)
  PROVE  Distance(g, b) = Distance(f, b) - Distance(f, g)
  BY ConstantTypes DEF Distance, Indices

-----------------------------------------------------------------------------
(* Windows: how a step of each side changes the set of live slots.         *)

LEMMA WindowGrow ==
  ASSUME NEW f \in Indices, NEW m \in Nat, NEW n \in Nat, m <= n
  PROVE  Window(f, m, n + 1) = Window(f, m, n) \cup {IndexOf(f + n)}
<1>1. (m .. (n + 1) - 1) = (m .. n - 1) \cup {n}
  OBVIOUS
<1> QED
  BY <1>1, Zenon DEF Window

LEMMA WindowShrink ==
  ASSUME NEW f \in Indices, NEW m \in Nat, NEW n \in Nat, m < n, n <= m + Capacity
  PROVE  Window(f, m, n) \ {IndexOf(f + m)} = Window(f, m + 1, n)
<1>1. (m .. n - 1) = {m} \cup ((m + 1) .. n - 1)
  OBVIOUS
<1>2. ASSUME NEW k \in (m + 1) .. n - 1
      PROVE  IndexOf(f + m) # IndexOf(f + k)
  <2>1. f \in Nat /\ k \in Nat /\ m < k /\ k < m + Capacity
    BY ConstantTypes DEF Indices
  <2> QED
    BY <2>1, SlotsDiffer
<1> QED
  BY <1>1, <1>2, Zenon DEF Window

\* Counting from an index further on renumbers the window.
LEMMA WindowShift ==
  ASSUME NEW f \in Indices, NEW g \in Indices, NEW n \in Nat, Distance(f, g) <= n
  PROVE  Window(f, Distance(f, g), n) = Window(g, 0, n - Distance(f, g))
<1> DEFINE d == Distance(f, g)
<1>1. d \in Nat /\ d <= n
  BY DistanceType, ConstantTypes
<1>2. \A k \in Nat : IndexOf(f + (d + k)) = IndexOf(g + k)
  BY SlotAtDistance
<1> HIDE DEF d
<1>3. ASSUME NEW k \in d .. n - 1
      PROVE  \E j \in 0 .. (n - d) - 1 : IndexOf(f + k) = IndexOf(g + j)
  <2>1. k - d \in 0 .. (n - d) - 1 /\ k - d \in Nat /\ k = d + (k - d)
    BY <1>1
  <2>2. IndexOf(f + (d + (k - d))) = IndexOf(g + (k - d))
    BY <1>2, <2>1
  <2> QED
    BY <2>1, <2>2
<1>4. ASSUME NEW j \in 0 .. (n - d) - 1
      PROVE  \E k \in d .. n - 1 : IndexOf(g + j) = IndexOf(f + k)
  <2>1. d + j \in d .. n - 1 /\ j \in Nat
    BY <1>1
  <2>2. IndexOf(f + (d + j)) = IndexOf(g + j)
    BY <1>2, <2>1
  <2> QED
    BY <2>1, <2>2
<1>5. Window(f, d, n) = Window(g, 0, n - d)
  BY <1>3, <1>4 DEF Window
<1> QED
  BY <1>5 DEF d

-----------------------------------------------------------------------------
(* Types.                                                                  *)

LEMMA TypeInit == Init => TypeOK
<1> SUFFICES ASSUME Init PROVE TypeOK
  OBVIOUS
<1>1. 0 \in Indices
  BY ConstantTypes DEF Indices
<1> QED
  BY <1>1 DEF Init, TypeOK

LEMMA TypeStep == TypeOK /\ [Next]_vars => TypeOK'
<1> SUFFICES ASSUME TypeOK, [Next]_vars PROVE TypeOK'
  OBVIOUS
<1>0. 0 \in Indices
  BY ConstantTypes DEF Indices
<1>t. back \in Nat /\ front \in Nat /\ cursor \in Nat
  BY ConstantTypes DEF TypeOK, Indices
<1> USE DEF TypeOK, producerVars, consumerVars, slotVars
<1>1. CASE Construct
  <2>1. IndexOf(back) \in Slots
    BY <1>t, IndexOfType
  <2> QED
    BY <1>1, <2>1 DEF Construct
<1>2. CASE Publish
  <2>1. Incr(back) \in Indices
    BY IncrType
  <2> QED
    BY <1>2, <2>1 DEF Publish
<1>3. CASE MoveOut
  <2>1. IndexOf(front) \in Slots
    BY <1>t, IndexOfType
  <2> QED
    BY <1>3, <2>1 DEF MoveOut
<1>4. CASE DestroyHead
  BY <1>4 DEF DestroyHead
<1>5. CASE Retire
  <2>1. Incr(front) \in Indices
    BY IncrType
  <2> QED
    BY <1>5, <2>1 DEF Retire
<1>6. CASE CopyHead
  <2>1. IndexOf(front) \in Slots
    BY <1>t, IndexOfType
  <2> QED
    BY <1>6, <2>1 DEF CopyHead
<1>7. CASE ClearSlot
  <2>1. Incr(cursor) \in Indices
    BY IncrType
  <2> QED
    BY <1>7, <2>1 DEF ClearSlot
<1>8. CASE ClearDone
  BY <1>0, <1>8 DEF ClearDone
<1>9. CASE TryEmplaceFull
  BY <1>9 DEF TryEmplaceFull
<1>10. ASSUME NEW v \in Values, TryEmplaceRoom(v) PROVE TypeOK'
  BY <1>10 DEF TryEmplaceRoom
<1>11. CASE FindEmpty
  BY <1>11 DEF FindEmpty
<1>12. CASE TryPop
  BY <1>12 DEF TryPop
<1>13. CASE Front
  BY <1>13 DEF Front
<1>14. CASE Clear
  BY <1>14 DEF Clear
<1>15. CASE UNCHANGED vars
  BY <1>15 DEF vars
<1> QED
  BY <1>1, <1>2, <1>3, <1>4, <1>5, <1>6, <1>7, <1>8, <1>9, <1>10, <1>11, <1>12,
     <1>13, <1>14, <1>15
     DEF Next, ProducerStep, ConsumerStep, ProducerCall, ConsumerCall

\* Every variable keeps its type: the indices stay below 2^w and every slot
\* number below Capacity.
THEOREM TypeCorrect == Spec => []TypeOK
  BY TypeInit, TypeStep, PTL DEF Spec

-----------------------------------------------------------------------------
(* The inductive invariant.                                                *)

\* The ranges every step of the proof below needs.
LEMMA Ranges ==
  ASSUME TypeOK
  PROVE  /\ Capacity \in Nat \ {0} /\ IndexMod \in Nat
         /\ front \in Nat /\ back \in Nat /\ cursor \in Nat /\ bound \in Nat
         /\ Size \in Nat
         /\ Distance(front, cursor) \in Nat
         /\ Distance(front, bound) \in Nat
<1>1. front \in Indices /\ back \in Indices /\ cursor \in Indices /\ bound \in Indices
  BY DEF TypeOK
<1>2. Size \in Nat /\ Distance(front, cursor) \in Nat /\ Distance(front, bound) \in Nat
  BY <1>1, DistanceType, ConstantTypes DEF Size
<1> QED
  BY <1>1, <1>2, ConstantTypes DEF Indices

LEMMA InvInit == Init => IInv
<1> SUFFICES ASSUME Init PROVE IInv
  OBVIOUS
<1>1. TypeOK
  BY TypeInit
<1>2. 0 \in Indices
  BY ConstantTypes DEF Indices
<1>3. Size = 0
  BY <1>2, DistanceZero DEF Init, Size
<1>4. Destroyed = 0 /\ Built = 0
  BY <1>3 DEF Init, Destroyed, Built
<1>5. Window(front, 0, 0) = {}
  BY DEF Window
<1>6. LifetimeExact
  BY <1>3, <1>4, <1>5, ConstantTypes DEF LifetimeExact, Init
<1>7. ControlInv
  BY <1>3 DEF ControlInv, Init
<1> QED
  BY <1>1, <1>6, <1>7 DEF IInv

\* The producer builds its element in the first free slot.
LEMMA InvConstruct == IInv /\ Construct => LifetimeExact' /\ ControlInv'
<1> SUFFICES ASSUME IInv, Construct PROVE LifetimeExact' /\ ControlInv'
  OBVIOUS
<1> USE DEF IInv, slotVars, consumerVars
<1>1. TypeOK /\ ppc = "construct" /\ ppc' = "publish" /\ alive' = alive \cup {IndexOf(back)}
      /\ UNCHANGED <<front, back, cpc, cursor, bound>>
  BY DEF Construct
<1>2. Size' = Size /\ Destroyed' = Destroyed
  BY <1>1 DEF Size, Destroyed
<1>3. Built = Size /\ Built' = Size + 1
  BY <1>1, <1>2, Ranges DEF Built
<1>4. IndexOf(front + Size) = IndexOf(back)
  BY <1>1, SlotAtDistance, Ranges DEF TypeOK, Size
<1>5. Destroyed \in Nat /\ Destroyed <= Size /\ Size < Capacity
  BY <1>1, Ranges DEF Destroyed, LifetimeExact, ControlInv
<1>6. Window(front, Destroyed, Size + 1) = Window(front, Destroyed, Size) \cup {IndexOf(front + Size)}
  BY <1>1, <1>5, WindowGrow, Ranges DEF TypeOK
<1>7. LifetimeExact'
  BY <1>1, <1>2, <1>3, <1>4, <1>5, <1>6, Ranges DEF LifetimeExact, Window
<1>8. ControlInv'
  BY <1>1, <1>2 DEF ControlInv
<1> QED
  BY <1>7, <1>8

\* Publishing an element moves it from the one in the making to the published.
LEMMA InvPublish == IInv /\ Publish => LifetimeExact' /\ ControlInv'
<1> SUFFICES ASSUME IInv, Publish PROVE LifetimeExact' /\ ControlInv'
  OBVIOUS
<1> USE DEF IInv, slotVars, consumerVars
<1>1. TypeOK /\ ppc = "publish" /\ ppc' = "idle" /\ back' = Incr(back)
      /\ UNCHANGED <<front, alive, cpc, cursor, bound>>
  BY DEF Publish
<1>2. Built = Size + 1 /\ Built <= Capacity /\ Destroyed <= Size /\ alive = Window(front, Destroyed, Built)
  BY <1>1 DEF Built, LifetimeExact
<1>3. Size' = Size + 1
  <2>1. Distance(front, back) < IndexMod - 1
    BY <1>2, <1>1, ConstantTypes, Ranges DEF Size
  <2> QED
    BY <1>1, <2>1, DistanceIncrBack DEF TypeOK, Size
<1>4. Destroyed' = Destroyed
  BY <1>1 DEF Destroyed
<1>5. Built' = Built
  BY <1>1, <1>2, <1>3, Ranges DEF Built
<1>6. LifetimeExact'
  <2>1. Destroyed \in Nat /\ Size \in Nat
    BY <1>1, Ranges DEF Destroyed
  <2>2. Window(front, Destroyed, Built)' = Window(front, Destroyed, Built)
    BY <1>1, <1>4, <1>5 DEF Window
  <2> QED
    BY <1>1, <1>2, <1>3, <1>4, <1>5, <2>1, <2>2 DEF LifetimeExact
<1>7. ControlInv'
  BY <1>1, <1>3, Ranges DEF ControlInv
<1> QED
  BY <1>6, <1>7

\* Destroying the head shrinks the window at its front.
LEMMA InvDestroyHead == IInv /\ DestroyHead => LifetimeExact' /\ ControlInv'
<1> SUFFICES ASSUME IInv, DestroyHead PROVE LifetimeExact' /\ ControlInv'
  OBVIOUS
<1> USE DEF IInv, producerVars
<1>1. TypeOK /\ cpc = "destroy" /\ cpc' = "retire" /\ alive' = alive \ {IndexOf(front)}
      /\ UNCHANGED <<front, back, ppc, cursor, bound>>
  BY DEF DestroyHead
<1>2. Size' = Size /\ Built' = Built /\ Destroyed = 0 /\ Destroyed' = 1
  BY <1>1 DEF Size, Built, Destroyed
<1>3. Size \in Nat /\ Size > 0 /\ Built \in Nat /\ Built > 0 /\ Built <= Capacity
  BY <1>1, Ranges DEF ControlInv, Built, LifetimeExact
<1>4. Window(front, 0, Built) \ {IndexOf(front + 0)} = Window(front, 0 + 1, Built)
  BY <1>1, <1>3, WindowShrink, ConstantTypes DEF TypeOK
<1>5. front + 0 = front
  BY <1>1, Ranges
<1>6. LifetimeExact'
  <2>1. Window(front, Destroyed, Built)' = Window(front, 1, Built)
    BY <1>1, <1>2 DEF Window
  <2> QED
    BY <1>1, <1>2, <1>3, <1>4, <1>5, <2>1 DEF LifetimeExact
<1>7. ControlInv'
  BY <1>1, <1>2, <1>3 DEF ControlInv
<1> QED
  BY <1>6, <1>7

\* Retiring the destroyed head renumbers the window.
LEMMA InvRetire == IInv /\ Retire => LifetimeExact' /\ ControlInv'
<1> SUFFICES ASSUME IInv, Retire PROVE LifetimeExact' /\ ControlInv'
  OBVIOUS
<1> USE DEF IInv, producerVars, slotVars
<1>1. TypeOK /\ cpc = "retire" /\ cpc' = "idle" /\ front' = Incr(front)
      /\ UNCHANGED <<back, alive, ppc, cursor, bound>>
  BY DEF Retire
<1>2. Size \in Nat /\ Size > 0 /\ Size' = Size - 1
  BY <1>1, Ranges, DistanceIncrFront DEF ControlInv, TypeOK, Size
<1>3. Destroyed = 1 /\ Destroyed' = 0 /\ Built' = Built - 1
  BY <1>1, <1>2 DEF Destroyed, Built
<1>4. Built \in Nat /\ Built > 0 /\ Built <= Capacity /\ alive = Window(front, 1, Built)
  BY <1>1, <1>2, <1>3 DEF Built, LifetimeExact
<1>5. Incr(front) \in Indices /\ Distance(front, Incr(front)) = 1
  <2>1. front \in Indices
    BY <1>1 DEF TypeOK
  <2>2. Distance(front, front) = 0 /\ 0 < IndexMod - 1
    BY <2>1, DistanceZero, ConstantTypes
  <2> QED
    BY <2>1, <2>2, DistanceIncrBack, IncrType
<1>6. Window(front, 1, Built) = Window(Incr(front), 0, Built - 1)
  BY <1>1, <1>4, <1>5, WindowShift DEF TypeOK
<1>7. LifetimeExact'
  <2>1. Window(front, Destroyed, Built)' = Window(Incr(front), 0, Built - 1)
    BY <1>1, <1>3 DEF Window
  <2> QED
    BY <1>1, <1>2, <1>3, <1>4, <1>6, <2>1, ConstantTypes DEF LifetimeExact
<1>8. ControlInv'
  BY <1>1, <1>2, Ranges DEF ControlInv
<1> QED
  BY <1>7, <1>8

\* clear() starts with nothing destroyed and all published elements to go.
LEMMA InvClear == IInv /\ Clear => LifetimeExact' /\ ControlInv'
<1> SUFFICES ASSUME IInv, Clear PROVE LifetimeExact' /\ ControlInv'
  OBVIOUS
<1> USE DEF IInv, producerVars, slotVars
<1>1. TypeOK /\ cpc = "idle" /\ cpc' = "clearing" /\ cursor' = front /\ bound' = back
      /\ UNCHANGED <<front, back, alive, ppc>>
  BY DEF Clear
<1>2. Distance(front, front) = 0
  BY <1>1, DistanceZero DEF TypeOK
<1>3. Size' = Size /\ Built' = Built /\ Destroyed = 0 /\ Destroyed' = 0
  BY <1>1, <1>2 DEF Size, Built, Destroyed
<1>4. LifetimeExact'
  BY <1>1, <1>3 DEF LifetimeExact, Window
<1>5. Distance(front, cursor)' = 0 /\ Distance(front, bound)' = Size
  BY <1>1, <1>2 DEF Size
<1>6. ControlInv'
  BY <1>1, <1>3, <1>5, Ranges DEF ControlInv
<1> QED
  BY <1>4, <1>6

\* One turn of clear()'s loop shrinks the window at the cursor.
LEMMA InvClearSlot == IInv /\ ClearSlot => LifetimeExact' /\ ControlInv'
<1> SUFFICES ASSUME IInv, ClearSlot PROVE LifetimeExact' /\ ControlInv'
  OBVIOUS
<1> DEFINE d == Distance(front, cursor)
<1> USE DEF IInv, producerVars
<1>1. TypeOK /\ cpc = "clearing" /\ cpc' = "clearing" /\ cursor # bound
      /\ alive' = alive \ {IndexOf(cursor)} /\ cursor' = Incr(cursor)
      /\ UNCHANGED <<front, back, ppc, bound>>
  BY DEF ClearSlot
<1>2. Size \in Nat /\ d \in Nat /\ Distance(front, bound) \in Nat
  BY <1>1, Ranges
<1>3. d < Distance(front, bound) /\ Distance(front, bound) <= Size
  <2>1. d # Distance(front, bound)
    BY <1>1, DistanceInjective DEF TypeOK
  <2> QED
    BY <1>1, <1>2, <2>1 DEF ControlInv
<1>4. Size' = Size /\ Built' = Built
  BY <1>1 DEF Size, Built
<1>5. Built \in Nat /\ Size <= Built /\ Built <= Capacity
  BY <1>1, <1>2, ConstantTypes DEF Built, LifetimeExact
<1>6. Distance(front, Incr(cursor)) = d + 1
  <2>1. d < IndexMod - 1
    BY <1>2, <1>3, <1>5, ConstantTypes
  <2> QED
    BY <1>1, <2>1, DistanceIncrBack DEF TypeOK
<1>7. Destroyed = d /\ Destroyed' = d + 1
  BY <1>1, <1>6 DEF Destroyed
<1>8. IndexOf(front + d) = IndexOf(cursor)
  BY <1>1, <1>2, SlotAtDistance, Ranges DEF TypeOK
<1> HIDE DEF d
<1>9. Window(front, d, Built) \ {IndexOf(front + d)} = Window(front, d + 1, Built)
  BY <1>1, <1>2, <1>3, <1>5, WindowShrink, ConstantTypes DEF TypeOK
<1>10. LifetimeExact'
  <2>1. Window(front, Destroyed, Built)' = Window(front, d + 1, Built)
    BY <1>1, <1>4, <1>7 DEF Window
  <2> QED
    BY <1>1, <1>2, <1>3, <1>4, <1>5, <1>7, <1>8, <1>9, <2>1 DEF LifetimeExact
<1>11. ControlInv'
  <2>1. Distance(front, cursor)' = d + 1 /\ Distance(front, bound)' = Distance(front, bound)
    BY <1>1, <1>6
  <2> QED
    BY <1>1, <1>2, <1>3, <1>4, <2>1 DEF ControlInv
<1> QED
  BY <1>10, <1>11

\* The end of clear() retires all it destroyed at once.
LEMMA InvClearDone == IInv /\ ClearDone => LifetimeExact' /\ ControlInv'
<1> SUFFICES ASSUME IInv, ClearDone PROVE LifetimeExact' /\ ControlInv'
  OBVIOUS
<1> DEFINE d == Distance(front, bound)
<1> USE DEF IInv, producerVars, slotVars
<1>1. TypeOK /\ cpc = "clearing" /\ cpc' = "idle" /\ cursor = bound /\ front' = bound
      /\ UNCHANGED <<back, alive, ppc>>
  BY DEF ClearDone
<1>2. Size \in Nat /\ d \in Nat /\ d <= Size
  BY <1>1, Ranges DEF ControlInv
<1>3. Size' = Size - d
  BY <1>1, <1>2, DistanceSplit DEF TypeOK, Size
<1>4. Destroyed = d /\ Destroyed' = 0
  BY <1>1 DEF Destroyed
<1> HIDE DEF d
<1>5. Built \in Nat /\ Size <= Built /\ Built <= Capacity /\ Built' = Built - d
  BY <1>1, <1>2, <1>3, ConstantTypes DEF Built, LifetimeExact
<1>6. Window(front, d, Built) = Window(bound, 0, Built - d)
  BY <1>1, <1>2, <1>5, WindowShift DEF TypeOK, d
<1>7. LifetimeExact'
  <2>1. Window(front, Destroyed, Built)' = Window(bound, 0, Built - d)
    BY <1>1, <1>4, <1>5 DEF Window
  <2> QED
    BY <1>1, <1>2, <1>3, <1>4, <1>5, <1>6, <2>1, ConstantTypes DEF LifetimeExact
<1>8. ControlInv'
  <2>1. ppc = "construct" => Size' < Capacity
    BY <1>1, <1>2, <1>3, ConstantTypes DEF ControlInv
  <2> QED
    BY <1>1, <2>1 DEF ControlInv
<1> QED
  BY <1>7, <1>8

\* A step that moves no index and destroys and builds nothing keeps the
\* lifetimes.
LEMMA InvQuiet ==
  ASSUME IInv, UNCHANGED <<front, back, alive>>,
         Destroyed' = Destroyed, (ppc' = "publish") <=> (ppc = "publish")
  PROVE  LifetimeExact'
<1>1. Size' = Size
  BY DEF Size
<1>2. Built' = Built
  BY <1>1 DEF Built
<1>3. Window(front, Destroyed, Built)' = Window(front, Destroyed, Built)
  BY <1>2 DEF Window
<1> QED
  BY <1>1, <1>2, <1>3 DEF IInv, LifetimeExact

LEMMA InvStep == IInv /\ [Next]_vars => IInv'
<1> SUFFICES ASSUME IInv, [Next]_vars PROVE IInv'
  OBVIOUS
<1>0. TypeOK /\ TypeOK'
  BY TypeStep DEF IInv
<1>s. Size \in Nat /\ Size <= Capacity /\ (Size = 0 <=> front = back)
  BY <1>0, Ranges, ConstantTypes, DistanceZero DEF IInv, LifetimeExact, Built, Size, TypeOK
<1> SUFFICES LifetimeExact' /\ ControlInv'
  BY <1>0 DEF IInv
<1> USE DEF producerVars, consumerVars, slotVars
<1>1. CASE Construct
  BY <1>1, InvConstruct
<1>2. CASE Publish
  BY <1>2, InvPublish
<1>3. CASE MoveOut
  <2>1. Destroyed' = Destroyed
    BY <1>3 DEF MoveOut, Destroyed
  <2>2. LifetimeExact'
    BY <1>3, <2>1, InvQuiet DEF MoveOut
  <2> QED
    BY <1>3, <2>2 DEF MoveOut, IInv, ControlInv, Size
<1>4. CASE DestroyHead
  BY <1>4, InvDestroyHead
<1>5. CASE Retire
  BY <1>5, InvRetire
<1>6. CASE CopyHead
  <2>1. Destroyed' = Destroyed
    BY <1>6 DEF CopyHead, Destroyed
  <2>2. LifetimeExact'
    BY <1>6, <2>1, InvQuiet DEF CopyHead
  <2> QED
    BY <1>6, <2>2 DEF CopyHead, IInv, ControlInv, Size
<1>7. CASE ClearSlot
  BY <1>7, InvClearSlot
<1>8. CASE ClearDone
  BY <1>8, InvClearDone
<1>9. CASE TryEmplaceFull
  <2>1. Destroyed' = Destroyed
    BY <1>9 DEF TryEmplaceFull, Destroyed
  <2>2. LifetimeExact'
    BY <1>9, <2>1, InvQuiet DEF TryEmplaceFull
  <2> QED
    BY <1>9, <2>2 DEF TryEmplaceFull, IInv, ControlInv, Size
<1>10. ASSUME NEW v \in Values, TryEmplaceRoom(v) PROVE LifetimeExact' /\ ControlInv'
  <2>1. Destroyed' = Destroyed
    BY <1>10 DEF TryEmplaceRoom, Destroyed
  <2>2. LifetimeExact'
    BY <1>10, <2>1, InvQuiet DEF TryEmplaceRoom
  <2>3. Size < Capacity
    BY <1>10, <1>s, ConstantTypes DEF TryEmplaceRoom
  <2> QED
    BY <1>10, <2>2, <2>3 DEF TryEmplaceRoom, IInv, ControlInv, Size
<1>11. CASE FindEmpty
  <2>1. Destroyed' = Destroyed
    BY <1>11 DEF FindEmpty, Destroyed
  <2>2. LifetimeExact'
    BY <1>11, <2>1, InvQuiet DEF FindEmpty
  <2> QED
    BY <1>11, <2>2 DEF FindEmpty, IInv, ControlInv, Size
<1>12. CASE TryPop
  <2>1. Destroyed' = Destroyed
    BY <1>12 DEF TryPop, Destroyed
  <2>2. LifetimeExact'
    BY <1>12, <2>1, InvQuiet DEF TryPop
  <2>3. Size' = Size /\ Size > 0
    BY <1>12, <1>s DEF TryPop, Size
  <2> QED
    BY <1>12, <2>2, <2>3 DEF TryPop, IInv, ControlInv
<1>13. CASE Front
  <2>1. Destroyed' = Destroyed
    BY <1>13 DEF Front, Destroyed
  <2>2. LifetimeExact'
    BY <1>13, <2>1, InvQuiet DEF Front
  <2>3. Size' = Size /\ Size > 0
    BY <1>13, <1>s DEF Front, Size
  <2> QED
    BY <1>13, <2>2, <2>3 DEF Front, IInv, ControlInv
<1>14. CASE Clear
  BY <1>14, InvClear
<1>15. CASE UNCHANGED vars
  <2>1. Destroyed' = Destroyed
    BY <1>15 DEF vars, Destroyed
  <2>2. LifetimeExact'
    BY <1>15, <2>1, InvQuiet DEF vars
  <2> QED
    BY <1>15, <2>2 DEF vars, IInv, ControlInv, Size
<1> QED
  BY <1>1, <1>2, <1>3, <1>4, <1>5, <1>6, <1>7, <1>8, <1>9, <1>10, <1>11, <1>12,
     <1>13, <1>14, <1>15
     DEF Next, ProducerStep, ConsumerStep, ProducerCall, ConsumerCall

\* Between the first step of an operation and its last, whatever the other side
\* does, the queue is in the states the inductive invariant describes.
THEOREM Invariance == Spec => []IInv
  BY InvInit, InvStep, PTL DEF Spec

\* Objects are built only in raw slots and moved, copied and destroyed only
\* while alive, nothing leaks, and there are never more than Capacity.
THEOREM Lifetimes == Spec => []LifetimeExact
<1>1. IInv => LifetimeExact
  BY DEF IInv
<1> QED
  BY <1>1, Invariance, PTL

LEMMA InvNoRace == IInv => NoSlotRace
<1> SUFFICES ASSUME IInv, ppc # "idle",
                    NEW s \in ConsumerSlots, s = IndexOf(back)
             PROVE  FALSE
  BY DEF NoSlotRace, ProducerSlots
<1> USE DEF IInv
<1>1. TypeOK /\ Size \in Nat /\ front \in Nat /\ back \in Nat
  BY Ranges
<1>2. Size < Capacity
  BY <1>1, ConstantTypes DEF TypeOK, ControlInv, LifetimeExact, Built
<1>3. IndexOf(front + Size) = IndexOf(back)
  <2>1. IndexOf(front + (Distance(front, back) + 0)) = IndexOf(back + 0)
    BY <1>1, SlotAtDistance DEF TypeOK
  <2> QED
    BY <1>1, <2>1 DEF Size
<1>4. CASE cpc \in {"move", "destroy", "copy"}
  <2>1. s = IndexOf(front + 0) /\ 0 < Size
    BY <1>1, <1>4 DEF ConsumerSlots, ControlInv
  <2>2. 0 \in Nat /\ Size < 0 + Capacity
    BY <1>1, <1>2, ConstantTypes
  <2>3. IndexOf(front + 0) # IndexOf(front + Size)
    BY <1>1, <2>1, <2>2, SlotsDiffer
  <2> QED
    BY <1>3, <2>1, <2>3
<1>5. CASE cpc = "clearing" /\ cursor # bound
  <2> DEFINE d == Distance(front, cursor)
  <2>1. d \in Nat /\ d < Size
    <3>1. d # Distance(front, bound)
      BY <1>1, <1>5, DistanceInjective DEF TypeOK
    <3> QED
      BY <1>1, <1>5, <3>1, Ranges DEF ControlInv
  <2>2. s = IndexOf(front + d)
    <3>1. IndexOf(front + (d + 0)) = IndexOf(cursor + 0)
      BY <1>1, SlotAtDistance DEF TypeOK
    <3> QED
      BY <1>1, <1>5, <2>1, <3>1, Ranges DEF ConsumerSlots
  <2> HIDE DEF d
  <2>3. Size < d + Capacity
    BY <1>1, <1>2, <2>1, ConstantTypes
  <2>4. IndexOf(front + d) # IndexOf(front + Size)
    BY <1>1, <2>1, <2>3, SlotsDiffer
  <2> QED
    BY <1>3, <2>2, <2>4
<1> QED
  BY <1>4, <1>5 DEF ConsumerSlots

\* The producer and the consumer are never in the same slot.
THEOREM RaceFreedom == Spec => []NoSlotRace
  BY Invariance, InvNoRace, PTL

-----------------------------------------------------------------------------
(* The refinement: the elements between the indices are a FIFO.            *)

\* What was built is published, and what was moved out is retired: the element in
\* the making is the argument, and the one taken is still in the memory of its slot.
ValueInv ==
  /\ ppc # "idle" => pval \in Values
  /\ ppc = "publish" => data[IndexOf(back)] = pval
  /\ cpc \in {"destroy", "retire"} => got = data[IndexOf(front)]

LEMMA ValueInit == Init => ValueInv
BY DEF Init, ValueInv

\* The slot in the making is none of those that are published.
LEMMA NotPublished ==
  ASSUME IInv, ppc # "idle", NEW k \in Nat, k < Size
  PROVE  IndexOf(front + k) # IndexOf(back)
<1>1. TypeOK /\ Size \in Nat /\ front \in Nat /\ back \in Nat /\ Capacity \in Nat
  BY Ranges DEF IInv
<1>2. Size < Capacity
  BY <1>1 DEF IInv, TypeOK, ControlInv, LifetimeExact, Built
<1>3. IndexOf(front + Size) = IndexOf(back)
  BY <1>1, SlotAtDistance DEF TypeOK, Size
<1>4. Size < k + Capacity
  BY <1>1, <1>2
<1>5. IndexOf(front + k) # IndexOf(front + Size)
  BY <1>1, <1>4, SlotsDiffer
<1>6. QED
  BY <1>3, <1>5

LEMMA ValueStep == IInv /\ ValueInv /\ [Next]_vars => ValueInv'
<1> SUFFICES ASSUME IInv, ValueInv, [Next]_vars PROVE ValueInv'
  OBVIOUS
<1>0. TypeOK /\ front \in Nat /\ back \in Nat
  BY Ranges DEF IInv
<1> USE DEF producerVars, consumerVars, slotVars, ValueInv
<1>1. CASE Construct
  <2>1. IndexOf(back) \in Slots
    BY <1>0, IndexOfType
  <2>2. data'[IndexOf(back)] = pval
    BY <1>0, <1>1, <2>1 DEF Construct, TypeOK
  <2>3. cpc \in {"destroy", "retire"} => data'[IndexOf(front)] = data[IndexOf(front)]
    <3> SUFFICES ASSUME cpc \in {"destroy", "retire"}
                 PROVE  data'[IndexOf(front)] = data[IndexOf(front)]
      OBVIOUS
    <3>1. 0 < Size /\ front + 0 = front
      BY <1>0 DEF IInv, ControlInv
    <3>2. IndexOf(front) # IndexOf(back)
      BY <1>1, <3>1, NotPublished DEF Construct
    <3>3. IndexOf(front) \in Slots
      BY <1>0, IndexOfType
    <3>4. QED
      BY <1>0, <1>1, <3>2, <3>3 DEF Construct, TypeOK
  <2>4. QED
    BY <1>1, <2>2, <2>3 DEF Construct
<1>2. CASE Publish
  BY <1>2 DEF Publish
<1>3. CASE MoveOut
  BY <1>3 DEF MoveOut
<1>4. CASE DestroyHead
  BY <1>4 DEF DestroyHead
<1>5. CASE Retire
  BY <1>5 DEF Retire
<1>6. CASE CopyHead
  BY <1>6 DEF CopyHead
<1>7. CASE ClearSlot
  BY <1>7 DEF ClearSlot
<1>8. CASE ClearDone
  BY <1>8 DEF ClearDone
<1>9. CASE TryEmplaceFull
  BY <1>9 DEF TryEmplaceFull
<1>10. ASSUME NEW v \in Values, TryEmplaceRoom(v) PROVE ValueInv'
  BY <1>10 DEF TryEmplaceRoom
<1>11. CASE FindEmpty
  BY <1>11 DEF FindEmpty
<1>12. CASE TryPop \/ Front \/ Clear
  BY <1>12 DEF TryPop, Front, Clear
<1>13. CASE UNCHANGED vars
  BY <1>13 DEF vars
<1>14. QED
  BY <1>1, <1>2, <1>3, <1>4, <1>5, <1>6, <1>7, <1>8, <1>9, <1>10, <1>11, <1>12, <1>13
     DEF Next, ProducerStep, ConsumerStep, ProducerCall, ConsumerCall

\* The sequence that stands for the queue, and the element at a place of it.
Contents == [k \in 1 .. Size |-> data[IndexOf(front + k - 1)]]
Stored == Values \cup {NoValue}

ContentsHeld ==
  /\ Contents \in Seq(Stored)
  /\ Len(Contents) = Size
  /\ Size \in Nat
  /\ \A k \in 1 .. Size : Contents[k] = data[IndexOf(front + (k - 1))]

LEMMA ContentsTyped == TypeOK => ContentsHeld
<1> SUFFICES ASSUME TypeOK PROVE ContentsHeld
  OBVIOUS
<1>1. Size \in Nat /\ front \in Nat
  BY Ranges
<1>2. ASSUME NEW k \in 1 .. Size
      PROVE  /\ data[IndexOf(front + k - 1)] \in Stored
             /\ front + k - 1 = front + (k - 1)
  <2>1. front + k - 1 \in Nat /\ front + k - 1 = front + (k - 1)
    BY <1>1
  <2>2. IndexOf(front + k - 1) \in Slots
    BY <2>1, IndexOfType
  <2>3. QED
    BY <2>1, <2>2 DEF TypeOK, Stored
<1>3. Contents \in [1 .. Size -> Stored]
  BY <1>2 DEF Contents
<1>4. Contents \in Seq(Stored)
  BY <1>1, <1>3, SeqDef
<1>5. Len(Contents) = Size
  BY <1>1, <1>3, <1>4, LenProperties DEF Contents
<1>6. QED
  BY <1>1, <1>2, <1>4, <1>5 DEF Contents, ContentsHeld

LEMMA ContentsTypedNext == TypeOK' => ContentsHeld'
<1>1. TypeOK => ContentsHeld
  BY ContentsTyped
<1>2. QED
  BY <1>1, PTL

\* A step that moves no index and leaves the published slots alone is invisible.
LEMMA ContentsStay ==
  ASSUME UNCHANGED <<front, back>>,
         \A k \in 1 .. Size : data'[IndexOf(front + k - 1)] = data[IndexOf(front + k - 1)]
  PROVE  Contents' = Contents
BY DEF Contents, Size

LEMMA ConstructInvisible == IInv /\ Construct => Contents' = Contents
<1> SUFFICES ASSUME IInv, Construct PROVE Contents' = Contents
  OBVIOUS
<1>1. TypeOK /\ Size \in Nat /\ front \in Nat
  BY Ranges DEF IInv
<1>2. ASSUME NEW k \in 1 .. Size
      PROVE  data'[IndexOf(front + k - 1)] = data[IndexOf(front + k - 1)]
  <2>1. k - 1 \in Nat /\ k - 1 < Size /\ front + k - 1 = front + (k - 1)
    BY <1>1
  <2>2. IndexOf(front + k - 1) # IndexOf(back)
    BY <2>1, NotPublished DEF Construct
  <2>3. IndexOf(front + k - 1) \in Slots
    BY <1>1, <2>1, IndexOfType
  <2>4. QED
    BY <1>1, <2>2, <2>3 DEF Construct, TypeOK
<1>3. UNCHANGED <<front, back>>
  BY DEF Construct
<1>4. QED
  BY <1>2, <1>3, ContentsStay

LEMMA PublishPushes ==
  ASSUME IInv, IInv', ValueInv, Publish
  PROVE  /\ Len(Contents) < Capacity
         /\ Contents' = Append(Contents, pval)
<1>1. TypeOK /\ TypeOK' /\ pval \in Stored /\ front \in Nat /\ back \in Nat /\ Capacity \in Nat
  BY Ranges DEF IInv, ValueInv, Publish, Stored
<1>2. Size \in Nat /\ Size < Capacity
  BY <1>1, Ranges DEF IInv, LifetimeExact, Built, Publish
<1>3. Size' = Size + 1
  <2>1. Distance(front, back) < IndexMod - 1
    BY <1>2, ConstantTypes DEF Size
  <2>2. QED
    BY <1>1, <2>1, DistanceIncrBack DEF TypeOK, Size, Publish
<1>4. IndexOf(front + Size) = IndexOf(back)
  BY <1>1, <1>2, SlotAtDistance DEF TypeOK, Size
<1>5. /\ Contents \in Seq(Stored) /\ Len(Contents) = Size
      /\ \A k \in 1 .. Size : Contents[k] = data[IndexOf(front + (k - 1))]
  BY <1>1, ContentsTyped DEF ContentsHeld
<1>6. /\ Contents' \in Seq(Stored) /\ Len(Contents') = Size + 1
      /\ \A k \in 1 .. Size + 1 : Contents'[k] = data[IndexOf(front + (k - 1))]
  <2>1. /\ Contents' \in Seq(Stored) /\ Len(Contents') = Size'
        /\ \A k \in 1 .. Size' : Contents'[k] = data'[IndexOf(front' + (k - 1))]
    BY <1>1, ContentsTypedNext DEF ContentsHeld
  <2>2. data' = data /\ front' = front
    BY DEF Publish, slotVars
  <2>3. QED
    BY <1>3, <2>1, <2>2
<1> DEFINE appended == Append(Contents, pval)
<1>7. /\ appended \in Seq(Stored) /\ Len(appended) = Size + 1
      /\ \A k \in 1 .. Size : appended[k] = Contents[k]
      /\ appended[Size + 1] = pval
  BY <1>1, <1>5, AppendProperties
<1>8. \A k \in 1 .. Size + 1 : Contents'[k] = appended[k]
  <2> HIDE DEF appended
  <2>1. ASSUME NEW k \in 1 .. Size PROVE Contents'[k] = appended[k]
    BY <1>2, <1>5, <1>6, <1>7
  <2>2. (Size + 1) - 1 = Size /\ Size + 1 \in 1 .. Size + 1
    BY <1>2
  <2>3. data[IndexOf(front + ((Size + 1) - 1))] = pval
    BY <1>4, <2>2 DEF ValueInv, Publish
  <2>4. Contents'[Size + 1] = appended[Size + 1]
    BY <1>6, <1>7, <2>2, <2>3
  <2>5. QED
    BY <1>2, <2>1, <2>4
<1> HIDE DEF appended
<1>9. Contents' = appended
  BY <1>6, <1>7, <1>8, SeqEqual
<1>10. QED
  BY <1>2, <1>5, <1>9 DEF appended

\* The sequence that is left when the front has moved up by n.
LEMMA FrontMoves ==
  ASSUME TypeOK, TypeOK', data' = data, NEW n \in Nat, n <= Size, Size' = Size - n,
         \A k \in Nat : IndexOf(front' + k) = IndexOf(front + (n + k))
  PROVE  Contents' = SubSeq(Contents, n + 1, Size)
<1>1. /\ Contents \in Seq(Stored) /\ Len(Contents) = Size /\ Size \in Nat
      /\ \A k \in 1 .. Size : Contents[k] = data[IndexOf(front + (k - 1))]
  BY ContentsTyped DEF ContentsHeld
<1>2. /\ Contents' \in Seq(Stored) /\ Len(Contents') = Size - n
      /\ \A k \in 1 .. Size - n : Contents'[k] = data[IndexOf(front' + (k - 1))]
  <2>1. /\ Contents' \in Seq(Stored) /\ Len(Contents') = Size'
        /\ \A k \in 1 .. Size' : Contents'[k] = data'[IndexOf(front' + (k - 1))]
    BY ContentsTypedNext DEF ContentsHeld
  <2>2. QED
    BY <2>1
<1> DEFINE rest == SubSeq(Contents, n + 1, Size)
<1>3. \A i \in n + 1 .. Size : Contents[i] \in Stored
  BY <1>1, ElementOfSeq
<1>4. /\ rest \in Seq(Stored)
      /\ Len(rest) = (IF n + 1 <= Size THEN Size - (n + 1) + 1 ELSE 0)
      /\ \A i \in 1 .. Size - (n + 1) + 1 : rest[i] = Contents[(n + 1) + i - 1]
  BY <1>1, <1>3, SubSeqProperties
<1> HIDE DEF rest
<1>5. Len(rest) = Size - n
  BY <1>1, <1>4
<1>6. ASSUME NEW k \in 1 .. Size - n PROVE Contents'[k] = rest[k]
  <2>1. /\ k - 1 \in Nat /\ k \in 1 .. Size - (n + 1) + 1
        /\ (n + 1) + k - 1 \in 1 .. Size /\ ((n + 1) + k - 1) - 1 = n + (k - 1)
    BY <1>1
  <2>2. rest[k] = data[IndexOf(front + (n + (k - 1)))]
    BY <1>1, <1>4, <2>1
  <2>3. QED
    BY <1>2, <2>1, <2>2
<1>7. Contents' = rest
  BY <1>2, <1>4, <1>5, <1>6, SeqEqual
<1>8. QED
  BY <1>7 DEF rest

LEMMA Oldest ==
  ASSUME TypeOK, Size > 0
  PROVE  /\ Contents # << >>
         /\ Head(Contents) = data[IndexOf(front)]
         /\ Tail(Contents) = SubSeq(Contents, 2, Size)
<1>1. /\ Contents \in Seq(Stored) /\ Len(Contents) = Size /\ Size \in Nat /\ front \in Nat
      /\ \A k \in 1 .. Size : Contents[k] = data[IndexOf(front + (k - 1))]
  BY ContentsTyped, Ranges DEF ContentsHeld
<1>2. Contents # << >>
  BY <1>1, EmptySeq
<1>3. Contents[1] = data[IndexOf(front)]
  <2>1. 1 \in 1 .. Size /\ front + (1 - 1) = front
    BY <1>1
  <2>2. QED
    BY <1>1, <2>1
<1>4. Head(Contents) = Contents[1]
  BY <1>1, <1>2
<1>5. Tail(Contents) = SubSeq(Contents, 2, Size)
  BY <1>1, <1>2, TailIsSubSeq
<1>6. QED
  BY <1>2, <1>3, <1>4, <1>5

LEMMA RetirePops ==
  ASSUME IInv, IInv', Retire
  PROVE  Contents' = Tail(Contents) /\ Size > 0
<1>1. TypeOK /\ TypeOK' /\ Size \in Nat /\ Size > 0 /\ front \in Indices /\ data' = data
  BY Ranges DEF IInv, ControlInv, Retire, TypeOK, slotVars
<1>2. Size' = Size - 1
  BY <1>1, DistanceIncrFront DEF Retire, Size, TypeOK
<1>3. ASSUME NEW k \in Nat PROVE IndexOf(front' + k) = IndexOf(front + (1 + k))
  <2>1. IndexOf(front' + k) = IndexOf(front + (k + 1))
    BY <1>1, SlotAfterIncr DEF Retire
  <2>2. k + 1 = 1 + k
    OBVIOUS
  <2>3. QED
    BY <2>1, <2>2
<1>4. 1 \in Nat /\ 1 <= Size
  BY <1>1
<1>5. Contents' = SubSeq(Contents, 1 + 1, Size)
  BY <1>1, <1>2, <1>3, <1>4, FrontMoves
<1>6. QED
  BY <1>1, <1>5, Oldest

LEMMA ClearDrops ==
  ASSUME IInv, IInv', ClearDone
  PROVE  \/ Contents' = Contents
         \/ \E n \in 1 .. Len(Contents) : Contents' = SubSeq(Contents, n + 1, Len(Contents))
<1> DEFINE n == Distance(front, bound)
<1>1. /\ TypeOK /\ TypeOK' /\ Size \in Nat /\ n \in Nat /\ n <= Size /\ data' = data
      /\ front \in Indices /\ bound \in Indices /\ back \in Indices
      /\ front' = bound /\ back' = back
  BY Ranges DEF IInv, ControlInv, ClearDone, TypeOK, slotVars
<1>2. Size' = Size - n
  BY <1>1, DistanceSplit DEF Size
<1>3. \A k \in Nat : IndexOf(front' + k) = IndexOf(front + (n + k))
  BY <1>1, SlotAtDistance
<1>4. n = 0 => front' = front
  BY <1>1, DistanceZero
<1> HIDE DEF n
<1>5. Contents' = SubSeq(Contents, n + 1, Size)
  BY <1>1, <1>2, <1>3, FrontMoves
<1>6. Len(Contents) = Size
  BY <1>1, ContentsTyped DEF ContentsHeld
<1>7. CASE n = 0
  BY <1>1, <1>4, <1>7, ContentsStay
<1>8. CASE n # 0
  <2>1. n \in 1 .. Len(Contents)
    BY <1>1, <1>6, <1>8
  <2>2. QED
    BY <1>5, <1>6, <2>1
<1>9. QED
  BY <1>7, <1>8

LEMMA InitRefines == Init => Fifo!Init
<1> SUFFICES ASSUME Init PROVE Fifo!Init
  OBVIOUS
<1>1. TypeOK /\ Size = 0
  BY TypeInit, DistanceZero DEF Init, Size, TypeOK
<1>2. Contents = << >>
  BY <1>1, ContentsTyped, EmptySeq DEF ContentsHeld
<1>3. QED
  BY <1>2 DEF Init, Fifo!Init, Contents

LEMMA StepRefines ==
  ASSUME IInv, IInv', ValueInv, [Next]_vars
  PROVE  [Fifo!Next]_(Fifo!fifoVars)
<1>0. /\ TypeOK /\ Size \in Nat /\ (Size = 0 <=> front = back) /\ Len(Contents) = Size
      /\ Contents \in Seq(Stored)
  BY Ranges, DistanceZero, ContentsTyped DEF IInv, Size, TypeOK, ContentsHeld
<1> USE DEF producerVars, consumerVars, slotVars
<1>1. ASSUME UNCHANGED <<front, back, data, accepted, result>>
      PROVE  UNCHANGED Fifo!fifoVars
  <2>1. Contents' = Contents
    BY <1>1, ContentsStay
  <2>2. QED
    BY <1>1, <2>1 DEF Fifo!fifoVars, Contents
<1>2. ASSUME Construct PROVE UNCHANGED Fifo!fifoVars
  <2>1. Contents' = Contents
    BY <1>2, ConstructInvisible
  <2>2. QED
    BY <1>2, <2>1 DEF Construct, Fifo!fifoVars, Contents
<1>3. ASSUME Publish PROVE Fifo!Next
  <2>1. Len(Contents) < Capacity /\ Contents' = Append(Contents, pval) /\ pval \in Values
    BY <1>3, PublishPushes DEF ValueInv, Publish
  <2>2. Fifo!Push(pval)
    BY <1>3, <2>1 DEF Publish, Fifo!Push, Contents
  <2>3. QED
    BY <2>1, <2>2 DEF Fifo!Next
<1>4. ASSUME Retire PROVE Fifo!Next
  <2>1. Size > 0 /\ Contents' = Tail(Contents)
    BY <1>4, RetirePops
  <2>2. Contents # << >> /\ Head(Contents) = data[IndexOf(front)]
    BY <1>0, <2>1, Oldest
  <2>3. result' = Head(Contents) /\ UNCHANGED accepted
    BY <1>4, <2>2 DEF Retire, ValueInv
  <2>4. Fifo!Pop
    BY <2>1, <2>2, <2>3 DEF Fifo!Pop, Contents
  <2>5. QED
    BY <2>4 DEF Fifo!Next
<1>5. ASSUME CopyHead PROVE Fifo!Next
  <2>1. Size > 0 /\ Contents' = Contents
    BY <1>5, ContentsStay DEF CopyHead, IInv, ControlInv
  <2>2. Contents # << >> /\ Head(Contents) = data[IndexOf(front)]
    BY <1>0, <2>1, Oldest
  <2>3. result' = Head(Contents) /\ UNCHANGED accepted
    BY <1>5, <2>2 DEF CopyHead
  <2>4. Fifo!Peek
    BY <2>1, <2>2, <2>3 DEF Fifo!Peek, Contents
  <2>5. QED
    BY <2>4 DEF Fifo!Next
<1>6. ASSUME ClearDone PROVE [Fifo!Next]_(Fifo!fifoVars)
  <2>1. UNCHANGED <<accepted, result>>
    BY <1>6 DEF ClearDone
  <2>2. CASE Contents' = Contents
    BY <2>1, <2>2 DEF Fifo!fifoVars, Contents
  <2>3. CASE \E n \in 1 .. Len(Contents) : Contents' = SubSeq(Contents, n + 1, Len(Contents))
    <3>1. Fifo!Drop
      BY <2>1, <2>3 DEF Fifo!Drop, Contents
    <3>2. QED
      BY <3>1 DEF Fifo!Next
  <2>4. QED
    BY <1>6, <2>2, <2>3, ClearDrops
<1>7. ASSUME TryEmplaceFull PROVE Fifo!Next
  <2>1. Len(Contents) = Capacity /\ Contents' = Contents /\ accepted' = FALSE /\ UNCHANGED result
    BY <1>0, <1>7, ContentsStay DEF TryEmplaceFull
  <2>2. Fifo!Reject
    BY <2>1 DEF Fifo!Reject, Contents
  <2>3. QED
    BY <2>2 DEF Fifo!Next
<1>8. ASSUME FindEmpty PROVE Fifo!Next
  <2>1. Contents = << >> /\ Contents' = Contents /\ result' = NoValue /\ UNCHANGED accepted
    BY <1>0, <1>8, ContentsStay, EmptySeq DEF FindEmpty
  <2>2. Fifo!FindEmpty
    BY <2>1 DEF Fifo!FindEmpty, Contents
  <2>3. QED
    BY <2>2 DEF Fifo!Next
<1>9. ASSUME MoveOut \/ DestroyHead \/ ClearSlot \/ TryPop \/ Front \/ Clear \/ UNCHANGED vars
      PROVE  UNCHANGED <<front, back, data, accepted, result>>
  BY <1>9 DEF MoveOut, DestroyHead, ClearSlot, TryPop, Front, Clear, vars
<1>10. ASSUME NEW v \in Values, TryEmplaceRoom(v)
       PROVE  UNCHANGED <<front, back, data, accepted, result>>
  BY <1>10 DEF TryEmplaceRoom
<1>11. QED
  BY <1>1, <1>2, <1>3, <1>4, <1>5, <1>6, <1>7, <1>8, <1>9, <1>10
     DEF Next, ProducerStep, ConsumerStep, ProducerCall, ConsumerCall

\* The queue is a bounded FIFO for every capacity, index width and set of values:
\* nothing is lost, duplicated or reordered, a push is refused only when it is full and
\* a pop only when it is empty (try_push, try_pop, front, clear).
THEOREM ImplementsBoundedFifo == Spec => ImplementsFifo
<1>1. Init => Fifo!Init
  BY InitRefines
<1>2. IInv /\ IInv' /\ ValueInv /\ [Next]_vars => [Fifo!Next]_(Fifo!fifoVars)
  BY StepRefines
<1>3. QED
  BY <1>1, <1>2, ValueInit, ValueStep, Invariance, PTL DEF Spec, Fifo!Spec, ImplementsFifo
=============================================================================
