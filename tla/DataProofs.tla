----------------------------- MODULE DataProofs -----------------------------
(***************************************************************************)
(* Proofs about the parts of Data.  Of the registry of parameters: for any *)
(* layouts, values and sizes, on a storage that fails at any byte.  Of the *)
(* containers: for any capacity, values and number of objects.  Of the     *)
(* triple buffer: for any number of words and of stores.  Of the triggered *)
(* action: for any delay.  Of the mirror of a trouble registry: for any    *)
(* levels and statuses.  Of the angles, ranges and per unit values of      *)
(* math.hpp: for every integer, and of its rounding: for every float of    *)
(* any format.  Of the filters: for any sizes and inputs.  Of a            *)
(* sensor: for any periods, capacity and inputs.  And of all the parts     *)
(* side by side: for all their constants at once.                          *)
(***************************************************************************)
EXTENDS MCData, FiniteSetTheorems, ModArith, TLAPS

-----------------------------------------------------------------------------
(* The registry of parameters.                                             *)

Last == Layouts[Len(Layouts)]
Addresses == 0 .. Nvm!size(Last) - 1

\* Where the frame of a parameter is, and its parts.
HashAt(l, p) == Nvm!offset_of(l, p)
ValueAt(l, p) == HashAt(l, p) + HashSize
CrcAt(l, p) == ValueAt(l, p) + Nvm!sizes(p)
FrameEnd(l, p) == CrcAt(l, p) + CrcSize

\* What is in them.
HashIn(m, l, p) == \A i \in 1 .. HashSize : m[HashAt(l, p) + i - 1] = <<"hash", p, i>>
ValueIn(m, l, p, v) == \A i \in 1 .. Nvm!sizes(p) : m[ValueAt(l, p) + i - 1] = v[i]
CrcIn(m, l, p, v) == \A i \in 1 .. CrcSize : m[CrcAt(l, p) + i - 1] = <<"crc", p, v, i>>
FrameIn(m, l, p, v) == HashIn(m, l, p) /\ ValueIn(m, l, p, v) /\ CrcIn(m, l, p, v)

NvmTypeOK ==
  /\ layout \in Nvm!Firmwares
  /\ memory \in [Addresses -> Nvm!Bytes]
  /\ DOMAIN candidates = Nvm!Names
  /\ intact \subseteq Nvm!Frames(layout)
  /\ todo \in Seq(Nvm!Frames(layout))
  /\ todo # <<>> => value \in Nvm!Settable(todo[1]) /\ field \in {"hash", "value", "crc"}
  /\ todo = <<>> => field = "hash"
  /\ call = "erase" => todo = <<>>
  /\ call = "none" => todo = <<>>
  /\ erased \in 0 .. Nvm!size(layout) - 1
  /\ call # "erase" => erased = 0

\* A call has done what is behind it.
Progressed ==
  /\ todo # <<>> /\ field # "hash" => HashIn(memory, layout, todo[1])
  /\ todo # <<>> /\ field = "crc" => ValueIn(memory, layout, todo[1], value)
  /\ call = "erase" => \A a \in 0 .. erased - 1 : memory[a] = Zero

\* An intact parameter has its frame, with its one candidate.
IntactWhole ==
  \A p \in intact : \E v \in Nvm!Settable(p) :
    candidates[p] = {v} /\ FrameIn(memory, layout, p, v)

\* Where a parameter has a byte of a CRC, it is that of a candidate.
CrcsOfCandidates ==
  \A p \in Nvm!Frames(layout) : \A v \in Nvm!Settable(p), i \in 1 .. CrcSize :
    memory[CrcAt(layout, p) + i - 1] = <<"crc", p, v, i>> => v \in candidates[p]

\* The first firmware leaves such a byte nowhere else.
CrcsAtHome ==
  layout = Layouts[1] =>
    \A p \in Nvm!Names : \A v \in Nvm!Settable(p), i \in 1 .. CrcSize, a \in Addresses :
      memory[a] = <<"crc", p, v, i>> =>
        p \in Nvm!Frames(layout) /\ a = CrcAt(layout, p) + i - 1

\* The invariant, which is inductive.
NvmInv == NvmTypeOK /\ Progressed /\ IntactWhole /\ CrcsOfCandidates /\ CrcsAtHome

\* The assertions about the layouts.
LEMMA LayoutFacts ==
  ASSUME NEW l \in Nvm!Firmwares
  PROVE  /\ l \in Seq(Nvm!Names) /\ Len(l) \in Nat \ {0} /\ DOMAIN l = 1 .. Len(l)
         /\ \A i, j \in 1 .. Len(l) : l[i] = l[j] => i = j
         /\ Nvm!size(l) <= Nvm!size(Last)
<1>1. l \in Seq(Nvm!Names) /\ l # <<>>
  BY LayoutsAssumption
<1>2. Len(l) \in Nat \ {0} /\ DOMAIN l = 1 .. Len(l)
  BY <1>1
<1>3. QED
  BY <1>1, <1>2, LayoutsAssumption DEF Last

LEMMA TwoLayouts == Layouts[1] \in Nvm!Firmwares /\ Last \in Nvm!Firmwares
<1>1. Layouts \in Seq(Nvm!Firmwares) /\ Layouts # <<>>
  BY LayoutsAssumption
<1>2. QED
  BY <1>1 DEF Last

LEMMA ValueFacts ==
  ASSUME NEW p \in Nvm!Names
  PROVE  /\ default_value[p] \in Nvm!Settable(p) /\ Nvm!sizes(p) \in Nat
         /\ \A v \in Nvm!Settable(p) :
              v \in Seq(Nvm!Plain) /\ Len(v) = Nvm!sizes(p) /\ DOMAIN v = 1 .. Nvm!sizes(p)
<1>1. default_value[p] \in Nvm!Settable(p)
  BY DEF Nvm!Settable
<1>2. \A v \in Nvm!Settable(p) : v \in Seq(Nvm!Plain) /\ Len(v) = Nvm!sizes(p)
  BY LayoutsAssumption
<1>3. QED
  BY <1>1, <1>2 DEF Nvm!sizes

LEMMA Sizes ==
  /\ HashSize \in Nat \ {0} /\ CrcSize \in Nat \ {0}
  /\ Nvm!overhead = HashSize + CrcSize
BY LayoutsAssumption DEF Nvm!overhead

\* The sum that offset_of and size compute.
LEMMA EndsSum ==
  ASSUME NEW l \in Nvm!Firmwares
  PROVE  /\ Nvm!Ends(l) \in [0 .. Len(l) -> Nat]
         /\ Nvm!Ends(l)[0] = 0
         /\ \A i \in 1 .. Len(l) :
              Nvm!Ends(l)[i] = Nvm!Ends(l)[i - 1] + Nvm!sizes(l[i]) + Nvm!overhead
<1> DEFINE n == Len(l)
           Add(i, x) == x + Nvm!sizes(l[i]) + Nvm!overhead
           step == [c \in (1 .. n) \X Nat |-> Add(c[1], c[2])]
           Sum(f) == [i \in 0 .. n |-> IF i = 0 THEN 0 ELSE Add(i, f[i - 1])]
<1>1. n \in Nat /\ \A i \in 1 .. n : l[i] \in Nvm!Names
  BY LayoutFacts
<1>2. \A i \in 1 .. n : Nvm!sizes(l[i]) \in Nat /\ Nvm!overhead \in Nat
  BY <1>1, ValueFacts, Sizes
<1>3. \A i \in 1 .. n, x \in Nat : Add(i, x) \in Nat
  BY <1>2
<1>4. step \in [(1 .. n) \X Nat -> Nat]
  BY <1>3
<1>5. \A i \in 1 .. n, x \in Nat : step[<<i, x>>] = Add(i, x)
  OBVIOUS
<1> HIDE DEF step, n
<1>6. PICK f \in [0 .. n -> Nat] : Recurs(f, n, 0, step)
  BY <1>1, <1>4, Recursion
<1>7. f = Sum(f)
  <2>1. ASSUME NEW i \in 0 .. n PROVE f[i] = Sum(f)[i]
    <3>1. CASE i = 0
      BY <1>6, <3>1 DEF Recurs
    <3>2. CASE i # 0
      <4>1. i \in 1 .. n /\ f[i - 1] \in Nat
        BY <1>1, <3>2
      <4>2. QED
        BY <1>5, <1>6, <3>2, <4>1 DEF Recurs
    <3>3. QED
      BY <3>1, <3>2
  <2> HIDE DEF Add
  <2>2. QED
    BY <2>1
<1> DEFINE off == Nvm!Ends(l)
<1>8. off = CHOOSE g : g = Sum(g)
  BY DEF Nvm!Ends, n
<1>9. off = Sum(off)
  <2> HIDE DEF off, Sum
  <2>1. QED
    BY <1>7, <1>8
<1> HIDE DEF off
<1>10. off[0] = 0 /\ \A i \in 1 .. n : off[i] = Add(i, off[i - 1])
  <2>1. off[0] = 0
    BY <1>1, <1>9
  <2>2. ASSUME NEW i \in 1 .. n PROVE off[i] = Add(i, off[i - 1])
    <3>1. i \in 0 .. n /\ i # 0
      BY <1>1
    <3> HIDE DEF Add
    <3>2. QED
      BY <1>9, <3>1
  <2>3. QED
    BY <2>1, <2>2
<1>11. \A i \in 0 .. n : off[i] \in Nat
  <2> DEFINE T == {k \in Nat : k <= n => off[k] \in Nat}
  <2>1. 0 \in T
    BY <1>10
  <2>2. ASSUME NEW k \in Nat, k \in T PROVE k + 1 \in T
    <3>1. SUFFICES ASSUME k + 1 <= n PROVE off[k + 1] \in Nat
      OBVIOUS
    <3>2. off[k] \in Nat /\ k + 1 \in 1 .. n /\ (k + 1) - 1 = k
      BY <1>1, <2>2, <3>1
    <3>3. QED
      BY <1>3, <1>10, <3>2
  <2> HIDE DEF T
  <2>3. Nat \subseteq T
    BY <2>1, <2>2, Induction
  <2>4. ASSUME NEW i \in 0 .. n PROVE off[i] \in Nat
    <3>1. i \in T
      BY <1>1, <2>3
    <3>2. QED
      BY <1>1, <3>1 DEF T
  <2>5. QED
    BY <2>4
<1>12. off \in [0 .. n -> Nat]
  BY <1>9, <1>11
<1>13. QED
  BY <1>10, <1>12 DEF off, n

LEMMA EndsGrow ==
  ASSUME NEW l \in Nvm!Firmwares, NEW i \in 0 .. Len(l), NEW j \in i .. Len(l)
  PROVE  Nvm!Ends(l)[i] <= Nvm!Ends(l)[j]
<1> DEFINE off == Nvm!Ends(l)
           T == {d \in Nat : i + d <= Len(l) => off[i] <= off[i + d]}
<1>1. /\ off \in [0 .. Len(l) -> Nat] /\ Len(l) \in Nat
      /\ \A k \in 1 .. Len(l) : off[k] = off[k - 1] + Nvm!sizes(l[k]) + Nvm!overhead
  BY EndsSum, LayoutFacts
<1>2. Nvm!overhead \in Nat /\ \A k \in 1 .. Len(l) : Nvm!sizes(l[k]) \in Nat
  BY Sizes, LayoutFacts, ValueFacts
<1> HIDE DEF off
<1>3. 0 \in T
  BY <1>1
<1>4. ASSUME NEW d \in Nat, d \in T PROVE d + 1 \in T
  <2>1. SUFFICES ASSUME i + (d + 1) <= Len(l) PROVE off[i] <= off[i + (d + 1)]
    OBVIOUS
  <2>2. i + (d + 1) \in 1 .. Len(l) /\ (i + (d + 1)) - 1 = i + d /\ i + d \in 0 .. Len(l)
    BY <1>1, <2>1
  <2>3. off[i] <= off[i + d]
    BY <1>1, <1>4, <2>1
  <2>4. off[i + (d + 1)] = off[i + d] + Nvm!sizes(l[i + (d + 1)]) + Nvm!overhead
    BY <1>1, <2>2
  <2>5. off[i] \in Nat /\ off[i + d] \in Nat /\ Nvm!sizes(l[i + (d + 1)]) \in Nat
    BY <1>1, <1>2, <2>2
  <2>6. QED
    BY <1>2, <2>3, <2>4, <2>5
<1>5. j - i \in T
  <2> HIDE DEF T
  <2>1. Nat \subseteq T
    BY <1>3, <1>4, Induction
  <2>2. QED
    BY <1>1, <2>1
<1>6. i + (j - i) = j
  BY <1>1
<1>7. QED
  BY <1>1, <1>5, <1>6 DEF off

\* The addresses of a frame.
Frame(l, p) == HashAt(l, p) .. FrameEnd(l, p) - 1

LEMMA IndexFacts ==
  ASSUME NEW l \in Nvm!Firmwares, NEW p \in Nvm!Frames(l)
  PROVE  /\ p \in Nvm!Names
         /\ Nvm!index_of(l, p) \in 1 .. Len(l) /\ l[Nvm!index_of(l, p)] = p
<1>1. PICK i \in 1 .. Len(l) : l[i] = p
  BY LayoutFacts DEF Nvm!Frames, Nvm!ToSet
<1>2. QED
  BY <1>1, LayoutFacts DEF Nvm!index_of

\* A frame is a part of the storage, and has the parts that get reads and set writes.
LEMMA FrameFacts ==
  ASSUME NEW l \in Nvm!Firmwares, NEW p \in Nvm!Frames(l)
  PROVE  /\ HashAt(l, p) \in Nat /\ Nvm!sizes(p) \in Nat
         /\ ValueAt(l, p) = HashAt(l, p) + HashSize
         /\ CrcAt(l, p) = HashAt(l, p) + HashSize + Nvm!sizes(p)
         /\ FrameEnd(l, p) = HashAt(l, p) + HashSize + Nvm!sizes(p) + CrcSize
         /\ FrameEnd(l, p) <= Nvm!size(l) /\ Nvm!size(l) <= Nvm!size(Last)
         /\ Nvm!size(l) \in Nat /\ Nvm!size(Last) \in Nat
<1> DEFINE i == Nvm!index_of(l, p)
           off == Nvm!Ends(l)
<1>1. i \in 1 .. Len(l) /\ l[i] = p /\ p \in Nvm!Names /\ Len(l) \in Nat
  BY IndexFacts, LayoutFacts
<1>2. off \in [0 .. Len(l) -> Nat] /\ off[i] = off[i - 1] + Nvm!sizes(p) + Nvm!overhead
  BY <1>1, EndsSum
<1>3. off[i] <= off[Len(l)]
  BY <1>1, EndsGrow
<1>4. Nvm!sizes(p) \in Nat /\ Nvm!overhead = HashSize + CrcSize
      /\ HashSize \in Nat /\ CrcSize \in Nat
  BY <1>1, ValueFacts, Sizes
<1>5. Nvm!size(l) <= Nvm!size(Last) /\ Nvm!size(Last) \in Nat
  <2>1. Nvm!Ends(Last) \in [0 .. Len(Last) -> Nat] /\ Len(Last) \in Nat
    BY TwoLayouts, EndsSum, LayoutFacts
  <2>2. QED
    BY <2>1, LayoutFacts DEF Nvm!size
<1>6. off[i - 1] \in Nat /\ HashAt(l, p) = off[i - 1] /\ Nvm!size(l) = off[Len(l)]
      /\ off[Len(l)] \in Nat
  BY <1>1, <1>2 DEF HashAt, Nvm!offset_of, Nvm!size
<1> HIDE DEF off, i
<1>7. QED
  BY <1>2, <1>3, <1>4, <1>5, <1>6 DEF ValueAt, CrcAt, FrameEnd

\* Two frames of a layout have no address in common.
LEMMA FramesApart ==
  ASSUME NEW l \in Nvm!Firmwares, NEW p \in Nvm!Frames(l), NEW q \in Nvm!Frames(l), p # q
  PROVE  Frame(l, p) \cap Frame(l, q) = {}
<1> DEFINE off == Nvm!Ends(l)
<1>1. ASSUME NEW x \in Nvm!Frames(l)
      PROVE  /\ Nvm!index_of(l, x) \in 1 .. Len(l) /\ l[Nvm!index_of(l, x)] = x
             /\ off[Nvm!index_of(l, x)] = FrameEnd(l, x)
             /\ HashAt(l, x) = off[Nvm!index_of(l, x) - 1]
             /\ HashAt(l, x) \in Nat /\ FrameEnd(l, x) \in Nat
  <2>1. Nvm!index_of(l, x) \in 1 .. Len(l) /\ l[Nvm!index_of(l, x)] = x
    BY IndexFacts
  <2>2. off[Nvm!index_of(l, x)] = off[Nvm!index_of(l, x) - 1] + Nvm!sizes(x) + Nvm!overhead
    BY <2>1, EndsSum
  <2>3. HashAt(l, x) = off[Nvm!index_of(l, x) - 1]
    BY DEF HashAt, Nvm!offset_of
  <2>4. HashAt(l, x) \in Nat /\ Nvm!sizes(x) \in Nat
        /\ FrameEnd(l, x) = HashAt(l, x) + HashSize + Nvm!sizes(x) + CrcSize
    BY FrameFacts
  <2> HIDE DEF off
  <2>5. QED
    BY <2>1, <2>2, <2>3, <2>4, Sizes
<1>2. Len(l) \in Nat
  BY LayoutFacts
<1>3. ASSUME NEW x \in Nvm!Frames(l), NEW y \in Nvm!Frames(l),
             Nvm!index_of(l, x) < Nvm!index_of(l, y)
      PROVE  FrameEnd(l, x) <= HashAt(l, y)
  <2> DEFINE i == Nvm!index_of(l, x)
             j == Nvm!index_of(l, y)
  <2>1. i \in 1 .. Len(l) /\ j \in 1 .. Len(l)
    BY <1>1
  <2>2. i \in 0 .. Len(l) /\ j - 1 \in i .. Len(l)
    BY <1>2, <1>3, <2>1
  <2>3. off[i] <= off[j - 1]
    BY <2>2, EndsGrow
  <2>4. QED
    BY <2>3, <1>1
<1>4. Nvm!index_of(l, p) # Nvm!index_of(l, q)
  BY <1>1
<1>5. FrameEnd(l, p) <= HashAt(l, q) \/ FrameEnd(l, q) <= HashAt(l, p)
  BY <1>1, <1>2, <1>3, <1>4
<1>6. QED
  BY <1>1, <1>5 DEF Frame

\* A frame, byte by byte.
LEMMA FrameBytes ==
  ASSUME NEW l \in Nvm!Firmwares, NEW p \in Nvm!Frames(l)
  PROVE  /\ Frame(l, p) \subseteq Addresses
         /\ \A i \in 1 .. HashSize : HashAt(l, p) + i - 1 \in Frame(l, p)
         /\ \A i \in 1 .. Nvm!sizes(p) : ValueAt(l, p) + i - 1 \in Frame(l, p)
         /\ \A i \in 1 .. CrcSize : CrcAt(l, p) + i - 1 \in Frame(l, p)
         /\ p \in Nvm!Names
<1> DEFINE h == HashAt(l, p)
           s == Nvm!sizes(p)
<1>1. /\ h \in Nat /\ s \in Nat /\ ValueAt(l, p) = h + HashSize
      /\ CrcAt(l, p) = h + HashSize + s /\ FrameEnd(l, p) = h + HashSize + s + CrcSize
      /\ FrameEnd(l, p) <= Nvm!size(Last) /\ Nvm!size(Last) \in Nat
  <2>1. /\ h \in Nat /\ s \in Nat /\ ValueAt(l, p) = h + HashSize
        /\ CrcAt(l, p) = h + HashSize + s /\ FrameEnd(l, p) = h + HashSize + s + CrcSize
        /\ FrameEnd(l, p) <= Nvm!size(l) /\ Nvm!size(l) <= Nvm!size(Last)
        /\ Nvm!size(l) \in Nat /\ Nvm!size(Last) \in Nat
    BY FrameFacts
  <2> HIDE DEF h, s
  <2>2. QED
    BY <2>1, Sizes
<1>2. HashSize \in Nat /\ CrcSize \in Nat
  BY Sizes
<1>3. p \in Nvm!Names
  BY IndexFacts
<1> HIDE DEF h, s
<1>4. Frame(l, p) = h .. h + HashSize + s + CrcSize - 1
  <2>1. Frame(l, p) = h .. FrameEnd(l, p) - 1
    BY DEF Frame, h
  <2>2. QED
    BY <1>1, <1>2, <2>1
<1>5. Frame(l, p) \subseteq Addresses
  BY <1>1, <1>2, <1>4 DEF Addresses
<1>6. /\ \A i \in 1 .. HashSize : h + i - 1 \in Frame(l, p)
      /\ \A i \in 1 .. s : h + HashSize + i - 1 \in Frame(l, p)
      /\ \A i \in 1 .. CrcSize : h + HashSize + s + i - 1 \in Frame(l, p)
  BY <1>1, <1>2, <1>4
<1>7. QED
  BY <1>1, <1>3, <1>5, <1>6 DEF h, s

\* What is written to the storage, and what is not taken for the byte of a CRC.
LEMMA KindsOfBytes ==
  ASSUME NEW p \in Nvm!Names
  PROVE  /\ \A v \in Nvm!Settable(p) : v \in Seq(Nvm!Bytes)
         /\ \A v \in Nvm!Settable(p), j \in 1 .. Nvm!sizes(p) : v[j] \in Nvm!Plain
         /\ \A j \in 1 .. HashSize : /\ Nvm!hash(p)[j] = <<"hash", p, j>>
                                    /\ <<"hash", p, j>> \in Nvm!Bytes
         /\ \A v : \A j \in 1 .. CrcSize : Nvm!crc(p, v)[j] = <<"crc", p, v, j>>
         /\ \A v \in Nvm!Settable(p), j \in 1 .. CrcSize : <<"crc", p, v, j>> \in Nvm!Bytes
         /\ Nvm!Plain \subseteq Nvm!Bytes
         /\ Zero \in Nvm!Plain /\ Blank \subseteq Nvm!Plain
<1>1. \A v \in Nvm!Settable(p) :
        v \in Seq(Nvm!Plain) /\ Len(v) = Nvm!sizes(p) /\ DOMAIN v = 1 .. Nvm!sizes(p)
  BY ValueFacts
<1>2. Nvm!Plain \subseteq Nvm!Bytes
  BY DEF Nvm!Bytes
<1>3. \A v \in Nvm!Settable(p) : v \in Seq(Nvm!Bytes)
  BY <1>1, <1>2
<1>4. \A v \in Nvm!Settable(p), j \in 1 .. Nvm!sizes(p) : v[j] \in Nvm!Plain
  BY <1>1
<1>5. ASSUME NEW j \in 1 .. HashSize
      PROVE  Nvm!hash(p)[j] = <<"hash", p, j>> /\ <<"hash", p, j>> \in Nvm!Bytes
  <2>1. Nvm!hash(p)[j] = <<"hash", p, j>> /\ j \in DOMAIN Nvm!hash(p)
    BY DEF Nvm!hash
  <2>2. <<"hash", p, j>> \in Nvm!ToSet(Nvm!hash(p))
    BY <2>1 DEF Nvm!ToSet
  <2>3. QED
    BY <2>1, <2>2 DEF Nvm!Bytes
<1>6. ASSUME NEW v, NEW j \in 1 .. CrcSize
      PROVE  Nvm!crc(p, v)[j] = <<"crc", p, v, j>> /\ j \in DOMAIN Nvm!crc(p, v)
  BY DEF Nvm!crc
<1>7. ASSUME NEW v \in Nvm!Settable(p), NEW j \in 1 .. CrcSize
      PROVE  <<"crc", p, v, j>> \in Nvm!Bytes
  <2> DEFINE b == <<"crc", p, v, j>>
             Crcs(q) == UNION {Nvm!ToSet(Nvm!crc(q, w)) : w \in Nvm!Settable(q)}
  <2>1. b \in Nvm!ToSet(Nvm!crc(p, v))
    BY <1>6 DEF Nvm!ToSet
  <2>2. b \in Crcs(p)
    <3> HIDE DEF b
    <3>1. QED
      BY <2>1
  <2>3. b \in UNION {Crcs(q) : q \in Nvm!Names}
    <3> HIDE DEF b, Crcs
    <3>1. QED
      BY <2>2
  <2>4. QED
    BY <2>3 DEF Nvm!Bytes
<1>8. Blank \subseteq Nvm!Plain /\ Zero \in Nvm!Plain
  BY LayoutsAssumption DEF Nvm!Plain
<1>9. QED
  BY <1>2, <1>3, <1>4, <1>5, <1>6, <1>7, <1>8

LEMMA CrcApart ==
  ASSUME NEW p \in Nvm!Names, NEW v \in Seq(Nvm!Bytes), NEW i \in 1 .. CrcSize
  PROVE  /\ <<"crc", p, v, i>> \notin Nvm!Plain
         /\ <<"crc", p, v, i>> \in Nvm!Bytes => v \in Nvm!Settable(p)
<1> DEFINE b == <<"crc", p, v, i>>
<1>1. b \in {"crc"} \X Nvm!Names \X Seq(Nvm!Bytes) \X (1 .. CrcSize)
  OBVIOUS
<1>2. b \notin Nvm!Plain
  BY <1>1, LayoutsAssumption
<1>3. ASSUME b \in Nvm!Bytes PROVE v \in Nvm!Settable(p)
  <2>1. CASE \E q \in Nvm!Names : b \in Nvm!ToSet(Nvm!hash(q))
    <3>1. PICK q \in Nvm!Names : b \in Nvm!ToSet(Nvm!hash(q))
      BY <2>1
    <3>2. PICK j \in DOMAIN Nvm!hash(q) : b = Nvm!hash(q)[j]
      BY <3>1 DEF Nvm!ToSet
    <3>3. b = <<"hash", q, j>>
      BY <3>2 DEF Nvm!hash
    <3>4. QED
      BY <3>3
  <2>2. CASE \E q \in Nvm!Names : \E w \in Nvm!Settable(q) : b \in Nvm!ToSet(Nvm!crc(q, w))
    <3>0. PICK q \in Nvm!Names : \E w \in Nvm!Settable(q) : b \in Nvm!ToSet(Nvm!crc(q, w))
      BY <2>2
    <3>1. PICK w \in Nvm!Settable(q) : b \in Nvm!ToSet(Nvm!crc(q, w))
      BY <3>0
    <3>2. PICK j \in DOMAIN Nvm!crc(q, w) : b = Nvm!crc(q, w)[j]
      BY <3>1 DEF Nvm!ToSet
    <3>3. b = <<"crc", q, w, j>>
      BY <3>2 DEF Nvm!crc
    <3>4. QED
      BY <3>3
  <2>3. \/ \E q \in Nvm!Names : b \in Nvm!ToSet(Nvm!hash(q))
        \/ \E q \in Nvm!Names : \E w \in Nvm!Settable(q) : b \in Nvm!ToSet(Nvm!crc(q, w))
    <3> DEFINE Crcs(q) == UNION {Nvm!ToSet(Nvm!crc(q, w)) : w \in Nvm!Settable(q)}
    <3>1. CASE \E q \in Nvm!Names : b \in Crcs(q)
      <4> HIDE DEF b
      <4>1. QED
        BY <3>1
    <3>2. b \in UNION {Nvm!ToSet(Nvm!hash(q)) : q \in Nvm!Names}
          \/ b \in UNION {Crcs(q) : q \in Nvm!Names}
      BY <1>2, <1>3 DEF Nvm!Bytes
    <3> HIDE DEF b, Crcs
    <3>3. QED
      BY <3>1, <3>2
  <2>4. QED
    BY <2>1, <2>2, <2>3
<1>4. QED
  BY <1>2, <1>3

-----------------------------------------------------------------------------
(* One write.                                                              *)

\* What a set writes, and where.
LEMMA WhatIsWritten ==
  ASSUME NvmTypeOK, todo # <<>>
  PROVE  /\ todo[1] \in Nvm!Frames(layout) /\ value \in Nvm!Settable(todo[1])
         /\ field = "hash" =>
              /\ DOMAIN Nvm!bytes = 1 .. HashSize /\ Nvm!loc = HashAt(layout, todo[1])
              /\ \A j \in 1 .. HashSize : Nvm!bytes[j] = <<"hash", todo[1], j>>
         /\ field = "value" =>
              /\ DOMAIN Nvm!bytes = 1 .. Nvm!sizes(todo[1]) /\ Nvm!loc = ValueAt(layout, todo[1])
              /\ \A j \in 1 .. Nvm!sizes(todo[1]) : Nvm!bytes[j] = value[j]
         /\ field = "crc" =>
              /\ DOMAIN Nvm!bytes = 1 .. CrcSize /\ Nvm!loc = CrcAt(layout, todo[1])
              /\ \A j \in 1 .. CrcSize : Nvm!bytes[j] = <<"crc", todo[1], value, j>>
<1>1. todo[1] \in Nvm!Frames(layout) /\ value \in Nvm!Settable(todo[1])
      /\ layout \in Nvm!Firmwares
  BY DEF NvmTypeOK
<1>2. todo[1] \in Nvm!Names
  BY <1>1, FrameBytes
<1>3. ASSUME field = "hash"
      PROVE  Nvm!bytes = Nvm!hash(todo[1]) /\ Nvm!loc = HashAt(layout, todo[1])
  BY <1>3 DEF Nvm!bytes, Nvm!loc, HashAt, Nvm!hash_loc
<1>4. ASSUME field = "value"
      PROVE  Nvm!bytes = value /\ Nvm!loc = ValueAt(layout, todo[1])
  BY <1>4 DEF Nvm!bytes, Nvm!loc, HashAt, ValueAt, Nvm!hash_loc, Nvm!val_loc
<1>5. ASSUME field = "crc"
      PROVE  Nvm!bytes = Nvm!crc(todo[1], value) /\ Nvm!loc = CrcAt(layout, todo[1])
  BY <1>5 DEF Nvm!bytes, Nvm!loc, HashAt, ValueAt, CrcAt, Nvm!hash_loc, Nvm!val_loc, Nvm!crc_loc
<1>6. DOMAIN Nvm!hash(todo[1]) = 1 .. HashSize /\ DOMAIN Nvm!crc(todo[1], value) = 1 .. CrcSize
  BY DEF Nvm!hash, Nvm!crc
<1>7. DOMAIN value = 1 .. Nvm!sizes(todo[1])
  BY <1>1, <1>2, ValueFacts
<1>8. /\ \A j \in 1 .. HashSize : Nvm!hash(todo[1])[j] = <<"hash", todo[1], j>>
      /\ \A j \in 1 .. CrcSize : Nvm!crc(todo[1], value)[j] = <<"crc", todo[1], value, j>>
  BY DEF Nvm!hash, Nvm!crc
<1>9. QED
  BY <1>1, <1>3, <1>4, <1>5, <1>6, <1>7, <1>8

\* A write, whole or not, changes the part of the frame that it is for, to what it
\* writes.
LEMMA WriteChanges ==
  ASSUME NvmTypeOK, todo # <<>>, NEW done \in SUBSET DOMAIN Nvm!bytes,
         memory' = Nvm!Written(done)
  PROVE  /\ memory' \in [Addresses -> Nvm!Bytes]
         /\ \A a \in Addresses :
              \/ memory'[a] = memory[a]
              \/ \E j \in DOMAIN Nvm!bytes : a = Nvm!loc + j - 1 /\ memory'[a] = Nvm!bytes[j]
         /\ done = DOMAIN Nvm!bytes =>
              \A j \in DOMAIN Nvm!bytes : memory'[Nvm!loc + j - 1] = Nvm!bytes[j]
<1> DEFINE at == Nvm!loc
           b == Nvm!bytes
           p == todo[1]
<1>1. memory \in [Addresses -> Nvm!Bytes] /\ layout \in Nvm!Firmwares
      /\ field \in {"hash", "value", "crc"}
  BY DEF NvmTypeOK
<1>2. p \in Nvm!Frames(layout) /\ value \in Nvm!Settable(p)
  BY WhatIsWritten
<1>3. p \in Nvm!Names /\ Frame(layout, p) \subseteq Addresses
  BY <1>1, <1>2, FrameBytes
<1>4. at \in Nat
  BY <1>1, <1>2, WhatIsWritten, FrameFacts, Sizes
<1>5. \A j \in DOMAIN b : j \in Nat /\ at + j - 1 \in Addresses /\ b[j] \in Nvm!Bytes
  <2>1. ASSUME field = "hash", NEW j \in DOMAIN b
        PROVE  j \in Nat /\ at + j - 1 \in Addresses /\ b[j] \in Nvm!Bytes
    <3>1. DOMAIN b = 1 .. HashSize /\ at = HashAt(layout, p) /\ b[j] = <<"hash", p, j>>
      BY <2>1, WhatIsWritten
    <3>2. at + j - 1 \in Addresses /\ j \in Nat
      BY <1>1, <1>2, <1>3, <3>1, FrameBytes
    <3>3. b[j] \in Nvm!Bytes
      BY <1>2, <1>3, <2>1, <3>1, KindsOfBytes
    <3>4. QED
      BY <3>2, <3>3
  <2>2. ASSUME field = "value", NEW j \in DOMAIN b
        PROVE  j \in Nat /\ at + j - 1 \in Addresses /\ b[j] \in Nvm!Bytes
    <3>1. DOMAIN b = 1 .. Nvm!sizes(p) /\ at = ValueAt(layout, p) /\ b[j] = value[j]
      BY <2>2, WhatIsWritten
    <3>2. at + j - 1 \in Addresses /\ j \in Nat
      BY <1>1, <1>2, <1>3, <3>1, FrameBytes
    <3>3. b[j] \in Nvm!Bytes
      BY <1>2, <1>3, <2>2, <3>1, KindsOfBytes
    <3>4. QED
      BY <3>2, <3>3
  <2>3. ASSUME field = "crc", NEW j \in DOMAIN b
        PROVE  j \in Nat /\ at + j - 1 \in Addresses /\ b[j] \in Nvm!Bytes
    <3>1. DOMAIN b = 1 .. CrcSize /\ at = CrcAt(layout, p) /\ b[j] = <<"crc", p, value, j>>
      BY <2>3, WhatIsWritten
    <3>2. at + j - 1 \in Addresses /\ j \in Nat
      BY <1>1, <1>2, <1>3, <3>1, FrameBytes
    <3>3. b[j] \in Nvm!Bytes
      BY <1>2, <1>3, <2>3, <3>1, KindsOfBytes
    <3>4. QED
      BY <3>2, <3>3
  <2>4. QED
    BY <1>1, <2>1, <2>2, <2>3
<1>6. memory' = [a \in Addresses |-> IF a - at + 1 \in done THEN b[a - at + 1] ELSE memory[a]]
  BY <1>1 DEF Nvm!Written
<1>7. \A a \in Addresses : a \in Int
  BY DEF Addresses
<1> HIDE DEF at, b, p
<1>8. ASSUME NEW a \in Addresses
      PROVE  \/ memory'[a] = memory[a]
             \/ \E j \in DOMAIN b : a = at + j - 1 /\ memory'[a] = b[j]
  <2>1. CASE a - at + 1 \in done
    <3>1. a - at + 1 \in DOMAIN b /\ a = at + (a - at + 1) - 1
      BY <1>4, <1>7, <2>1 DEF b
    <3>2. memory'[a] = b[a - at + 1]
      BY <1>6, <2>1
    <3>3. QED
      BY <3>1, <3>2
  <2>2. CASE a - at + 1 \notin done
    BY <1>6, <2>2
  <2>3. QED
    BY <2>1, <2>2
<1>9. memory' \in [Addresses -> Nvm!Bytes]
  <2>1. \A a \in Addresses : memory'[a] \in Nvm!Bytes
    BY <1>1, <1>5, <1>8
  <2>2. QED
    BY <1>6, <2>1
<1>10. ASSUME done = DOMAIN b, NEW j \in DOMAIN b PROVE memory'[at + j - 1] = b[j]
  <2>1. at + j - 1 \in Addresses /\ (at + j - 1) - at + 1 = j
    BY <1>4, <1>5
  <2>2. QED
    BY <1>6, <1>10, <2>1
<1>11. QED
  BY <1>8, <1>9, <1>10 DEF at, b

\* What that does to the frames.
LEMMA WriteEffect ==
  ASSUME NvmTypeOK, todo # <<>>, NEW done \in SUBSET DOMAIN Nvm!bytes,
         memory' = Nvm!Written(done)
  PROVE  /\ \A a \in Addresses \ Frame(layout, todo[1]) : memory'[a] = memory[a]
         /\ HashIn(memory, layout, todo[1]) => HashIn(memory', layout, todo[1])
         /\ field = "crc" => \A v : ValueIn(memory, layout, todo[1], v)
                                      => ValueIn(memory', layout, todo[1], v)
         /\ field = "hash" => \A v : FrameIn(memory, layout, todo[1], v)
                                      => FrameIn(memory', layout, todo[1], v)
         /\ \A q \in Nvm!Names : \A v \in Nvm!Settable(q), i \in 1 .. CrcSize, a \in Addresses :
              memory'[a] = <<"crc", q, v, i>> =>
                \/ memory[a] = <<"crc", q, v, i>>
                \/ field = "crc" /\ q = todo[1] /\ v = value /\ a = CrcAt(layout, q) + i - 1
         /\ done = DOMAIN Nvm!bytes =>
              /\ field = "hash" => HashIn(memory', layout, todo[1])
              /\ field = "value" => ValueIn(memory', layout, todo[1], value)
              /\ field = "crc" => CrcIn(memory', layout, todo[1], value)
<1> DEFINE p == todo[1]
           h == HashAt(layout, p)
           s == Nvm!sizes(p)
<1>1. /\ p \in Nvm!Frames(layout) /\ layout \in Nvm!Firmwares /\ value \in Nvm!Settable(p)
      /\ field \in {"hash", "value", "crc"}
  BY WhatIsWritten DEF NvmTypeOK
<1>2. /\ h \in Nat /\ s \in Nat /\ ValueAt(layout, p) = h + HashSize
      /\ CrcAt(layout, p) = h + HashSize + s /\ HashSize \in Nat /\ CrcSize \in Nat
      /\ p \in Nvm!Names
  BY <1>1, FrameFacts, FrameBytes, Sizes
<1>3. /\ \A j \in 1 .. HashSize : h + j - 1 \in Frame(layout, p)
      /\ \A j \in 1 .. s : h + HashSize + j - 1 \in Frame(layout, p)
      /\ \A j \in 1 .. CrcSize : h + HashSize + s + j - 1 \in Frame(layout, p)
      /\ Frame(layout, p) \subseteq Addresses
  BY <1>1, <1>2, FrameBytes
<1> HIDE DEF h, s, p
\* In each field: what changes, and to what.
<1>4. ASSUME field = "hash", NEW a \in Addresses
      PROVE  \/ memory'[a] = memory[a]
             \/ \E j \in 1 .. HashSize : a = h + j - 1 /\ memory'[a] = <<"hash", p, j>>
  BY <1>4, WhatIsWritten, WriteChanges DEF h, p
<1>5. ASSUME field = "value", NEW a \in Addresses
      PROVE  \/ memory'[a] = memory[a]
             \/ \E j \in 1 .. s : a = h + HashSize + j - 1 /\ memory'[a] = value[j]
  BY <1>2, <1>5, WhatIsWritten, WriteChanges DEF s, p
<1>6. ASSUME field = "crc", NEW a \in Addresses
      PROVE  \/ memory'[a] = memory[a]
             \/ \E j \in 1 .. CrcSize :
                  a = h + HashSize + s + j - 1 /\ memory'[a] = <<"crc", p, value, j>>
  BY <1>2, <1>6, WhatIsWritten, WriteChanges DEF p
<1>7. ASSUME NEW a \in Addresses, a \notin Frame(layout, p) PROVE memory'[a] = memory[a]
  BY <1>1, <1>3, <1>4, <1>5, <1>6, <1>7
<1>8. ASSUME HashIn(memory, layout, p), NEW j \in 1 .. HashSize
      PROVE  memory'[h + j - 1] = <<"hash", p, j>>
  <2>1. h + j - 1 \in Addresses /\ memory[h + j - 1] = <<"hash", p, j>>
    BY <1>3, <1>8 DEF HashIn, h
  <2>2. CASE field = "hash"
    <3>1. ASSUME NEW k \in 1 .. HashSize, h + j - 1 = h + k - 1 PROVE k = j
      BY <1>2, <3>1
    <3>2. QED
      BY <1>4, <2>1, <2>2, <3>1
  <2>3. CASE field = "value"
    BY <1>2, <1>5, <2>1, <2>3
  <2>4. CASE field = "crc"
    BY <1>2, <1>6, <2>1, <2>4
  <2>5. QED
    BY <1>1, <2>2, <2>3, <2>4
<1>9. ASSUME field \in {"hash", "crc"}, NEW j \in 1 .. s
      PROVE  memory'[h + HashSize + j - 1] = memory[h + HashSize + j - 1]
  <2>1. h + HashSize + j - 1 \in Addresses
    BY <1>3
  <2>2. CASE field = "hash"
    BY <1>2, <1>4, <2>1, <2>2
  <2>3. CASE field = "crc"
    BY <1>2, <1>6, <2>1, <2>3
  <2>4. QED
    BY <1>9, <2>2, <2>3
<1>10. ASSUME field = "hash", NEW j \in 1 .. CrcSize
       PROVE  memory'[h + HashSize + s + j - 1] = memory[h + HashSize + s + j - 1]
  <2>1. h + HashSize + s + j - 1 \in Addresses
    BY <1>3
  <2>2. QED
    BY <1>2, <1>4, <1>10, <2>1
<1>11. ASSUME NEW q \in Nvm!Names, NEW v \in Nvm!Settable(q), NEW i \in 1 .. CrcSize,
              NEW a \in Addresses, memory'[a] = <<"crc", q, v, i>>,
              memory[a] # <<"crc", q, v, i>>
       PROVE  field = "crc" /\ q = p /\ v = value /\ a = CrcAt(layout, q) + i - 1
  <2>1. field # "hash"
    BY <1>4, <1>11
  <2>2. field # "value"
    <3>1. <<"crc", q, v, i>> \notin Nvm!Plain
      BY KindsOfBytes, CrcApart
    <3>2. \A j \in 1 .. s : value[j] \in Nvm!Plain
      BY <1>1, <1>2, KindsOfBytes DEF s
    <3>3. QED
      BY <1>5, <1>11, <3>1, <3>2
  <2>3. PICK j \in 1 .. CrcSize :
          a = h + HashSize + s + j - 1 /\ memory'[a] = <<"crc", p, value, j>>
    BY <1>1, <1>6, <1>11, <2>1, <2>2
  <2>4. q = p /\ v = value /\ i = j
    BY <1>11, <2>3
  <2>5. QED
    BY <1>1, <1>2, <2>1, <2>2, <2>3, <2>4
<1>12. ASSUME done = DOMAIN Nvm!bytes
       PROVE  /\ field = "hash" => HashIn(memory', layout, p)
              /\ field = "value" => ValueIn(memory', layout, p, value)
              /\ field = "crc" => CrcIn(memory', layout, p, value)
  <2>1. \A j \in DOMAIN Nvm!bytes : memory'[Nvm!loc + j - 1] = Nvm!bytes[j]
    BY <1>12, WriteChanges
  <2>2. CASE field = "hash"
    BY <2>1, <2>2, WhatIsWritten DEF HashIn, p
  <2>3. CASE field = "value"
    BY <2>1, <2>3, WhatIsWritten DEF ValueIn, p
  <2>4. CASE field = "crc"
    BY <2>1, <2>4, WhatIsWritten DEF CrcIn, p
  <2>5. QED
    BY <1>1, <2>2, <2>3, <2>4
<1>13. HashIn(memory, layout, p) => HashIn(memory', layout, p)
  BY <1>8 DEF HashIn, h
<1>14. field \in {"hash", "crc"} =>
         \A v : ValueIn(memory, layout, p, v) => ValueIn(memory', layout, p, v)
  BY <1>2, <1>9 DEF ValueIn, s
<1>15. field = "hash" => \A v : CrcIn(memory, layout, p, v) => CrcIn(memory', layout, p, v)
  BY <1>2, <1>10 DEF CrcIn
<1>16. QED
  BY <1>7, <1>11, <1>12, <1>13, <1>14, <1>15 DEF FrameIn, p

\* A frame is what its addresses hold.
LEMMA FrameKept ==
  ASSUME NEW l \in Nvm!Firmwares, NEW p \in Nvm!Frames(l), NEW m, NEW n, NEW v,
         \A a \in Frame(l, p) : n[a] = m[a], FrameIn(m, l, p, v)
  PROVE  FrameIn(n, l, p, v)
BY FrameBytes DEF FrameIn, HashIn, ValueIn, CrcIn

\* The ghosts of a write that may be cut short.
LEMMA TouchedKeeps ==
  ASSUME NvmInv, todo # <<>>, NEW done \in SUBSET DOMAIN Nvm!bytes,
         memory' = Nvm!Written(done), layout' = layout, Nvm!Touched
  PROVE  /\ memory' \in [Addresses -> Nvm!Bytes] /\ DOMAIN candidates' = Nvm!Names
         /\ intact' \subseteq intact
         /\ IntactWhole' /\ CrcsOfCandidates' /\ CrcsAtHome'
<1> DEFINE p == todo[1]
<1>1. /\ NvmTypeOK /\ layout \in Nvm!Firmwares /\ p \in Nvm!Frames(layout)
      /\ value \in Nvm!Settable(p) /\ p \in Nvm!Names /\ DOMAIN candidates = Nvm!Names
      /\ intact \subseteq Nvm!Frames(layout)
  BY WhatIsWritten, IndexFacts DEF NvmInv, NvmTypeOK
<1>2. memory' \in [Addresses -> Nvm!Bytes]
  BY <1>1, WriteChanges
<1>3. field = "hash" => candidates' = candidates /\ intact' = intact
  BY DEF Nvm!Touched, Nvm!ghostVars
<1>4. field # "hash" =>
        candidates' = [candidates EXCEPT ![p] = @ \cup {value}] /\ intact' = intact \ {p}
  BY DEF Nvm!Touched
<1>5. /\ DOMAIN candidates' = Nvm!Names /\ intact' \subseteq intact
      /\ \A q \in Nvm!Names : candidates[q] \subseteq candidates'[q]
      /\ \A q \in Nvm!Names \ {p} : candidates'[q] = candidates[q]
      /\ field # "hash" => value \in candidates'[p]
  BY <1>1, <1>3, <1>4
<1>6. ASSUME NEW q \in intact' PROVE \E v \in Nvm!Settable(q) :
        candidates'[q] = {v} /\ FrameIn(memory', layout, q, v)
  <2>1. q \in intact /\ q \in Nvm!Frames(layout) /\ q \in Nvm!Names
    BY <1>1, <1>5, <1>6, IndexFacts
  <2>2. PICK v \in Nvm!Settable(q) : candidates[q] = {v} /\ FrameIn(memory, layout, q, v)
    BY <2>1 DEF NvmInv, IntactWhole
  <2>3. CASE q = p
    <3>1. field = "hash"
      BY <1>4, <1>6, <2>3
    <3>2. FrameIn(memory', layout, q, v)
      BY <1>1, <2>2, <2>3, <3>1, WriteEffect
    <3>3. QED
      BY <1>3, <2>2, <3>1, <3>2
  <2>4. CASE q # p
    <3>1. \A a \in Frame(layout, q) : memory'[a] = memory[a]
      BY <1>1, <2>1, <2>4, WriteEffect, FramesApart, FrameBytes
    <3>2. FrameIn(memory', layout, q, v)
      BY <1>1, <2>1, <2>2, <3>1, FrameKept
    <3>3. QED
      BY <1>5, <2>1, <2>2, <2>4, <3>2
  <2>5. QED
    BY <2>3, <2>4
<1>7. ASSUME NEW q \in Nvm!Frames(layout), NEW v \in Nvm!Settable(q), NEW i \in 1 .. CrcSize,
             memory'[CrcAt(layout, q) + i - 1] = <<"crc", q, v, i>>
      PROVE  v \in candidates'[q]
  <2> DEFINE a == CrcAt(layout, q) + i - 1
  <2>1. q \in Nvm!Names /\ a \in Addresses
    BY <1>1, FrameBytes
  <2>2. CASE memory[a] = <<"crc", q, v, i>>
    BY <1>5, <2>1, <2>2 DEF NvmInv, CrcsOfCandidates
  <2>3. CASE field = "crc" /\ q = p /\ v = value
    BY <1>5, <2>3
  <2>4. QED
    BY <1>1, <1>7, <2>1, <2>2, <2>3, WriteEffect
<1>8. ASSUME layout = Layouts[1], NEW q \in Nvm!Names, NEW v \in Nvm!Settable(q),
             NEW i \in 1 .. CrcSize, NEW a \in Addresses, memory'[a] = <<"crc", q, v, i>>
      PROVE  q \in Nvm!Frames(layout) /\ a = CrcAt(layout, q) + i - 1
  <2>1. CASE memory[a] = <<"crc", q, v, i>>
    BY <1>8, <2>1 DEF NvmInv, CrcsAtHome
  <2>2. CASE field = "crc" /\ q = p /\ v = value /\ a = CrcAt(layout, q) + i - 1
    BY <1>1, <2>2
  <2>3. QED
    BY <1>1, <1>8, <2>1, <2>2, WriteEffect
<1> HIDE DEF p
<1>9. IntactWhole'
  BY <1>6 DEF IntactWhole
<1>10. CrcsOfCandidates'
  BY <1>7 DEF CrcsOfCandidates
<1>11. CrcsAtHome'
  BY <1>8 DEF CrcsAtHome
<1>12. QED
  BY <1>2, <1>5, <1>9, <1>10, <1>11

\* Init and the steps.
LEMMA NvmInitially == Nvm!Init => NvmInv
<1>1. SUFFICES ASSUME Nvm!Init PROVE NvmInv
  OBVIOUS
<1>2. PICK b \in Blank : memory = [a \in 0 .. Nvm!size(Layouts[Len(Layouts)]) - 1 |-> b]
  BY <1>1 DEF Nvm!Init
<1>3. /\ layout = Layouts[1] /\ layout \in Nvm!Firmwares
      /\ call = "none" /\ todo = <<>> /\ field = "hash" /\ erased = 0
      /\ candidates = [p \in Nvm!Names |-> {}] /\ intact = {}
  BY <1>1, TwoLayouts DEF Nvm!Init
<1>4. memory = [a \in Addresses |-> b]
  BY <1>2 DEF Addresses, Last
<1>5. Len(layout) \in Nat \ {0} /\ layout \in Seq(Nvm!Names)
  BY <1>3, LayoutFacts
<1>6. layout[1] \in Nvm!Names /\ layout[1] \in Nvm!Frames(layout)
  BY <1>5 DEF Nvm!Frames, Nvm!ToSet
<1>7. b \in Nvm!Plain /\ b \in Nvm!Bytes
  BY <1>6, KindsOfBytes
<1>8. Nvm!size(layout) \in Nat \ {0}
  <2>1. /\ HashAt(layout, layout[1]) \in Nat /\ Nvm!sizes(layout[1]) \in Nat
        /\ FrameEnd(layout, layout[1])
             = HashAt(layout, layout[1]) + HashSize + Nvm!sizes(layout[1]) + CrcSize
        /\ FrameEnd(layout, layout[1]) <= Nvm!size(layout) /\ Nvm!size(layout) \in Nat
    BY <1>3, <1>6, FrameFacts
  <2>2. QED
    BY <2>1, Sizes
<1>9. NvmTypeOK
  BY <1>3, <1>4, <1>7, <1>8 DEF NvmTypeOK
<1>10. Progressed
  BY <1>3 DEF Progressed
<1>11. IntactWhole
  BY <1>3 DEF IntactWhole
<1>12. ASSUME NEW p \in Nvm!Names, NEW v \in Nvm!Settable(p), NEW i \in 1 .. CrcSize,
              NEW a \in Addresses
       PROVE  memory[a] # <<"crc", p, v, i>>
  BY <1>4, <1>7, KindsOfBytes, CrcApart
<1>13. CrcsOfCandidates
  BY <1>3, <1>12, FrameBytes DEF CrcsOfCandidates
<1>14. CrcsAtHome
  BY <1>12 DEF CrcsAtHome
<1>15. QED
  BY <1>9, <1>10, <1>11, <1>13, <1>14 DEF NvmInv

\* The storage and the ghosts stay as they are.
LEMMA UntouchedKeeps ==
  ASSUME NvmInv, UNCHANGED <<layout, memory, candidates, intact>>
  PROVE  IntactWhole' /\ CrcsOfCandidates' /\ CrcsAtHome'
<1>1. IntactWhole'
  BY DEF NvmInv, IntactWhole
<1>2. CrcsOfCandidates'
  BY DEF NvmInv, CrcsOfCandidates
<1>3. CrcsAtHome'
  BY DEF NvmInv, CrcsAtHome
<1>4. QED
  BY <1>1, <1>2, <1>3

LEMMA CallKeeps == NvmInv /\ Nvm!Call => NvmInv'
<1>1. SUFFICES ASSUME NvmInv, Nvm!Call PROVE NvmInv'
  OBVIOUS
<1>2. /\ layout \in Nvm!Firmwares /\ memory \in [Addresses -> Nvm!Bytes]
      /\ DOMAIN candidates = Nvm!Names /\ intact \subseteq Nvm!Frames(layout)
      /\ erased \in 0 .. Nvm!size(layout) - 1
      /\ call = "none" => todo = <<>> /\ field = "hash" /\ erased = 0
  BY <1>1 DEF NvmInv, NvmTypeOK
<1>3. CASE \E p \in Nvm!Frames(layout) : Nvm!reset(p) \/ \E v \in ValuesOf[p] : Nvm!set(p, v)
  <2>1. PICK p \in Nvm!Frames(layout) : \E v \in Nvm!Settable(p) : Nvm!set(p, v)
    BY <1>3 DEF Nvm!reset, Nvm!Settable
  <2>2. PICK v \in Nvm!Settable(p) : Nvm!set(p, v)
    BY <2>1
  <2>3. /\ call = "none" /\ call' = "set" /\ todo' = <<p>> /\ value' = v
        /\ UNCHANGED <<layout, memory, field, erased, candidates, intact>>
    BY <2>2 DEF Nvm!set, Nvm!ghostVars
  <2>4. NvmTypeOK'
    BY <1>2, <2>3 DEF NvmTypeOK
  <2>5. Progressed'
    BY <1>2, <2>3 DEF Progressed
  <2>6. QED
    BY <1>1, <2>3, <2>4, <2>5, UntouchedKeeps DEF NvmInv
<1>4. CASE Nvm!reset_all
  <2>1. /\ call = "none" /\ call' = "reset_all" /\ todo' = layout
        /\ value' = default_value[layout[1]]
        /\ UNCHANGED <<layout, memory, field, erased, candidates, intact>>
    BY <1>4 DEF Nvm!reset_all, Nvm!ghostVars
  <2>2. layout \in Seq(Nvm!Names) /\ Len(layout) \in Nat \ {0}
    BY <1>2, LayoutFacts
  <2>3. layout \in Seq(Nvm!Frames(layout)) /\ layout[1] \in Nvm!Names /\ layout # <<>>
    BY <2>2 DEF Nvm!Frames, Nvm!ToSet
  <2>4. default_value[layout[1]] \in Nvm!Settable(layout[1])
    BY <2>3, ValueFacts
  <2>5. NvmTypeOK'
    BY <1>2, <2>1, <2>3, <2>4 DEF NvmTypeOK
  <2>6. Progressed'
    BY <1>2, <2>1 DEF Progressed
  <2>7. QED
    BY <1>1, <2>1, <2>5, <2>6, UntouchedKeeps DEF NvmInv
<1>5. CASE Nvm!erase
  <2>1. /\ call = "none" /\ call' = "erase"
        /\ UNCHANGED <<layout, memory, todo, value, field, erased, candidates, intact>>
    BY <1>5 DEF Nvm!erase, Nvm!ghostVars
  <2>2. NvmTypeOK'
    BY <1>1, <1>2, <2>1 DEF NvmInv, NvmTypeOK
  <2>3. Progressed'
    BY <1>2, <2>1 DEF Progressed
  <2>4. QED
    BY <1>1, <2>1, <2>2, <2>3, UntouchedKeeps DEF NvmInv
<1>6. QED
  BY <1>1, <1>3, <1>4, <1>5 DEF Nvm!Call

LEMMA WriteFieldKeeps == NvmInv /\ Nvm!WriteField => NvmInv'
<1>1. SUFFICES ASSUME NvmInv, Nvm!WriteField PROVE NvmInv'
  OBVIOUS
<1>2. /\ todo # <<>> /\ field # "crc" /\ memory' = Nvm!Written(DOMAIN Nvm!bytes)
      /\ field' = IF field = "hash" THEN "value" ELSE "crc"
      /\ Nvm!Touched /\ UNCHANGED <<layout, call, todo, value, erased>>
  BY <1>1 DEF Nvm!WriteField
<1>3. /\ memory' \in [Addresses -> Nvm!Bytes] /\ DOMAIN candidates' = Nvm!Names
      /\ intact' \subseteq intact
      /\ IntactWhole' /\ CrcsOfCandidates' /\ CrcsAtHome'
  BY <1>1, <1>2, TouchedKeeps
<1>4. NvmTypeOK
  BY <1>1 DEF NvmInv
<1>5. NvmTypeOK'
  BY <1>2, <1>3, <1>4 DEF NvmTypeOK
<1>6. Progressed'
  <2>1. /\ HashIn(memory, layout, todo[1]) => HashIn(memory', layout, todo[1])
        /\ field = "hash" => HashIn(memory', layout, todo[1])
        /\ field = "value" => ValueIn(memory', layout, todo[1], value)
    BY <1>2, <1>4, WriteEffect
  <2>2. field \in {"hash", "value"} /\ call # "erase"
    BY <1>2, <1>4 DEF NvmTypeOK
  <2>3. field # "hash" => HashIn(memory, layout, todo[1])
    BY <1>1, <1>2 DEF NvmInv, Progressed
  <2>4. QED
    BY <1>2, <2>1, <2>2, <2>3 DEF Progressed
<1>7. QED
  BY <1>3, <1>5, <1>6 DEF NvmInv

LEMMA SizeFacts ==
  ASSUME NEW l \in Nvm!Firmwares
  PROVE  Nvm!size(l) \in Nat \ {0} /\ Nvm!size(Last) \in Nat /\ Nvm!size(l) <= Nvm!size(Last)
<1>1. Len(l) \in Nat \ {0} /\ l \in Seq(Nvm!Names)
  BY LayoutFacts
<1>2. l[1] \in Nvm!Frames(l)
  BY <1>1 DEF Nvm!Frames, Nvm!ToSet
<1>3. /\ HashAt(l, l[1]) \in Nat /\ Nvm!sizes(l[1]) \in Nat
      /\ FrameEnd(l, l[1]) = HashAt(l, l[1]) + HashSize + Nvm!sizes(l[1]) + CrcSize
      /\ FrameEnd(l, l[1]) <= Nvm!size(l) /\ Nvm!size(l) \in Nat
      /\ Nvm!size(Last) \in Nat /\ Nvm!size(l) <= Nvm!size(Last)
  BY <1>2, FrameFacts
<1>4. QED
  BY <1>3, Sizes

LEMMA WriteCrcKeeps == NvmInv /\ Nvm!WriteCrc => NvmInv'
<1> DEFINE p == todo[1]
<1>1. SUFFICES ASSUME NvmInv, Nvm!WriteCrc PROVE NvmInv'
  OBVIOUS
<1>2. /\ todo # <<>> /\ field = "crc" /\ memory' = Nvm!Written(DOMAIN Nvm!bytes)
      /\ field' = "hash" /\ todo' = Tail(todo)
      /\ value' = IF todo' = <<>> THEN <<>> ELSE default_value[todo'[1]]
      /\ call' = IF todo' = <<>> THEN "none" ELSE call
      /\ candidates' = [candidates EXCEPT ![p] = {value}]
      /\ intact' = intact \cup {p}
      /\ UNCHANGED <<layout, erased>>
  BY <1>1 DEF Nvm!WriteCrc
<1>3. /\ NvmTypeOK /\ layout \in Nvm!Firmwares /\ p \in Nvm!Frames(layout)
      /\ value \in Nvm!Settable(p) /\ p \in Nvm!Names /\ DOMAIN candidates = Nvm!Names
      /\ intact \subseteq Nvm!Frames(layout)
  BY <1>1, <1>2, WhatIsWritten, IndexFacts DEF NvmInv, NvmTypeOK
<1>4. memory' \in [Addresses -> Nvm!Bytes]
  BY <1>2, <1>3, WriteChanges
<1>5. /\ DOMAIN candidates' = Nvm!Names /\ candidates'[p] = {value}
      /\ \A q \in Nvm!Names \ {p} : candidates'[q] = candidates[q]
  BY <1>2, <1>3
<1>6. NvmTypeOK'
  <2>1. todo \in Seq(Nvm!Frames(layout)) /\ call # "erase" /\ call # "none" /\ erased = 0
        /\ 0 \in 0 .. Nvm!size(layout) - 1
    BY <1>2, <1>3, SizeFacts DEF NvmTypeOK
  <2>2. todo' \in Seq(Nvm!Frames(layout))
    BY <1>2, <2>1
  <2>3. todo' # <<>> => value' \in Nvm!Settable(todo'[1])
    <3>1. SUFFICES ASSUME todo' # <<>> PROVE value' \in Nvm!Settable(todo'[1])
      OBVIOUS
    <3>2. todo'[1] \in Nvm!Frames(layout)
      BY <2>2, <3>1
    <3>3. QED
      BY <1>2, <1>3, <3>1, <3>2, IndexFacts, ValueFacts
  <2>4. intact' \subseteq Nvm!Frames(layout)
    BY <1>2, <1>3
  <2> HIDE DEF p
  <2>5. QED
    BY <1>2, <1>3, <1>4, <1>5, <2>1, <2>2, <2>3, <2>4 DEF NvmTypeOK
<1>7. Progressed'
  BY <1>2, <1>3 DEF Progressed, NvmTypeOK
<1>8. /\ \A a \in Addresses \ Frame(layout, p) : memory'[a] = memory[a]
      /\ HashIn(memory', layout, p) /\ ValueIn(memory', layout, p, value)
      /\ CrcIn(memory', layout, p, value)
      /\ \A q \in Nvm!Names : \A v \in Nvm!Settable(q), i \in 1 .. CrcSize, a \in Addresses :
           memory'[a] = <<"crc", q, v, i>> =>
             \/ memory[a] = <<"crc", q, v, i>>
             \/ q = p /\ v = value /\ a = CrcAt(layout, q) + i - 1
  <2>1. HashIn(memory, layout, p) /\ ValueIn(memory, layout, p, value)
    BY <1>1, <1>2 DEF NvmInv, Progressed
  <2>2. QED
    BY <1>2, <1>3, <2>1, WriteEffect
<1>9. ASSUME NEW q \in intact' PROVE \E v \in Nvm!Settable(q) :
        candidates'[q] = {v} /\ FrameIn(memory', layout, q, v)
  <2>1. CASE q = p
    BY <1>3, <1>5, <1>8, <2>1 DEF FrameIn
  <2>2. CASE q # p
    <3>1. q \in intact /\ q \in Nvm!Frames(layout) /\ q \in Nvm!Names
      BY <1>2, <1>3, <1>9, <2>2, IndexFacts
    <3>2. PICK v \in Nvm!Settable(q) : candidates[q] = {v} /\ FrameIn(memory, layout, q, v)
      BY <1>1, <3>1 DEF NvmInv, IntactWhole
    <3>3. \A a \in Frame(layout, q) : memory'[a] = memory[a]
      BY <1>3, <1>8, <2>2, <3>1, FramesApart, FrameBytes
    <3>4. FrameIn(memory', layout, q, v)
      BY <1>3, <3>1, <3>2, <3>3, FrameKept
    <3>5. QED
      BY <1>5, <2>2, <3>1, <3>2, <3>4
  <2>3. QED
    BY <2>1, <2>2
<1>10. ASSUME NEW q \in Nvm!Frames(layout), NEW v \in Nvm!Settable(q), NEW i \in 1 .. CrcSize,
              memory'[CrcAt(layout, q) + i - 1] = <<"crc", q, v, i>>
       PROVE  v \in candidates'[q]
  <2> DEFINE a == CrcAt(layout, q) + i - 1
  <2>1. q \in Nvm!Names /\ a \in Addresses /\ a \in Frame(layout, q)
    BY <1>3, FrameBytes
  <2>2. CASE q = p
    <3>1. memory'[a] = <<"crc", p, value, i>>
      BY <1>8, <2>2 DEF CrcIn
    <3>2. v = value
      BY <1>10, <3>1
    <3>3. QED
      BY <1>5, <2>2, <3>2
  <2>3. CASE q # p
    <3>1. memory[a] = <<"crc", q, v, i>>
      BY <1>8, <1>10, <2>1, <2>3
    <3>2. v \in candidates[q]
      BY <1>1, <3>1 DEF NvmInv, CrcsOfCandidates
    <3>3. QED
      BY <1>5, <2>1, <2>3, <3>2
  <2>4. QED
    BY <2>2, <2>3
<1>11. ASSUME layout = Layouts[1], NEW q \in Nvm!Names, NEW v \in Nvm!Settable(q),
              NEW i \in 1 .. CrcSize, NEW a \in Addresses, memory'[a] = <<"crc", q, v, i>>
       PROVE  q \in Nvm!Frames(layout) /\ a = CrcAt(layout, q) + i - 1
  <2>1. CASE memory[a] = <<"crc", q, v, i>>
    BY <1>1, <1>11, <2>1 DEF NvmInv, CrcsAtHome
  <2>2. CASE q = p /\ a = CrcAt(layout, q) + i - 1
    BY <1>3, <2>2
  <2>3. QED
    BY <1>8, <1>11, <2>1, <2>2
<1> HIDE DEF p
<1>12. IntactWhole'
  BY <1>2, <1>9 DEF IntactWhole
<1>13. CrcsOfCandidates'
  BY <1>2, <1>10 DEF CrcsOfCandidates
<1>14. CrcsAtHome'
  BY <1>2, <1>11 DEF CrcsAtHome
<1>15. QED
  BY <1>6, <1>7, <1>12, <1>13, <1>14 DEF NvmInv

LEMMA EraseByteKeeps == NvmInv /\ Nvm!EraseByte => NvmInv'
<1>1. SUFFICES ASSUME NvmInv, Nvm!EraseByte PROVE NvmInv'
  OBVIOUS
<1>2. /\ call = "erase" /\ memory' = [memory EXCEPT ![erased] = Zero]
      /\ intact' = {p \in intact :
                     erased \notin Nvm!hash_loc(p) .. Nvm!crc_loc(p) + CrcSize - 1}
      /\ erased' = IF erased + 1 < Nvm!size(layout) THEN erased + 1 ELSE 0
      /\ call' = IF erased' = 0 THEN "none" ELSE call
      /\ candidates' = IF erased' = 0 THEN [p \in Nvm!Names |-> {}] ELSE candidates
      /\ UNCHANGED <<layout, todo, value, field>>
  BY <1>1 DEF Nvm!EraseByte
<1>3. /\ NvmTypeOK /\ layout \in Nvm!Firmwares /\ memory \in [Addresses -> Nvm!Bytes]
      /\ DOMAIN candidates = Nvm!Names /\ intact \subseteq Nvm!Frames(layout)
      /\ erased \in 0 .. Nvm!size(layout) - 1 /\ todo = <<>> /\ field = "hash"
  BY <1>1, <1>2 DEF NvmInv, NvmTypeOK
<1>4. /\ Nvm!size(layout) \in Nat \ {0} /\ Nvm!size(Last) \in Nat
      /\ Nvm!size(layout) <= Nvm!size(Last)
  BY <1>3, SizeFacts
<1>5. erased \in Addresses /\ erased \in Nat
  BY <1>3, <1>4 DEF Addresses
<1>6. Zero \in Nvm!Plain /\ Zero \in Nvm!Bytes
  <2>1. layout \in Seq(Nvm!Names) /\ Len(layout) \in Nat \ {0}
    BY <1>3, LayoutFacts
  <2>2. layout[1] \in Nvm!Names
    BY <2>1
  <2>3. QED
    BY <2>2, KindsOfBytes
<1>7. /\ memory' \in [Addresses -> Nvm!Bytes] /\ memory'[erased] = Zero
      /\ \A a \in Addresses \ {erased} : memory'[a] = memory[a]
  BY <1>2, <1>3, <1>5, <1>6
<1>8. \/ erased' = erased + 1 /\ erased' # 0 /\ erased' \in 0 .. Nvm!size(layout) - 1
      \/ erased' = 0 /\ erased = Nvm!size(layout) - 1
  BY <1>2, <1>3, <1>4, <1>5
<1>9. \A p \in intact : Nvm!hash_loc(p) .. Nvm!crc_loc(p) + CrcSize - 1 = Frame(layout, p)
  <2>1. \A p : Nvm!hash_loc(p) = HashAt(layout, p) /\ Nvm!crc_loc(p) = CrcAt(layout, p)
    BY DEF CrcAt, ValueAt, HashAt, Nvm!hash_loc, Nvm!val_loc, Nvm!crc_loc
  <2>2. \A p \in intact : CrcAt(layout, p) \in Nat
    BY <1>3, FrameFacts, Sizes
  <2>3. QED
    BY <2>1, <2>2, Sizes DEF Frame, FrameEnd
<1>10. intact' = {p \in intact : erased \notin Frame(layout, p)}
  BY <1>2, <1>9
<1>11. NvmTypeOK'
  BY <1>2, <1>3, <1>4, <1>7, <1>8, <1>10 DEF NvmTypeOK
<1>12. \A a \in 0 .. erased : a \in Addresses /\ memory'[a] = Zero
  <2>1. \A a \in 0 .. erased - 1 : memory[a] = Zero
    BY <1>1, <1>2 DEF NvmInv, Progressed
  <2>2. \A a \in 0 .. erased : a \in Addresses
    BY <1>3, <1>4, <1>5 DEF Addresses
  <2>3. QED
    BY <1>5, <1>7, <2>1, <2>2
<1>13. Progressed'
  BY <1>2, <1>3, <1>5, <1>8, <1>12 DEF Progressed
<1>14. ASSUME NEW q \in Nvm!Names, NEW v \in Nvm!Settable(q), NEW i \in 1 .. CrcSize,
              NEW a \in Addresses, memory'[a] = <<"crc", q, v, i>>
       PROVE  memory[a] = <<"crc", q, v, i>>
  <2>1. <<"crc", q, v, i>> \notin Nvm!Plain
    BY KindsOfBytes, CrcApart
  <2>2. QED
    BY <1>6, <1>7, <1>14, <2>1
<1>15. ASSUME erased' = 0, NEW q \in Nvm!Frames(layout), NEW i \in 1 .. CrcSize
       PROVE  memory'[CrcAt(layout, q) + i - 1] = Zero
  <2>1. /\ CrcAt(layout, q) + i - 1 \in Frame(layout, q)
        /\ HashAt(layout, q) \in Nat /\ FrameEnd(layout, q) <= Nvm!size(layout)
        /\ Nvm!sizes(q) \in Nat
        /\ FrameEnd(layout, q) = HashAt(layout, q) + HashSize + Nvm!sizes(q) + CrcSize
    BY <1>3, FrameFacts, FrameBytes
  <2>2. CrcAt(layout, q) + i - 1 \in 0 .. erased
    BY <1>4, <1>5, <1>8, <1>15, <2>1, Sizes DEF Frame
  <2>3. QED
    BY <1>12, <2>2
<1>16. ASSUME NEW q \in intact' PROVE \E v \in Nvm!Settable(q) :
         candidates'[q] = {v} /\ FrameIn(memory', layout, q, v)
  <2>1. q \in intact /\ q \in Nvm!Frames(layout) /\ q \in Nvm!Names
        /\ erased \notin Frame(layout, q)
    BY <1>3, <1>10, <1>16, IndexFacts
  <2>2. PICK v \in Nvm!Settable(q) : candidates[q] = {v} /\ FrameIn(memory, layout, q, v)
    BY <1>1, <2>1 DEF NvmInv, IntactWhole
  <2>3. \A a \in Frame(layout, q) : memory'[a] = memory[a]
    BY <1>3, <1>7, <2>1, FrameBytes
  <2>4. FrameIn(memory', layout, q, v)
    BY <1>3, <2>1, <2>2, <2>3, FrameKept
  <2>5. erased' # 0
    <3>1. SUFFICES ASSUME erased' = 0 PROVE FALSE
      OBVIOUS
    <3>2. 1 \in 1 .. CrcSize
      BY Sizes
    <3>3. memory'[CrcAt(layout, q) + 1 - 1] = <<"crc", q, v, 1>>
      BY <2>4, <3>2 DEF FrameIn, CrcIn
    <3>4. memory'[CrcAt(layout, q) + 1 - 1] = Zero
      BY <1>15, <2>1, <3>1, <3>2
    <3>5. <<"crc", q, v, 1>> \notin Nvm!Plain
      BY <2>1, <3>2, KindsOfBytes, CrcApart
    <3>6. QED
      BY <1>6, <3>3, <3>4, <3>5
  <2>6. QED
    BY <1>2, <2>2, <2>4, <2>5
<1>17. ASSUME NEW q \in Nvm!Frames(layout), NEW v \in Nvm!Settable(q), NEW i \in 1 .. CrcSize,
              memory'[CrcAt(layout, q) + i - 1] = <<"crc", q, v, i>>
       PROVE  v \in candidates'[q]
  <2>1. q \in Nvm!Names /\ CrcAt(layout, q) + i - 1 \in Addresses
    BY <1>3, FrameBytes
  <2>2. v \in candidates[q]
    BY <1>1, <1>14, <1>17, <2>1 DEF NvmInv, CrcsOfCandidates
  <2>3. erased' # 0
    BY <1>6, <1>15, <1>17, <2>1, KindsOfBytes, CrcApart
  <2>4. QED
    BY <1>2, <2>2, <2>3
<1>18. IntactWhole'
  BY <1>2, <1>16 DEF IntactWhole
<1>19. CrcsOfCandidates'
  BY <1>2, <1>17 DEF CrcsOfCandidates
<1>20. CrcsAtHome'
  BY <1>1, <1>2, <1>14 DEF NvmInv, CrcsAtHome
<1>21. QED
  BY <1>11, <1>13, <1>18, <1>19, <1>20 DEF NvmInv

LEMMA InterruptedKeeps == NvmInv /\ Nvm!Interrupted => NvmInv'
<1>1. SUFFICES ASSUME NvmInv, Nvm!Interrupted PROVE NvmInv'
  OBVIOUS
<1>2. /\ \/ /\ todo # <<>>
            /\ \E done \in SUBSET DOMAIN Nvm!bytes : memory' = Nvm!Written(done)
            /\ Nvm!Touched
         \/ UNCHANGED <<memory, candidates, intact>>
      /\ call' = "none" /\ todo' = <<>> /\ field' = "hash" /\ erased' = 0
      /\ layout' = layout
  BY <1>1 DEF Nvm!Interrupted, Nvm!ghostVars
<1>3. NvmTypeOK
  BY <1>1 DEF NvmInv
<1>4. /\ memory' \in [Addresses -> Nvm!Bytes] /\ DOMAIN candidates' = Nvm!Names
      /\ intact' \subseteq intact
      /\ IntactWhole' /\ CrcsOfCandidates' /\ CrcsAtHome'
  <2>1. CASE UNCHANGED <<memory, candidates, intact>>
    BY <1>1, <1>2, <1>3, <2>1, UntouchedKeeps DEF NvmTypeOK
  <2>2. CASE todo # <<>> /\ Nvm!Touched
             /\ \E done \in SUBSET DOMAIN Nvm!bytes : memory' = Nvm!Written(done)
    <3>1. PICK done \in SUBSET DOMAIN Nvm!bytes : memory' = Nvm!Written(done)
      BY <2>2
    <3>2. QED
      BY <1>1, <1>2, <2>2, <3>1, TouchedKeeps
  <2>3. QED
    BY <1>2, <2>1, <2>2
<1>5. NvmTypeOK'
  <2>1. 0 \in 0 .. Nvm!size(layout) - 1
    BY <1>3, SizeFacts DEF NvmTypeOK
  <2>2. QED
    BY <1>2, <1>3, <1>4, <2>1 DEF NvmTypeOK
<1>6. Progressed'
  BY <1>2 DEF Progressed
<1>7. QED
  BY <1>4, <1>5, <1>6 DEF NvmInv

\* The next firmware finds what the first one left.
LEMMA UpdateKeeps == NvmInv /\ Nvm!Update => NvmInv'
<1>1. SUFFICES ASSUME NvmInv, Nvm!Update PROVE NvmInv'
  OBVIOUS
<1>2. PICK next \in Nvm!Firmwares \ {layout} :
        /\ layout = Layouts[1] /\ layout' = next
        /\ intact' = {p \in intact \cap Nvm!Frames(next) :
                       Nvm!offset_of(next, p) = Nvm!hash_loc(p)}
  BY <1>1 DEF Nvm!Update
<1>3. call = "none" /\ UNCHANGED <<memory, call, todo, value, field, erased, candidates>>
  BY <1>1 DEF Nvm!Update, Nvm!callVars
<1>4. /\ layout \in Nvm!Firmwares /\ memory \in [Addresses -> Nvm!Bytes]
      /\ DOMAIN candidates = Nvm!Names /\ intact \subseteq Nvm!Frames(layout)
      /\ todo = <<>> /\ field = "hash" /\ erased = 0
  BY <1>1, <1>3 DEF NvmInv, NvmTypeOK
<1>5. NvmTypeOK'
  <2>1. 0 \in 0 .. Nvm!size(next) - 1
    BY SizeFacts
  <2>2. todo' = <<>> /\ call' = "none" /\ field' = "hash" /\ erased' = 0
        /\ memory' = memory /\ candidates' = candidates
    BY <1>3, <1>4
  <2>3. intact' \subseteq Nvm!Frames(next) /\ layout' = next
    BY <1>2
  <2>4. QED
    BY <1>4, <2>1, <2>2, <2>3 DEF NvmTypeOK
<1>6. Progressed'
  BY <1>3, <1>4 DEF Progressed
<1>7. ASSUME NEW p \in intact'
      PROVE  \E v \in Nvm!Settable(p) : candidates[p] = {v} /\ FrameIn(memory, next, p, v)
  <2>1. p \in intact /\ HashAt(next, p) = HashAt(layout, p)
    BY <1>2, <1>7 DEF HashAt, Nvm!hash_loc
  <2>2. PICK v \in Nvm!Settable(p) : candidates[p] = {v} /\ FrameIn(memory, layout, p, v)
    BY <1>1, <2>1 DEF NvmInv, IntactWhole
  <2>3. FrameIn(memory, next, p, v)
    BY <2>1, <2>2 DEF FrameIn, HashIn, ValueIn, CrcIn, CrcAt, ValueAt
  <2>4. QED
    BY <2>2, <2>3
<1>8. IntactWhole'
  BY <1>2, <1>3, <1>7 DEF IntactWhole
<1>9. ASSUME NEW p \in Nvm!Frames(next), NEW v \in Nvm!Settable(p), NEW i \in 1 .. CrcSize,
             memory[CrcAt(next, p) + i - 1] = <<"crc", p, v, i>>
      PROVE  v \in candidates[p]
  <2>1. p \in Nvm!Names /\ CrcAt(next, p) + i - 1 \in Addresses
    BY FrameBytes
  <2>2. p \in Nvm!Frames(layout) /\ CrcAt(next, p) + i - 1 = CrcAt(layout, p) + i - 1
    BY <1>1, <1>2, <1>9, <2>1 DEF NvmInv, CrcsAtHome
  <2>3. memory[CrcAt(layout, p) + i - 1] = <<"crc", p, v, i>>
    BY <1>9, <2>2
  <2>4. QED
    BY <1>1, <2>2, <2>3 DEF NvmInv, CrcsOfCandidates
<1>10. CrcsOfCandidates'
  BY <1>2, <1>3, <1>9 DEF CrcsOfCandidates
<1>11. CrcsAtHome'
  BY <1>2 DEF CrcsAtHome
<1>12. QED
  BY <1>5, <1>6, <1>8, <1>10, <1>11 DEF NvmInv

\* NvmInv holds in every state: an intact parameter has its frame whole, at the
\* addresses that the layout gives it, and no byte of a CRC is anywhere that the
\* parameter it belongs to could be misread from (set, reset_all, erase, the next
\* firmware).
THEOREM StorageInvariant == Nvm!Spec => []NvmInv
<1>1. NvmInv /\ [Nvm!Next]_Nvm!nvmVars => NvmInv'
  <2>1. SUFFICES ASSUME NvmInv, [Nvm!Next]_Nvm!nvmVars PROVE NvmInv'
    OBVIOUS
  <2>2. CASE UNCHANGED Nvm!nvmVars
    <3>1. UNCHANGED <<layout, memory, call, todo, value, field, erased, candidates, intact>>
      BY <2>2 DEF Nvm!nvmVars, Nvm!callVars, Nvm!ghostVars
    <3>2. NvmTypeOK'
      BY <2>1, <3>1 DEF NvmInv, NvmTypeOK
    <3>3. Progressed'
      BY <2>1, <3>1 DEF NvmInv, Progressed
    <3>4. QED
      BY <2>1, <3>1, <3>2, <3>3, UntouchedKeeps DEF NvmInv
  <2>3. QED
    BY <2>1, <2>2, CallKeeps, WriteFieldKeeps, WriteCrcKeeps, EraseByteKeeps,
       InterruptedKeeps, UpdateKeeps DEF Nvm!Next
<1>2. QED
  BY <1>1, NvmInitially, PTL DEF Nvm!Spec

\* What a get finds in a whole frame.
LEMMA WholeFrameRead ==
  ASSUME NvmTypeOK, NEW p \in Nvm!Frames(layout), NEW v \in Nvm!Settable(p),
         FrameIn(memory, layout, p, v)
  PROVE  Nvm!get(p) = [value |-> v]
<1>1. p \in Nvm!Names /\ layout \in Nvm!Firmwares
  BY IndexFacts DEF NvmTypeOK
<1>2. /\ Nvm!hash_loc(p) = HashAt(layout, p) /\ Nvm!val_loc(p) = ValueAt(layout, p)
      /\ Nvm!crc_loc(p) = CrcAt(layout, p)
  BY DEF HashAt, ValueAt, CrcAt, Nvm!hash_loc, Nvm!val_loc, Nvm!crc_loc
<1>3. Nvm!read(Nvm!hash_loc(p), HashSize) = Nvm!hash(p)
  BY <1>2 DEF Nvm!read, Nvm!hash, FrameIn, HashIn
<1>4. Nvm!read(Nvm!val_loc(p), Nvm!sizes(p)) = v
  <2>1. v = [i \in 1 .. Nvm!sizes(p) |-> v[i]]
    BY <1>1, ValueFacts
  <2>2. QED
    BY <1>2, <2>1 DEF Nvm!read, FrameIn, ValueIn
<1>5. Nvm!read(Nvm!crc_loc(p), CrcSize) = Nvm!crc(p, v)
  BY <1>2 DEF Nvm!read, Nvm!crc, FrameIn, CrcIn
<1>6. QED
  BY <1>3, <1>4, <1>5 DEF Nvm!get

\* A value that a get returns has its CRC behind it.
LEMMA ValueReadHasCrc ==
  ASSUME NvmInv, NEW p \in Nvm!Frames(layout), "value" \in DOMAIN Nvm!get(p)
  PROVE  Nvm!get(p).value \in candidates[p]
<1> DEFINE val == Nvm!read(Nvm!val_loc(p), Nvm!sizes(p))
<1>1. /\ p \in Nvm!Names /\ layout \in Nvm!Firmwares /\ memory \in [Addresses -> Nvm!Bytes]
      /\ Nvm!sizes(p) \in Nat
  BY IndexFacts, FrameFacts DEF NvmInv, NvmTypeOK
<1>2. /\ Nvm!val_loc(p) = ValueAt(layout, p) /\ Nvm!crc_loc(p) = CrcAt(layout, p)
  BY DEF HashAt, ValueAt, CrcAt, Nvm!hash_loc, Nvm!val_loc, Nvm!crc_loc
<1>3. Nvm!read(Nvm!crc_loc(p), CrcSize) = Nvm!crc(p, val) /\ Nvm!get(p).value = val
  BY DEF Nvm!get
<1>4. val \in Seq(Nvm!Bytes)
  <2>1. \A i \in 1 .. Nvm!sizes(p) : memory[ValueAt(layout, p) + i - 1] \in Nvm!Bytes
    BY <1>1, FrameBytes
  <2>2. val = [i \in 1 .. Nvm!sizes(p) |-> memory[ValueAt(layout, p) + i - 1]]
    BY <1>2 DEF Nvm!read
  <2> HIDE DEF val
  <2>3. QED
    BY <1>1, <2>1, <2>2
<1> HIDE DEF val
<1>5. 1 \in 1 .. CrcSize
  BY Sizes
<1>6. memory[CrcAt(layout, p) + 1 - 1] = <<"crc", p, val, 1>>
  <2>1. Nvm!read(Nvm!crc_loc(p), CrcSize)[1] = memory[CrcAt(layout, p) + 1 - 1]
    BY <1>2, <1>5 DEF Nvm!read
  <2>2. Nvm!crc(p, val)[1] = <<"crc", p, val, 1>>
    BY <1>5 DEF Nvm!crc
  <2>3. QED
    BY <1>3, <2>1, <2>2
<1>7. <<"crc", p, val, 1>> \in Nvm!Bytes
  <2>1. CrcAt(layout, p) + 1 - 1 \in Addresses
    BY <1>1, <1>5, FrameBytes
  <2>2. QED
    BY <1>1, <1>6, <2>1
<1>8. val \in Nvm!Settable(p)
  BY <1>1, <1>4, <1>5, <1>7, CrcApart
<1>9. QED
  BY <1>3, <1>5, <1>6, <1>8 DEF NvmInv, CrcsOfCandidates

\* The property of run data: a parameter that was set reads back, whatever happened
\* to the others, and a get never makes up a value (get, set, offset_of).
THEOREM SetReadsBack == Nvm!Spec => []GetReturnsWhatWasSet
<1>1. NvmInv => GetReturnsWhatWasSet
  <2>1. SUFFICES ASSUME NvmInv, NEW p \in Nvm!Frames(layout)
                 PROVE  /\ p \in intact =>
                             Nvm!get(p) = [value |-> CHOOSE v \in candidates[p] : TRUE]
                        /\ "value" \in DOMAIN Nvm!get(p) => Nvm!get(p).value \in candidates[p]
    BY DEF GetReturnsWhatWasSet, Nvm!GetReturnsWhatWasSet
  <2>2. ASSUME p \in intact
        PROVE  Nvm!get(p) = [value |-> CHOOSE v \in candidates[p] : TRUE]
    <3>1. PICK v \in Nvm!Settable(p) : candidates[p] = {v} /\ FrameIn(memory, layout, p, v)
      BY <2>1, <2>2 DEF NvmInv, IntactWhole
    <3>2. (CHOOSE w \in {v} : TRUE) = v
      OBVIOUS
    <3>3. QED
      BY <2>1, <3>1, <3>2, WholeFrameRead DEF NvmInv
  <2>3. QED
    BY <2>1, <2>2, ValueReadHasCrc
<1>2. QED
  BY <1>1, StorageInvariant, PTL

-----------------------------------------------------------------------------
(* The triple buffer.                                                      *)

\* The invariant, which is inductive.
TripleInv == Triple!TypeOK /\ Triple!ThreeBuffers

\* Fresh buffers, and all of them zero.
LEMMA TripleInitially == Triple!Init => TripleInv
<1> SUFFICES ASSUME Triple!Init PROVE TripleInv
  OBVIOUS
<1>1. MaxValue \in Nat
  BY TripleBufferAssumption
<1>2. Triple!TypeOK
  <2>1. 0 \in Triple!Stores /\ Triple!Whole(0) \in [Words -> Triple!Stores]
    BY <1>1 DEF Triple!Stores, Triple!Whole
  <2>2. buf \in [Triple!Slots -> [Words -> Triple!Stores]]
        /\ {shared, write, read} \subseteq Triple!Slots
    BY <2>1 DEF Triple!Init, Triple!Slots
  <2>3. QED
    BY <2>1, <2>2 DEF Triple!Init, Triple!TypeOK
<1>3. \A s \in Triple!Slots : buf[s] \in Triple!Committed
  BY DEF Triple!Init, Triple!Slots, Triple!Committed
<1>4. QED
  BY <1>2, <1>3 DEF Triple!Init, TripleInv, Triple!ThreeBuffers, Triple!Slots

\* A store begins.
LEMMA StoreKeeps == TripleInv /\ Triple!Store => TripleInv'
<1> SUFFICES ASSUME TripleInv, Triple!Store PROVE TripleInv'
  OBVIOUS
<1>1. MaxValue \in Nat
  BY TripleBufferAssumption
<1>2. Triple!TypeOK'
  BY <1>1 DEF TripleInv, Triple!ThreeBuffers, Triple!Store, Triple!TypeOK, Triple!Slots,
         Triple!Stores, Triple!readerVars
<1>3. committed = desired /\ desired \in Nat /\ desired' = desired + 1
  BY <1>1 DEF TripleInv, Triple!ThreeBuffers, Triple!Store, Triple!TypeOK, Triple!Stores
<1>4. Triple!Committed' = Triple!Committed
  BY DEF Triple!Store, Triple!Committed, Triple!Whole
<1>5. QED
  BY <1>2, <1>3, <1>4 DEF TripleInv, Triple!ThreeBuffers, Triple!Store, Triple!TypeOK,
         Triple!Slots, Triple!readerVars, Triple!Whole

\* The writer is in its own buffer.
LEMMA WriteWordKeeps == ASSUME TripleInv, NEW w \in Words, Triple!WriteWord(w) PROVE TripleInv'
<1>1. desired \in Triple!Stores /\ write \in Triple!Slots /\ shared \in Triple!Slots
      /\ read \in Triple!Slots
      /\ buf \in [Triple!Slots -> [Words -> Triple!Stores]]
  BY DEF TripleInv, Triple!ThreeBuffers, Triple!TypeOK
<1>2. buf' = [buf EXCEPT ![write] = [buf[write] EXCEPT ![w] = desired]]
  BY DEF Triple!WriteWord
<1>3. buf' \in [Triple!Slots -> [Words -> Triple!Stores]]
  BY <1>1, <1>2
<1>4. /\ \A s \in Triple!Slots \ {write} : buf'[s] = buf[s]
      /\ buf'[write] = [buf[write] EXCEPT ![w] = desired]
  BY <1>1, <1>2
<1>5. Triple!TypeOK'
  BY <1>3 DEF TripleInv, Triple!ThreeBuffers, Triple!WriteWord, Triple!TypeOK,
         Triple!readerVars, Triple!Stores, Triple!Slots
<1>6. Triple!Committed' = Triple!Committed
  BY DEF Triple!WriteWord, Triple!Committed, Triple!Whole
<1>7. \A v \in Words \ wleft' : buf'[write'][v] = desired'
  <2> SUFFICES ASSUME NEW v \in Words \ wleft' PROVE buf'[write][v] = desired
    BY DEF Triple!WriteWord
  <2>1. CASE v = w
    BY <2>1, <1>1, <1>4
  <2>2. CASE v # w
    BY <2>2, <1>1, <1>4 DEF TripleInv, Triple!ThreeBuffers, Triple!WriteWord
  <2>3. QED
    BY <2>1, <2>2
<1>8. read # write /\ shared # write /\ buf'[read] = buf[read] /\ buf'[shared] = buf[shared]
  BY <1>1, <1>4 DEF TripleInv, Triple!ThreeBuffers
<1>9. QED
  BY <1>4, <1>5, <1>6, <1>7, <1>8 DEF TripleInv, Triple!ThreeBuffers, Triple!WriteWord,
         Triple!readerVars, Triple!Whole

\* The writer's buffer is whole, and becomes the shared one.
LEMMA PublishKeeps == TripleInv /\ Triple!Publish => TripleInv'
<1> SUFFICES ASSUME TripleInv, Triple!Publish PROVE TripleInv'
  OBVIOUS
<1>1. MaxValue \in Nat /\ desired \in Triple!Stores /\ committed \in Triple!Stores
      /\ write \in Triple!Slots /\ shared \in Triple!Slots /\ read \in Triple!Slots
      /\ buf \in [Triple!Slots -> [Words -> Triple!Stores]]
  BY TripleBufferAssumption DEF TripleInv, Triple!ThreeBuffers, Triple!TypeOK
<1>2. committed = desired - 1
  BY DEF TripleInv, Triple!ThreeBuffers, Triple!Publish
<1>3. buf[write] = Triple!Whole(desired)
  BY <1>1 DEF TripleInv, Triple!ThreeBuffers, Triple!Publish, Triple!Whole
<1>4. /\ write' = shared /\ shared' = write /\ read' = read /\ buf' = buf
      /\ committed' = desired
  BY DEF Triple!Publish
<1>5. Triple!TypeOK'
  <2>1. owed' \in SUBSET Triple!Stores
    BY <1>1 DEF TripleInv, Triple!ThreeBuffers, Triple!TypeOK, Triple!Publish
  <2>2. QED
    BY <2>1, <1>1, <1>4 DEF TripleInv, Triple!ThreeBuffers, Triple!TypeOK, Triple!Publish,
           Triple!readerVars
<1>6. Triple!Committed \subseteq Triple!Committed' /\ Triple!Whole(desired) \in Triple!Committed'
  <2>1. \A v \in 0 .. committed : v \in 0 .. committed'
    BY <1>1, <1>2, <1>4 DEF Triple!Stores
  <2>2. desired \in 0 .. committed'
    BY <1>1, <1>4 DEF Triple!Stores
  <2>3. QED
    BY <2>1, <2>2 DEF Triple!Committed, Triple!Whole
<1>7. \A s \in Triple!Slots' \ {write'} : buf'[s] \in Triple!Committed'
  BY <1>3, <1>4, <1>6 DEF TripleInv, Triple!ThreeBuffers, Triple!Slots
<1>8. took => rpc = "copy" /\ \E v \in owed' : buf[read] = Triple!Whole(v)
  BY DEF TripleInv, Triple!ThreeBuffers, Triple!Publish
<1>9. rpc # "idle" => committed' \in owed'
  BY <1>4 DEF Triple!Publish
<1>10. QED
  BY <1>3, <1>4, <1>5, <1>7, <1>8, <1>9 DEF TripleInv, Triple!ThreeBuffers, Triple!Publish,
         Triple!readerVars, Triple!Whole

\* A load begins; what is committed now is the latest value from here on.
LEMMA LoadKeeps == TripleInv /\ Triple!Load => TripleInv'
<1> SUFFICES ASSUME TripleInv, Triple!Load PROVE TripleInv'
  OBVIOUS
<1>1. Triple!TypeOK'
  BY DEF TripleInv, Triple!ThreeBuffers, Triple!Load, Triple!TypeOK, Triple!writerVars,
         Triple!Stores, Triple!Slots
<1>2. Triple!Committed' = Triple!Committed
  BY DEF Triple!Load, Triple!Committed, Triple!Whole
<1>3. ~took
  BY DEF TripleInv, Triple!ThreeBuffers, Triple!Load
<1>4. QED
  BY <1>1, <1>2, <1>3 DEF TripleInv, Triple!ThreeBuffers, Triple!Load, Triple!writerVars,
         Triple!Slots, Triple!Whole

\* The reader's buffer and the shared one change places.
LEMMA ExchangeKeeps == TripleInv /\ Triple!Exchange => TripleInv'
<1> SUFFICES ASSUME TripleInv, Triple!Exchange PROVE TripleInv'
  OBVIOUS
<1>1. Triple!TypeOK'
  BY DEF TripleInv, Triple!ThreeBuffers, Triple!Exchange, Triple!TypeOK, Triple!writerVars,
         Triple!Stores, Triple!Slots
<1>2. Triple!Committed' = Triple!Committed
  BY DEF Triple!Exchange, Triple!Committed, Triple!Whole
<1>3. took' => rpc' = "copy" /\ \E v \in owed' : buf'[read'] = Triple!Whole(v)'
  <2>1. fresh => committed \in owed /\ buf[shared] = Triple!Whole(committed)
    BY DEF TripleInv, Triple!ThreeBuffers, Triple!Exchange
  <2>2. QED
    BY <2>1 DEF Triple!Exchange, Triple!Whole
<1>4. QED
  BY <1>1, <1>2, <1>3 DEF TripleInv, Triple!ThreeBuffers, Triple!Exchange, Triple!writerVars,
         Triple!Slots, Triple!Whole

\* The reader copies a word of its own buffer.
LEMMA CopyWordKeeps == ASSUME TripleInv, NEW w \in Words, Triple!CopyWord(w) PROVE TripleInv'
<1>1. /\ snapshot \in [Words -> Triple!Stores] /\ read \in Triple!Slots
      /\ buf \in [Triple!Slots -> [Words -> Triple!Stores]]
  BY DEF TripleInv, Triple!ThreeBuffers, Triple!TypeOK
<1>2. snapshot' = [snapshot EXCEPT ![w] = buf[read][w]] /\ buf[read][w] \in Triple!Stores
  BY <1>1 DEF Triple!CopyWord
<1>3. snapshot' \in [Words -> Triple!Stores]
  BY <1>1, <1>2
<1>4. Triple!TypeOK'
  BY <1>3 DEF TripleInv, Triple!ThreeBuffers, Triple!CopyWord, Triple!TypeOK, Triple!writerVars,
         Triple!Stores, Triple!Slots
<1>5. Triple!Committed' = Triple!Committed
  BY DEF Triple!CopyWord, Triple!Committed, Triple!Whole
<1>6. \A v \in Words \ rleft' : snapshot'[v] = buf[read][v]
  <2> SUFFICES ASSUME NEW v \in Words \ rleft' PROVE snapshot'[v] = buf[read][v]
    OBVIOUS
  <2>1. CASE v = w
    BY <2>1, <1>1, <1>2
  <2>2. CASE v # w
    BY <2>2, <1>1, <1>2 DEF TripleInv, Triple!ThreeBuffers, Triple!CopyWord
  <2>3. QED
    BY <2>1, <2>2
<1>7. QED
  BY <1>4, <1>5, <1>6 DEF TripleInv, Triple!ThreeBuffers, Triple!CopyWord, Triple!writerVars,
         Triple!Slots, Triple!Whole

\* A load returns.
LEMMA ReturnKeeps == TripleInv /\ Triple!Return => TripleInv'
<1> SUFFICES ASSUME TripleInv, Triple!Return PROVE TripleInv'
  OBVIOUS
<1>1. snapshot' \in [Words -> Triple!Stores]
  BY TripleBufferAssumption DEF Triple!Return, Triple!Whole, Triple!Stores
<1>2. Triple!TypeOK'
  BY <1>1 DEF TripleInv, Triple!ThreeBuffers, Triple!Return, Triple!TypeOK, Triple!writerVars,
         Triple!Stores, Triple!Slots
<1>3. Triple!Committed' = Triple!Committed
  BY DEF Triple!Return, Triple!Committed, Triple!Whole
<1>4. QED
  BY <1>2, <1>3 DEF TripleInv, Triple!ThreeBuffers, Triple!Return, Triple!writerVars,
         Triple!Slots, Triple!Whole

LEMMA TripleStutterKeeps == TripleInv /\ UNCHANGED Triple!vars => TripleInv'
BY DEF TripleInv, Triple!ThreeBuffers, Triple!vars, Triple!TypeOK, Triple!Committed,
       Triple!Whole, Triple!Slots, Triple!Stores

LEMMA TripleInductive == TripleInv /\ [Triple!Next]_Triple!vars => TripleInv'
<1> SUFFICES ASSUME TripleInv, [Triple!Next]_Triple!vars PROVE TripleInv'
  OBVIOUS
<1>1. CASE Triple!Store
  BY <1>1, StoreKeeps
<1>2. ASSUME NEW w \in Words, Triple!WriteWord(w) PROVE TripleInv'
  BY <1>2, WriteWordKeeps
<1>3. CASE Triple!Publish
  BY <1>3, PublishKeeps
<1>4. CASE Triple!Load
  BY <1>4, LoadKeeps
<1>5. CASE Triple!Exchange
  BY <1>5, ExchangeKeeps
<1>6. ASSUME NEW w \in Words, Triple!CopyWord(w) PROVE TripleInv'
  BY <1>6, CopyWordKeeps
<1>7. CASE Triple!Return
  BY <1>7, ReturnKeeps
<1>8. CASE UNCHANGED Triple!vars
  BY <1>8, TripleStutterKeeps
<1>9. QED
  BY <1>1, <1>2, <1>3, <1>4, <1>5, <1>6, <1>7, <1>8 DEF Triple!Next, Triple!WriterStep,
         Triple!ReaderStep

\* Writer, reader and shared_ always name three buffers, all but the writer's whole
\* (store, load).
THEOREM ThreeBuffersAlways == Triple!Spec => []TripleInv
<1>1. Triple!Init => TripleInv
  BY TripleInitially
<1>2. TripleInv /\ [Triple!Next]_Triple!vars => TripleInv'
  BY TripleInductive
<1>3. QED
  BY <1>1, <1>2, PTL DEF Triple!Spec

\* Only Return ends a load, with the copy of every word of the reader's buffer.
LEMMA WhatReturns ==
  ASSUME TripleInv, [Triple!Next]_Triple!vars, Triple!Returns
  PROVE  result' = buf[read] /\ read \in Triple!Slots \ {write}
<1>1. Triple!Return
  BY DEF Triple!Returns, Triple!Next, Triple!vars, Triple!WriterStep, Triple!ReaderStep,
         Triple!Store, Triple!WriteWord, Triple!Publish, Triple!Load,
         Triple!Exchange, Triple!CopyWord, Triple!readerVars
<1>2. snapshot \in [Words -> Triple!Stores] /\ read \in Triple!Slots
      /\ buf \in [Triple!Slots -> [Words -> Triple!Stores]]
  BY DEF TripleInv, Triple!ThreeBuffers, Triple!TypeOK
<1>3. \A w \in Words : snapshot[w] = buf[read][w]
  BY <1>1 DEF TripleInv, Triple!ThreeBuffers, Triple!Return
<1>4. snapshot = buf[read]
  BY <1>2, <1>3
<1>5. QED
  BY <1>1, <1>2, <1>4 DEF TripleInv, Triple!ThreeBuffers, Triple!Return

\* No load is torn, whatever overtakes it (load, triple_buffer.hpp:10).
THEOREM WholeLoads == Triple!Spec => NoTornLoad
<1>1. TripleInv /\ [Triple!Next]_Triple!vars =>
        [Triple!Returns => result' \in Triple!Committed]_Triple!vars
  BY WhatReturns DEF TripleInv, Triple!ThreeBuffers
<1>2. QED
  BY <1>1, ThreeBuffersAlways, PTL DEF TripleInv, Triple!Spec, NoTornLoad, Triple!NoTornLoad

\* The first load after a store returns what was the latest value while it ran (load).
THEOREM FirstLoadLatest == Triple!Spec => NewValueSeen
<1>1. TripleInv /\ [Triple!Next]_Triple!vars =>
        [Triple!Returns /\ took => \E v \in owed : result' = Triple!Whole(v)]_Triple!vars
  BY WhatReturns DEF TripleInv, Triple!ThreeBuffers
<1>2. QED
  BY <1>1, ThreeBuffersAlways, PTL DEF Triple!Spec, NewValueSeen, Triple!NewValueSeen

-----------------------------------------------------------------------------
(* The containers.                                                         *)

\* The slot of the element number k + 1 of an object whose first slot is f.
Nth(f, k) == (f + k) % Capacity

LEMMA NthFacts ==
  /\ \A f \in CB!Slots : f \in Nat /\ Nth(f, 0) = f
  /\ \A f, k \in Nat : Nth(f, k) \in CB!Slots
  /\ \A f, j, k \in Nat : j < k /\ k < j + Capacity => Nth(f, j) # Nth(f, k)
  /\ \A f, k \in Nat : Nth(f, Capacity + k) = Nth(f, k)
  /\ \A f, j, k \in Nat : Nth(Nth(f, j), k) = Nth(f, j + k)
<1> USE DEF Nth, CB!Slots
<1>1. Capacity \in Nat \ {0}
  BY ContainersAssumption
<1>2. \A f \in 0 .. Capacity - 1 : f \in Nat /\ (f + 0) % Capacity = f
  <2>1. SUFFICES ASSUME NEW f \in 0 .. Capacity - 1 PROVE f \in Nat /\ (f + 0) % Capacity = f
    OBVIOUS
  <2>2. f + 0 = Capacity * 0 + f /\ f \in Nat /\ f + 0 \in Nat
    BY <1>1
  <2>3. QED
    BY <1>1, <2>2, ModUnique
<1>3. \A f, k \in Nat : (f + k) % Capacity \in 0 .. Capacity - 1
  <2>1. SUFFICES ASSUME NEW f \in Nat, NEW k \in Nat
                 PROVE  (f + k) % Capacity \in 0 .. Capacity - 1
    OBVIOUS
  <2>2. f + k \in Nat
    OBVIOUS
  <2>3. QED
    BY <1>1, <2>2, DivMod
<1>4. ASSUME NEW f \in Nat, NEW j \in Nat, NEW k \in Nat, j < k, k < j + Capacity
      PROVE  (f + j) % Capacity # (f + k) % Capacity
  <2>1. f + j \in Nat /\ f + k \in Nat /\ f + j < f + k /\ f + k < (f + j) + Capacity
    BY <1>1, <1>4
  <2>2. QED
    BY <1>1, <2>1, ModWindow
<1>5. ASSUME NEW f \in Nat, NEW k \in Nat
      PROVE  (f + (Capacity + k)) % Capacity = (f + k) % Capacity
  <2> DEFINE n == f + k
  <2>1. f + (Capacity + k) = n + Capacity /\ n \in Nat
    BY <1>1
  <2> HIDE DEF n
  <2>2. Capacity % Capacity = 0
    <3>1. Capacity = Capacity * 1 + 0 /\ 0 \in 0 .. Capacity - 1
      BY <1>1
    <3>2. QED
      BY <1>1, <3>1, ModUnique
  <2>3. (n + Capacity) % Capacity = n % Capacity
    BY <1>1, <2>1, <2>2, ModShift
  <2>4. QED
    BY <2>1, <2>3 DEF n
<1>6. ASSUME NEW f \in Nat, NEW j \in Nat, NEW k \in Nat
      PROVE  (((f + j) % Capacity) + k) % Capacity = (f + (j + k)) % Capacity
  <2> DEFINE n == f + j
  <2>1. f + (j + k) = n + k /\ n \in Nat
    OBVIOUS
  <2> HIDE DEF n
  <2>2. ((n % Capacity) + k) % Capacity = (n + k) % Capacity
    BY <1>1, <2>1, ModAgain
  <2>3. QED
    BY <2>1, <2>2 DEF n
<1>7. QED
  BY <1>2, <1>3, <1>4, <1>5, <1>6

LEMMA NthApart ==
  ASSUME NEW f \in Nat, NEW j \in Nat, NEW k \in Nat, j < k, k < j + Capacity
  PROVE  Nth(f, j) # Nth(f, k)
BY NthFacts

LEMMA NthSum ==
  ASSUME NEW f \in Nat, NEW j \in Nat, NEW k \in Nat
  PROVE  Nth(Nth(f, j), k) = Nth(f, j + k)
BY NthFacts

\* An object that holds the sequence s: its values are in the slots from front_ on, and
\* nowhere else.
Object == [data : [CB!Slots -> Values \cup {NoValue}], front : CB!Slots,
           size : 0 .. Capacity, sound : BOOLEAN]

\* An object, field by field.
Record(data, front, size, sound) ==
  [data |-> data, front |-> front, size |-> size, sound |-> sound]

\* Of a flag.
IsTrue(b) == b = TRUE

Holds(c, s) ==
  /\ c \in Object /\ IsTrue(c.sound)
  /\ s \in Seq(Values) /\ Len(s) = c.size
  /\ \A k \in 0 .. c.size - 1 : c.data[Nth(c.front, k)] = s[k + 1]
  /\ \A i \in CB!Slots : (\A k \in 0 .. c.size - 1 : i # Nth(c.front, k)) => c.data[i] = NoValue

LEMMA ContainerConstants ==
  /\ Capacity \in Nat \ {0}
  /\ NoValue \notin Values /\ MovedFrom \notin Values /\ MovedFrom # NoValue
BY ContainersAssumption

\* Which slots hold a value.
LEMMA HeldSlots ==
  ASSUME NEW c, NEW s, Holds(c, s)
  PROVE  /\ c \in Object /\ s \in Seq(Values) /\ Len(s) = c.size /\ c.size \in 0 .. Capacity
         /\ c.front \in CB!Slots /\ c.front \in Nat /\ IsTrue(c.sound)
         /\ c.data \in [CB!Slots -> Values \cup {NoValue}]
         /\ c = Record(c.data, c.front, c.size, c.sound) /\ c.sound \in BOOLEAN
         /\ \A k \in 0 .. c.size - 1 :
              /\ Nth(c.front, k) \in CB!Slots /\ c.data[Nth(c.front, k)] = s[k + 1]
              /\ s[k + 1] \in Values
         /\ \A k \in Nat : c.size <= k /\ k < Capacity =>
              Nth(c.front, k) \in CB!Slots /\ c.data[Nth(c.front, k)] = NoValue
<1>1. /\ c \in Object /\ s \in Seq(Values) /\ Len(s) = c.size /\ c.size \in 0 .. Capacity
      /\ c.front \in CB!Slots /\ IsTrue(c.sound)
      /\ c.data \in [CB!Slots -> Values \cup {NoValue}]
      /\ c = Record(c.data, c.front, c.size, c.sound) /\ c.sound \in BOOLEAN
  BY DEF Holds, Object, Record
<1>2. c.front \in Nat /\ Capacity \in Nat /\ c.size \in Nat /\ c.size <= Capacity
  <2>1. c.front \in Nat /\ Capacity \in Nat
    BY <1>1, NthFacts, ContainerConstants
  <2>2. c.size \in 0 .. Capacity
    BY <1>1
  <2>3. QED
    BY <2>1, <2>2
<1>3. ASSUME NEW k \in 0 .. c.size - 1
      PROVE  /\ Nth(c.front, k) \in CB!Slots /\ c.data[Nth(c.front, k)] = s[k + 1]
             /\ s[k + 1] \in Values
  <2>1. k + 1 \in 1 .. c.size /\ k \in Nat
    BY <1>2
  <2>2. s[k + 1] \in Values
    BY <1>1, <2>1
  <2>3. QED
    BY <1>2, <2>1, <2>2, NthFacts DEF Holds
<1>4. ASSUME NEW k \in Nat, c.size <= k, k < Capacity
      PROVE  Nth(c.front, k) \in CB!Slots /\ c.data[Nth(c.front, k)] = NoValue
  <2>1. ASSUME NEW j \in 0 .. c.size - 1 PROVE Nth(c.front, k) # Nth(c.front, j)
    <3>1. j \in Nat /\ j < k /\ k < j + Capacity
      BY <1>2, <1>4
    <3>2. QED
      BY <1>2, <3>1, NthApart, Zenon
  <2>2. Nth(c.front, k) \in CB!Slots
    BY <1>2, NthFacts
  <2>3. QED
    BY <2>1, <2>2 DEF Holds
<1>5. QED
  BY <1>1, <1>2, <1>3, <1>4

\* What the operations leave.
PushBackOf(c, v) ==
  Record([c.data EXCEPT ![Nth(c.front, c.size)] = v], c.front, c.size + 1, c.sound)
PushFrontOf(c, v) ==
  Record([c.data EXCEPT ![Nth(c.front, Capacity - 1)] = v],
         Nth(c.front, Capacity - 1), c.size + 1, c.sound)
PopFrontOf(c) ==
  Record([c.data EXCEPT ![c.front] = NoValue], Nth(c.front, 1), c.size - 1, c.sound)
PopBackOf(c) ==
  Record([c.data EXCEPT ![Nth(c.front, c.size - 1)] = NoValue],
         c.front, c.size - 1, c.sound)
FilledOf(c, v) == Record([i \in CB!Slots |-> v], 0, Capacity, c.sound)
EmptiedOf(c) == Record([i \in CB!Slots |-> NoValue], 0, 0, c.sound)
CopyOf(c, other) ==
  Record([i \in CB!Slots |-> IF i < other.size THEN other.data[Nth(other.front, i)]
                                               ELSE NoValue],
         0, other.size, c.sound)

\* Where one may push, and from where one may pop.
LEMMA EndSlots ==
  ASSUME NEW c, NEW s, Holds(c, s)
  PROVE  /\ c.size < Capacity => Nth(c.front, c.size) \in CB!Slots
                                 /\ c.data[Nth(c.front, c.size)] = NoValue
         /\ c.size < Capacity => Nth(c.front, Capacity - 1) \in CB!Slots
                                 /\ c.data[Nth(c.front, Capacity - 1)] = NoValue
         /\ c.size # 0 => Nth(c.front, c.size - 1) \in CB!Slots
                          /\ c.data[Nth(c.front, c.size - 1)] = s[Len(s)]
                          /\ s[Len(s)] \in Values
         /\ c.size # 0 => c.data[c.front] = s[1] /\ s[1] \in Values
         /\ c.size = Capacity => Nth(c.front, c.size) = c.front
<1>1. /\ c.size \in 0 .. Capacity /\ Len(s) = c.size /\ Capacity \in Nat \ {0}
      /\ c.front \in CB!Slots /\ c.front \in Nat
      /\ \A k \in 0 .. c.size - 1 :
           /\ Nth(c.front, k) \in CB!Slots /\ c.data[Nth(c.front, k)] = s[k + 1]
           /\ s[k + 1] \in Values
      /\ \A k \in Nat : c.size <= k /\ k < Capacity =>
           Nth(c.front, k) \in CB!Slots /\ c.data[Nth(c.front, k)] = NoValue
  BY HeldSlots, ContainerConstants
<1>2. c.size < Capacity => /\ c.size \in Nat /\ Capacity - 1 \in Nat
                           /\ c.size <= Capacity - 1 /\ Capacity - 1 < Capacity
  BY <1>1
<1>3. c.size # 0 => 0 \in 0 .. c.size - 1 /\ c.size - 1 \in 0 .. c.size - 1
                    /\ (c.size - 1) + 1 = Len(s) /\ 0 + 1 = 1
  BY <1>1
<1>4. Nth(c.front, 0) = c.front
  BY <1>1, NthFacts
<1>5. c.size # 0 => c.data[c.front] = s[1] /\ s[1] \in Values
  <2>1. SUFFICES ASSUME c.size # 0 PROVE c.data[c.front] = s[0 + 1] /\ s[0 + 1] \in Values
    BY <1>3
  <2>2. QED
    BY <1>1, <1>3, <1>4, <2>1
<1>6. c.size = Capacity => Nth(c.front, c.size) = c.front
  <2>1. Nth(c.front, Capacity + 0) = Nth(c.front, 0)
    BY <1>1, NthFacts
  <2>2. Capacity + 0 = Capacity
    BY <1>1
  <2>3. QED
    BY <1>4, <2>1, <2>2
<1>7. c.size # 0 => Nth(c.front, c.size - 1) \in CB!Slots
                    /\ c.data[Nth(c.front, c.size - 1)] = s[Len(s)]
                    /\ s[Len(s)] \in Values
  <2>1. SUFFICES ASSUME c.size # 0
                 PROVE  Nth(c.front, c.size - 1) \in CB!Slots
                        /\ c.data[Nth(c.front, c.size - 1)] = s[(c.size - 1) + 1]
                        /\ s[(c.size - 1) + 1] \in Values
    BY <1>3
  <2>2. QED
    BY <1>1, <1>3, <2>1
<1>8. QED
  BY <1>1, <1>2, <1>5, <1>6, <1>7

\* To hold t.
LEMMA ToHold ==
  ASSUME NEW data \in [CB!Slots -> Values \cup {NoValue}], NEW f \in CB!Slots,
         NEW t \in Seq(Values), NEW n \in 0 .. Capacity, Len(t) = n, NEW b, IsTrue(b),
         \A k \in 0 .. n - 1 : data[Nth(f, k)] = t[k + 1],
         \A i \in CB!Slots : (\A k \in 0 .. n - 1 : i # Nth(f, k)) => data[i] = NoValue
  PROVE  Holds(Record(data, f, n, b), t)
BY DEF Holds, Object, Record, IsTrue

LEMMA PushBackHolds ==
  ASSUME NEW c, NEW s, Holds(c, s), c.size < Capacity, NEW v \in Values
  PROVE  Holds(PushBackOf(c, v), Append(s, v))
<1> DEFINE f == c.front
           n == c.size
           e == [c.data EXCEPT ![Nth(f, n)] = v]
           t == Append(s, v)
<1>0. IsTrue(c.sound)
  BY HeldSlots
<1>1. /\ s \in Seq(Values) /\ Len(s) = n /\ n \in 0 .. Capacity /\ f \in CB!Slots /\ f \in Nat
      /\ c.data \in [CB!Slots -> Values \cup {NoValue}] /\ Nth(f, n) \in CB!Slots
      /\ \A k \in 0 .. n - 1 : Nth(f, k) \in CB!Slots /\ c.data[Nth(f, k)] = s[k + 1]
      /\ n < Capacity /\ Capacity \in Nat
  <2>1. /\ s \in Seq(Values) /\ Len(s) = n /\ n \in 0 .. Capacity
        /\ f \in CB!Slots /\ f \in Nat /\ c.data \in [CB!Slots -> Values \cup {NoValue}]
        /\ \A k \in 0 .. n - 1 : Nth(f, k) \in CB!Slots /\ c.data[Nth(f, k)] = s[k + 1]
    BY HeldSlots
  <2>2. Nth(f, n) \in CB!Slots /\ Capacity \in Nat
    BY EndSlots, ContainerConstants
  <2>3. QED
    BY <2>1, <2>2
<1>2. \A i \in CB!Slots : (\A k \in 0 .. n - 1 : i # Nth(f, k)) => c.data[i] = NoValue
  BY DEF Holds
<1> HIDE DEF f, n
<1>3. t \in Seq(Values) /\ Len(t) = n + 1 /\ t[n + 1] = v /\ \A k \in 1 .. n : t[k] = s[k]
  BY <1>1
<1>4. e \in [CB!Slots -> Values \cup {NoValue}] /\ e[Nth(f, n)] = v
      /\ \A i \in CB!Slots : i # Nth(f, n) => e[i] = c.data[i]
  BY <1>1
<1> HIDE DEF e, t
<1>5. ASSUME NEW k \in 0 .. (n + 1) - 1 PROVE e[Nth(f, k)] = t[k + 1]
  <2>1. CASE k = n
    BY <1>3, <1>4, <2>1
  <2>2. CASE k # n
    <3>1. k \in 0 .. n - 1 /\ k \in Nat /\ n \in Nat /\ k < n /\ n < k + Capacity
          /\ k + 1 \in 1 .. n
      BY <1>1, <2>2
    <3>2. Nth(f, k) # Nth(f, n)
      BY <1>1, <3>1, NthApart, Zenon
    <3>3. QED
      BY <1>1, <1>3, <1>4, <3>1, <3>2
  <2>3. QED
    BY <2>1, <2>2
<1>6. ASSUME NEW i \in CB!Slots, \A k \in 0 .. (n + 1) - 1 : i # Nth(f, k)
      PROVE  e[i] = NoValue
  <2>1. n \in 0 .. (n + 1) - 1 /\ \A k \in 0 .. n - 1 : k \in 0 .. (n + 1) - 1
    BY <1>1
  <2>2. QED
    BY <1>2, <1>4, <1>6, <2>1
<1>7. n + 1 \in 0 .. Capacity
  BY <1>1
<1>8. Holds(Record(e, f, n + 1, c.sound), t)
  BY <1>1, <1>3, <1>4, <1>5, <1>6, <1>7, <1>0, ToHold, Zenon
<1>9. QED
  BY <1>8 DEF PushBackOf, e, f, n, t

LEMMA PopBackHolds ==
  ASSUME NEW c, NEW s, Holds(c, s), c.size # 0
  PROVE  Holds(PopBackOf(c), SubSeq(s, 1, Len(s) - 1))
<1> DEFINE f == c.front
           n == c.size
           e == [c.data EXCEPT ![Nth(f, n - 1)] = NoValue]
           t == SubSeq(s, 1, Len(s) - 1)
<1>0. IsTrue(c.sound)
  BY HeldSlots
<1>1. /\ s \in Seq(Values) /\ Len(s) = n /\ n \in 0 .. Capacity /\ f \in CB!Slots /\ f \in Nat
      /\ c.data \in [CB!Slots -> Values \cup {NoValue}] /\ Nth(f, n - 1) \in CB!Slots
      /\ \A k \in 0 .. n - 1 : Nth(f, k) \in CB!Slots /\ c.data[Nth(f, k)] = s[k + 1]
      /\ n # 0 /\ Capacity \in Nat
  <2>1. /\ s \in Seq(Values) /\ Len(s) = n /\ n \in 0 .. Capacity
        /\ f \in CB!Slots /\ f \in Nat /\ c.data \in [CB!Slots -> Values \cup {NoValue}]
        /\ \A k \in 0 .. n - 1 : Nth(f, k) \in CB!Slots /\ c.data[Nth(f, k)] = s[k + 1]
    BY HeldSlots
  <2>2. Nth(f, n - 1) \in CB!Slots /\ Capacity \in Nat
    BY EndSlots, ContainerConstants
  <2>3. QED
    BY <2>1, <2>2
<1>2. \A i \in CB!Slots : (\A k \in 0 .. n - 1 : i # Nth(f, k)) => c.data[i] = NoValue
  BY DEF Holds
<1> HIDE DEF f, n
<1>3. t \in Seq(Values) /\ Len(t) = n - 1 /\ \A k \in 1 .. n - 1 : t[k] = s[k]
  BY <1>1
<1>4. e \in [CB!Slots -> Values \cup {NoValue}] /\ e[Nth(f, n - 1)] = NoValue
      /\ \A i \in CB!Slots : i # Nth(f, n - 1) => e[i] = c.data[i]
  BY <1>1
<1> HIDE DEF e, t
<1>5. ASSUME NEW k \in 0 .. (n - 1) - 1 PROVE e[Nth(f, k)] = t[k + 1]
  <2> DEFINE h == n - 1
  <2>1. k \in 0 .. n - 1 /\ k \in Nat /\ h \in Nat /\ k < h /\ h < k + Capacity
        /\ k + 1 \in 1 .. n - 1
    BY <1>1
  <2> HIDE DEF h
  <2>2. Nth(f, k) # Nth(f, h)
    BY <1>1, <2>1, NthApart, Zenon
  <2>3. QED
    BY <1>1, <1>3, <1>4, <2>1, <2>2 DEF h
<1>6. ASSUME NEW i \in CB!Slots, \A k \in 0 .. (n - 1) - 1 : i # Nth(f, k)
      PROVE  e[i] = NoValue
  <2>1. CASE i = Nth(f, n - 1)
    BY <1>4, <2>1
  <2>2. CASE i # Nth(f, n - 1)
    <3>1. \A k \in 0 .. n - 1 : k = n - 1 \/ k \in 0 .. (n - 1) - 1
      BY <1>1
    <3>2. QED
      BY <1>2, <1>4, <1>6, <2>2, <3>1
  <2>3. QED
    BY <2>1, <2>2
<1>7. n - 1 \in 0 .. Capacity
  BY <1>1
<1>8. Holds(Record(e, f, n - 1, c.sound), t)
  BY <1>1, <1>3, <1>4, <1>5, <1>6, <1>7, <1>0, ToHold, Zenon
<1>9. QED
  BY <1>8 DEF PopBackOf, e, f, n, t

LEMMA PushFrontHolds ==
  ASSUME NEW c, NEW s, Holds(c, s), c.size < Capacity, NEW v \in Values
  PROVE  Holds(PushFrontOf(c, v), <<v>> \o s)
<1> DEFINE f == c.front
           n == c.size
           g == Nth(f, Capacity - 1)
           e == [c.data EXCEPT ![g] = v]
           t == <<v>> \o s
<1>0. IsTrue(c.sound)
  BY HeldSlots
<1>1. /\ s \in Seq(Values) /\ Len(s) = n /\ n \in 0 .. Capacity /\ f \in CB!Slots /\ f \in Nat
      /\ c.data \in [CB!Slots -> Values \cup {NoValue}] /\ g \in CB!Slots
      /\ \A k \in 0 .. n - 1 : Nth(f, k) \in CB!Slots /\ c.data[Nth(f, k)] = s[k + 1]
      /\ n < Capacity /\ Capacity \in Nat /\ Capacity - 1 \in Nat
  <2>1. /\ s \in Seq(Values) /\ Len(s) = n /\ n \in 0 .. Capacity
        /\ f \in CB!Slots /\ f \in Nat /\ c.data \in [CB!Slots -> Values \cup {NoValue}]
        /\ \A k \in 0 .. n - 1 : Nth(f, k) \in CB!Slots /\ c.data[Nth(f, k)] = s[k + 1]
    BY HeldSlots
  <2>2. g \in CB!Slots /\ Capacity \in Nat /\ Capacity - 1 \in Nat
    BY EndSlots, ContainerConstants
  <2>3. QED
    BY <2>1, <2>2
<1>2. \A i \in CB!Slots : (\A k \in 0 .. n - 1 : i # Nth(f, k)) => c.data[i] = NoValue
  BY DEF Holds
<1> HIDE DEF f, n
<1>3. t \in Seq(Values) /\ Len(t) = n + 1 /\ t[1] = v /\ \A k \in 1 .. n : t[k + 1] = s[k]
  BY <1>1
\* The elements are one further on from the new front.
<1>4. Nth(g, 0) = g
  BY <1>1, NthFacts
<1>5. ASSUME NEW k \in 0 .. n - 1 PROVE Nth(g, k + 1) = Nth(f, k) /\ Nth(f, k) # g
  <2> DEFINE h == Capacity - 1
             j == k + 1
  <2>1. k \in Nat /\ j \in Nat /\ h \in Nat /\ h + j = Capacity + k /\ k < h /\ h < k + Capacity
    <3>1. n \in Nat /\ Capacity \in Nat /\ n < Capacity
      BY <1>1
    <3>2. QED
      BY <3>1
  <2> HIDE DEF h, j
  <2>2. Nth(Nth(f, h), j) = Nth(f, h + j)
    BY <1>1, <2>1, NthFacts
  <2>3. Nth(f, Capacity + k) = Nth(f, k)
    BY <1>1, <2>1, NthFacts
  <2>4. Nth(f, k) # Nth(f, h)
    BY <1>1, <2>1, NthApart, Zenon
  <2>5. QED
    BY <2>1, <2>2, <2>3, <2>4 DEF h, j
<1>6. e \in [CB!Slots -> Values \cup {NoValue}] /\ e[g] = v
      /\ \A i \in CB!Slots : i # g => e[i] = c.data[i]
  BY <1>1
<1> HIDE DEF e, t, g
<1>7. ASSUME NEW k \in 0 .. (n + 1) - 1 PROVE e[Nth(g, k)] = t[k + 1]
  <2>1. CASE k = 0
    BY <1>3, <1>4, <1>6, <2>1
  <2>2. CASE k # 0
    <3> DEFINE j == k - 1
    <3>1. j \in 0 .. n - 1 /\ k = j + 1 /\ j + 1 \in 1 .. n
      BY <1>1, <2>2
    <3> HIDE DEF j
    <3>2. Nth(g, j + 1) = Nth(f, j) /\ Nth(f, j) # g
      BY <1>5, <3>1
    <3>3. e[Nth(f, j)] = s[j + 1]
      BY <1>1, <1>6, <3>1, <3>2
    <3>4. t[(j + 1) + 1] = s[j + 1]
      BY <1>3, <3>1
    <3>5. QED
      BY <3>1, <3>2, <3>3, <3>4
  <2>3. QED
    BY <2>1, <2>2
<1>8. ASSUME NEW i \in CB!Slots, \A k \in 0 .. (n + 1) - 1 : i # Nth(g, k)
      PROVE  e[i] = NoValue
  <2>1. i # g
    <3>1. 0 \in 0 .. (n + 1) - 1
      BY <1>1
    <3>2. QED
      BY <1>4, <1>8, <3>1
  <2>2. ASSUME NEW k \in 0 .. n - 1 PROVE i # Nth(f, k)
    <3>1. k + 1 \in 0 .. (n + 1) - 1
      BY <1>1
    <3>2. QED
      BY <1>5, <1>8, <3>1
  <2>3. QED
    BY <1>2, <1>6, <2>1, <2>2
<1>9. n + 1 \in 0 .. Capacity
  BY <1>1
<1>10. Holds(Record(e, g, n + 1, c.sound), t)
  BY <1>1, <1>3, <1>6, <1>7, <1>8, <1>9, <1>0, ToHold, Zenon
<1>11. QED
  BY <1>10 DEF PushFrontOf, e, f, g, n, t

LEMMA PopFrontHolds ==
  ASSUME NEW c, NEW s, Holds(c, s), c.size # 0
  PROVE  Holds(PopFrontOf(c), Tail(s))
<1> DEFINE f == c.front
           n == c.size
           g == Nth(f, 1)
           e == [c.data EXCEPT ![f] = NoValue]
           t == Tail(s)
<1>0. IsTrue(c.sound)
  BY HeldSlots
<1>1. /\ s \in Seq(Values) /\ Len(s) = n /\ n \in 0 .. Capacity /\ f \in CB!Slots /\ f \in Nat
      /\ c.data \in [CB!Slots -> Values \cup {NoValue}]
      /\ \A k \in 0 .. n - 1 : Nth(f, k) \in CB!Slots /\ c.data[Nth(f, k)] = s[k + 1]
  BY HeldSlots
<1>2. \A i \in CB!Slots : (\A k \in 0 .. n - 1 : i # Nth(f, k)) => c.data[i] = NoValue
  BY DEF Holds
<1>3. n # 0 /\ Capacity \in Nat
  BY ContainerConstants
<1> HIDE DEF f, n
<1>4. t \in Seq(Values) /\ Len(t) = n - 1 /\ \A k \in 1 .. n - 1 : t[k] = s[k + 1]
  BY <1>1, <1>3
<1>5. g \in CB!Slots /\ Nth(f, 0) = f
  BY <1>1, NthFacts
<1>6. ASSUME NEW k \in Nat PROVE Nth(g, k) = Nth(f, 1 + k)
  BY <1>1, NthFacts
<1>7. e \in [CB!Slots -> Values \cup {NoValue}] /\ e[f] = NoValue
      /\ \A i \in CB!Slots : i # f => e[i] = c.data[i]
  BY <1>1
<1> HIDE DEF e, t, g
<1>8. ASSUME NEW k \in 0 .. (n - 1) - 1 PROVE e[Nth(g, k)] = t[k + 1]
  <2> DEFINE j == 1 + k
  <2>1. /\ k \in Nat /\ j \in Nat /\ j \in 0 .. n - 1 /\ 0 < j /\ j < 0 + Capacity
        /\ j = k + 1 /\ j \in 1 .. n - 1 /\ 0 \in Nat
    BY <1>1, <1>3
  <2>2. Nth(g, k) = Nth(f, j)
    BY <1>6, <2>1
  <2> HIDE DEF j
  <2>3. Nth(f, 0) # Nth(f, j)
    BY <1>1, <2>1, NthApart, Zenon
  <2>4. e[Nth(f, j)] = s[j + 1]
    BY <1>1, <1>5, <1>7, <2>1, <2>3
  <2>5. t[j] = s[j + 1]
    BY <1>4, <2>1
  <2>6. QED
    BY <2>1, <2>2, <2>4, <2>5
<1>9. ASSUME NEW i \in CB!Slots, \A k \in 0 .. (n - 1) - 1 : i # Nth(g, k)
      PROVE  e[i] = NoValue
  <2>1. CASE i = f
    BY <1>7, <2>1
  <2>2. CASE i # f
    <3>1. ASSUME NEW j \in 0 .. n - 1 PROVE i # Nth(f, j)
      <4>1. CASE j = 0
        BY <1>5, <2>2, <4>1
      <4>2. CASE j # 0
        <5>1. j - 1 \in 0 .. (n - 1) - 1 /\ j - 1 \in Nat /\ 1 + (j - 1) = j
          BY <1>1, <1>3, <4>2
        <5>2. Nth(g, j - 1) = Nth(f, 1 + (j - 1))
          BY <1>6, <5>1
        <5>3. i # Nth(g, j - 1)
          BY <1>9, <5>1
        <5>4. QED
          BY <5>1, <5>2, <5>3
      <4>3. QED
        BY <4>1, <4>2
    <3>2. QED
      BY <1>2, <1>7, <2>2, <3>1
  <2>3. QED
    BY <2>1, <2>2
<1>10. n - 1 \in 0 .. Capacity
  BY <1>1, <1>3
<1>11. Holds(Record(e, g, n - 1, c.sound), t)
  BY <1>1, <1>4, <1>5, <1>7, <1>8, <1>9, <1>10, <1>0, ToHold
<1>12. QED
  BY <1>11 DEF PopFrontOf, e, f, g, n, t

\* From slot 0 on, the slots are the numbers.
LEMMA FromZero == 0 \in CB!Slots /\ \A k \in CB!Slots : k \in 0 .. Capacity - 1 /\ Nth(0, k) = k
<1>1. Capacity \in Nat \ {0}
  BY ContainerConstants
<1>2. \A k \in CB!Slots : k \in Nat /\ Nth(k, 0) = k
  BY NthFacts
<1>3. \A k \in Nat : 0 + k = k + 0
  OBVIOUS
<1>4. QED
  BY <1>1, <1>2, <1>3 DEF Nth, CB!Slots

LEMMA EmptiedHolds ==
  ASSUME NEW c, IsTrue(c.sound)
  PROVE  Holds(EmptiedOf(c), <<>>)
<1> DEFINE e == [i \in CB!Slots |-> NoValue]
<1>1. Capacity \in Nat /\ 0 \in CB!Slots
  BY ContainerConstants, FromZero
<1>2. <<>> \in Seq(Values) /\ Len(<<>>) = 0 /\ 0 \in 0 .. Capacity
  BY <1>1
<1>3. /\ e \in [CB!Slots -> Values \cup {NoValue}] /\ \A i \in CB!Slots : e[i] = NoValue
  OBVIOUS
<1>4. ASSUME NEW k \in 0 .. 0 - 1 PROVE FALSE
  OBVIOUS
<1> HIDE DEF e
<1>5. Holds(Record(e, 0, 0, c.sound), <<>>)
  <2>1. SUFFICES ASSUME NEW z, z = 0 PROVE Holds(Record(e, z, z, c.sound), <<>>)
    OBVIOUS
  <2>2. z \in CB!Slots /\ z \in 0 .. Capacity /\ Len(<<>>) = z /\ \A k \in 0 .. z - 1 : FALSE
    BY <1>1, <1>2, <1>4, <2>1
  <2>3. QED
    BY <1>2, <1>3, <2>2, ToHold
<1>6. QED
  BY <1>5 DEF EmptiedOf, e

LEMMA FilledHolds ==
  ASSUME NEW c, IsTrue(c.sound), NEW v \in Values
  PROVE  Holds(FilledOf(c, v), [i \in 1 .. Capacity |-> v])
<1> DEFINE t == [i \in 1 .. Capacity |-> v]
           e == [i \in CB!Slots |-> v]
<1>1. Capacity \in Nat /\ 0 \in CB!Slots /\ CB!Slots = 0 .. Capacity - 1
  BY ContainerConstants, FromZero DEF CB!Slots
<1>2. t \in Seq(Values) /\ Len(t) = Capacity /\ Capacity \in 0 .. Capacity
  BY <1>1
<1>3. e \in [CB!Slots -> Values \cup {NoValue}]
  OBVIOUS
<1>4. ASSUME NEW k \in 0 .. Capacity - 1 PROVE e[Nth(0, k)] = t[k + 1]
  <2>1. Nth(0, k) \in CB!Slots /\ k + 1 \in 1 .. Capacity
    BY <1>1, FromZero
  <2>2. QED
    BY <2>1
<1>5. ASSUME NEW i \in CB!Slots, \A k \in 0 .. Capacity - 1 : i # Nth(0, k)
      PROVE  e[i] = NoValue
  BY <1>1, <1>5, FromZero
<1> HIDE DEF e, t
<1>6. Holds(Record(e, 0, Capacity, c.sound), t)
  <2>1. SUFFICES ASSUME NEW z, z = 0
                 PROVE  Holds(Record(e, z, Capacity, c.sound), t)
    OBVIOUS
  <2>2. /\ z \in CB!Slots /\ \A k \in 0 .. Capacity - 1 : e[Nth(z, k)] = t[k + 1]
        /\ \A i \in CB!Slots : (\A k \in 0 .. Capacity - 1 : i # Nth(z, k)) => e[i] = NoValue
    BY <1>1, <1>4, <1>5, <2>1
  <2>3. QED
    BY <1>2, <1>3, <2>2, ToHold
<1>7. QED
  BY <1>6 DEF FilledOf, e, t

LEMMA CopyHolds ==
  ASSUME NEW c, IsTrue(c.sound), NEW other, NEW s, Holds(other, s)
  PROVE  Holds(CopyOf(c, other), s)
<1> DEFINE f == other.front
           n == other.size
           e == [i \in CB!Slots |-> IF i < n THEN other.data[Nth(f, i)] ELSE NoValue]
<1>1. /\ s \in Seq(Values) /\ Len(s) = n /\ n \in 0 .. Capacity
      /\ \A k \in 0 .. n - 1 : /\ Nth(f, k) \in CB!Slots /\ other.data[Nth(f, k)] = s[k + 1]
                               /\ s[k + 1] \in Values
  BY HeldSlots
<1>2. Capacity \in Nat \ {0} /\ 0 \in CB!Slots /\ CB!Slots = 0 .. Capacity - 1
  BY ContainerConstants, FromZero DEF CB!Slots
<1> HIDE DEF f, n
<1>3. \A i \in CB!Slots : i < n => i \in 0 .. n - 1 /\ e[i] = s[i + 1] /\ s[i + 1] \in Values
  BY <1>1, <1>2
<1>4. \A i \in CB!Slots : ~(i < n) => e[i] = NoValue
  OBVIOUS
<1>5. e \in [CB!Slots -> Values \cup {NoValue}]
  BY <1>3, <1>4
<1> HIDE DEF e
<1>6. ASSUME NEW k \in 0 .. n - 1 PROVE e[Nth(0, k)] = s[k + 1]
  <2>1. k \in CB!Slots /\ k < n
    BY <1>1, <1>2
  <2>2. QED
    BY <1>3, <2>1, FromZero
<1>7. ASSUME NEW i \in CB!Slots, \A k \in 0 .. n - 1 : i # Nth(0, k) PROVE e[i] = NoValue
  <2>1. ~(i < n)
    <3>1. SUFFICES ASSUME i < n PROVE FALSE
      OBVIOUS
    <3>2. i \in 0 .. n - 1
      BY <1>3, <3>1
    <3>3. QED
      BY <1>7, <3>2, FromZero
  <2>2. QED
    BY <1>4, <2>1
<1>8. Holds(Record(e, 0, n, c.sound), s)
  <2>1. SUFFICES ASSUME NEW z, z = 0
                 PROVE  Holds(Record(e, z, n, c.sound), s)
    OBVIOUS
  <2>2. /\ z \in CB!Slots /\ \A k \in 0 .. n - 1 : e[Nth(z, k)] = s[k + 1]
        /\ \A i \in CB!Slots : (\A k \in 0 .. n - 1 : i # Nth(z, k)) => e[i] = NoValue
    BY <1>2, <1>6, <1>7, <2>1
  <2>3. QED
    BY <1>1, <1>5, <2>2, ToHold
<1>9. QED
  BY <1>8 DEF CopyOf, e, f, n

\* The operations as the code has them.  EXCEPT, field by field:
WithData(c, x) == [c EXCEPT !.data = x]
WithFront(c, x) == [c EXCEPT !.front = x]
WithSize(c, x) == [c EXCEPT !.size = x]
WithSound(c, x) == [c EXCEPT !.sound = x]

LEMMA Fields ==
  ASSUME NEW d, NEW f, NEW n, NEW b
  PROVE  /\ Record(d, f, n, b).data = d /\ Record(d, f, n, b).front = f
         /\ Record(d, f, n, b).size = n /\ Record(d, f, n, b).sound = b
BY DEF Record

LEMMA Changed ==
  ASSUME NEW d, NEW f, NEW n, NEW b, NEW x
  PROVE  /\ WithData(Record(d, f, n, b), x) = Record(x, f, n, b)
         /\ WithFront(Record(d, f, n, b), x) = Record(d, x, n, b)
         /\ WithSize(Record(d, f, n, b), x) = Record(d, f, x, b)
         /\ WithSound(Record(d, f, n, b), x) = Record(d, f, n, x)
BY DEF Record, WithData, WithFront, WithSize, WithSound

\* A slot, or all of them, where the operation meets what it expects.
LEMMA Constructed ==
  ASSUME NEW d, NEW f, NEW n, NEW t \in BOOLEAN, NEW i, NEW v, d[i] = NoValue
  PROVE  /\ CB!construct_at(Record(d, f, n, t), i, v) = Record([d EXCEPT ![i] = v], f, n, t)
         /\ IQ!construct_at(Record(d, f, n, t), i, v) = Record([d EXCEPT ![i] = v], f, n, t)
         /\ IS!construct_at(Record(d, f, n, t), i, v) = Record([d EXCEPT ![i] = v], f, n, t)
         /\ IV!construct_at(Record(d, f, n, t), i, v) = Record([d EXCEPT ![i] = v], f, n, t)
<1> DEFINE c == Record(d, f, n, t)
           e == [c.data EXCEPT ![i] = v]
           b == c.sound /\ ~(c.data[i] # NoValue)
<1>1. c.sound = t /\ c.data = d
  BY Fields
<1>2. b = t /\ e = [d EXCEPT ![i] = v]
  BY <1>1
<1>3. /\ CB!construct_at(c, i, v) = WithSound(WithData(c, e), b)
      /\ IQ!construct_at(c, i, v) = WithSound(WithData(c, e), b)
      /\ IS!construct_at(c, i, v) = WithSound(WithData(c, e), b)
      /\ IV!construct_at(c, i, v) = WithSound(WithData(c, e), b)
  <2> HIDE DEF c
  <2>1. QED
    BY DEF WithData, WithSound, CB!construct_at, CB!Live, CB!slot_ptr, IQ!construct_at, IQ!Live,
           IQ!slot_ptr, IS!construct_at, IS!Live, IS!slot_ptr, IV!construct_at, IV!Live,
           IV!slot_ptr
<1> HIDE DEF e, b
<1>4. WithSound(WithData(c, e), b) = Record(e, f, n, b)
  BY Changed
<1> HIDE DEF c
<1>5. QED
  BY <1>2, <1>3, <1>4, Zenon DEF c

LEMMA Destroyed ==
  ASSUME NEW d, NEW f, NEW n, NEW t \in BOOLEAN, NEW i, d[i] # NoValue
  PROVE  /\ CB!destroy_slot(Record(d, f, n, t), i) = Record([d EXCEPT ![i] = NoValue], f, n, t)
         /\ IQ!destroy_slot(Record(d, f, n, t), i) = Record([d EXCEPT ![i] = NoValue], f, n, t)
         /\ IS!destroy_slot(Record(d, f, n, t), i) = Record([d EXCEPT ![i] = NoValue], f, n, t)
         /\ IV!destroy_slot(Record(d, f, n, t), i) = Record([d EXCEPT ![i] = NoValue], f, n, t)
<1> DEFINE c == Record(d, f, n, t)
           e == [c.data EXCEPT ![i] = NoValue]
           b == c.sound /\ c.data[i] # NoValue
<1>1. c.sound = t /\ c.data = d
  BY Fields
<1>2. b = t /\ e = [d EXCEPT ![i] = NoValue]
  BY <1>1
<1>3. /\ CB!destroy_slot(c, i) = WithSound(WithData(c, e), b)
      /\ IQ!destroy_slot(c, i) = WithSound(WithData(c, e), b)
      /\ IS!destroy_slot(c, i) = WithSound(WithData(c, e), b)
      /\ IV!destroy_slot(c, i) = WithSound(WithData(c, e), b)
  <2> HIDE DEF c
  <2>1. QED
    BY DEF WithData, WithSound, CB!destroy_slot, CB!Live, CB!slot_ptr, IQ!destroy_slot, IQ!Live,
           IQ!slot_ptr, IS!destroy_slot, IS!Live, IS!slot_ptr, IV!destroy_slot, IV!Live,
           IV!slot_ptr
<1> HIDE DEF e, b
<1>4. WithSound(WithData(c, e), b) = Record(e, f, n, b)
  BY Changed
<1> HIDE DEF c
<1>5. QED
  BY <1>2, <1>3, <1>4, Zenon DEF c

LEMMA AllDestroyed ==
  ASSUME NEW d, NEW f, NEW n, NEW t \in BOOLEAN, NEW T, \A i \in T : d[i] # NoValue,
         \A i \in CB!Slots : i \notin T => d[i] = NoValue
  PROVE  LET e == [i \in CB!Slots |-> NoValue] IN
         /\ CB!DestroyAll(Record(d, f, n, t), T) = Record(e, f, n, t)
         /\ IQ!DestroyAll(Record(d, f, n, t), T) = Record(e, f, n, t)
         /\ IS!DestroyAll(Record(d, f, n, t), T) = Record(e, f, n, t)
         /\ IV!DestroyAll(Record(d, f, n, t), T) = Record(e, f, n, t)
<1> DEFINE c == Record(d, f, n, t)
           e == [i \in CB!Slots |-> IF i \in T THEN NoValue ELSE c.data[i]]
           b == c.sound /\ \A i \in T : c.data[i] # NoValue
<1>1. c.sound = t /\ c.data = d
  BY Fields
<1>2. b = t /\ e = [i \in CB!Slots |-> NoValue]
  BY <1>1
<1>3. /\ CB!DestroyAll(c, T) = WithSound(WithData(c, e), b)
      /\ IQ!DestroyAll(c, T) = WithSound(WithData(c, e), b)
      /\ IS!DestroyAll(c, T) = WithSound(WithData(c, e), b)
      /\ IV!DestroyAll(c, T) = WithSound(WithData(c, e), b)
  <2> HIDE DEF c
  <2>1. QED
    BY DEF WithData, WithSound, CB!DestroyAll, CB!Live, CB!slot_ptr, IQ!DestroyAll, IQ!Live,
           IQ!slot_ptr, IS!DestroyAll, IS!Live, IS!slot_ptr, IV!DestroyAll, IV!Live,
           IV!slot_ptr, CB!Slots, IQ!Slots, IS!Slots, IV!Slots
<1> HIDE DEF e, b
<1>4. WithSound(WithData(c, e), b) = Record(e, f, n, b)
  BY Changed
<1> HIDE DEF c
<1>5. QED
  BY <1>2, <1>3, <1>4, Zenon DEF c

LEMMA Pushed ==
  ASSUME NEW c, NEW s, Holds(c, s), c.size < Capacity, NEW v
  PROVE  /\ CB!write_back_with(c, v) = PushBackOf(c, v)
         /\ CB!write_front_with(c, v) = PushFrontOf(c, v)
         /\ IQ!emplace(c, v) = PushBackOf(c, v)
         /\ c.front = 0 => /\ IS!emplace(c, v) = PushBackOf(c, v)
                           /\ IV!emplace_back(c, v) = PushBackOf(c, v)
<1> DEFINE d == c.data
           f == c.front
           n == c.size
           t == c.sound
           i == Nth(f, n)
           g == Nth(f, Capacity - 1)
<1>1. /\ c = Record(d, f, n, t) /\ t \in BOOLEAN /\ f \in Nat /\ n \in 0 .. Capacity
      /\ Capacity \in Nat
  BY HeldSlots, ContainerConstants
<1>2. /\ i \in CB!Slots /\ d[i] = NoValue /\ g \in CB!Slots /\ d[g] = NoValue
  BY EndSlots
<1>3. n # Capacity /\ (f + Capacity - 1) % Capacity = g
  BY <1>1 DEF Nth
<1>4. f = 0 => i = n
  <2>1. n \in CB!Slots
    BY <1>1 DEF CB!Slots
  <2>2. QED
    BY <2>1, FromZero
<1>5. /\ CB!construct_at(c, i, v) = Record([d EXCEPT ![i] = v], f, n, t)
      /\ CB!construct_at(c, g, v) = Record([d EXCEPT ![g] = v], f, n, t)
      /\ IQ!construct_at(c, i, v) = Record([d EXCEPT ![i] = v], f, n, t)
      /\ IS!construct_at(c, i, v) = Record([d EXCEPT ![i] = v], f, n, t)
      /\ IV!construct_at(c, i, v) = Record([d EXCEPT ![i] = v], f, n, t)
  BY <1>1, <1>2, Constructed
<1>6. /\ CB!write_back_with(c, v)
           = WithSize(CB!construct_at(c, i, v), CB!construct_at(c, i, v).size + 1)
      /\ IQ!emplace(c, v)
           = WithSize(IQ!construct_at(c, i, v), IQ!construct_at(c, i, v).size + 1)
  BY <1>3 DEF WithSize, CB!write_back_with, CB!full, CB!index_of, IQ!emplace, IQ!index_of, Nth
<1>7. CB!write_front_with(c, v)
        = WithFront(WithSize(CB!construct_at(c, g, v), CB!construct_at(c, g, v).size + 1), g)
  BY <1>3 DEF WithSize, WithFront, CB!write_front_with, CB!full
<1>8. f = 0 =>
        /\ IS!emplace(c, v)
             = WithSize(IS!construct_at(c, i, v), IS!construct_at(c, i, v).size + 1)
        /\ IV!emplace_back(c, v)
             = WithSize(IV!construct_at(c, i, v), IV!construct_at(c, i, v).size + 1)
  BY <1>4 DEF WithSize, IS!emplace, IV!emplace_back
<1> DEFINE e == [d EXCEPT ![i] = v]
           h == [d EXCEPT ![g] = v]
<1>9. /\ PushBackOf(c, v) = Record(e, f, n + 1, t)
      /\ PushFrontOf(c, v) = Record(h, g, n + 1, t)
  BY DEF PushBackOf, PushFrontOf
<1> HIDE DEF d, f, n, t, i, g, e, h
<1>10. /\ Record(e, f, n, t).size = n /\ Record(h, f, n, t).size = n
       /\ WithSize(Record(e, f, n, t), n + 1) = Record(e, f, n + 1, t)
       /\ WithSize(Record(h, f, n, t), n + 1) = Record(h, f, n + 1, t)
       /\ WithFront(Record(h, f, n + 1, t), g) = Record(h, g, n + 1, t)
  BY Fields, Changed
<1>11. QED
  BY <1>5, <1>6, <1>7, <1>8, <1>9, <1>10, Zenon DEF e, h, f

LEMMA Popped ==
  ASSUME NEW c, NEW s, Holds(c, s), c.size # 0
  PROVE  /\ CB!pop_front(c) = PopFrontOf(c) /\ IQ!pop(c) = PopFrontOf(c)
         /\ CB!pop_back(c) = PopBackOf(c)
         /\ c.front = 0 => IS!pop(c) = PopBackOf(c) /\ IV!pop_back(c) = PopBackOf(c)
<1> DEFINE d == c.data
           f == c.front
           n == c.size
           t == c.sound
           i == Nth(f, n - 1)
<1>1. /\ c = Record(d, f, n, t) /\ t \in BOOLEAN /\ f \in Nat /\ n \in 0 .. Capacity
      /\ Capacity \in Nat
  BY HeldSlots, ContainerConstants
<1>2. s[1] \in Values /\ s[Len(s)] \in Values /\ d[f] = s[1] /\ d[i] = s[Len(s)]
  BY EndSlots
<1>3. d[i] # NoValue /\ d[f] # NoValue
  BY <1>2, ContainerConstants
<1>4. f = 0 => i = n - 1
  <2>1. n - 1 \in CB!Slots
    BY <1>1 DEF CB!Slots
  <2>2. QED
    BY <2>1, FromZero
<1>5. /\ CB!destroy_slot(c, i) = Record([d EXCEPT ![i] = NoValue], f, n, t)
      /\ CB!destroy_slot(c, f) = Record([d EXCEPT ![f] = NoValue], f, n, t)
      /\ IQ!destroy_slot(c, f) = Record([d EXCEPT ![f] = NoValue], f, n, t)
      /\ IS!destroy_slot(c, i) = Record([d EXCEPT ![i] = NoValue], f, n, t)
      /\ IV!destroy_slot(c, i) = Record([d EXCEPT ![i] = NoValue], f, n, t)
  <2> HIDE DEF d, f, n, t, i
  <2>1. /\ CB!destroy_slot(Record(d, f, n, t), i) = Record([d EXCEPT ![i] = NoValue], f, n, t)
        /\ IS!destroy_slot(Record(d, f, n, t), i) = Record([d EXCEPT ![i] = NoValue], f, n, t)
        /\ IV!destroy_slot(Record(d, f, n, t), i) = Record([d EXCEPT ![i] = NoValue], f, n, t)
    BY <1>1, <1>3, Destroyed
  <2>2. /\ CB!destroy_slot(Record(d, f, n, t), f) = Record([d EXCEPT ![f] = NoValue], f, n, t)
        /\ IQ!destroy_slot(Record(d, f, n, t), f) = Record([d EXCEPT ![f] = NoValue], f, n, t)
    BY <1>1, <1>3, Destroyed
  <2>3. QED
    BY <1>1, <2>1, <2>2, Zenon
<1>6. CB!pop_back(c)
        = WithSize(CB!destroy_slot(c, i), CB!destroy_slot(c, i).size - 1)
  BY DEF WithSize, CB!pop_back, CB!index_of, Nth
<1>7. f = 0 =>
        /\ IS!pop(c) = WithSize(IS!destroy_slot(c, i), IS!destroy_slot(c, i).size - 1)
        /\ IV!pop_back(c) = WithSize(IV!destroy_slot(c, i), IV!destroy_slot(c, i).size - 1)
  BY <1>4 DEF WithSize, IS!pop, IV!pop_back
<1>8. /\ CB!pop_front(c)
           = WithSize(WithFront(CB!destroy_slot(c, f), Nth(CB!destroy_slot(c, f).front, 1)),
                      CB!destroy_slot(c, f).size - 1)
      /\ IQ!pop(c)
           = WithSize(WithFront(IQ!destroy_slot(c, f), Nth(IQ!destroy_slot(c, f).front, 1)),
                      IQ!destroy_slot(c, f).size - 1)
  BY DEF WithSize, WithFront, CB!pop_front, IQ!pop, Nth
<1> DEFINE e == [d EXCEPT ![i] = NoValue]
           h == [d EXCEPT ![f] = NoValue]
<1>9. /\ PopBackOf(c) = Record(e, f, n - 1, t)
      /\ PopFrontOf(c) = Record(h, Nth(f, 1), n - 1, t)
  BY DEF PopBackOf, PopFrontOf
<1> HIDE DEF d, f, n, t, i, e, h
<1>10. /\ Record(e, f, n, t).size = n /\ Record(h, f, n, t).size = n
       /\ Record(h, f, n, t).front = f
       /\ WithSize(Record(e, f, n, t), n - 1) = Record(e, f, n - 1, t)
       /\ WithFront(Record(h, f, n, t), Nth(f, 1)) = Record(h, Nth(f, 1), n, t)
       /\ WithSize(Record(h, Nth(f, 1), n, t), n - 1) = Record(h, Nth(f, 1), n - 1, t)
  BY Fields, Changed
<1>11. QED
  BY <1>5, <1>6, <1>7, <1>8, <1>9, <1>10, Zenon DEF e, h, f

\* A push into a full buffer is a pop at the other end, and then a push.
LEMMA Overwritten ==
  ASSUME NEW c, NEW s, Holds(c, s), c.size = Capacity, NEW v
  PROVE  /\ CB!write_back_with(c, v) = PushBackOf(PopFrontOf(c), v)
         /\ CB!write_front_with(c, v) = PushFrontOf(PopBackOf(c), v)
<1> DEFINE d == c.data
           f == c.front
           n == c.size
           t == c.sound
           g == Nth(f, n - 1)
<1>1. /\ c = Record(d, f, n, t) /\ t \in BOOLEAN /\ f \in Nat /\ n = Capacity
      /\ Capacity \in Nat \ {0} /\ f \in CB!Slots /\ d \in [CB!Slots -> Values \cup {NoValue}]
  BY HeldSlots, ContainerConstants
<1>2. s[1] \in Values /\ s[Len(s)] \in Values /\ d[f] = s[1] /\ d[g] = s[Len(s)]
      /\ g \in CB!Slots /\ Nth(f, n) = f
  BY <1>1, EndSlots
<1>3. d[g] # NoValue /\ d[f] # NoValue
  BY <1>2, ContainerConstants
<1>4. (f + Capacity - 1) % Capacity = g
  BY <1>1 DEF Nth
<1> DEFINE df == [d EXCEPT ![f] = NoValue]
           dg == [d EXCEPT ![g] = NoValue]
           ef == [df EXCEPT ![f] = v]
           eg == [dg EXCEPT ![g] = v]
<1>5. df[f] = NoValue /\ dg[g] = NoValue
  BY <1>1, <1>2
<1>6. /\ CB!destroy_slot(c, f) = Record(df, f, n, t)
      /\ CB!destroy_slot(c, g) = Record(dg, f, n, t)
  BY <1>1, <1>3, Destroyed
<1>7. /\ CB!write_back_with(c, v)
           = WithFront(CB!construct_at(CB!destroy_slot(c, f), f, v),
                       Nth(CB!construct_at(CB!destroy_slot(c, f), f, v).front, 1))
      /\ CB!write_front_with(c, v)
           = WithFront(CB!construct_at(CB!destroy_slot(c, g), g, v), g)
  BY <1>1, <1>2, <1>4 DEF WithFront, CB!write_back_with, CB!write_front_with, CB!full,
                          CB!index_of, Nth
<1>8. /\ CB!construct_at(Record(df, f, n, t), f, v) = Record(ef, f, n, t)
      /\ CB!construct_at(Record(dg, f, n, t), g, v) = Record(eg, f, n, t)
  BY <1>1, <1>5, Constructed
<1>9. /\ PopFrontOf(c) = Record(df, Nth(f, 1), n - 1, t)
      /\ PopBackOf(c) = Record(dg, f, n - 1, t)
  BY DEF PopBackOf, PopFrontOf
<1>10. Nth(Nth(f, 1), n - 1) = f /\ Nth(f, Capacity - 1) = g /\ (n - 1) + 1 = n
  <2> DEFINE h == n - 1
  <2>1. h \in Nat /\ 1 + h = n /\ 1 \in Nat
    BY <1>1
  <2> HIDE DEF h
  <2>2. Nth(Nth(f, 1), h) = Nth(f, 1 + h)
    BY <1>1, <2>1, NthSum, Zenon
  <2>3. QED
    BY <1>1, <1>2, <2>1, <2>2 DEF h
<1> HIDE DEF d, f, n, t, g, df, dg
<1>11. /\ PushBackOf(Record(df, Nth(f, 1), n - 1, t), v) = Record(ef, Nth(f, 1), n, t)
       /\ PushFrontOf(Record(dg, f, n - 1, t), v) = Record(eg, g, n, t)
  BY <1>10, Fields DEF PushBackOf, PushFrontOf
<1> HIDE DEF ef, eg
<1>12. /\ Record(ef, f, n, t).front = f
       /\ WithFront(Record(ef, f, n, t), Nth(f, 1)) = Record(ef, Nth(f, 1), n, t)
       /\ WithFront(Record(eg, f, n, t), g) = Record(eg, g, n, t)
  BY Fields, Changed
<1>13. QED
  BY <1>6, <1>7, <1>8, <1>9, <1>11, <1>12, Zenon

\* clear() of an object whose slots hold something just where they should.
LEMMA Emptied ==
  ASSUME NEW d, NEW f \in CB!Slots, NEW n \in 0 .. Capacity, NEW t \in BOOLEAN,
         \A k \in 0 .. n - 1 : d[Nth(f, k)] # NoValue,
         \A i \in CB!Slots : (\A k \in 0 .. n - 1 : i # Nth(f, k)) => d[i] = NoValue
  PROVE  /\ CB!clear(Record(d, f, n, t)) = EmptiedOf(Record(d, f, n, t))
         /\ IQ!clear(Record(d, f, n, t)) = EmptiedOf(Record(d, f, n, t))
         /\ f = 0 => /\ IS!clear(Record(d, f, n, t)) = EmptiedOf(Record(d, f, n, t))
                     /\ IV!clear(Record(d, f, n, t)) = EmptiedOf(Record(d, f, n, t))
<1> DEFINE c == Record(d, f, n, t)
           T == {Nth(f, k) : k \in 0 .. n - 1}
           e == [i \in CB!Slots |-> NoValue]
<1>1. (\A i \in T : d[i] # NoValue) /\ \A i \in CB!Slots : i \notin T => d[i] = NoValue
  OBVIOUS
<1>2. c.front = f /\ c.size = n
  BY Fields
<1>3. f = 0 => T = 0 .. n - 1
  <2>1. SUFFICES ASSUME f = 0 PROVE T = 0 .. n - 1
    OBVIOUS
  <2>2. \A k \in 0 .. n - 1 : k \in CB!Slots
    BY ContainerConstants DEF CB!Slots
  <2>3. \A k \in 0 .. n - 1 : Nth(f, k) = k
    BY <2>1, <2>2, FromZero
  <2>4. QED
    BY <2>3
<1>4. /\ CB!DestroyAll(c, T) = Record(e, f, n, t) /\ IQ!DestroyAll(c, T) = Record(e, f, n, t)
      /\ IS!DestroyAll(c, T) = Record(e, f, n, t) /\ IV!DestroyAll(c, T) = Record(e, f, n, t)
  <2> HIDE DEF T
  <2>1. QED
    BY <1>1, AllDestroyed
<1>5. {(c.front + i) % Capacity : i \in 0 .. c.size - 1} = T
  BY <1>2 DEF Nth
<1> HIDE DEF c, T
<1>6. /\ CB!clear(c) = WithSize(WithFront(CB!DestroyAll(c, T), 0), 0)
      /\ IQ!clear(c) = WithSize(WithFront(IQ!DestroyAll(c, T), 0), 0)
  BY <1>5 DEF CB!clear, IQ!clear, CB!index_of, IQ!index_of, WithSize, WithFront
<1>7. f = 0 => /\ IS!clear(c) = WithSize(IS!DestroyAll(c, T), 0)
               /\ IV!clear(c) = WithSize(IV!DestroyAll(c, T), 0)
  BY <1>2, <1>3 DEF IS!clear, IV!clear, WithSize
<1>8. EmptiedOf(c) = Record(e, 0, 0, t)
  BY Fields DEF EmptiedOf, c
<1> HIDE DEF e
<1>9. ASSUME NEW z PROVE /\ WithFront(Record(e, f, n, t), z) = Record(e, z, n, t)
                         /\ WithSize(Record(e, z, n, t), z) = Record(e, z, z, t)
  BY Changed
<1>10. /\ WithFront(Record(e, f, n, t), 0) = Record(e, 0, n, t)
       /\ WithSize(Record(e, 0, n, t), 0) = Record(e, 0, 0, t)
  BY <1>9, Zenon
<1>11. QED
  BY <1>4, <1>6, <1>7, <1>8, <1>10, Zenon DEF c

LEMMA Cleared ==
  ASSUME NEW c, NEW s, Holds(c, s)
  PROVE  /\ CB!clear(c) = EmptiedOf(c) /\ IQ!clear(c) = EmptiedOf(c)
         /\ c.front = 0 => IS!clear(c) = EmptiedOf(c) /\ IV!clear(c) = EmptiedOf(c)
<1> DEFINE d == c.data
           f == c.front
           n == c.size
           t == c.sound
<1>1. /\ c = Record(d, f, n, t) /\ t \in BOOLEAN /\ f \in CB!Slots /\ n \in 0 .. Capacity
      /\ \A k \in 0 .. n - 1 : d[Nth(f, k)] = s[k + 1] /\ s[k + 1] \in Values
  BY HeldSlots
<1>2. \A k \in 0 .. n - 1 : d[Nth(f, k)] # NoValue
  BY <1>1, ContainerConstants
<1>3. \A i \in CB!Slots : (\A k \in 0 .. n - 1 : i # Nth(f, k)) => d[i] = NoValue
  BY DEF Holds
<1> HIDE DEF d, f, n, t
<1>4. /\ CB!clear(Record(d, f, n, t)) = EmptiedOf(Record(d, f, n, t))
      /\ IQ!clear(Record(d, f, n, t)) = EmptiedOf(Record(d, f, n, t))
      /\ f = 0 => /\ IS!clear(Record(d, f, n, t)) = EmptiedOf(Record(d, f, n, t))
                  /\ IV!clear(Record(d, f, n, t)) = EmptiedOf(Record(d, f, n, t))
  BY <1>1, <1>2, <1>3, Emptied
<1>5. QED
  BY <1>1, <1>4, Zenon DEF f

LEMMA Filled ==
  ASSUME NEW c, NEW s, Holds(c, s), NEW v
  PROVE  CB!fill(c, v) = FilledOf(c, v)
<1> DEFINE e == CB!clear(c)
           t == c.sound
           none == [i \in CB!Slots |-> NoValue]
           all == [i \in CB!Slots |-> v]
           b == e.sound /\ \A i \in CB!Slots : ~(e.data[i] # NoValue)
<1>1. t \in BOOLEAN
  BY HeldSlots
<1>2. e = Record(none, 0, 0, t)
  BY Cleared DEF EmptiedOf
<1>3. e.sound = t /\ e.data = none
  BY <1>2, Fields
<1>4. b = t
  <2> HIDE DEF e
  <2>1. QED
    BY <1>1, <1>3
<1>5. CB!fill(c, v) = WithSound(WithSize(WithData(e, all), Capacity), b)
  BY DEF CB!fill, CB!Live, CB!slot_ptr, WithSound, WithSize, WithData
<1> HIDE DEF e, t, none, all, b
<1>6. ASSUME NEW z PROVE WithSound(WithSize(WithData(Record(none, z, z, t), all), Capacity), t)
                           = Record(all, z, Capacity, t)
  BY Changed
<1>7. WithSound(WithSize(WithData(Record(none, 0, 0, t), all), Capacity), t)
        = Record(all, 0, Capacity, t)
  BY <1>6, Zenon
<1>8. QED
  BY <1>2, <1>4, <1>5, <1>7, Zenon DEF FilledOf, all, t

\* What operator= constructs from the values of another object.
LEMMA Assignment ==
  ASSUME NEW c, NEW s, Holds(c, s), NEW other, NEW r, Holds(other, r)
  PROVE  /\ CB!assigned(c, other) = CopyOf(c, other)
         /\ IQ!assigned(c, other) = CopyOf(c, other)
         /\ c.front = 0 /\ other.front = 0 =>
              IS!assigned(c, other) = CopyOf(c, other)
              /\ IV!assigned(c, other) = CopyOf(c, other)
<1> DEFINE t == c.sound
           n == other.size
           g == other.front
           x == other.data
           none == [i \in CB!Slots |-> NoValue]
           e == Record(none, 0, 0, t)
           y == [i \in CB!Slots |-> IF i < n THEN x[(g + i) % Capacity] ELSE e.data[i]]
           b == e.sound /\ \A i \in 0 .. n - 1 : ~(e.data[i] # NoValue)
                             /\ x[(g + i) % Capacity] \notin {NoValue, MovedFrom}
           yz == [i \in CB!Slots |-> IF i < n THEN x[i] ELSE e.data[i]]
           bz == e.sound /\ \A i \in 0 .. n - 1 : ~(e.data[i] # NoValue)
                             /\ x[i] \notin {NoValue, MovedFrom}
           z == [i \in CB!Slots |-> IF i < n THEN x[Nth(g, i)] ELSE NoValue]
<1>1. /\ CB!clear(c) = e /\ IQ!clear(c) = e
      /\ c.front = 0 => IS!clear(c) = e /\ IV!clear(c) = e
  BY Cleared DEF EmptiedOf
<1>2. e.sound = t /\ e.data = none /\ e.size = 0
  BY Fields
<1>3. t \in BOOLEAN
  BY HeldSlots
<1>4. /\ n \in 0 .. Capacity
      /\ \A k \in 0 .. n - 1 : x[Nth(g, k)] = r[k + 1] /\ r[k + 1] \in Values
  BY HeldSlots
<1>5. \A k \in 0 .. n - 1 : x[Nth(g, k)] \notin {NoValue, MovedFrom}
  BY <1>4, ContainerConstants
<1>6. \A k \in 0 .. n - 1 : k \in CB!Slots
  BY <1>4, ContainerConstants DEF CB!Slots
<1>7. /\ CB!assigned(c, other) = WithSound(WithSize(WithData(e, y), e.size + n), b)
      /\ IQ!assigned(c, other) = WithSound(WithSize(WithData(e, y), e.size + n), b)
  <2> HIDE DEF e
  <2>1. QED
    BY <1>1 DEF WithSound, WithSize, WithData, CB!assigned, CB!copy_construct_from,
           CB!ConstructFrom,
           CB!slot_ptr, CB!Live, CB!Readable, CB!index_of, CB!Slots, IQ!assigned,
           IQ!copy_construct_from, IQ!ConstructFrom, IQ!slot_ptr, IQ!Live, IQ!Readable,
           IQ!index_of, IQ!Slots
<1>8. c.front = 0 =>
      /\ IS!assigned(c, other) = WithSound(WithSize(WithData(e, yz), e.size + n), bz)
      /\ IV!assigned(c, other) = WithSound(WithSize(WithData(e, yz), e.size + n), bz)
  <2> HIDE DEF e
  <2>1. QED
    BY <1>1 DEF WithSound, WithSize, WithData, IS!assigned, IS!copy_construct_from,
           IS!ConstructFrom,
           IS!slot_ptr, IS!Live, IS!Readable, CB!Slots, IS!Slots, IV!assigned,
           IV!copy_construct_from, IV!ConstructFrom, IV!slot_ptr, IV!Live, IV!Readable,
           IV!Slots
<1> HIDE DEF e
<1>9. y = z /\ b = t
  BY <1>2, <1>3, <1>5, <1>6 DEF Nth
<1>10. g = 0 => yz = z /\ bz = t
  <2>1. SUFFICES ASSUME g = 0 PROVE yz = z /\ bz = t
    OBVIOUS
  <2>2. \A i \in CB!Slots : Nth(g, i) = i
    BY <2>1, FromZero
  <2>3. yz = z
    BY <1>2, <2>2
  <2>4. bz = t
    BY <1>2, <1>3, <1>5, <1>6, <2>2
  <2>5. QED
    BY <2>3, <2>4
<1>11. e.size + n = n
  BY <1>2, <1>4
<1>12. CopyOf(c, other) = Record(z, 0, n, t)
  BY DEF CopyOf
<1>13. e = Record(none, 0, 0, t)
  BY DEF e
<1> HIDE DEF t, n, none, y, b, yz, bz, z
<1>14. ASSUME NEW o PROVE WithSound(WithSize(WithData(Record(none, o, o, t), z), n), t)
                            = Record(z, o, n, t)
  BY Changed
<1>15. WithSound(WithSize(WithData(Record(none, 0, 0, t), z), n), t) = Record(z, 0, n, t)
  BY <1>14, Zenon
<1>16. QED
  BY <1>7, <1>8, <1>9, <1>10, <1>11, <1>12, <1>13, <1>15, Zenon DEF g

\* What a move leaves of its source.
LEMMA Abandoned ==
  ASSUME NEW c, NEW s, Holds(c, s)
  PROVE  /\ CB!moved_from(c) = EmptiedOf(c) /\ IQ!moved_from(c) = EmptiedOf(c)
         /\ c.front = 0 => IS!moved_from(c) = EmptiedOf(c) /\ IV!moved_from(c) = EmptiedOf(c)
<1> DEFINE d == c.data
           f == c.front
           n == c.size
           t == c.sound
           m == [i \in CB!Slots |->
                   IF \E k \in 0 .. n - 1 : (f + k) % Capacity = i THEN MovedFrom ELSE d[i]]
           mz == [i \in CB!Slots |-> IF \E k \in 0 .. n - 1 : k = i THEN MovedFrom ELSE d[i]]
<1>1. /\ c = Record(d, f, n, t) /\ t \in BOOLEAN /\ f \in CB!Slots /\ n \in 0 .. Capacity
      /\ \A k \in 0 .. n - 1 : Nth(f, k) \in CB!Slots
  BY HeldSlots
<1>2. \A i \in CB!Slots : (\A k \in 0 .. n - 1 : i # Nth(f, k)) => d[i] = NoValue
  BY DEF Holds
<1>3. /\ CB!moved_from(c) = CB!clear(WithData(c, m))
      /\ IQ!moved_from(c) = IQ!clear(WithData(c, m))
      /\ IS!moved_from(c) = IS!clear(WithData(c, mz))
      /\ IV!moved_from(c) = IV!clear(WithData(c, mz))
  BY DEF CB!moved_from, CB!MovedOut, CB!index_of, CB!Slots, IQ!moved_from, IQ!MovedOut,
         IQ!index_of,
         IQ!Slots, IS!moved_from, IS!MovedOut, IS!Slots, IV!moved_from, IV!MovedOut, IV!Slots,
         WithData
<1>4. EmptiedOf(c) = EmptiedOf(Record(m, f, n, t))
  BY Fields DEF EmptiedOf
<1> HIDE DEF d, f, n, t
<1>5. f = 0 => mz = m
  <2>1. SUFFICES ASSUME f = 0 PROVE mz = m
    OBVIOUS
  <2>2. \A k \in 0 .. n - 1 : Nth(f, k) = k
    <3>1. \A k \in 0 .. n - 1 : k \in CB!Slots
      BY <1>1, ContainerConstants DEF CB!Slots
    <3>2. QED
      BY <2>1, <3>1, FromZero
  <2>3. QED
    BY <2>2 DEF Nth
<1>6. \A k \in 0 .. n - 1 : m[Nth(f, k)] # NoValue
  <2>1. SUFFICES ASSUME NEW k \in 0 .. n - 1 PROVE m[Nth(f, k)] # NoValue
    OBVIOUS
  <2>2. m[Nth(f, k)] = MovedFrom
    BY <1>1 DEF Nth
  <2>3. QED
    BY <2>2, ContainerConstants
<1>7. \A i \in CB!Slots : (\A k \in 0 .. n - 1 : i # Nth(f, k)) => m[i] = NoValue
  BY <1>2 DEF Nth
<1> HIDE DEF m, mz
<1>8. /\ CB!clear(Record(m, f, n, t)) = EmptiedOf(Record(m, f, n, t))
      /\ IQ!clear(Record(m, f, n, t)) = EmptiedOf(Record(m, f, n, t))
      /\ f = 0 => /\ IS!clear(Record(m, f, n, t)) = EmptiedOf(Record(m, f, n, t))
                  /\ IV!clear(Record(m, f, n, t)) = EmptiedOf(Record(m, f, n, t))
  BY <1>1, <1>6, <1>7, Emptied
<1>9. WithData(c, m) = Record(m, f, n, t)
  BY <1>1, Changed
<1>10. QED
  BY <1>3, <1>4, <1>5, <1>8, <1>9, Zenon DEF f

\* What is read, and that the values held are the content.
LEMMA Reads ==
  ASSUME NEW c, NEW s, Holds(c, s)
  PROVE  /\ c.size # 0 => /\ CB!front(c) = s[1] /\ IQ!front(c) = s[1]
                          /\ CB!back(c) = s[Len(s)] /\ IQ!back(c) = s[Len(s)]
                          /\ c.front = 0 => /\ IV!front(c) = s[1] /\ IV!back(c) = s[Len(s)]
                                            /\ IS!top(c) = s[Len(s)]
         /\ \A i \in 1 .. c.size : CB!at(c, i - 1) = s[i] /\ (c.front = 0 => IV!at(c, i - 1) = s[i])
         /\ CB!Content(c) = s /\ IQ!Content(c) = s
         /\ c.front = 0 => IS!Content(c) = s /\ IV!Content(c) = s
<1> DEFINE n == c.size
<1>1. /\ n \in 0 .. Capacity /\ Len(s) = n /\ s \in Seq(Values) /\ Capacity \in Nat
      /\ \A k \in 0 .. n - 1 : c.data[Nth(c.front, k)] = s[k + 1]
  BY HeldSlots, ContainerConstants
<1>2. n # 0 => c.data[Nth(c.front, n - 1)] = s[Len(s)] /\ c.data[c.front] = s[1]
  BY EndSlots
<1>3. c.front = 0 => \A k \in 0 .. n - 1 : Nth(c.front, k) = k
  <2>1. SUFFICES ASSUME c.front = 0 PROVE \A k \in 0 .. n - 1 : Nth(c.front, k) = k
    OBVIOUS
  <2>2. \A k \in 0 .. n - 1 : k \in CB!Slots
    BY <1>1 DEF CB!Slots
  <2>3. QED
    BY <2>1, <2>2, FromZero
<1> HIDE DEF n
<1>4. n # 0 => n - 1 \in 0 .. n - 1
  BY <1>1
<1>5. \A i \in 1 .. n : i - 1 \in 0 .. n - 1 /\ c.data[Nth(c.front, i - 1)] = s[i]
  <2>1. SUFFICES ASSUME NEW i \in 1 .. n
                 PROVE  i - 1 \in 0 .. n - 1 /\ c.data[Nth(c.front, i - 1)] = s[i]
    OBVIOUS
  <2>2. i - 1 \in 0 .. n - 1 /\ (i - 1) + 1 = i
    BY <1>1
  <2>3. c.data[Nth(c.front, i - 1)] = s[(i - 1) + 1]
    BY <1>1, <2>2
  <2>4. QED
    BY <2>2, <2>3
<1>6. s = [k \in 1 .. n |-> s[k]]
  BY <1>1
<1>7. [k \in 1 .. n |-> c.data[Nth(c.front, k - 1)]] = s
  BY <1>5, <1>6
<1>8. c.front = 0 => [k \in 1 .. n |-> c.data[k - 1]] = s
  BY <1>3, <1>5, <1>6
<1>9. CB!Content(c) = s /\ IQ!Content(c) = s
  BY <1>7 DEF n, Nth, CB!Content, CB!at, CB!slot_ptr, CB!index_of, IQ!Content, IQ!slot_ptr,
              IQ!index_of
<1>10. c.front = 0 => IS!Content(c) = s /\ IV!Content(c) = s
  BY <1>8 DEF n, IS!Content, IS!slot_ptr, IV!Content, IV!slot_ptr
<1>11. n # 0 => /\ CB!front(c) = s[1] /\ IQ!front(c) = s[1]
                /\ CB!back(c) = s[Len(s)] /\ IQ!back(c) = s[Len(s)]
  BY <1>2 DEF n, Nth, CB!front, CB!back, CB!slot_ptr, CB!index_of, IQ!front, IQ!back,
         IQ!slot_ptr,
              IQ!index_of
<1>12. n # 0 /\ c.front = 0 => /\ IV!front(c) = s[1] /\ IV!back(c) = s[Len(s)]
                               /\ IS!top(c) = s[Len(s)]
  BY <1>2, <1>3, <1>4 DEF n, IV!front, IV!back, IV!slot_ptr, IS!top, IS!slot_ptr
<1>13. \A i \in 1 .. n : CB!at(c, i - 1) = s[i] /\ (c.front = 0 => IV!at(c, i - 1) = s[i])
  BY <1>3, <1>5 DEF Nth, CB!at, CB!slot_ptr, CB!index_of, IV!at, IV!slot_ptr
<1>14. QED
  BY <1>9, <1>10, <1>11, <1>12, <1>13 DEF n

Kinds == {"circular_buffer", "inplace_queue", "inplace_stack", "inplace_vector"}

\* The containers that have no front_.
Flat == {"inplace_stack", "inplace_vector"}

\* Of an object of class k.
Contains(k, c, s) == Holds(c, s) /\ (k \in Flat => c.front = 0)

ContentOf(k, c) ==
  CASE k = "circular_buffer" -> CB!Content(c)
    [] k = "inplace_queue"   -> IQ!Content(c)
    [] k = "inplace_stack"   -> IS!Content(c)
    [] k = "inplace_vector"  -> IV!Content(c)

LEMMA ContentIs ==
  ASSUME NEW k \in Kinds, NEW c, NEW s, Contains(k, c, s)
  PROVE  ContentOf(k, c) = s
<1>1. /\ CB!Content(c) = s /\ IQ!Content(c) = s
      /\ c.front = 0 => IS!Content(c) = s /\ IV!Content(c) = s
  BY Reads DEF Contains
<1>2. QED
  BY <1>1 DEF Kinds, Flat, Contains, ContentOf

\* What the operations make of it.
LEMMA Kept ==
  ASSUME NEW k, NEW c, NEW s, Contains(k, c, s)
  PROVE  /\ c.size < Capacity => \A v \in Values : Contains(k, PushBackOf(c, v), Append(s, v))
         /\ c.size # 0 => Contains(k, PopBackOf(c), SubSeq(s, 1, Len(s) - 1))
         /\ Contains(k, EmptiedOf(c), <<>>)
         /\ \A other, r : Contains(k, other, r) => Contains(k, CopyOf(c, other), r)
<1>1. Holds(c, s) /\ IsTrue(c.sound) /\ (k \in Flat => c.front = 0)
  BY HeldSlots DEF Contains
<1>2. /\ \A v : PushBackOf(c, v).front = c.front
      /\ PopBackOf(c).front = c.front
      /\ EmptiedOf(c).front = 0
      /\ \A other : CopyOf(c, other).front = 0
  BY Fields DEF PushBackOf, PopBackOf, EmptiedOf, CopyOf
<1>3. c.size < Capacity => \A v \in Values : Contains(k, PushBackOf(c, v), Append(s, v))
  BY <1>1, <1>2, PushBackHolds DEF Contains
<1>4. c.size # 0 => Contains(k, PopBackOf(c), SubSeq(s, 1, Len(s) - 1))
  BY <1>1, <1>2, PopBackHolds DEF Contains
<1>5. Contains(k, EmptiedOf(c), <<>>)
  BY <1>1, <1>2, EmptiedHolds DEF Contains
<1>6. \A other, r : Contains(k, other, r) => Contains(k, CopyOf(c, other), r)
  BY <1>1, <1>2, CopyHolds DEF Contains
<1>7. QED
  BY <1>3, <1>4, <1>5, <1>6

LEMMA KeptFromFront ==
  ASSUME NEW k, k \notin Flat, NEW c, NEW s, Contains(k, c, s)
  PROVE  /\ c.size < Capacity => \A v \in Values : Contains(k, PushFrontOf(c, v), <<v>> \o s)
         /\ c.size # 0 => Contains(k, PopFrontOf(c), Tail(s))
         /\ \A v \in Values : Contains(k, FilledOf(c, v), [i \in 1 .. Capacity |-> v])
<1>1. Holds(c, s) /\ IsTrue(c.sound)
  BY HeldSlots DEF Contains
<1>2. c.size < Capacity => \A v \in Values : Contains(k, PushFrontOf(c, v), <<v>> \o s)
  BY <1>1, PushFrontHolds DEF Contains
<1>3. c.size # 0 => Contains(k, PopFrontOf(c), Tail(s))
  BY <1>1, PopFrontHolds DEF Contains
<1>4. \A v \in Values : Contains(k, FilledOf(c, v), [i \in 1 .. Capacity |-> v])
  BY <1>1, FilledHolds DEF Contains
<1>5. QED
  BY <1>2, <1>3, <1>4

\* Every object holds a sequence of values.
ContainersInv ==
  /\ kind \in Kinds /\ trivial \in BOOLEAN
  /\ obj \in [Objects -> Object]
  /\ \A o \in Objects : Contains(kind, obj[o], Content(obj[o]))

\* The abstract state.
Contents == [o \in Objects |-> Content(obj[o])]
Sounds == [o \in Objects |-> obj[o].sound]

LEMMA ContentContains ==
  ASSUME kind \in Kinds, NEW c, NEW s, Contains(kind, c, s)
  PROVE  Content(c) = s
<1>1. Content(c) = ContentOf(kind, c)
  BY DEF Content, ContentOf
<1>2. QED
  BY <1>1, ContentIs

LEMMA AllSound ==
  ASSUME ContainersInv
  PROVE  Sounds = [o \in Objects |-> TRUE]
<1>1. ASSUME NEW o \in Objects PROVE obj[o].sound = TRUE
  <2>1. Holds(obj[o], Content(obj[o]))
    BY DEF ContainersInv, Contains
  <2>2. IsTrue(obj[o].sound)
    BY <2>1, HeldSlots
  <2>3. QED
    BY <2>2 DEF IsTrue
<1>2. QED
  BY <1>1 DEF Sounds

\* The objects change, and hold the sequences T.
LEMMA Become ==
  ASSUME ContainersInv, UNCHANGED <<kind, trivial>>, NEW T, T \in [Objects -> Seq(Values)],
         obj' \in [Objects -> Object], \A o \in Objects : Contains(kind, obj'[o], T[o])
  PROVE  ContainersInv' /\ Contents' = T /\ Sounds' = Sounds
<1>1. kind \in Kinds /\ kind' \in Kinds /\ trivial' \in BOOLEAN /\ kind' = kind
  BY DEF ContainersInv
<1>2. ASSUME NEW o \in Objects PROVE Content(obj[o])' = T[o]
  <2>1. ContentOf(kind, obj'[o]) = T[o]
    BY <1>1, ContentIs
  <2>2. Content(obj[o])' = ContentOf(kind', obj'[o])
    BY DEF Content, ContentOf
  <2>3. QED
    BY <1>1, <2>1, <2>2
<1>3. Contents' = T
  BY <1>2 DEF Contents
<1>4. ContainersInv'
  <2>1. \A o \in Objects : Contains(kind', obj'[o], Content(obj[o])')
    BY <1>1, <1>2
  <2>2. QED
    BY <1>1, <2>1 DEF ContainersInv
<1>5. Sounds = [o \in Objects |-> TRUE] /\ Sounds' = [o \in Objects |-> TRUE]
  <2>1. ASSUME NEW o \in Objects PROVE obj'[o].sound = TRUE
    <3>1. Holds(obj'[o], T[o])
      BY DEF Contains
    <3>2. IsTrue(obj'[o].sound)
      BY <3>1, HeldSlots
    <3>3. QED
      BY <3>2 DEF IsTrue
  <2>2. Sounds' = [o \in Objects |-> TRUE]
    BY <2>1 DEF Sounds
  <2>3. QED
    BY <2>2, AllSound
<1>6. QED
  BY <1>3, <1>4, <1>5

LEMMA BecomeOne ==
  ASSUME ContainersInv, UNCHANGED <<kind, trivial>>, NEW o \in Objects, NEW d, NEW t,
         obj' = [obj EXCEPT ![o] = d], Contains(kind, d, t)
  PROVE  ContainersInv' /\ Contents' = [Contents EXCEPT ![o] = t] /\ Sounds' = Sounds
<1> DEFINE T == [Contents EXCEPT ![o] = t]
<1>1. d \in Object /\ t \in Seq(Values)
  BY HeldSlots DEF Contains
<1>2. ASSUME NEW q \in Objects PROVE Content(obj[q]) \in Seq(Values)
  BY HeldSlots DEF ContainersInv, Contains
<1>3. T \in [Objects -> Seq(Values)]
  BY <1>1, <1>2 DEF Contents
<1>4. obj' \in [Objects -> Object]
  BY <1>1 DEF ContainersInv
<1>5. \A q \in Objects : Contains(kind, obj'[q], T[q])
  BY DEF ContainersInv, Contents
<1> HIDE DEF T
<1>6. ContainersInv' /\ Contents' = T /\ Sounds' = Sounds
  BY <1>3, <1>4, <1>5, Become
<1>7. QED
  BY <1>6 DEF T

LEMMA Effects ==
  ASSUME NEW s, NEW v
  PROVE  /\ Seqs!After("push_back", s, v) = Append(s, v)
         /\ Seqs!After("push_front", s, v) = <<v>> \o s
         /\ Seqs!After("overwrite_back", s, v)
              = Append(IF Len(s) = Capacity THEN Tail(s) ELSE s, v)
         /\ Seqs!After("overwrite_front", s, v)
              = <<v>> \o (IF Len(s) = Capacity THEN SubSeq(s, 1, Len(s) - 1) ELSE s)
         /\ Seqs!After("pop_front", s, v) = Tail(s)
         /\ Seqs!After("pop_back", s, v) = SubSeq(s, 1, Len(s) - 1)
         /\ Seqs!After("fill", s, v) = [i \in 1 .. Capacity |-> v]
         /\ Seqs!After("clear", s, v) = <<>>
         /\ Seqs!After("read", s, v) = s
BY DEF Seqs!After, Seqs!Full, Seqs!ButLast

LEMMA Reports ==
  ASSUME NEW s, NEW v
  PROVE  /\ Seqs!Reported("pop_front", s, v) = Head(s)
         /\ Seqs!Reported("pop_back", s, v) = s[Len(s)]
         /\ Seqs!Reported("read", s, v) = s[v]
         /\ \A name \in {"push_back", "push_front", "overwrite_back", "overwrite_front", "fill",
                         "clear"} : Seqs!Reported(name, s, v) = Nothing
BY DEF Seqs!Reported

OfOne == {"push_back", "push_front", "overwrite_back", "overwrite_front", "pop_front", "pop_back",
          "fill", "clear", "read"}

\* A step that has the effect its name promises is one of the abstract specification.
LEMMA Promised ==
  ASSUME ContainersInv, UNCHANGED <<kind, trivial>>, NEW o \in Objects, NEW name \in OfOne,
         NEW arg, NEW out, NEW d, obj' = [obj EXCEPT ![o] = d],
         Report(name, o, arg, out),
         Contains(kind, d, Seqs!After(name, Content(obj[o]), arg)),
         name \in {"push_back", "push_front"} => Len(Content(obj[o])) # Capacity,
         name \in {"pop_front", "pop_back", "read"} => Content(obj[o]) # <<>>,
         out = Seqs!Reported(name, Content(obj[o]), arg)
  PROVE  ContainersInv' /\ Seqs!Next
<1> DEFINE s == Content(obj[o])
           t == Seqs!After(name, s, arg)
<1>1. Contents[o] = s /\ o \in DOMAIN Contents
  BY DEF Contents
<1>2. Contains(kind, d, t)
  OBVIOUS
<1>3. op' = [name |-> name, on |-> o, arg |-> arg, result |-> out]
  BY DEF Report
<1>4. op'.name = name /\ op'.on = o /\ op'.arg = arg /\ op'.result = out
  BY <1>3
<1>5. name \notin {"construct", "copy", "move", "refused"}
  BY DEF OfOne
<1> HIDE DEF t
<1>6. ContainersInv' /\ Contents' = [Contents EXCEPT ![o] = t] /\ Sounds' = Sounds
  BY <1>2, BecomeOne
<1>7. Contents' = [Contents EXCEPT ![o] = Seqs!After(name, Contents[o], arg)]
  BY <1>1, <1>6 DEF t
<1> HIDE DEF s
<1>8. Seqs!Change
  <2>1. Contents' = [Contents EXCEPT ![op'.on] = Seqs!After(op'.name, Contents[op'.on], op'.arg)]
    BY <1>4, <1>7
  <2>2. op'.name \in {"push_back", "push_front"} => Len(Contents[op'.on]) # Capacity
    BY <1>1, <1>4 DEF s
  <2>3. op'.name \in {"pop_front", "pop_back", "read"} => Contents[op'.on] # <<>>
    BY <1>1, <1>4 DEF s
  <2>4. op'.result = Seqs!Reported(op'.name, Contents[op'.on], op'.arg)
    BY <1>1, <1>4 DEF s
  <2>5. QED
    BY <1>4, <1>5, <2>1, <2>2, <2>3, <2>4 DEF Seqs!Change, Seqs!Full, Contents
<1>9. QED
  BY <1>6, <1>8 DEF Seqs!Next, Sounds

\* What one knows of an object.
LEMMA Known ==
  ASSUME ContainersInv, NEW o \in Objects
  PROVE  /\ Contains(kind, obj[o], Content(obj[o])) /\ Holds(obj[o], Content(obj[o]))
         /\ (kind \in Flat => obj[o].front = 0)
         /\ Len(Content(obj[o])) = obj[o].size /\ obj[o].size \in 0 .. Capacity
         /\ Content(obj[o]) \in Seq(Values) /\ kind \in Kinds
<1>1. Contains(kind, obj[o], Content(obj[o])) /\ kind \in Kinds
  BY DEF ContainersInv
<1>2. Holds(obj[o], Content(obj[o])) /\ (kind \in Flat => obj[o].front = 0)
  BY <1>1 DEF Contains
<1>3. QED
  BY <1>1, <1>2, HeldSlots

LEMMA PushesBack ==
  ASSUME ContainersInv, UNCHANGED <<kind, trivial>>, NEW o \in Objects, NEW v \in Values,
         ~S!full(obj[o]), Do("push_back", o, v, PushBackOf(obj[o], v))
  PROVE  ContainersInv' /\ Seqs!Next
<1> DEFINE s == Content(obj[o])
<1>1. Contains(kind, obj[o], s) /\ Len(s) = obj[o].size /\ obj[o].size \in 0 .. Capacity
  BY Known
<1>2. Len(s) # Capacity /\ obj[o].size < Capacity
  BY <1>1, ContainerConstants DEF S!full
<1>3. Contains(kind, PushBackOf(obj[o], v), Append(s, v))
  BY <1>1, <1>2, Kept
<1>4. /\ Seqs!After("push_back", s, v) = Append(s, v)
      /\ Seqs!Reported("push_back", s, v) = Nothing
  BY Effects, Reports
<1>5. /\ obj' = [obj EXCEPT ![o] = PushBackOf(obj[o], v)]
      /\ Report("push_back", o, v, Nothing) /\ "push_back" \in OfOne
  BY DEF Do, OfOne
<1> HIDE DEF s
<1>6. QED
  BY <1>2, <1>3, <1>4, <1>5, Promised DEF s

LEMMA PopsBack ==
  ASSUME ContainersInv, UNCHANGED <<kind, trivial>>, NEW o \in Objects, NEW w,
         obj[o].size # 0 => w = Content(obj[o])[Len(Content(obj[o]))],
         Take("pop_back", o, w, PopBackOf(obj[o]))
  PROVE  ContainersInv' /\ Seqs!Next
<1> DEFINE s == Content(obj[o])
<1>1. Contains(kind, obj[o], s) /\ Len(s) = obj[o].size /\ s \in Seq(Values)
  BY Known
<1>2. obj[o].size # 0 /\ s # <<>>
  BY <1>1 DEF Take, S!empty
<1>3. Contains(kind, PopBackOf(obj[o]), SubSeq(s, 1, Len(s) - 1))
  BY <1>1, <1>2, Kept
<1>4. /\ Seqs!After("pop_back", s, Nothing) = SubSeq(s, 1, Len(s) - 1)
      /\ w = Seqs!Reported("pop_back", s, Nothing)
  BY <1>2, Effects, Reports
<1>5. /\ obj' = [obj EXCEPT ![o] = PopBackOf(obj[o])]
      /\ Report("pop_back", o, Nothing, w) /\ "pop_back" \in OfOne
  BY DEF Take, OfOne
<1> HIDE DEF s
<1>6. QED
  BY <1>2, <1>3, <1>4, <1>5, Promised DEF s

LEMMA Clears ==
  ASSUME ContainersInv, UNCHANGED <<kind, trivial>>, NEW o \in Objects,
         Do("clear", o, Nothing, EmptiedOf(obj[o]))
  PROVE  ContainersInv' /\ Seqs!Next
<1> DEFINE s == Content(obj[o])
<1>1. Contains(kind, obj[o], s)
  BY Known
<1>2. Contains(kind, EmptiedOf(obj[o]), <<>>)
  BY <1>1, Kept
<1>3. /\ Seqs!After("clear", s, Nothing) = <<>>
      /\ Seqs!Reported("clear", s, Nothing) = Nothing
  BY DEF Seqs!After, Seqs!Reported
<1>4. /\ obj' = [obj EXCEPT ![o] = EmptiedOf(obj[o])]
      /\ Report("clear", o, Nothing, Nothing) /\ "clear" \in OfOne
  BY DEF Do, OfOne
<1> HIDE DEF s
<1>5. QED
  BY <1>2, <1>3, <1>4, Promised DEF s

LEMMA ReadsOne ==
  ASSUME ContainersInv, UNCHANGED <<kind, trivial>>, NEW o \in Objects, NEW i, NEW w,
         i \in 1 .. obj[o].size => w = Content(obj[o])[i], Read(o, i, w)
  PROVE  ContainersInv' /\ Seqs!Next
<1> DEFINE s == Content(obj[o])
<1>1. Contains(kind, obj[o], s) /\ Len(s) = obj[o].size /\ s \in Seq(Values)
      /\ obj[o].size \in 0 .. Capacity
  BY Known
<1>2. i \in 1 .. obj[o].size /\ w = s[i] /\ Report("read", o, i, w) /\ obj' = obj
  BY DEF Read
<1>3. s # <<>>
  BY <1>1, <1>2, ContainerConstants
<1>4. Seqs!After("read", s, i) = s /\ w = Seqs!Reported("read", s, i)
  BY <1>2, Effects, Reports
<1>5. obj' = [obj EXCEPT ![o] = obj[o]] /\ "read" \in OfOne
  BY <1>2 DEF ContainersInv, OfOne
<1> HIDE DEF s
<1>6. QED
  BY <1>1, <1>2, <1>3, <1>4, <1>5, Promised DEF s

LEMMA PopsFront ==
  ASSUME ContainersInv, UNCHANGED <<kind, trivial>>, NEW o \in Objects, NEW w, kind \notin Flat,
         obj[o].size # 0 => w = Content(obj[o])[1],
         Take("pop_front", o, w, PopFrontOf(obj[o]))
  PROVE  ContainersInv' /\ Seqs!Next
<1> DEFINE s == Content(obj[o])
<1>1. Contains(kind, obj[o], s) /\ Len(s) = obj[o].size /\ s \in Seq(Values)
  BY Known
<1>2. obj[o].size # 0 /\ s # <<>>
  BY <1>1 DEF Take, S!empty
<1>3. Contains(kind, PopFrontOf(obj[o]), Tail(s))
  BY <1>1, <1>2, KeptFromFront
<1>4. /\ Seqs!After("pop_front", s, Nothing) = Tail(s)
      /\ w = Seqs!Reported("pop_front", s, Nothing)
  <2>1. w = Head(s)
    BY <1>1, <1>2
  <2>2. QED
    BY <2>1, Effects, Reports
<1>5. /\ obj' = [obj EXCEPT ![o] = PopFrontOf(obj[o])]
      /\ Report("pop_front", o, Nothing, w) /\ "pop_front" \in OfOne
  BY DEF Take, OfOne
<1> HIDE DEF s
<1>6. QED
  BY <1>2, <1>3, <1>4, <1>5, Promised DEF s

LEMMA PushesFront ==
  ASSUME ContainersInv, UNCHANGED <<kind, trivial>>, NEW o \in Objects, NEW v \in Values,
         kind \notin Flat, ~S!full(obj[o]), Do("push_front", o, v, PushFrontOf(obj[o], v))
  PROVE  ContainersInv' /\ Seqs!Next
<1> DEFINE s == Content(obj[o])
<1>1. Contains(kind, obj[o], s) /\ Len(s) = obj[o].size /\ obj[o].size \in 0 .. Capacity
  BY Known
<1>2. Len(s) # Capacity /\ obj[o].size < Capacity
  BY <1>1, ContainerConstants DEF S!full
<1>3. Contains(kind, PushFrontOf(obj[o], v), <<v>> \o s)
  BY <1>1, <1>2, KeptFromFront
<1>4. /\ Seqs!After("push_front", s, v) = <<v>> \o s
      /\ Seqs!Reported("push_front", s, v) = Nothing
  BY Effects, Reports
<1>5. /\ obj' = [obj EXCEPT ![o] = PushFrontOf(obj[o], v)]
      /\ Report("push_front", o, v, Nothing) /\ "push_front" \in OfOne
  BY DEF Do, OfOne
<1> HIDE DEF s
<1>6. QED
  BY <1>2, <1>3, <1>4, <1>5, Promised DEF s

LEMMA Overwrites ==
  ASSUME ContainersInv, UNCHANGED <<kind, trivial>>, NEW o \in Objects, NEW v \in Values,
         kind \notin Flat,
         \/ Do("overwrite_back", o, v, CB!write_back_with(obj[o], v))
         \/ Do("overwrite_front", o, v, CB!write_front_with(obj[o], v))
  PROVE  ContainersInv' /\ Seqs!Next
<1> DEFINE c == obj[o]
           s == Content(obj[o])
           back == Append(IF Len(s) = Capacity THEN Tail(s) ELSE s, v)
           front == <<v>> \o (IF Len(s) = Capacity THEN SubSeq(s, 1, Len(s) - 1) ELSE s)
<1>1. /\ Contains(kind, c, s) /\ Holds(c, s) /\ Len(s) = c.size /\ c.size \in 0 .. Capacity
      /\ Capacity \in Nat \ {0}
  BY Known, ContainerConstants
<1> HIDE DEF c, s
<1>2. Contains(kind, CB!write_back_with(c, v), back)
  <2>1. CASE c.size = Capacity
    <3> DEFINE p == PopFrontOf(c)
    <3>1. CB!write_back_with(c, v) = PushBackOf(p, v)
      BY <1>1, <2>1, Overwritten
    <3>2. Contains(kind, p, Tail(s))
      BY <1>1, <2>1, KeptFromFront
    <3>3. p.size < Capacity
      <4>1. p.size = c.size - 1
        BY Fields DEF PopFrontOf
      <4>2. QED
        BY <1>1, <2>1, <4>1
    <3> HIDE DEF p
    <3>4. Contains(kind, PushBackOf(p, v), Append(Tail(s), v))
      BY <3>2, <3>3, Kept
    <3>5. QED
      BY <1>1, <2>1, <3>1, <3>4
  <2>2. CASE c.size # Capacity
    <3>1. c.size < Capacity
      BY <1>1, <2>2
    <3>2. CB!write_back_with(c, v) = PushBackOf(c, v)
      BY <1>1, <3>1, Pushed
    <3>3. Contains(kind, PushBackOf(c, v), Append(s, v))
      BY <1>1, <3>1, Kept
    <3>4. QED
      BY <1>1, <2>2, <3>2, <3>3
  <2>3. QED
    BY <2>1, <2>2
<1>3. Contains(kind, CB!write_front_with(c, v), front)
  <2>1. CASE c.size = Capacity
    <3> DEFINE p == PopBackOf(c)
    <3>1. CB!write_front_with(c, v) = PushFrontOf(p, v)
      BY <1>1, <2>1, Overwritten
    <3>2. Contains(kind, p, SubSeq(s, 1, Len(s) - 1))
      BY <1>1, <2>1, Kept
    <3>3. p.size < Capacity
      <4>1. p.size = c.size - 1
        BY Fields DEF PopBackOf
      <4>2. QED
        BY <1>1, <2>1, <4>1
    <3> HIDE DEF p
    <3>4. Contains(kind, PushFrontOf(p, v), <<v>> \o SubSeq(s, 1, Len(s) - 1))
      BY <3>2, <3>3, KeptFromFront
    <3>5. QED
      BY <1>1, <2>1, <3>1, <3>4
  <2>2. CASE c.size # Capacity
    <3>1. c.size < Capacity
      BY <1>1, <2>2
    <3>2. CB!write_front_with(c, v) = PushFrontOf(c, v)
      BY <1>1, <3>1, Pushed
    <3>3. Contains(kind, PushFrontOf(c, v), <<v>> \o s)
      BY <1>1, <3>1, KeptFromFront
    <3>4. QED
      BY <1>1, <2>2, <3>2, <3>3
  <2>3. QED
    BY <2>1, <2>2
<1>4. /\ Seqs!After("overwrite_back", s, v) = back /\ Seqs!After("overwrite_front", s, v) = front
      /\ Seqs!Reported("overwrite_back", s, v) = Nothing
      /\ Seqs!Reported("overwrite_front", s, v) = Nothing
  BY Effects, Reports
<1> HIDE DEF back, front
<1>5. CASE Do("overwrite_back", o, v, CB!write_back_with(c, v))
  <2>1. /\ obj' = [obj EXCEPT ![o] = CB!write_back_with(c, v)]
        /\ Report("overwrite_back", o, v, Nothing) /\ "overwrite_back" \in OfOne
    BY <1>5 DEF Do, OfOne
  <2>2. QED
    BY <1>2, <1>4, <2>1, Promised DEF s
<1>6. CASE Do("overwrite_front", o, v, CB!write_front_with(c, v))
  <2>1. /\ obj' = [obj EXCEPT ![o] = CB!write_front_with(c, v)]
        /\ Report("overwrite_front", o, v, Nothing) /\ "overwrite_front" \in OfOne
    BY <1>6 DEF Do, OfOne
  <2>2. QED
    BY <1>3, <1>4, <2>1, Promised DEF s
<1>7. QED
  BY <1>5, <1>6 DEF c

LEMMA Fills ==
  ASSUME ContainersInv, UNCHANGED <<kind, trivial>>, NEW o \in Objects, NEW v \in Values,
         kind \notin Flat, Do("fill", o, v, FilledOf(obj[o], v))
  PROVE  ContainersInv' /\ Seqs!Next
<1> DEFINE s == Content(obj[o])
           all == [i \in 1 .. Capacity |-> v]
<1>1. Contains(kind, obj[o], s)
  BY Known
<1>2. Contains(kind, FilledOf(obj[o], v), all)
  BY <1>1, KeptFromFront
<1>3. Seqs!After("fill", s, v) = all /\ Seqs!Reported("fill", s, v) = Nothing
  BY DEF Seqs!After, Seqs!Reported
<1>4. /\ obj' = [obj EXCEPT ![o] = FilledOf(obj[o], v)]
      /\ Report("fill", o, v, Nothing) /\ "fill" \in OfOne
  BY DEF Do, OfOne
<1> HIDE DEF s, all
<1>5. QED
  BY <1>2, <1>3, <1>4, Promised DEF s

LEMMA Refuses ==
  ASSUME ContainersInv, UNCHANGED <<kind, trivial>>, NEW o \in Objects,
         try_push_full(o) \/ try_pop_empty(o)
  PROVE  ContainersInv' /\ Seqs!Next
<1>1. /\ Len(Content(obj[o])) = obj[o].size /\ Content(obj[o]) \in Seq(Values)
      /\ Contents[o] = Content(obj[o])
  BY Known DEF Contents
<1>2. obj' = obj /\ op'.name = "refused" /\ op'.on = o
      /\ IF op'.arg = "push" THEN obj[o].size = Capacity ELSE obj[o].size = 0
  BY DEF try_push_full, try_pop_empty, Report, S!full, S!empty
<1>3. ASSUME NEW q \in Objects PROVE Content(obj[q])' = Content(obj[q])
  BY <1>2 DEF Content
<1>4. ContainersInv' /\ Contents' = Contents /\ Sounds' = Sounds
  BY <1>2, <1>3 DEF ContainersInv, Contents, Sounds
<1>5. Seqs!Refuse
  <2>1. IF op'.arg = "push" THEN Len(Contents[op'.on]) = Capacity ELSE Contents[op'.on] = <<>>
    BY <1>1, <1>2
  <2>2. QED
    BY <1>2, <1>4, <2>1 DEF Seqs!Refuse, Seqs!Full, Contents
<1>6. QED
  BY <1>4, <1>5 DEF Seqs!Next, Sounds

\* Every operation of each class is one of these.
LEMMA BufferSteps ==
  ASSUME ContainersInv, UNCHANGED <<kind, trivial>>, NEW o \in Objects, CircularBufferStep(o)
  PROVE  ContainersInv' /\ Seqs!Next
<1> DEFINE c == obj[o]
           s == Content(obj[o])
<1>1. kind = "circular_buffer" /\ kind \notin Flat
  BY DEF CircularBufferStep, Flat
<1>2. Holds(c, s) /\ c.size \in 0 .. Capacity /\ Capacity \in Nat
  BY Known, ContainerConstants
<1>3. ~S!full(c) => c.size < Capacity
  BY <1>2 DEF S!full
<1> HIDE DEF s, c
<1>4. ~S!full(c) => \A v : /\ CB!write_back_with(c, v) = PushBackOf(c, v)
                           /\ CB!write_front_with(c, v) = PushFrontOf(c, v)
  BY <1>2, <1>3, Pushed
<1>5. CASE \E v \in Values : Push("push_back", o, v, CB!write_back_with(c, v))
  <2>1. PICK v \in Values : Push("push_back", o, v, CB!write_back_with(c, v))
    BY <1>5
  <2>2. ~S!full(c)
    BY <2>1 DEF Push, c
  <2>3. CB!write_back_with(c, v) = PushBackOf(c, v)
    BY <1>4, <2>2
  <2>4. Do("push_back", o, v, PushBackOf(c, v))
    BY <2>1, <2>3 DEF Push
  <2>5. QED
    BY <2>2, <2>4, PushesBack DEF c
<1>6. CASE \E v \in Values : Push("push_front", o, v, CB!write_front_with(c, v))
  <2>1. PICK v \in Values : Push("push_front", o, v, CB!write_front_with(c, v))
    BY <1>6
  <2>2. ~S!full(c)
    BY <2>1 DEF Push, c
  <2>3. CB!write_front_with(c, v) = PushFrontOf(c, v)
    BY <1>4, <2>2
  <2>4. Do("push_front", o, v, PushFrontOf(c, v))
    BY <2>1, <2>3 DEF Push
  <2>5. QED
    BY <1>1, <2>2, <2>4, PushesFront DEF c
<1>7. CASE \E v \in Values : \/ Do("overwrite_back", o, v, CB!write_back_with(c, v))
                             \/ Do("overwrite_front", o, v, CB!write_front_with(c, v))
  BY <1>1, <1>7, Overwrites DEF c
<1>8. CASE \E v \in Values : Do("fill", o, v, CB!fill(c, v))
  <2>1. PICK v \in Values : Do("fill", o, v, CB!fill(c, v))
    BY <1>8
  <2>2. CB!fill(c, v) = FilledOf(c, v)
    BY <1>2, Filled
  <2>3. QED
    BY <1>1, <2>1, <2>2, Fills DEF c
<1>9. CASE Take("pop_front", o, CB!front(c), CB!pop_front(c))
  <2>1. c.size # 0
    BY <1>9 DEF Take, S!empty, c
  <2>2. CB!front(c) = s[1] /\ CB!pop_front(c) = PopFrontOf(c)
    BY <1>2, <2>1, Reads, Popped
  <2>3. QED
    BY <1>1, <1>9, <2>2, PopsFront DEF c, s
<1>10. CASE Take("pop_back", o, CB!back(c), CB!pop_back(c))
  <2>1. c.size # 0
    BY <1>10 DEF Take, S!empty, c
  <2>2. CB!back(c) = s[Len(s)] /\ CB!pop_back(c) = PopBackOf(c)
    BY <1>2, <2>1, Reads, Popped
  <2>3. QED
    BY <1>10, <2>2, PopsBack DEF c, s
<1>11. CASE \E i \in 1 .. Capacity : Read(o, i, CB!at(c, i - 1))
  <2>1. PICK i \in 1 .. Capacity : Read(o, i, CB!at(c, i - 1))
    BY <1>11
  <2>2. i \in 1 .. c.size => CB!at(c, i - 1) = s[i]
    BY <1>2, Reads
  <2>3. QED
    BY <2>1, <2>2, ReadsOne DEF c, s
<1>12. CASE Do("clear", o, Nothing, CB!clear(c))
  <2>1. CB!clear(c) = EmptiedOf(c)
    BY <1>2, Cleared
  <2>2. QED
    BY <1>12, <2>1, Clears DEF c
<1>13. QED
  BY <1>5, <1>6, <1>7, <1>8, <1>9, <1>10, <1>11, <1>12 DEF CircularBufferStep, c

LEMMA QueueSteps ==
  ASSUME ContainersInv, UNCHANGED <<kind, trivial>>, NEW o \in Objects, InplaceQueueStep(o)
  PROVE  ContainersInv' /\ Seqs!Next
<1> DEFINE c == obj[o]
           s == Content(obj[o])
<1>1. kind = "inplace_queue" /\ kind \notin Flat
  BY DEF InplaceQueueStep, Flat
<1>2. Holds(c, s) /\ c.size \in 0 .. Capacity /\ Capacity \in Nat /\ Len(s) = c.size
  BY Known, ContainerConstants
<1>3. ~S!full(c) => c.size < Capacity
  BY <1>2 DEF S!full
<1> HIDE DEF s, c
<1>4. CASE \E v \in Values : Push("push_back", o, v, IQ!emplace(c, v))
  <2>1. PICK v \in Values : Push("push_back", o, v, IQ!emplace(c, v))
    BY <1>4
  <2>2. ~S!full(c)
    BY <2>1 DEF Push, c
  <2>3. IQ!emplace(c, v) = PushBackOf(c, v)
    BY <1>2, <1>3, <2>2, Pushed
  <2>4. Do("push_back", o, v, PushBackOf(c, v))
    BY <2>1, <2>3 DEF Push
  <2>5. QED
    BY <2>2, <2>4, PushesBack DEF c
<1>5. CASE Take("pop_front", o, IQ!front(c), IQ!pop(c))
  <2>1. c.size # 0
    BY <1>5 DEF Take, S!empty, c
  <2>2. IQ!front(c) = s[1] /\ IQ!pop(c) = PopFrontOf(c)
    BY <1>2, <2>1, Reads, Popped
  <2>3. QED
    BY <1>1, <1>5, <2>2, PopsFront DEF c, s
<1>6. CASE Read(o, c.size, IQ!back(c))
  <2>1. c.size \in 1 .. c.size
    BY <1>6 DEF Read, c
  <2>2. c.size # 0
    BY <2>1
  <2>3. IQ!back(c) = s[c.size]
    BY <1>2, <2>2, Reads
  <2>4. QED
    BY <1>6, <2>3, ReadsOne DEF c, s
<1>7. CASE Do("clear", o, Nothing, IQ!clear(c))
  <2>1. IQ!clear(c) = EmptiedOf(c)
    BY <1>2, Cleared
  <2>2. QED
    BY <1>7, <2>1, Clears DEF c
<1>8. QED
  BY <1>4, <1>5, <1>6, <1>7 DEF InplaceQueueStep, c

LEMMA StackSteps ==
  ASSUME ContainersInv, UNCHANGED <<kind, trivial>>, NEW o \in Objects, InplaceStackStep(o)
  PROVE  ContainersInv' /\ Seqs!Next
<1> DEFINE c == obj[o]
           s == Content(obj[o])
<1>1. kind = "inplace_stack" /\ kind \in Flat
  BY DEF InplaceStackStep, Flat
<1>2. Holds(c, s) /\ c.size \in 0 .. Capacity /\ Capacity \in Nat /\ c.front = 0
  BY <1>1, Known, ContainerConstants
<1>3. ~S!full(c) => c.size < Capacity
  BY <1>2 DEF S!full
<1> HIDE DEF s, c
<1>4. CASE \E v \in Values : Push("push_back", o, v, IS!emplace(c, v))
  <2>1. PICK v \in Values : Push("push_back", o, v, IS!emplace(c, v))
    BY <1>4
  <2>2. ~S!full(c)
    BY <2>1 DEF Push, c
  <2>3. IS!emplace(c, v) = PushBackOf(c, v)
    BY <1>2, <1>3, <2>2, Pushed
  <2>4. Do("push_back", o, v, PushBackOf(c, v))
    BY <2>1, <2>3 DEF Push
  <2>5. QED
    BY <2>2, <2>4, PushesBack DEF c
<1>5. CASE Take("pop_back", o, IS!top(c), IS!pop(c))
  <2>1. c.size # 0
    BY <1>5 DEF Take, S!empty, c
  <2>2. IS!top(c) = s[Len(s)] /\ IS!pop(c) = PopBackOf(c)
    BY <1>2, <2>1, Reads, Popped
  <2>3. QED
    BY <1>5, <2>2, PopsBack DEF c, s
<1>6. CASE Do("clear", o, Nothing, IS!clear(c))
  <2>1. IS!clear(c) = EmptiedOf(c)
    BY <1>2, Cleared
  <2>2. QED
    BY <1>6, <2>1, Clears DEF c
<1>7. QED
  BY <1>4, <1>5, <1>6 DEF InplaceStackStep, c

LEMMA VectorSteps ==
  ASSUME ContainersInv, UNCHANGED <<kind, trivial>>, NEW o \in Objects, InplaceVectorStep(o)
  PROVE  ContainersInv' /\ Seqs!Next
<1> DEFINE c == obj[o]
           s == Content(obj[o])
<1>1. kind = "inplace_vector" /\ kind \in Flat
  BY DEF InplaceVectorStep, Flat
<1>2. Holds(c, s) /\ c.size \in 0 .. Capacity /\ Capacity \in Nat /\ c.front = 0
  BY <1>1, Known, ContainerConstants
<1>3. ~S!full(c) => c.size < Capacity
  BY <1>2 DEF S!full
<1> HIDE DEF s, c
<1>4. CASE \E v \in Values : Push("push_back", o, v, IV!emplace_back(c, v))
  <2>1. PICK v \in Values : Push("push_back", o, v, IV!emplace_back(c, v))
    BY <1>4
  <2>2. ~S!full(c)
    BY <2>1 DEF Push, c
  <2>3. IV!emplace_back(c, v) = PushBackOf(c, v)
    BY <1>2, <1>3, <2>2, Pushed
  <2>4. Do("push_back", o, v, PushBackOf(c, v))
    BY <2>1, <2>3 DEF Push
  <2>5. QED
    BY <2>2, <2>4, PushesBack DEF c
<1>5. CASE Take("pop_back", o, IV!back(c), IV!pop_back(c))
  <2>1. c.size # 0
    BY <1>5 DEF Take, S!empty, c
  <2>2. IV!back(c) = s[Len(s)] /\ IV!pop_back(c) = PopBackOf(c)
    BY <1>2, <2>1, Reads, Popped
  <2>3. QED
    BY <1>5, <2>2, PopsBack DEF c, s
<1>6. CASE Read(o, 1, IV!front(c))
  <2>1. 1 \in 1 .. c.size
    BY <1>6 DEF Read, c
  <2>2. c.size # 0
    BY <2>1
  <2>3. IV!front(c) = s[1]
    BY <1>2, <2>2, Reads
  <2>4. QED
    BY <1>6, <2>3, ReadsOne DEF c, s
<1>7. CASE \E i \in 1 .. Capacity : Read(o, i, IV!at(c, i - 1))
  <2>1. PICK i \in 1 .. Capacity : Read(o, i, IV!at(c, i - 1))
    BY <1>7
  <2>2. i \in 1 .. c.size => IV!at(c, i - 1) = s[i]
    BY <1>2, Reads
  <2>3. QED
    BY <2>1, <2>2, ReadsOne DEF c, s
<1>8. CASE Do("clear", o, Nothing, IV!clear(c))
  <2>1. IV!clear(c) = EmptiedOf(c)
    BY <1>2, Cleared
  <2>2. QED
    BY <1>8, <2>1, Clears DEF c
<1>9. QED
  BY <1>4, <1>5, <1>6, <1>7, <1>8 DEF InplaceVectorStep, c

\* An assignment, and what a move leaves of its source.
LEMMA Assigns ==
  ASSUME ContainersInv, NEW o \in Objects, NEW p \in Objects
  PROVE  /\ Assigned(obj[o], obj[p]) = CopyOf(obj[o], obj[p])
         /\ LeftBehind(obj[p]) = EmptiedOf(obj[p])
<1> DEFINE c == obj[o]
           x == obj[p]
<1>1. /\ Holds(c, Content(c)) /\ Holds(x, Content(x)) /\ kind \in Kinds
      /\ kind \in Flat => c.front = 0 /\ x.front = 0
  BY Known
<1> HIDE DEF c, x
<1>2. /\ CB!assigned(c, x) = CopyOf(c, x) /\ IQ!assigned(c, x) = CopyOf(c, x)
      /\ c.front = 0 /\ x.front = 0 =>
           IS!assigned(c, x) = CopyOf(c, x) /\ IV!assigned(c, x) = CopyOf(c, x)
  BY <1>1, Assignment
<1>3. /\ CB!moved_from(x) = EmptiedOf(x) /\ IQ!moved_from(x) = EmptiedOf(x)
      /\ x.front = 0 => IS!moved_from(x) = EmptiedOf(x) /\ IV!moved_from(x) = EmptiedOf(x)
  BY <1>1, Abandoned
<1>4. Assigned(c, x) = CopyOf(c, x)
  BY <1>1, <1>2 DEF Assigned, Kinds, Flat
<1>5. LeftBehind(x) = EmptiedOf(x)
  BY <1>1, <1>3 DEF LeftBehind, Kinds, Flat
<1>6. QED
  BY <1>4, <1>5 DEF c, x

LEMMA Copies ==
  ASSUME ContainersInv, UNCHANGED <<kind, trivial>>, NEW o \in Objects, NEW p \in Objects,
         Copy(o, p)
  PROVE  ContainersInv' /\ Seqs!Next
<1>1. /\ Contains(kind, obj[o], Content(obj[o])) /\ Contains(kind, obj[p], Content(obj[p]))
      /\ Contents[o] = Content(obj[o]) /\ Contents[p] = Content(obj[p])
  BY Known DEF Contents
<1>2. op'.name = "copy" /\ op'.on = o /\ op'.arg = p
  BY DEF Copy, Report
<1>3. PICK d : obj' = [obj EXCEPT ![o] = d] /\ Contains(kind, d, Contents[p])
  <2>1. CASE o = p
    BY <1>1, <2>1 DEF Copy, ContainersInv
  <2>2. CASE o # p /\ trivial
    BY <1>1, <2>2 DEF Copy
  <2>3. CASE o # p /\ ~trivial
    <3>1. obj' = [obj EXCEPT ![o] = CopyOf(obj[o], obj[p])]
      BY <2>3, Assigns DEF Copy
    <3>2. Contains(kind, CopyOf(obj[o], obj[p]), Content(obj[p]))
      BY <1>1, Kept
    <3>3. QED
      BY <1>1, <3>1, <3>2
  <2>4. QED
    BY <2>1, <2>2, <2>3
<1>4. ContainersInv' /\ Contents' = [Contents EXCEPT ![o] = Contents[p]] /\ Sounds' = Sounds
  BY <1>3, BecomeOne
<1>5. Seqs!Copy
  BY <1>2, <1>4 DEF Seqs!Copy, Contents
<1>6. QED
  BY <1>4, <1>5 DEF Seqs!Next, Sounds

LEMMA Moves ==
  ASSUME ContainersInv, UNCHANGED <<kind, trivial>>, NEW o \in Objects, NEW p \in Objects,
         Move(o, p)
  PROVE  ContainersInv' /\ Seqs!Next
<1>1. /\ Contains(kind, obj[o], Content(obj[o])) /\ Contains(kind, obj[p], Content(obj[p]))
      /\ Contents[o] = Content(obj[o]) /\ Contents[p] = Content(obj[p])
      /\ trivial \in BOOLEAN
  BY Known DEF Contents, ContainersInv
<1>2. op'.name = "move" /\ op'.on = o /\ op'.arg = p
  BY DEF Move, Report
<1> DEFINE gone == IF trivial \/ o = p THEN Contents[p] ELSE <<>>
           T == [[Contents EXCEPT ![o] = Contents[p]] EXCEPT ![p] = gone]
<1>3. ContainersInv' /\ Contents' = T /\ Sounds' = Sounds
  <2>1. CASE trivial \/ o = p
    <3>1. T = [Contents EXCEPT ![o] = Contents[p]]
      BY <2>1 DEF Contents
    <3>2. obj' = [obj EXCEPT ![o] = obj[p]] /\ Contains(kind, obj[p], Contents[p])
      BY <1>1, <2>1 DEF Move, ContainersInv
    <3>3. ContainersInv' /\ Contents' = [Contents EXCEPT ![o] = Contents[p]] /\ Sounds' = Sounds
      BY <3>2, BecomeOne
    <3>4. QED
      BY <3>1, <3>3
  <2>2. CASE ~trivial /\ o # p
    <3> DEFINE c == CopyOf(obj[o], obj[p])
               e == EmptiedOf(obj[p])
    <3>1. Contains(kind, c, Content(obj[p])) /\ Contains(kind, e, <<>>)
      BY <1>1, Kept
    <3>2. Assigned(obj[o], obj[p]) = c /\ LeftBehind(obj[p]) = e
      BY Assigns
    <3> HIDE DEF c, e
    <3>3. obj' = [[obj EXCEPT ![o] = c] EXCEPT ![p] = e]
      BY <2>2, <3>2 DEF Move, ContainersInv
    <3>4. c \in Object /\ e \in Object /\ Content(obj[p]) \in Seq(Values)
      BY <3>1, HeldSlots DEF Contains
    <3>5. ASSUME NEW q \in Objects
          PROVE  T[q] = (IF q = p THEN <<>> ELSE IF q = o THEN Content(obj[p]) ELSE Content(obj[q]))
      BY <1>1, <2>2 DEF Contents
    <3>6. ASSUME NEW q \in Objects
          PROVE  obj'[q] = (IF q = p THEN e ELSE IF q = o THEN c ELSE obj[q])
      BY <2>2, <3>3 DEF ContainersInv
    <3>7. \A q \in Objects : Content(obj[q]) \in Seq(Values)
      BY Known
    <3>8. T \in [Objects -> Seq(Values)]
      BY <3>5, <3>7 DEF Contents
    <3>9. obj' \in [Objects -> Object]
      BY <3>3, <3>4 DEF ContainersInv
    <3> HIDE DEF T
    <3>10. ASSUME NEW q \in Objects PROVE Contains(kind, obj'[q], T[q])
      <4>1. Contains(kind, obj[q], Content(obj[q]))
        BY Known
      <4>2. QED
        BY <3>1, <3>5, <3>6, <4>1
    <3>11. QED
      BY <3>8, <3>9, <3>10, Become
  <2>3. QED
    BY <2>1, <2>2
<1>4. Seqs!Move
  <2>1. Contents' = [Contents EXCEPT ![o] = Contents[p],
                                     ![p] = IF trivial \/ o = p THEN @ ELSE <<>>]
    BY <1>3 DEF Contents
  <2>2. QED
    BY <1>2, <2>1 DEF Seqs!Move, Contents
<1>5. QED
  BY <1>3, <1>4 DEF Seqs!Next, Sounds

LEMMA ContainersNext ==
  ContainersInv /\ [Next]_vars => ContainersInv' /\ [Seqs!Next]_(Seqs!vars)
<1>1. ASSUME ContainersInv, UNCHANGED vars PROVE ContainersInv' /\ UNCHANGED Seqs!vars
  <2>1. kind' = kind /\ trivial' = trivial /\ obj' = obj /\ op' = op
    BY <1>1 DEF vars
  <2>2. ASSUME NEW o \in Objects PROVE Content(obj[o])' = Content(obj[o])
    BY <2>1 DEF Content
  <2>3. ContainersInv'
    BY <1>1, <2>1, <2>2 DEF ContainersInv
  <2>4. Contents' = Contents /\ Sounds' = Sounds
    BY <2>1, <2>2 DEF Contents, Sounds
  <2>5. QED
    BY <2>1, <2>3, <2>4 DEF Seqs!vars, Contents, Sounds
<1>2. ASSUME ContainersInv, Next PROVE ContainersInv' /\ Seqs!Next
  <2>1. UNCHANGED <<kind, trivial>>
    BY <1>2 DEF Next
  <2>2. PICK o \in Objects : \/ CircularBufferStep(o)
                             \/ InplaceQueueStep(o)
                             \/ InplaceStackStep(o)
                             \/ InplaceVectorStep(o)
                             \/ try_push_full(o)
                             \/ try_pop_empty(o)
                             \/ \E p \in Objects : Copy(o, p) \/ Move(o, p)
    BY <1>2 DEF Next
  <2>3. CASE CircularBufferStep(o)
    BY <1>2, <2>1, <2>3, BufferSteps
  <2>4. CASE InplaceQueueStep(o)
    BY <1>2, <2>1, <2>4, QueueSteps
  <2>5. CASE InplaceStackStep(o)
    BY <1>2, <2>1, <2>5, StackSteps
  <2>6. CASE InplaceVectorStep(o)
    BY <1>2, <2>1, <2>6, VectorSteps
  <2>7. CASE try_push_full(o) \/ try_pop_empty(o)
    BY <1>2, <2>1, <2>7, Refuses
  <2>8. CASE \E p \in Objects : Copy(o, p)
    BY <1>2, <2>1, <2>8, Copies
  <2>9. CASE \E p \in Objects : Move(o, p)
    BY <1>2, <2>1, <2>9, Moves
  <2>10. QED
    BY <2>2, <2>3, <2>4, <2>5, <2>6, <2>7, <2>8, <2>9
<1>3. QED
  BY <1>1, <1>2

LEMMA ContainersInitially == Init => ContainersInv /\ Seqs!Init
<1>1. SUFFICES ASSUME Init PROVE ContainersInv /\ Seqs!Init
  OBVIOUS
<1> DEFINE e == Record([i \in CB!Slots |-> NoValue], 0, 0, TRUE)
<1>2. S!Fresh = e
  BY DEF S!Fresh, S!Slots, CB!Slots, Record
<1>3. EmptiedOf(e) = e /\ IsTrue(e.sound) /\ e.front = 0 /\ e.sound = TRUE
  BY DEF EmptiedOf, Record, IsTrue
<1> HIDE DEF e
<1>4. \A k : Contains(k, e, <<>>)
  BY <1>3, EmptiedHolds DEF Contains
<1>5. kind \in Kinds /\ trivial \in BOOLEAN /\ obj = [o \in Objects |-> e]
      /\ op.name = "construct"
  BY <1>1, <1>2 DEF Init, Kinds
<1>6. Content(e) = <<>>
  BY <1>4, <1>5, ContentContains
<1>7. e \in Object
  BY <1>4, HeldSlots DEF Contains
<1>8. ContainersInv
  BY <1>4, <1>5, <1>6, <1>7 DEF ContainersInv
<1>9. [o \in Objects |-> Content(obj[o])] = [o \in Objects |-> <<>>]
      /\ [o \in Objects |-> obj[o].sound] = [o \in Objects |-> TRUE]
  BY <1>3, <1>5, <1>6
<1>10. QED
  BY <1>5, <1>8, <1>9 DEF Seqs!Init

\* A value lives exactly in the occupied slots.
LEMMA WhereValuesAre == ContainersInv => TypeOK
<1>1. SUFFICES ASSUME ContainersInv, NEW o \in Objects
               PROVE  /\ obj[o].front \in S!Slots /\ obj[o].size \in 0 .. Capacity
                      /\ \A i \in S!Slots : IF i \in Occupied(obj[o])
                                              THEN obj[o].data[i] \in Values
                                              ELSE obj[o].data[i] = NoValue
  BY DEF TypeOK
<1> DEFINE c == obj[o]
           s == Content(obj[o])
<1>2. Holds(c, s)
  BY <1>1, Known
<1> HIDE DEF c, s
<1>3. /\ c.front \in CB!Slots /\ c.size \in 0 .. Capacity
      /\ \A k \in 0 .. c.size - 1 : c.data[Nth(c.front, k)] = s[k + 1] /\ s[k + 1] \in Values
  BY <1>2, HeldSlots
<1>4. \A i \in CB!Slots : (\A k \in 0 .. c.size - 1 : i # Nth(c.front, k)) => c.data[i] = NoValue
  BY <1>2 DEF Holds
<1>5. Occupied(c) = {Nth(c.front, k) : k \in 0 .. c.size - 1} /\ S!Slots = CB!Slots
  BY DEF Occupied, Nth, S!Slots, CB!Slots
<1>6. \A i \in CB!Slots : IF i \in Occupied(c) THEN c.data[i] \in Values ELSE c.data[i] = NoValue
  BY <1>3, <1>4, <1>5
<1>7. QED
  BY <1>3, <1>5, <1>6 DEF c

\* Every container behaves as a bounded sequence, for every capacity and any number of
\* objects, and keeps the lifetimes of its slots (the operations of circular_buffer.hpp,
\* inplace_queue.hpp, inplace_stack.hpp and inplace_vector.hpp, copies and moves included).
THEOREM ContainersAreSequences == Spec => ContainersImplementSequences
<1>1. Init => ContainersInv /\ Seqs!Init
  BY ContainersInitially
<1>2. ContainersInv /\ [Next]_vars => ContainersInv' /\ [Seqs!Next]_(Seqs!vars)
  BY ContainersNext
<1>3. ContainersInv => TypeOK
  BY WhereValuesAre
<1>4. QED
  BY <1>1, <1>2, <1>3, PTL DEF Spec, ContainersImplementSequences, Seqs!Spec

-----------------------------------------------------------------------------
(* The triggered action.                                                   *)

Polls == [at : Nat, triggered : BOOLEAN]

\* The polls from the number f on, and no earlier ones, have all seen the trigger.
Since(s, f) ==
  /\ f \in 1 .. Len(s)
  /\ \A i \in f .. Len(s) : s[i].triggered = TRUE
  /\ f # 1 => s[f - 1].triggered = FALSE

\* What the action remembers of the polls.
ActionInv ==
  /\ time \in Nat /\ trigger_timepoint_ \in Nat
  /\ trigger_detected_ \in BOOLEAN /\ executed \in BOOLEAN
  /\ polls \in Seq(Polls)
  /\ \A i \in 1 .. Len(polls) : polls[i].at <= time
  /\ \A i, j \in 1 .. Len(polls) : i <= j => polls[i].at <= polls[j].at
  /\ polls = <<>> => trigger_detected_ = FALSE
  /\ polls # <<>> => trigger_detected_ = polls[Len(polls)].triggered
  /\ trigger_detected_ = TRUE =>
       \E f \in 1 .. Len(polls) : Since(polls, f) /\ polls[f].at = trigger_timepoint_
  /\ executed = (trigger_detected_ = TRUE
                 /\ polls[Len(polls)].at > trigger_timepoint_ + delay_)

\* A poll, with what the action remembers of the ones before.
LEMMA PollKeeps ==
  ASSUME ActionInv, NEW triggered \in BOOLEAN, NEW timepoint \in Nat,
         trigger_detected_ = TRUE => timepoint = trigger_timepoint_,
         Action!check_and_execute(triggered, trigger_detected_, timepoint)
  PROVE  ActionInv'
<1> DEFINE n == Len(polls)
           p == [at |-> time, triggered |-> triggered]
<1>1. /\ polls' = Append(polls, p) /\ time' = time /\ trigger_detected_' = triggered
      /\ trigger_timepoint_'
           = (IF triggered /\ ~trigger_detected_ THEN time ELSE timepoint)
      /\ executed' = (triggered /\ time > trigger_timepoint_' + delay_)
  BY DEF Action!check_and_execute
<1>2. /\ polls \in Seq(Polls) /\ time \in Nat /\ p \in Polls /\ n \in Nat
      /\ p.at = time /\ p.triggered = triggered /\ delay_ \in Nat
      /\ trigger_detected_ \in BOOLEAN
  BY ActionAssumption DEF ActionInv, Polls
<1> HIDE DEF p
<1>3. /\ polls' \in Seq(Polls) /\ Len(polls') = n + 1 /\ polls'[n + 1] = p /\ polls' # <<>>
      /\ \A i \in 1 .. n : polls'[i] = polls[i]
  BY <1>1, <1>2
<1>4. trigger_timepoint_' \in Nat /\ executed' \in BOOLEAN
  BY <1>1, <1>2
<1>5. \A i \in 1 .. Len(polls') : polls'[i].at <= time'
  <2>1. SUFFICES ASSUME NEW i \in 1 .. n + 1 PROVE polls'[i].at <= time
    BY <1>1, <1>3
  <2>2. CASE i = n + 1
    BY <1>2, <1>3, <2>2
  <2>3. CASE i # n + 1
    <3>1. i \in 1 .. n
      BY <1>2, <2>3
    <3>2. QED
      BY <1>3, <3>1 DEF ActionInv
  <2>4. QED
    BY <2>2, <2>3
<1>6. \A i, j \in 1 .. Len(polls') : i <= j => polls'[i].at <= polls'[j].at
  <2>1. SUFFICES ASSUME NEW i \in 1 .. n + 1, NEW j \in 1 .. n + 1, i <= j
                 PROVE  polls'[i].at <= polls'[j].at
    BY <1>3
  <2>2. CASE j = n + 1
    BY <1>1, <1>2, <1>3, <1>5, <2>2
  <2>3. CASE j # n + 1
    <3>1. i \in 1 .. n /\ j \in 1 .. n
      BY <1>2, <2>1, <2>3
    <3>2. QED
      BY <1>3, <2>1, <3>1 DEF ActionInv
  <2>4. QED
    BY <2>2, <2>3
<1>7. ASSUME trigger_detected_' = TRUE
      PROVE  \E f \in 1 .. Len(polls') : Since(polls', f) /\ polls'[f].at = trigger_timepoint_'
  <2>1. triggered = TRUE
    BY <1>1, <1>7
  <2>2. CASE trigger_detected_ = FALSE
    <3>1. trigger_timepoint_' = time
      BY <1>1, <2>1, <2>2
    <3>2. n + 1 # 1 => polls'[n].triggered = FALSE
      <4>1. SUFFICES ASSUME n + 1 # 1 PROVE polls'[n].triggered = FALSE
        OBVIOUS
      <4>2. n \in 1 .. n /\ polls # <<>>
        BY <1>2, <4>1
      <4>3. polls[n].triggered = FALSE
        BY <2>2, <4>2 DEF ActionInv
      <4>4. QED
        BY <1>3, <4>2, <4>3
    <3>3. n + 1 \in 1 .. n + 1 /\ (n + 1) - 1 = n /\ \A i \in n + 1 .. n + 1 : i = n + 1
      BY <1>2
    <3>4. Since(polls', n + 1)
      BY <1>2, <1>3, <2>1, <3>2, <3>3 DEF Since
    <3>5. polls'[n + 1].at = trigger_timepoint_'
      BY <1>2, <1>3, <3>1
    <3>6. QED
      BY <1>3, <3>3, <3>4, <3>5
  <2>3. CASE trigger_detected_ = TRUE
    <3>1. PICK f \in 1 .. n : Since(polls, f) /\ polls[f].at = trigger_timepoint_
      BY <2>3 DEF ActionInv
    <3>2. trigger_timepoint_' = trigger_timepoint_
      BY <1>1, <2>3
    <3>3. f \in 1 .. n + 1 /\ (f # 1 => f - 1 \in 1 .. n)
      BY <1>2
    <3>4. ASSUME NEW i \in f .. n + 1 PROVE polls'[i].triggered = TRUE
      <4>1. CASE i = n + 1
        BY <1>2, <1>3, <2>1, <4>1
      <4>2. CASE i # n + 1
        <5>1. i \in f .. n /\ i \in 1 .. n
          BY <1>2, <4>2
        <5>2. QED
          BY <1>3, <3>1, <5>1 DEF Since
      <4>3. QED
        BY <4>1, <4>2
    <3>5. Since(polls', f)
      BY <1>3, <3>1, <3>3, <3>4 DEF Since
    <3>6. QED
      BY <1>3, <3>1, <3>2, <3>3, <3>5
  <2>4. QED
    BY <1>2, <2>2, <2>3
<1>8. executed' = (trigger_detected_' = TRUE
                   /\ polls'[Len(polls')].at > trigger_timepoint_' + delay_)
  BY <1>1, <1>2, <1>3
<1>9. polls' # <<>> /\ trigger_detected_' = polls'[Len(polls')].triggered
  BY <1>1, <1>2, <1>3
<1> HIDE DEF n
<1>10. QED
  BY <1>1, <1>2, <1>3, <1>4, <1>5, <1>6, <1>7, <1>8, <1>9 DEF ActionInv

LEMMA ActionKeeps == ActionInv /\ [Action!Next]_Action!actionVars => ActionInv'
<1>1. SUFFICES ASSUME ActionInv, [Action!Next]_Action!actionVars PROVE ActionInv'
  OBVIOUS
<1>2. time \in Nat /\ trigger_timepoint_ \in Nat
  BY <1>1 DEF ActionInv
<1>3. CASE Action!construct
  <2>1. PICK triggered \in BOOLEAN : Action!check_and_execute(triggered, FALSE, time)
    BY <1>3 DEF Action!construct
  <2>2. trigger_detected_ = FALSE
    BY <1>1, <1>3 DEF Action!construct, ActionInv
  <2>3. Action!check_and_execute(triggered, trigger_detected_, time)
    BY <2>1, <2>2
  <2>4. QED
    BY <1>1, <1>2, <2>2, <2>3, PollKeeps
<1>4. CASE Action!poll
  <2>1. PICK triggered \in BOOLEAN :
          Action!check_and_execute(triggered, trigger_detected_, trigger_timepoint_)
    BY <1>4 DEF Action!poll
  <2>2. QED
    BY <1>1, <1>2, <2>1, PollKeeps
<1>5. CASE Action!Tick
  <2>1. /\ time' = time + 1 /\ trigger_detected_' = trigger_detected_
        /\ trigger_timepoint_' = trigger_timepoint_ /\ executed' = executed /\ polls' = polls
    BY <1>5 DEF Action!Tick
  <2>2. time' \in Nat /\ \A i \in 1 .. Len(polls) : polls[i].at <= time'
    <3>1. SUFFICES ASSUME NEW i \in 1 .. Len(polls) PROVE polls[i].at <= time'
      BY <1>2, <2>1
    <3>2. polls[i].at <= time /\ polls[i] \in Polls
      BY <1>1 DEF ActionInv
    <3>3. QED
      BY <1>2, <2>1, <3>2 DEF Polls
  <2>3. QED
    BY <1>1, <2>1, <2>2 DEF ActionInv
<1>6. CASE UNCHANGED Action!actionVars
  BY <1>1, <1>6 DEF Action!actionVars, ActionInv
<1>7. QED
  BY <1>1, <1>3, <1>4, <1>5, <1>6 DEF Action!Next

LEMMA HeldIsExecuted == ActionInv => Action!ExecutedWhenHeld
<1>1. SUFFICES ASSUME ActionInv PROVE Action!ExecutedWhenHeld
  OBVIOUS
<1> DEFINE n == Len(polls)
           Held == \E first \in 1 .. n : /\ polls[n].at - polls[first].at > delay_
                                         /\ \A i \in first .. n : polls[i].triggered
<1>2. /\ polls \in Seq(Polls) /\ n \in Nat /\ delay_ \in Nat /\ trigger_timepoint_ \in Nat
      /\ \A i \in 1 .. n : polls[i].at \in Nat /\ polls[i].triggered \in BOOLEAN
      /\ DOMAIN polls = 1 .. n
  <2>1. polls \in Seq(Polls) /\ trigger_timepoint_ \in Nat
    BY <1>1 DEF ActionInv
  <2>2. \A i \in 1 .. n : polls[i] \in Polls
    BY <2>1
  <2>3. QED
    BY <2>1, <2>2, ActionAssumption DEF Polls
<1>3. ASSUME executed PROVE Held
  <2>1. trigger_detected_ = TRUE /\ polls[n].at > trigger_timepoint_ + delay_
    BY <1>1, <1>3 DEF ActionInv
  <2>2. PICK f \in 1 .. n : Since(polls, f) /\ polls[f].at = trigger_timepoint_
    BY <1>1, <2>1 DEF ActionInv
  <2>3. n \in 1 .. n
    BY <1>2
  <2>4. polls[n].at - polls[f].at > delay_
    BY <1>2, <2>1, <2>2, <2>3
  <2>5. \A i \in f .. n : polls[i].triggered
    BY <2>2 DEF Since
  <2>6. QED
    BY <2>4, <2>5
<1>4. ASSUME Held PROVE executed
  <2>1. PICK first \in 1 .. n : /\ polls[n].at - polls[first].at > delay_
                                /\ \A i \in first .. n : polls[i].triggered
    BY <1>4
  <2>2. n \in first .. n /\ n \in 1 .. n /\ polls # <<>>
    BY <1>2
  <2>3. trigger_detected_ = TRUE
    BY <1>1, <1>2, <2>1, <2>2 DEF ActionInv
  <2>4. PICK f \in 1 .. n : Since(polls, f) /\ polls[f].at = trigger_timepoint_
    BY <1>1, <2>3 DEF ActionInv
  <2>5. f <= first
    <3>1. SUFFICES ASSUME first < f PROVE FALSE
      BY <1>2
    <3>2. f # 1 /\ f - 1 \in first .. n
      BY <1>2, <3>1
    <3>3. QED
      BY <2>1, <2>4, <3>2 DEF Since
  <2>6. polls[f].at <= polls[first].at
    BY <1>1, <2>5 DEF ActionInv
  <2>7. polls[n].at > trigger_timepoint_ + delay_
    BY <1>2, <2>1, <2>2, <2>4, <2>6
  <2>8. QED
    BY <1>1, <2>3, <2>7 DEF ActionInv
<1>5. executed <=> Held
  BY <1>3, <1>4
<1>6. QED
  BY <1>2, <1>5 DEF Action!ExecutedWhenHeld

\* A triggered action is executed just when its trigger has been seen for longer than the
\* delay, whatever the delay and however the polls are spaced (check_and_execute).
THEOREM ExecutesHeldTrigger == Action!Spec => []Action!ExecutedWhenHeld
<1>1. Action!Init => ActionInv
  <2>1. SUFFICES ASSUME Action!Init PROVE ActionInv
    OBVIOUS
  <2>2. /\ time = 0 /\ trigger_detected_ = FALSE /\ trigger_timepoint_ = 0
        /\ executed = FALSE /\ polls = <<>>
    BY <2>1 DEF Action!Init
  <2>3. polls \in Seq(Polls) /\ Len(polls) = 0 /\ \A i \in 1 .. Len(polls) : FALSE
    BY <2>2
  <2> HIDE DEF Polls
  <2>4. QED
    BY <2>2, <2>3 DEF ActionInv
<1>2. QED
  BY <1>1, ActionKeeps, HeldIsExecuted, PTL DEF Action!Spec

-----------------------------------------------------------------------------
(* The mirror of a trouble registry.                                       *)

MirrorInv == flags_ \in [Mirror!Levels -> SUBSET Statuses]

LEMMA MirrorKeeps == MirrorInv /\ [Mirror!Next]_flags_ => MirrorInv'
BY DEF MirrorInv, Mirror!Next, Mirror!store, Mirror!clear

\* From its end a scan for the first level that has something is false; it is true at a
\* level just when some level from there on has it.
LEMMA ScanFromLowest ==
  ASSUME NEW n \in Nat, NEW Has \in [0 .. n - 1 -> BOOLEAN], NEW from,
         from[n] = FALSE, \A l \in 0 .. n - 1 : from[l] = (Has[l] \/ from[l + 1])
  PROVE  from[0] <=> \E m \in 0 .. n - 1 : Has[m]
<1> DEFINE From(l) == \E m \in 0 .. n - 1 : m >= l /\ Has[m]
           T == {k \in Nat : k <= n => (from[n - k] <=> From(n - k))}
<1>1. 0 \in T
  OBVIOUS
<1>2. ASSUME NEW k \in Nat, k \in T PROVE k + 1 \in T
  <2>1. SUFFICES ASSUME k + 1 <= n PROVE from[n - (k + 1)] <=> From(n - (k + 1))
    OBVIOUS
  <2> DEFINE l == n - (k + 1)
  <2>2. l \in 0 .. n - 1 /\ l + 1 = n - k /\ k <= n
    BY <2>1
  <2>3. from[l + 1] <=> From(l + 1)
    BY <1>2, <2>2
  <2>4. from[l] <=> (Has[l] \/ From(l + 1))
    BY <2>2, <2>3
  <2>5. From(l) <=> (Has[l] \/ From(l + 1))
    BY <2>2
  <2>6. QED
    BY <2>4, <2>5
<1> HIDE DEF T
<1>3. n \in T
  BY <1>1, <1>2, Induction
<1>4. from[n - n] <=> From(n - n)
  BY <1>3 DEF T
<1>5. n - n = 0
  OBVIOUS
<1>6. QED
  BY <1>4, <1>5

\* The scan of test.
LEMMA TestScans ==
  ASSUME MirrorInv, NEW s \in Statuses
  PROVE  Mirror!test(s) <=> \E l \in Mirror!Levels : Mirror!test_at(s, l)
<1> DEFINE Has == [l \in 0 .. LevelCount - 1 |-> s \in flags_[l]]
           Scan(g) == [l \in 0 .. LevelCount |->
                         l < LevelCount /\ (s \in flags_[l] \/ g[l + 1])]
           from == CHOOSE g : g = Scan(g)
           From(l) == \E m \in 0 .. LevelCount - 1 : m >= l /\ s \in flags_[m]
           f == [l \in 0 .. LevelCount |-> From(l)]
<1>0. /\ From(LevelCount) = FALSE
      /\ \A l \in 0 .. LevelCount - 1 : From(l) = (s \in flags_[l] \/ From(l + 1))
  <2>1. From(LevelCount) <=> FALSE
    BY MirrorAssumption
  <2>2. ASSUME NEW l \in 0 .. LevelCount - 1 PROVE From(l) <=> (s \in flags_[l] \/ From(l + 1))
    BY MirrorAssumption
  <2>3. QED
    BY <2>1, <2>2
<1> HIDE DEF From
<1>1. f = Scan(f)
  <2>1. ASSUME NEW l \in 0 .. LevelCount PROVE f[l] = Scan(f)[l]
    <3>1. CASE l = LevelCount
      <4>1. f[l] = FALSE
        BY <1>0, <3>1
      <4>2. ~(l < LevelCount)
        BY <3>1, MirrorAssumption
      <4>3. Scan(f)[l] <=> FALSE
        BY <4>2
      <4>4. QED
        BY <4>1, <4>3
    <3>2. CASE l # LevelCount
      <4>1. l + 1 \in 0 .. LevelCount /\ l < LevelCount /\ l \in 0 .. LevelCount - 1
        BY <3>2, MirrorAssumption
      <4>2. QED
        BY <1>0, <4>1
    <3>3. QED
      BY <3>1, <3>2
  <2>2. QED
    BY <2>1
<1>2. from = Scan(from)
  <2> HIDE DEF f, Scan
  <2>1. QED
    BY <1>1
<1>3. Mirror!test(s) = from[0]
  BY DEF Mirror!test
<1> HIDE DEF from, f
<1>4. from[LevelCount] = FALSE /\ \A l \in 0 .. LevelCount - 1 : from[l] = (Has[l] \/ from[l + 1])
  <2>1. \A l \in 0 .. LevelCount : from[l] = (l < LevelCount /\ (s \in flags_[l] \/ from[l + 1]))
    BY <1>2
  <2>2. from[LevelCount] = FALSE
    <3>1. LevelCount \in 0 .. LevelCount /\ ~(LevelCount < LevelCount)
      BY MirrorAssumption
    <3>2. QED
      BY <2>1, <3>1
  <2>3. ASSUME NEW l \in 0 .. LevelCount - 1 PROVE from[l] = (Has[l] \/ from[l + 1])
    <3>1. l \in 0 .. LevelCount /\ l < LevelCount
      BY MirrorAssumption
    <3>2. from[l] = (s \in flags_[l] \/ from[l + 1])
      BY <2>1, <3>1
    <3>3. QED
      BY <3>2
  <2>4. QED
    BY <2>2, <2>3
<1>5. Has \in [0 .. LevelCount - 1 -> BOOLEAN]
  OBVIOUS
<1> HIDE DEF Has
<1>6. from[0] <=> \E m \in 0 .. LevelCount - 1 : Has[m]
  BY <1>4, <1>5, ScanFromLowest, MirrorAssumption
<1>7. QED
  BY <1>3, <1>6 DEF Has, Mirror!Levels, Mirror!test_at

\* The scan of any.
LEMMA AnyScans ==
  ASSUME MirrorInv
  PROVE  Mirror!any <=> \E l \in Mirror!Levels : Mirror!any_at(l)
<1> DEFINE Has == [l \in 0 .. LevelCount - 1 |-> flags_[l] # {}]
           Scan(g) == [l \in 0 .. LevelCount |->
                         l < LevelCount /\ (flags_[l] # {} \/ g[l + 1])]
           from == CHOOSE g : g = Scan(g)
           From(l) == \E m \in 0 .. LevelCount - 1 : m >= l /\ flags_[m] # {}
           f == [l \in 0 .. LevelCount |-> From(l)]
<1>0. /\ From(LevelCount) = FALSE
      /\ \A l \in 0 .. LevelCount - 1 : From(l) = (flags_[l] # {} \/ From(l + 1))
  <2>1. From(LevelCount) <=> FALSE
    BY MirrorAssumption
  <2>2. ASSUME NEW l \in 0 .. LevelCount - 1 PROVE From(l) <=> (flags_[l] # {} \/ From(l + 1))
    BY MirrorAssumption
  <2>3. QED
    BY <2>1, <2>2
<1> HIDE DEF From
<1>1. f = Scan(f)
  <2>1. ASSUME NEW l \in 0 .. LevelCount PROVE f[l] = Scan(f)[l]
    <3>1. CASE l = LevelCount
      <4>1. f[l] = FALSE
        BY <1>0, <3>1
      <4>2. ~(l < LevelCount)
        BY <3>1, MirrorAssumption
      <4>3. Scan(f)[l] <=> FALSE
        BY <4>2
      <4>4. QED
        BY <4>1, <4>3
    <3>2. CASE l # LevelCount
      <4>1. l + 1 \in 0 .. LevelCount /\ l < LevelCount /\ l \in 0 .. LevelCount - 1
        BY <3>2, MirrorAssumption
      <4>2. QED
        BY <1>0, <4>1
    <3>3. QED
      BY <3>1, <3>2
  <2>2. QED
    BY <2>1
<1>2. from = Scan(from)
  <2> HIDE DEF f, Scan
  <2>1. QED
    BY <1>1
<1>3. Mirror!any = from[0]
  BY DEF Mirror!any
<1> HIDE DEF from, f
<1>4. from[LevelCount] = FALSE /\ \A l \in 0 .. LevelCount - 1 : from[l] = (Has[l] \/ from[l + 1])
  <2>1. \A l \in 0 .. LevelCount : from[l] = (l < LevelCount /\ (flags_[l] # {} \/ from[l + 1]))
    BY <1>2
  <2>2. from[LevelCount] = FALSE
    <3>1. LevelCount \in 0 .. LevelCount /\ ~(LevelCount < LevelCount)
      BY MirrorAssumption
    <3>2. QED
      BY <2>1, <3>1
  <2>3. ASSUME NEW l \in 0 .. LevelCount - 1 PROVE from[l] = (Has[l] \/ from[l + 1])
    <3>1. l \in 0 .. LevelCount /\ l < LevelCount
      BY MirrorAssumption
    <3>2. from[l] = (flags_[l] # {} \/ from[l + 1])
      BY <2>1, <3>1
    <3>3. QED
      BY <3>2
  <2>4. QED
    BY <2>2, <2>3
<1>5. Has \in [0 .. LevelCount - 1 -> BOOLEAN]
  OBVIOUS
<1> HIDE DEF Has
<1>6. from[0] <=> \E m \in 0 .. LevelCount - 1 : Has[m]
  BY <1>4, <1>5, ScanFromLowest, MirrorAssumption
<1>7. QED
  BY <1>3, <1>6 DEF Has, Mirror!Levels, Mirror!any_at

\* The scan of worst, from the highest level down: what is below a level is decided there
\* and not above it.
LEMMA WorstScans ==
  ASSUME MirrorInv
  PROVE  Mirror!worst = {l \in Mirror!Levels :
                           Mirror!any_at(l) /\ \A m \in Mirror!Levels : m > l => ~Mirror!any_at(m)}
<1> DEFINE Worst(l) == {m \in 0 .. l - 1 : flags_[m] # {} /\ \A j \in 0 .. l - 1 : j > m => flags_[j] = {}}
           Scan(g) == [l \in 0 .. LevelCount |->
                         IF l = 0 THEN {} ELSE IF flags_[l - 1] # {} THEN {l - 1} ELSE g[l - 1]]
           below == CHOOSE g : g = Scan(g)
           f == [l \in 0 .. LevelCount |-> Worst(l)]
<1>1. /\ Worst(0) = {}
      /\ \A l \in Nat : l > 0 =>
           Worst(l) = IF flags_[l - 1] # {} THEN {l - 1} ELSE Worst(l - 1)
  <2>1. Worst(0) = {}
    <3>1. \A m \in 0 .. 0 - 1 : FALSE
      OBVIOUS
    <3>2. QED
      BY <3>1
  <2>2. ASSUME NEW l \in Nat, l > 0
        PROVE  Worst(l) = IF flags_[l - 1] # {} THEN {l - 1} ELSE Worst(l - 1)
    <3>1. CASE flags_[l - 1] # {}
      <4>1. ASSUME NEW m \in Worst(l) PROVE m = l - 1
        BY <2>2, <3>1
      <4>2. l - 1 \in Worst(l)
        BY <2>2, <3>1
      <4>3. QED
        BY <3>1, <4>1, <4>2
    <3>2. CASE flags_[l - 1] = {}
      <4>1. ASSUME NEW m \in Worst(l) PROVE m \in Worst(l - 1)
        BY <2>2, <3>2
      <4>2. ASSUME NEW m \in Worst(l - 1) PROVE m \in Worst(l)
        <5>1. m \in 0 .. l - 1 /\ flags_[m] # {}
          BY <2>2
        <5>2. ASSUME NEW j \in 0 .. l - 1, j > m PROVE flags_[j] = {}
          <6>1. j = l - 1 \/ j \in 0 .. (l - 1) - 1
            BY <2>2
          <6>2. QED
            BY <3>2, <5>2, <6>1
        <5>3. QED
          BY <5>1, <5>2
      <4> HIDE DEF Worst
      <4>3. QED
        BY <3>2, <4>1, <4>2
    <3>3. QED
      BY <3>1, <3>2
  <2>3. QED
    BY <2>1, <2>2
<1> HIDE DEF Worst
<1>2. f = Scan(f)
  <2>1. ASSUME NEW l \in 0 .. LevelCount PROVE f[l] = Scan(f)[l]
    <3>1. CASE l = 0
      BY <1>1, <3>1
    <3>2. CASE l # 0
      <4>1. l - 1 \in 0 .. LevelCount /\ l \in Nat /\ l > 0
        BY MirrorAssumption, <3>2
      <4>2. QED
        BY <1>1, <3>2, <4>1
    <3>3. QED
      BY <3>1, <3>2
  <2>2. QED
    BY <2>1
<1>3. below = Scan(below)
  <2> HIDE DEF f, Scan
  <2>1. QED
    BY <1>2
<1>4. Mirror!worst = below[LevelCount]
  BY DEF Mirror!worst
<1> HIDE DEF below, f
<1>5. below[LevelCount] = Worst(LevelCount)
  <2> DEFINE T == {k \in Nat : k <= LevelCount => below[k] = Worst(k)}
  <2>1. 0 \in T
    BY <1>1, <1>3, MirrorAssumption
  <2>2. ASSUME NEW k \in Nat, k \in T PROVE k + 1 \in T
    <3>1. SUFFICES ASSUME k + 1 <= LevelCount PROVE below[k + 1] = Worst(k + 1)
      OBVIOUS
    <3>2. k + 1 \in 0 .. LevelCount /\ k + 1 # 0 /\ (k + 1) - 1 = k /\ below[k] = Worst(k)
      BY <2>2, <3>1, MirrorAssumption
    <3>3. below[k + 1] = IF flags_[k] # {} THEN {k} ELSE below[k]
      BY <1>3, <3>2
    <3>4. Worst(k + 1) = IF flags_[(k + 1) - 1] # {} THEN {(k + 1) - 1} ELSE Worst((k + 1) - 1)
      <4>1. k + 1 \in Nat /\ k + 1 > 0
        OBVIOUS
      <4>2. QED
        BY <1>1, <4>1, Zenon
    <3>5. QED
      BY <3>2, <3>3, <3>4
  <2> HIDE DEF T
  <2>3. LevelCount \in T
    BY <2>1, <2>2, Induction, MirrorAssumption
  <2>4. QED
    BY <2>3, MirrorAssumption DEF T
<1>6. QED
  BY <1>4, <1>5, MirrorAssumption DEF Worst, Mirror!Levels, Mirror!any_at

\* What a mirror answers about a status, about any and about the worst level agrees with
\* each other and with the flags of each level, whatever the levels and the statuses, and
\* whatever was received in which order (test, any, worst).
THEOREM MirrorAnswersAgree ==
  Mirror!Init /\ [][Mirror!Next]_flags_ => []Mirror!AnswersAgree
<1>1. Mirror!Init => MirrorInv
  BY DEF Mirror!Init, MirrorInv
<1>2. MirrorInv => Mirror!AnswersAgree
  <2>1. SUFFICES ASSUME MirrorInv PROVE Mirror!AnswersAgree
    OBVIOUS
  <2>2. \A s \in Statuses : Mirror!test(s) <=> \E l \in Mirror!Levels : Mirror!test_at(s, l)
    BY <2>1, TestScans
  <2>3. Mirror!any <=> \E s \in Statuses : Mirror!test(s)
    <3>1. Mirror!any <=> \E l \in Mirror!Levels : flags_[l] # {}
      BY <2>1, AnyScans DEF Mirror!any_at
    <3>2. \A l \in Mirror!Levels : flags_[l] \in SUBSET Statuses
      BY <2>1 DEF MirrorInv
    <3>3. \A l \in Mirror!Levels : flags_[l] # {} <=> \E s \in Statuses : s \in flags_[l]
      BY <3>2
    <3>4. QED
      BY <2>2, <3>1, <3>3 DEF Mirror!test_at
  <2>4. QED
    BY <2>1, <2>2, <2>3, WorstScans DEF Mirror!AnswersAgree
<1>3. QED
  BY <1>1, <1>2, MirrorKeeps, PTL

-----------------------------------------------------------------------------
(* The functions of math.hpp.                                              *)

\* The remainder of an integer, also of a negative one, is the one number of a turn that
\* is a whole number of turns away.
LEMMA Remainder ==
  ASSUME NEW v \in Int
  PROVE  /\ v \div Turn \in Int /\ v % Turn \in 0 .. Turn - 1
         /\ v = Turn * (v \div Turn) + (v % Turn)
<1>1. Turn \in Nat \ {0}
  BY AngleAssumption
<1>2. QED
  BY <1>1, Z3

LEMMA RemainderUnique ==
  ASSUME NEW v \in Int, NEW q \in Int, NEW r \in 0 .. Turn - 1, v = Turn * q + r
  PROVE  v % Turn = r
<1> DEFINE p == v \div Turn
           s == v % Turn
<1>1. p \in Int /\ s \in 0 .. Turn - 1 /\ v = Turn * p + s /\ Turn \in Nat \ {0}
  BY Remainder, AngleAssumption
<1> HIDE DEF p, s
<1>2. Turn * (p - q) = r - s
  <2>1. Turn * (p - q) = Turn * p - Turn * q
    BY <1>1, Z3
  <2>2. Turn * p \in Int /\ Turn * q \in Int
    BY <1>1, Z3
  <2>3. QED
    BY <1>1, <2>1, <2>2
<1>3. p - q = 0
  BY <1>1, <1>2, ProductGap
<1>4. r = s
  BY <1>1, <1>2, <1>3, Z3
<1>5. QED
  BY <1>4 DEF s

\* What is left of an angle after its whole turns are taken away: the remainder, or for a
\* negative angle the remainder less a turn unless there is none.
LEMMA TurnsTaken ==
  ASSUME NEW v \in Int
  PROVE  LET r == v - Math!Trunc(v, Turn) * Turn IN
         IF v < 0 THEN /\ r \in -(Turn - 1) .. 0
                       /\ v % Turn = IF r = 0 THEN 0 ELSE r + Turn
                  ELSE r = v % Turn
<1>1. Turn \in Nat \ {0}
  BY AngleAssumption
<1>2. CASE v < 0
  <2> DEFINE q == (-v) \div Turn
             s == (-v) % Turn
             t == Turn * q
  <2>1. q \in Int /\ s \in 0 .. Turn - 1 /\ -v = t + s /\ t \in Int
    <3>1. -v \in Int
      OBVIOUS
    <3>2. q \in Int /\ s \in 0 .. Turn - 1 /\ -v = t + s
      BY <3>1, Remainder
    <3> HIDE DEF q, s
    <3>3. t \in Int
      BY <1>1, <3>2, Z3
    <3>4. QED
      BY <3>2, <3>3
  <2>2. Math!Trunc(v, Turn) = -q
    BY <1>2 DEF Math!Trunc
  <2> HIDE DEF q, s
  <2>3. -q * Turn = -t
    BY <1>1, <2>1, Z3
  <2>4. v - Math!Trunc(v, Turn) * Turn = v + t
    <3>1. v - (-q * Turn) = v + t
      BY <2>1, <2>3
    <3> HIDE DEF t
    <3>2. (-q) * Turn = -q * Turn
      BY <1>1, <2>1, Z3
    <3>3. QED
      BY <2>2, <3>1, <3>2
  <2>5. v % Turn = IF s = 0 THEN 0 ELSE Turn - s
    <3>1. CASE s = 0
      <4>1. v = Turn * (-q) + 0 /\ -q \in Int /\ 0 \in 0 .. Turn - 1
        BY <1>1, <2>1, <3>1, Z3
      <4>2. QED
        BY <3>1, <4>1, RemainderUnique
    <3>2. CASE s # 0
      <4>1. v = Turn * (-q - 1) + (Turn - s)
        <5>1. Turn * (-q - 1) = -t - Turn
          BY <1>1, <2>1, Z3
        <5> HIDE DEF t
        <5>2. QED
          BY <1>1, <2>1, <5>1
      <4>2. -q - 1 \in Int /\ Turn - s \in 0 .. Turn - 1
        BY <1>1, <2>1, <3>2
      <4>3. QED
        BY <3>2, <4>1, <4>2, RemainderUnique
    <3>3. QED
      BY <3>1, <3>2
  <2> HIDE DEF t
  <2>6. v + t = -s
    BY <2>1
  <2>7. QED
    BY <1>1, <1>2, <2>1, <2>4, <2>5, <2>6
<1>3. CASE ~(v < 0)
  <2>1. Math!Trunc(v, Turn) = v \div Turn
    BY <1>3 DEF Math!Trunc
  <2>2. /\ v \div Turn \in Int /\ v % Turn \in 0 .. Turn - 1
        /\ v = Turn * (v \div Turn) + (v % Turn)
    BY Remainder
  <2>3. v - (v \div Turn) * Turn = v % Turn
    BY <1>1, <2>2, Z3
  <2>4. QED
    BY <1>3, <2>1, <2>3
<1>4. QED
  BY <1>2, <1>3

LEMMA NormalTurn ==
  ASSUME NEW v \in Int
  PROVE  Math!norm2pi(v) = v % Turn /\ Math!norm2pi_fast(v) = v % Turn
<1> DEFINE k == Math!Trunc(v, Turn)
           r == v - k * Turn
<1>1. Turn \in Nat \ {0} /\ v % Turn \in 0 .. Turn - 1
  BY AngleAssumption, Remainder
<1>2. IF v < 0 THEN /\ r \in -(Turn - 1) .. 0
                    /\ v % Turn = IF r = 0 THEN 0 ELSE r + Turn
               ELSE r = v % Turn
  BY TurnsTaken
<1>3. k \in Int
  <2>1. -v \in Int
    OBVIOUS
  <2>2. (-v) \div Turn \in Int /\ v \div Turn \in Int
    BY <2>1, Remainder
  <2>3. QED
    BY <2>2 DEF Math!Trunc
<1>4. Math!norm2pi(v) = v % Turn
  BY <1>1, <1>2 DEF Math!norm2pi
<1>5. Math!norm2pi_fast(v) = v % Turn
  <2> DEFINE d == IF v < 0 THEN 1 ELSE 0
             f == v - (k - d) * Turn
  <2>1. Math!norm2pi_fast(v) = IF f >= Turn THEN f - Turn ELSE f
    BY DEF Math!norm2pi_fast
  <2> HIDE DEF k
  <2>2. f = r + d * Turn
    BY <1>1, <1>3, Z3
  <2>3. f = IF v < 0 THEN r + Turn ELSE r
    BY <1>1, <1>2, <2>2
  <2> HIDE DEF f, r
  <2>4. QED
    BY <1>1, <1>2, <2>1, <2>3
<1>6. QED
  BY <1>4, <1>5

\* Every angle is brought to its turn, at whatever resolution angles are counted: from 0,
\* or around 0, also a negative angle and a whole number of turns, by the fast functions as
\* by the others (norm2pi, normpi).
THEOREM AnglesAreNormal == \A v \in Int : Math!AnglesNormal(v)
<1>1. SUFFICES ASSUME NEW v \in Int PROVE Math!AnglesNormal(v)
  OBVIOUS
<1> DEFINE h == Turn \div 2
           f == ((v + h) % Turn) - h
<1>2. Turn \in Nat \ {0} /\ h \in Nat /\ Turn = 2 * h
  BY AngleAssumption
<1> HIDE DEF h
<1>3. v + h \in Int
  BY <1>2
<1>4. Math!normpi(v) = f /\ Math!normpi_fast(v) = f
  BY <1>3, NormalTurn DEF Math!normpi, Math!normpi_fast, h
<1>5. f \in -h .. h - 1 /\ (f - v) % Turn = 0
  <2> DEFINE q == (v + h) \div Turn
             s == (v + h) % Turn
             t == Turn * q
  <2>1. q \in Int /\ s \in 0 .. Turn - 1 /\ v + h = t + s /\ t \in Int
    <3>1. q \in Int /\ s \in 0 .. Turn - 1 /\ v + h = t + s
      BY <1>3, Remainder
    <3> HIDE DEF q, s
    <3>2. t \in Int
      BY <1>2, <3>1, Z3
    <3>3. QED
      BY <3>1, <3>2
  <2> HIDE DEF q, s
  <2>2. f = s - h
    BY DEF s
  <2> HIDE DEF f
  <2>3. f \in -h .. h - 1
    BY <1>2, <2>1, <2>2
  <2>4. f - v = Turn * (-q) + 0
    <3>1. Turn * (-q) = -t
      BY <1>2, <2>1, Z3
    <3> HIDE DEF t
    <3>2. QED
      BY <1>2, <2>1, <2>2, <3>1
  <2>5. f - v \in Int /\ -q \in Int /\ 0 \in 0 .. Turn - 1
    BY <1>2, <2>1, <2>2
  <2>6. QED
    BY <2>3, <2>4, <2>5, RemainderUnique
<1>6. QED
  BY <1>4, <1>5, NormalTurn DEF Math!AnglesNormal, h

\* A range keeps both numbers that it was made from and as its length their distance; a
\* bound that would cross the other is refused; and what a per unit value computes is the
\* one value within its limits that is nearest to the exact result, for every number
\* (range, set_lower_bound, set_upper_bound, signed_pu, unsigned_pu, sgn, isodd).
THEOREM BoundsAreKept == \A v \in Int : Math!BoundsKept(v)
<1>1. SUFFICES ASSUME NEW v \in Int PROVE Math!BoundsKept(v)
  OBVIOUS
<1>2. ASSUME NEW w \in -Turn .. Turn, NEW x \in -Turn .. Turn
      PROVE  LET r == Math!range(v, w) IN
             /\ Math!length(r) = Math!Abs(v - w) /\ Math!contains(r, v) /\ Math!contains(r, w)
             /\ \A s \in {Math!set_lower_bound(r, x), Math!set_upper_bound(r, x)} :
                  s = r \/ (Math!length(s) >= 0 /\ Math!contains(s, x))
  <2> DEFINE r == Math!range(v, w)
             a == IF v < w THEN v ELSE w
             b == IF v < w THEN w ELSE v
  <2>1. w \in Int /\ x \in Int
    BY AngleAssumption
  <2>2. r = [lower |-> a, upper |-> b]
    BY DEF Math!range
  <2>3. a \in Int /\ b \in Int /\ a <= b /\ b - a = Math!Abs(v - w)
        /\ a <= v /\ v <= b /\ a <= w /\ w <= b
    BY <2>1 DEF Math!Abs
  <2> HIDE DEF r, a, b
  <2>4. Math!length(r) = Math!Abs(v - w) /\ Math!contains(r, v) /\ Math!contains(r, w)
    BY <2>2, <2>3 DEF Math!length, Math!contains
  <2>5. Math!set_lower_bound(r, x) = r
        \/ (x <= b /\ Math!set_lower_bound(r, x) = [lower |-> x, upper |-> b])
    BY <2>2 DEF Math!set_lower_bound
  <2>6. Math!set_upper_bound(r, x) = r
        \/ (x >= a /\ Math!set_upper_bound(r, x) = [lower |-> a, upper |-> x])
    BY <2>2 DEF Math!set_upper_bound
  <2>7. ASSUME x <= b
        PROVE  Math!length([lower |-> x, upper |-> b]) >= 0 /\ Math!contains([lower |-> x, upper |-> b], x)
    BY <2>1, <2>3, <2>7 DEF Math!length, Math!contains
  <2>8. ASSUME x >= a
        PROVE  Math!length([lower |-> a, upper |-> x]) >= 0 /\ Math!contains([lower |-> a, upper |-> x], x)
    BY <2>1, <2>3, <2>8 DEF Math!length, Math!contains
  <2>9. ASSUME NEW s \in {Math!set_lower_bound(r, x), Math!set_upper_bound(r, x)}
        PROVE  s = r \/ (Math!length(s) >= 0 /\ Math!contains(s, x))
    <3>1. CASE s = Math!set_lower_bound(r, x)
      BY <2>5, <2>7, <3>1
    <3>2. CASE s = Math!set_upper_bound(r, x)
      BY <2>6, <2>8, <3>2
    <3>3. QED
      BY <2>9, <3>1, <3>2
  <2>10. QED
    BY <2>4, <2>9 DEF r
<1>3. Math!sgn(v) * Math!Abs(v) = v
  <2>1. CASE 0 < v
    <3>1. Math!sgn(v) = 1 /\ Math!Abs(v) = v
      BY <2>1 DEF Math!sgn, Math!Abs
    <3>2. QED
      BY <3>1
  <2>2. CASE v < 0
    <3>1. Math!sgn(v) = -1 /\ Math!Abs(v) = -v
      BY <2>2 DEF Math!sgn, Math!Abs
    <3>2. QED
      BY <3>1
  <2>3. CASE v = 0
    <3>1. Math!sgn(v) = 0 /\ Math!Abs(v) = 0
      BY <2>3 DEF Math!sgn, Math!Abs
    <3>2. QED
      BY <2>3, <3>1
  <2>4. QED
    BY <2>1, <2>2, <2>3
<1>4. Math!isodd(v) <=> v % 2 = 1
  BY DEF Math!isodd, Math!iseven, Math!Trunc
<1>5. ASSUME NEW lo \in Int, NEW hi \in Int, lo <= hi, NEW e \in Int
      PROVE  Math!NearestIn(lo .. hi, e, Math!Clamp(e, lo, hi))
  BY <1>5 DEF Math!NearestIn, Math!Clamp, Math!Abs
<1>6. ASSUME NEW f \in -2 .. 2
      PROVE  /\ Math!NearestIn(-4 .. 4, Math!signed_pu(v) * f,
                               Math!pu_times(Math!signed_pu, Math!signed_pu(v), f))
             /\ Math!NearestIn(-4 .. 4, Math!signed_pu(v) - f,
                               Math!pu_minus(Math!signed_pu, Math!signed_pu(v), f))
             /\ Math!NearestIn(0 .. 4, Math!unsigned_pu(v) + f,
                               Math!pu_plus(Math!unsigned_pu, Math!unsigned_pu(v), f))
  <2> DEFINE s == Math!signed_pu(v)
             u == Math!unsigned_pu(v)
  <2>1. s \in Int /\ u \in Int /\ f \in Int
    BY DEF Math!signed_pu, Math!unsigned_pu, Math!Clamp, Math!Quarter
  <2> HIDE DEF s, u
  <2>2. s * f \in Int /\ s - f \in Int /\ u + f \in Int
    BY <2>1, Z3
  <2>3. Math!pu_times(Math!signed_pu, s, f) = Math!Clamp(s * f, -4, 4)
    BY DEF Math!pu_times, Math!signed_pu, Math!Quarter
  <2>4. Math!pu_minus(Math!signed_pu, s, f) = Math!Clamp(s - f, -4, 4)
    BY DEF Math!pu_minus, Math!signed_pu, Math!Quarter
  <2>5. Math!pu_plus(Math!unsigned_pu, u, f) = Math!Clamp(u + f, 0, 4)
    BY DEF Math!pu_plus, Math!unsigned_pu, Math!Quarter
  <2>6. /\ Math!NearestIn(-4 .. 4, s * f, Math!Clamp(s * f, -4, 4))
        /\ Math!NearestIn(-4 .. 4, s - f, Math!Clamp(s - f, -4, 4))
        /\ Math!NearestIn(0 .. 4, u + f, Math!Clamp(u + f, 0, 4))
    <3>1. -4 \in Int /\ 4 \in Int /\ 0 \in Int /\ -4 <= 4 /\ 0 <= 4
      OBVIOUS
    <3> DEFINE P == s * f
    <3>2. P \in Int
      BY <2>2
    <3> HIDE DEF P
    <3>3. Math!NearestIn(-4 .. 4, P, Math!Clamp(P, -4, 4))
      BY <1>5, <3>1, <3>2
    <3>4. Math!NearestIn(-4 .. 4, s - f, Math!Clamp(s - f, -4, 4))
      BY <1>5, <2>2, <3>1
    <3>5. Math!NearestIn(0 .. 4, u + f, Math!Clamp(u + f, 0, 4))
      BY <1>5, <2>2, <3>1
    <3>6. QED
      BY <3>3, <3>4, <3>5 DEF P
  <2>7. QED
    BY <2>3, <2>4, <2>5, <2>6 DEF s, u
<1>7. QED
  BY <1>2, <1>3, <1>4, <1>6 DEF Math!BoundsKept, Math!Quarter

-----------------------------------------------------------------------------
(* The filters.                                                            *)

WF == INSTANCE WindowFilters

\* The partial sums that SumOf goes through.
IsSums(g, s) ==
  /\ g \in [0 .. Len(s) -> Int] /\ g[0] = 0
  /\ \A i \in 1 .. Len(s) : g[i] = g[i - 1] + s[i]

LEMMA SumsUnique ==
  ASSUME NEW s \in Seq(Int), NEW g, IsSums(g, s), NEW h, IsSums(h, s)
  PROVE  \A i \in 0 .. Len(s) : g[i] = h[i]
<1> DEFINE T == {k \in Nat : k <= Len(s) => g[k] = h[k]}
<1>1. 0 \in T
  BY DEF IsSums
<1>2. ASSUME NEW k \in Nat, k \in T PROVE k + 1 \in T
  <2>1. SUFFICES ASSUME k + 1 <= Len(s) PROVE g[k + 1] = h[k + 1]
    OBVIOUS
  <2>2. k + 1 \in 1 .. Len(s) /\ (k + 1) - 1 = k /\ g[k] = h[k]
    BY <1>2, <2>1
  <2>3. QED
    BY <2>2 DEF IsSums
<1> HIDE DEF T
<1>3. Nat \subseteq T
  BY <1>1, <1>2, Induction
<1>4. QED
  BY <1>3 DEF T

LEMMA Sums ==
  ASSUME NEW s \in Seq(Int)
  PROVE  \E g : IsSums(g, s) /\ WF!SumOf(s) = g[Len(s)]
<1> DEFINE n == Len(s)
           step == [c \in (1 .. n) \X Int |-> c[2] + s[c[1]]]
           Sum(f) == [i \in 0 .. n |-> IF i = 0 THEN 0 ELSE f[i - 1] + s[i]]
<1>1. n \in Nat /\ \A i \in 1 .. n : s[i] \in Int
  OBVIOUS
<1>2. step \in [(1 .. n) \X Int -> Int]
  BY <1>1
<1>3. \A i \in 1 .. n, x \in Int : step[<<i, x>>] = x + s[i]
  OBVIOUS
<1> HIDE DEF step, n
<1>4. PICK f \in [0 .. n -> Int] : Recurs(f, n, 0, step)
  <2>1. n \in Nat /\ 0 \in Int
    BY <1>1
  <2>2. QED
    BY <1>2, <2>1, Recursion
<1>5. f = Sum(f)
  <2>1. ASSUME NEW i \in 0 .. n PROVE f[i] = Sum(f)[i]
    <3>1. CASE i = 0
      BY <1>4, <3>1 DEF Recurs
    <3>2. CASE i # 0
      <4>1. i \in 1 .. n /\ f[i - 1] \in Int
        BY <1>1, <3>2
      <4>2. QED
        BY <1>3, <1>4, <3>2, <4>1 DEF Recurs
    <3>3. QED
      BY <3>1, <3>2
  <2>2. QED
    BY <2>1
<1> DEFINE g == CHOOSE f_ : f_ = Sum(f_)
<1>6. g = Sum(g)
  <2> HIDE DEF Sum
  <2>1. QED
    BY <1>5
<1>7. WF!SumOf(s) = g[n]
  BY DEF WF!SumOf, n
<1> HIDE DEF g
<1>8. g[0] = 0 /\ \A i \in 1 .. n : g[i] = g[i - 1] + s[i]
  <2>1. 0 \in 0 .. n /\ \A i \in 1 .. n : i \in 0 .. n /\ i # 0
    BY <1>1
  <2>2. QED
    BY <1>6, <2>1
<1>9. g \in [0 .. n -> Int]
  <2> DEFINE T == {k \in Nat : k <= n => g[k] \in Int}
  <2>1. 0 \in T
    BY <1>8
  <2>2. ASSUME NEW k \in Nat, k \in T PROVE k + 1 \in T
    <3>1. SUFFICES ASSUME k + 1 <= n PROVE g[k + 1] \in Int
      OBVIOUS
    <3>2. k + 1 \in 1 .. n /\ (k + 1) - 1 = k /\ g[k] \in Int
      BY <1>1, <2>2, <3>1
    <3>3. g[k + 1] = g[k] + s[k + 1] /\ s[k + 1] \in Int
      BY <1>1, <1>8, <3>2
    <3>4. QED
      BY <3>2, <3>3
  <2> HIDE DEF T
  <2>3. Nat \subseteq T
    BY <2>1, <2>2, Induction
  <2>4. \A i \in 0 .. n : g[i] \in Int
    BY <2>3 DEF T
  <2>5. QED
    BY <1>6, <2>4
<1>10. QED
  BY <1>7, <1>8, <1>9 DEF IsSums, n

\* A sum is found by any partial sums.
LEMMA SumIs ==
  ASSUME NEW s \in Seq(Int), NEW g, IsSums(g, s)
  PROVE  WF!SumOf(s) = g[Len(s)]
<1>1. PICK h : IsSums(h, s) /\ WF!SumOf(s) = h[Len(s)]
  BY Sums
<1>2. Len(s) \in 0 .. Len(s)
  OBVIOUS
<1>3. QED
  BY <1>1, <1>2, SumsUnique

LEMMA SumType ==
  ASSUME NEW s \in Seq(Int)
  PROVE  WF!SumOf(s) \in Int
BY Sums DEF IsSums

LEMMA SumEmpty == WF!SumOf(<<>>) = 0
<1>1. <<>> \in Seq(Int) /\ Len(<<>>) = 0
  OBVIOUS
<1>2. PICK h : IsSums(h, <<>>) /\ WF!SumOf(<<>>) = h[Len(<<>>)]
  BY <1>1, Sums, Zenon
<1>3. QED
  BY <1>1, <1>2 DEF IsSums

LEMMA SumAppend ==
  ASSUME NEW s \in Seq(Int), NEW v \in Int
  PROVE  WF!SumOf(Append(s, v)) = WF!SumOf(s) + v
<1>1. PICK g : IsSums(g, Append(s, v)) /\ WF!SumOf(Append(s, v)) = g[Len(Append(s, v))]
  <2>1. Append(s, v) \in Seq(Int)
    OBVIOUS
  <2>2. QED
    BY <2>1, Sums
<1> DEFINE n == Len(s)
           h == [i \in 0 .. n |-> g[i]]
<1>2. n \in Nat /\ Len(Append(s, v)) = n + 1 /\ Append(s, v)[n + 1] = v
      /\ \A i \in 1 .. n : Append(s, v)[i] = s[i] /\ i \in 1 .. n + 1
  OBVIOUS
<1>3. IsSums(h, s)
  BY <1>1, <1>2 DEF IsSums
<1>4. WF!SumOf(s) = h[n] /\ h[n] = g[n]
  BY <1>2, <1>3, SumIs
<1>5. g[n + 1] = g[n] + v
  BY <1>1, <1>2 DEF IsSums
<1>6. QED
  BY <1>1, <1>2, <1>4, <1>5

LEMMA SumTail ==
  ASSUME NEW s \in Seq(Int), s # <<>>
  PROVE  WF!SumOf(Tail(s)) = WF!SumOf(s) - s[1]
<1>1. PICK g : IsSums(g, s) /\ WF!SumOf(s) = g[Len(s)]
  BY Sums
<1> DEFINE n == Len(s)
           h == [i \in 0 .. n - 1 |-> g[i + 1] - s[1]]
<1>2. n \in Nat /\ n > 0 /\ Tail(s) \in Seq(Int) /\ Len(Tail(s)) = n - 1
      /\ \A i \in 1 .. n - 1 : Tail(s)[i] = s[i + 1]
  OBVIOUS
<1>3. \A i \in 1 .. n : s[i] \in Int
  OBVIOUS
<1>4. IsSums(h, Tail(s))
  <2>1. g[1] = g[0] + s[1] /\ g[0] = 0 /\ s[1] \in Int
    BY <1>1, <1>2, <1>3 DEF IsSums
  <2>2. h[0] = 0
    BY <1>2, <2>1
  <2>3. h \in [0 .. n - 1 -> Int]
    BY <1>1, <1>2, <2>1 DEF IsSums
  <2>4. ASSUME NEW i \in 1 .. n - 1 PROVE h[i] = h[i - 1] + Tail(s)[i]
    <3>1. i + 1 \in 1 .. n /\ (i + 1) - 1 = i /\ i \in 0 .. n - 1 /\ i - 1 \in 0 .. n - 1
          /\ (i - 1) + 1 = i
      BY <1>2
    <3>2. g[i + 1] = g[i] + s[i + 1] /\ g[i] \in Int /\ s[i + 1] \in Int
      <4>1. s[i + 1] \in Int
        BY <1>3, <3>1
      <4>2. g[i + 1] = g[(i + 1) - 1] + s[i + 1] /\ i \in 0 .. Len(s)
        BY <1>1, <3>1 DEF IsSums
      <4>3. QED
        BY <1>1, <3>1, <4>1, <4>2 DEF IsSums
    <3>3. h[i] = g[i + 1] - s[1] /\ h[i - 1] = g[i] - s[1] /\ Tail(s)[i] = s[i + 1]
      BY <1>2, <3>1
    <3> HIDE DEF h
    <3>4. QED
      BY <2>1, <3>2, <3>3
  <2> HIDE DEF h
  <2>5. QED
    BY <1>2, <2>2, <2>3, <2>4 DEF IsSums
<1>5. WF!SumOf(Tail(s)) = h[n - 1]
  BY <1>2, <1>4, SumIs
<1>6. n - 1 \in 0 .. n - 1 /\ (n - 1) + 1 = n
  BY <1>2
<1>7. h[n - 1] = g[n] - s[1]
  BY <1>6
<1>8. QED
  BY <1>1, <1>5, <1>7

\* A sum of numbers between two others is between as many of each.
LEMMA SumBounds ==
  ASSUME NEW s \in Seq(Int), NEW low \in Int, NEW high \in Int,
         \A i \in 1 .. Len(s) : low <= s[i] /\ s[i] <= high
  PROVE  Len(s) * low <= WF!SumOf(s) /\ WF!SumOf(s) <= Len(s) * high
<1>1. PICK g : IsSums(g, s) /\ WF!SumOf(s) = g[Len(s)]
  BY Sums
<1> DEFINE T == {k \in Nat : k <= Len(s) => k * low <= g[k] /\ g[k] <= k * high}
<1>2. 0 \in T
  BY <1>1 DEF IsSums
<1>3. ASSUME NEW k \in Nat, k \in T PROVE k + 1 \in T
  <2>1. SUFFICES ASSUME k + 1 <= Len(s)
                 PROVE  (k + 1) * low <= g[k + 1] /\ g[k + 1] <= (k + 1) * high
    OBVIOUS
  <2>2. k + 1 \in 1 .. Len(s) /\ (k + 1) - 1 = k /\ k * low <= g[k] /\ g[k] <= k * high
        /\ k \in 0 .. Len(s)
    BY <1>3, <2>1
  <2>3. g[k + 1] = g[k] + s[k + 1] /\ s[k + 1] \in Int /\ g[k] \in Int
        /\ low <= s[k + 1] /\ s[k + 1] <= high
    BY <1>1, <2>2 DEF IsSums
  <2> DEFINE a == k * low
             b == k * high
  <2>4. (k + 1) * low = a + low /\ (k + 1) * high = b + high /\ a \in Int /\ b \in Int
    BY Z3
  <2> HIDE DEF a, b
  <2>5. a <= g[k] /\ g[k] <= b
    BY <2>2 DEF a, b
  <2>6. QED
    BY <2>3, <2>4, <2>5
<1> HIDE DEF T
<1>4. Len(s) \in T
  <2>1. Nat \subseteq T
    BY <1>2, <1>3, Induction
  <2>2. QED
    BY <2>1
<1>5. QED
  BY <1>1, <1>4 DEF T

\* The last samples: of those that there are at most n, and of those behind a window of v
\* just n.
Recent(n, s) == WF!LastOf(IF Len(s) < n THEN Len(s) ELSE n, s)
Padding(n, v, s) == [i \in 1 .. n |-> v] \o s
Padded(n, v, s) == WF!LastOf(n, Padding(n, v, s))

LEMMA LastOfFacts ==
  ASSUME NEW A, NEW s \in Seq(A), NEW n \in 0 .. Len(s)
  PROVE  /\ WF!LastOf(n, s) \in Seq(A) /\ Len(WF!LastOf(n, s)) = n
         /\ \A i \in 1 .. n : WF!LastOf(n, s)[i] = s[Len(s) - n + i]
<1> DEFINE m == Len(s) - n + 1
           t == SubSeq(s, m, Len(s))
<1>1. m \in Nat /\ m >= 1 /\ Len(s) \in Nat /\ Len(s) - m + 1 = n /\ n \in Nat
  OBVIOUS
<1>2. WF!LastOf(n, s) = t
  BY DEF WF!LastOf
<1>3. t \in Seq(A) /\ Len(t) = n
  BY <1>1
<1>4. ASSUME NEW i \in 1 .. n PROVE t[i] = s[Len(s) - n + i]
  <2>1. m + i - 1 = Len(s) - n + i
    BY <1>1
  <2> HIDE DEF m
  <2>2. t[i] = s[m + i - 1]
    BY <1>1
  <2>3. QED
    BY <2>1, <2>2
<1>5. QED
  BY <1>2, <1>3, <1>4

LEMMA RecentFacts ==
  ASSUME NEW A, NEW s \in Seq(A), NEW n \in Nat
  PROVE  LET k == IF Len(s) < n THEN Len(s) ELSE n IN
         /\ Recent(n, s) \in Seq(A) /\ Len(Recent(n, s)) = k
         /\ \A i \in 1 .. k : Recent(n, s)[i] = s[Len(s) - k + i]
<1> DEFINE k == IF Len(s) < n THEN Len(s) ELSE n
<1>1. k \in 0 .. Len(s)
  OBVIOUS
<1>2. Recent(n, s) = WF!LastOf(k, s)
  BY DEF Recent
<1> HIDE DEF k
<1>3. QED
  BY <1>1, <1>2, LastOfFacts DEF k

\* A sample more: the oldest leaves a full window.
Slid(n, w, x) == IF Len(w) = n THEN Append(Tail(w), x) ELSE Append(w, x)

LEMMA RecentAppend ==
  ASSUME NEW A, NEW s \in Seq(A), NEW n \in Nat \ {0}, NEW x \in A
  PROVE  Recent(n, Append(s, x)) = Slid(n, Recent(n, s), x)
<1> DEFINE t == Append(s, x)
           k == IF Len(s) < n THEN Len(s) ELSE n
           j == IF Len(t) < n THEN Len(t) ELSE n
           w == Recent(n, s)
           u == Recent(n, t)
           r == Slid(n, w, x)
<1>1. t \in Seq(A) /\ Len(t) = Len(s) + 1 /\ t[Len(s) + 1] = x /\ Len(s) \in Nat
      /\ \A i \in 1 .. Len(s) : t[i] = s[i]
  OBVIOUS
<1> HIDE DEF t
<1>2. w \in Seq(A) /\ Len(w) = k /\ \A i \in 1 .. k : w[i] = s[Len(s) - k + i]
  BY RecentFacts
<1>3. u \in Seq(A) /\ Len(u) = j /\ \A i \in 1 .. j : u[i] = t[Len(t) - j + i]
  <2> HIDE DEF u
  <2>1. n \in Nat /\ t \in Seq(A)
    BY <1>1
  <2>2. /\ Recent(n, t) \in Seq(A) /\ Len(Recent(n, t)) = j
        /\ \A i \in 1 .. j : Recent(n, t)[i] = t[Len(t) - j + i]
    BY <2>1, RecentFacts
  <2>3. QED
    BY <2>2 DEF u
<1> HIDE DEF w, u
<1>4. ASSUME Len(s) < n PROVE u = r
  <2>1. k = Len(s) /\ j = Len(s) + 1 /\ Len(w) # n
    BY <1>1, <1>2, <1>4
  <2>2. r = Append(w, x)
    BY <2>1 DEF Slid
  <2> HIDE DEF r, k, j
  <2>3. r \in Seq(A) /\ Len(r) = Len(s) + 1 /\ r[Len(s) + 1] = x
        /\ \A i \in 1 .. Len(s) : r[i] = w[i]
    BY <1>2, <2>1, <2>2
  <2>4. ASSUME NEW i \in 1 .. Len(s) + 1 PROVE u[i] = r[i]
    <3>1. u[i] = t[i]
      <4>1. Len(t) - j + i = i /\ i \in 1 .. j
        BY <1>1, <2>1
      <4>2. u[i] = t[Len(t) - j + i]
        BY <1>3, <4>1
      <4>3. QED
        BY <4>1, <4>2
    <3>2. CASE i = Len(s) + 1
      BY <1>1, <2>3, <3>1, <3>2
    <3>3. CASE i # Len(s) + 1
      <4>1. i \in 1 .. Len(s) /\ Len(s) - k + i = i /\ i \in 1 .. k
        BY <1>1, <2>1, <3>3
      <4>2. w[i] = s[Len(s) - k + i]
        BY <1>2, <4>1
      <4>3. QED
        BY <1>1, <2>3, <3>1, <4>1, <4>2
    <3>4. QED
      BY <3>2, <3>3
  <2>5. /\ u \in Seq(A) /\ r \in Seq(A) /\ Len(s) + 1 \in Nat
        /\ Len(u) = Len(s) + 1 /\ Len(r) = Len(s) + 1
        /\ \A i \in 1 .. Len(s) + 1 : u[i] = r[i]
    BY <1>1, <1>3, <2>1, <2>3, <2>4
  <2>6. QED
    BY ONLY <2>5
<1>5. ASSUME ~(Len(s) < n) PROVE u = r
  <2>1. k = n /\ j = n /\ Len(w) = n /\ Len(t) - n = Len(s) - n + 1 /\ n >= 1
    BY <1>1, <1>2, <1>5
  <2>2. r = Append(Tail(w), x)
    BY <2>1 DEF Slid
  <2> HIDE DEF r, k, j
  <2>3. r \in Seq(A) /\ Len(r) = n /\ r[n] = x /\ \A i \in 1 .. n - 1 : r[i] = w[i + 1]
    BY <1>2, <2>1, <2>2
  <2>4. ASSUME NEW i \in 1 .. n PROVE u[i] = r[i]
    <3>1. u[i] = t[Len(s) - n + 1 + i]
      <4>1. u[i] = t[Len(t) - j + i]
        BY <1>3, <2>1
      <4>2. Len(t) - j + i = Len(s) - n + 1 + i
        BY <1>1, <2>1
      <4>3. QED
        BY <4>1, <4>2
    <3>2. CASE i = n
      <4>1. Len(s) - n + 1 + i = Len(s) + 1
        BY <1>1, <3>2
      <4>2. QED
        BY <1>1, <2>3, <3>1, <3>2, <4>1
    <3>3. CASE i # n
      <4>1. i \in 1 .. n - 1 /\ i + 1 \in 1 .. k /\ Len(s) - n + 1 + i \in 1 .. Len(s)
            /\ Len(s) - k + (i + 1) = Len(s) - n + 1 + i
        BY <1>1, <1>5, <2>1, <3>3
      <4>2. w[i + 1] = s[Len(s) - k + (i + 1)]
        BY <1>2, <4>1
      <4>3. QED
        BY <1>1, <2>3, <3>1, <4>1, <4>2
    <3>4. QED
      BY <3>2, <3>3
  <2>5. /\ u \in Seq(A) /\ r \in Seq(A) /\ n \in Nat
        /\ Len(u) = n /\ Len(r) = n
        /\ \A i \in 1 .. n : u[i] = r[i]
    BY <1>3, <2>1, <2>3, <2>4
  <2>6. QED
    BY ONLY <2>5
<1>6. QED
  BY <1>4, <1>5 DEF u, r, w, t

\* Behind a window of v there are always enough.
IsPadded(n, A, v, s) ==
  LET t == Padding(n, v, s) IN
  /\ t \in Seq(A) /\ Len(t) = n + Len(s)
  /\ \A i \in 1 .. n : t[i] = v
  /\ \A i \in 1 .. Len(s) : t[n + i] = s[i]
  /\ Padded(n, v, s) \in Seq(A) /\ Len(Padded(n, v, s)) = n
  /\ \A i \in 1 .. n : Padded(n, v, s)[i] = t[Len(s) + i]

LEMMA PaddedFacts ==
  ASSUME NEW A, NEW s \in Seq(A), NEW n \in Nat, NEW v \in A
  PROVE  IsPadded(n, A, v, s)
<1> DEFINE f == [i \in 1 .. n |-> v]
           t == f \o s
<1>1. f \in Seq(A) /\ Len(f) = n /\ \A i \in 1 .. n : f[i] = v
  OBVIOUS
<1> HIDE DEF f
<1>2. t \in Seq(A) /\ Len(t) = n + Len(s) /\ Len(s) \in Nat
      /\ (\A i \in 1 .. n : t[i] = f[i]) /\ \A i \in 1 .. Len(s) : t[n + i] = s[i]
  BY <1>1
<1>3. Padded(n, v, s) = WF!LastOf(n, t)
  BY DEF Padded, Padding, f
<1> HIDE DEF t
<1>4. n \in 0 .. Len(t)
  BY <1>2
<1>5. /\ WF!LastOf(n, t) \in Seq(A) /\ Len(WF!LastOf(n, t)) = n
      /\ \A i \in 1 .. n : WF!LastOf(n, t)[i] = t[Len(t) - n + i]
  BY <1>2, <1>4, LastOfFacts
<1>6. \A i \in 1 .. n : Len(t) - n + i = Len(s) + i
  BY <1>2
<1>7. QED
  BY <1>1, <1>2, <1>3, <1>5, <1>6 DEF IsPadded, Padding, t, f

LEMMA PaddedEmpty ==
  ASSUME NEW A, NEW n \in Nat, NEW v \in A
  PROVE  Padded(n, v, <<>>) = [i \in 1 .. n |-> v]
<1> DEFINE f == [i \in 1 .. n |-> v]
           t == f \o <<>>
<1>1. f \in Seq(A) /\ Len(f) = n
  OBVIOUS
<1>2. Padded(n, v, <<>>) = WF!LastOf(n, t)
  BY DEF Padded, Padding
<1> HIDE DEF f
<1>3. t = f
  BY <1>1
<1> HIDE DEF t
<1>4. n \in 0 .. Len(f)
  BY <1>1
<1>5. /\ WF!LastOf(n, f) \in Seq(A) /\ Len(WF!LastOf(n, f)) = n
      /\ \A i \in 1 .. n : WF!LastOf(n, f)[i] = f[Len(f) - n + i]
  BY <1>1, <1>4, LastOfFacts
<1>6. \A i \in 1 .. n : Len(f) - n + i = i
  BY <1>1
<1>7. WF!LastOf(n, f) = f
  BY <1>1, <1>5, <1>6
<1>8. QED
  BY <1>2, <1>3, <1>7 DEF f

LEMMA PaddedAppend ==
  ASSUME NEW A, NEW s \in Seq(A), NEW n \in Nat \ {0}, NEW v \in A, NEW x \in A
  PROVE  Padded(n, v, Append(s, x)) = Append(Tail(Padded(n, v, s)), x)
<1> DEFINE f == [i \in 1 .. n |-> v]
           p == f \o s
           q == f \o Append(s, x)
<1>1. f \in Seq(A) /\ Len(f) = n
  OBVIOUS
<1>2. q = Append(p, x) /\ p \in Seq(A) /\ Len(p) = n + Len(s) /\ Len(s) \in Nat
  <2> HIDE DEF f
  <2>1. QED
    BY <1>1
<1> HIDE DEF p, q, f
<1>3. Recent(n, p) = WF!LastOf(n, p) /\ Recent(n, Append(p, x)) = WF!LastOf(n, Append(p, x))
  <2>1. Len(Append(p, x)) = n + Len(s) + 1
    <3>1. p \in Seq(A)
      BY <1>2
    <3>2. Len(Append(p, x)) = Len(p) + 1
      BY <3>1
    <3>3. QED
      BY <1>2, <3>2
  <2>2. ~(Len(p) < n) /\ ~(Len(Append(p, x)) < n)
    BY <1>2, <2>1
  <2>3. QED
    BY <2>2 DEF Recent
<1>4. Recent(n, Append(p, x)) = Slid(n, Recent(n, p), x)
  BY <1>2, RecentAppend
<1>5. Len(Recent(n, p)) = n
  <2>1. n \in 0 .. Len(p)
    BY <1>2
  <2>2. QED
    BY <1>2, <1>3, <2>1, LastOfFacts
<1>6. Padded(n, v, s) = WF!LastOf(n, p) /\ Padded(n, v, Append(s, x)) = WF!LastOf(n, q)
  BY DEF Padded, Padding, p, q, f
<1>7. QED
  BY <1>2, <1>3, <1>4, <1>5, <1>6 DEF Slid

\* A circular_buffer of n slots that holds the sequence s.
RingOf(n, d, f, m, s) ==
  /\ d = [i \in 0 .. n - 1 |-> d[i]] /\ f \in 0 .. n - 1 /\ m = Len(s) /\ Len(s) <= n
  /\ \A k \in 1 .. Len(s) : d[(f + k - 1) % n] = s[k]
Ring(n, c, s) ==
  c = Record(c.data, c.front, c.size, c.sound) /\ RingOf(n, c.data, c.front, c.size, s)

\* A sample is written behind the last one, over the first one if that is its slot.
WithSample(n, d, f, m, v, b) ==
  LET e == [d EXCEPT ![(f + m) % n] = v] IN
  IF m = n THEN Record(e, (f + 1) % n, m, b) ELSE Record(e, f, m + 1, b)

LEMMA SampleWritten ==
  ASSUME NEW n, NEW d, NEW f, NEW m, NEW t, NEW v
  PROVE  \E b : WF!CB(n)!write_back_with(Record(d, f, m, t), v) = WithSample(n, d, f, m, v, b)
<1> DEFINE c == Record(d, f, m, t)
           i == (f + m) % n
           x == [c.data EXCEPT ![i] = NoValue]
           p == c.sound /\ c.data[i] # NoValue
           g == WithSound(WithData(c, x), p)
<1>1. WF!CB(n)!destroy_slot(c, i) = g
  <2> HIDE DEF c, i
  <2>1. QED
    BY DEF WF!CB!destroy_slot, WF!CB!Live, WF!CB!slot_ptr, WithSound, WithData
<1>2. g = Record(x, f, m, p)
  <2>1. c = Record(d, f, m, t)
    OBVIOUS
  <2> HIDE DEF x, p, c
  <2>2. QED
    BY <2>1, Changed
<1>3. \A y : WF!CB(n)!construct_at(y, i, v)
              = WithSound(WithData(y, [y.data EXCEPT ![i] = v]),
                          y.sound /\ ~(y.data[i] # NoValue))
  <2> HIDE DEF i
  <2>1. QED
    BY DEF WF!CB!construct_at, WF!CB!Live, WF!CB!slot_ptr, WithSound, WithData
<1>4. \A q, r : \E b :
        WF!CB(n)!construct_at(Record(q, f, m, r), i, v) = Record([q EXCEPT ![i] = v], f, m, b)
  <2>1. SUFFICES ASSUME NEW q, NEW r
                 PROVE  \E b : WF!CB(n)!construct_at(Record(q, f, m, r), i, v)
                                 = Record([q EXCEPT ![i] = v], f, m, b)
    OBVIOUS
  <2> DEFINE y == Record(q, f, m, r)
             b == y.sound /\ ~(y.data[i] # NoValue)
             e == [q EXCEPT ![i] = v]
  <2>2. y.data = q
    BY Fields
  <2>3. WF!CB(n)!construct_at(y, i, v) = WithSound(WithData(y, e), b)
    <3> HIDE DEF y, i
    <3>1. QED
      BY <1>3, <2>2
  <2> HIDE DEF b, e, i
  <2>4. WithSound(WithData(Record(q, f, m, r), e), b) = Record(e, f, m, b)
    BY Changed
  <2>5. QED
    BY <2>3, <2>4 DEF e
<1> DEFINE e == [d EXCEPT ![i] = v]
<1>5. [x EXCEPT ![i] = v] = e
  <2>1. c.data = d
    BY Fields
  <2> HIDE DEF c, i
  <2>2. QED
    BY <2>1
<1>6. CASE m = n
  <2>1. WF!CB(n)!write_back_with(c, v)
          = LET y == WF!CB(n)!construct_at(WF!CB(n)!destroy_slot(c, i), i, v)
            IN  WithFront(y, (y.front + 1) % n)
    <3>1. c.size = n /\ c.front = f /\ c.size = m
      BY <1>6, Fields
    <3> HIDE DEF c
    <3>2. QED
      BY <3>1 DEF WF!CB!write_back_with, WF!CB!full, WF!CB!index_of, WithFront
  <2> HIDE DEF x, p, g, i, c, e
  <2>2. PICK b : WF!CB(n)!construct_at(WF!CB(n)!destroy_slot(c, i), i, v) = Record(e, f, m, b)
    BY <1>1, <1>2, <1>4, <1>5
  <2>3. WithFront(Record(e, f, m, b), (Record(e, f, m, b).front + 1) % n)
          = Record(e, (f + 1) % n, m, b)
    BY Fields, Changed
  <2>4. WF!CB(n)!write_back_with(c, v) = Record(e, (f + 1) % n, m, b)
    BY <2>1, <2>2, <2>3
  <2>5. QED
    BY <1>6, <2>4 DEF c, e, i, WithSample
<1>7. CASE m # n
  <2>1. WF!CB(n)!write_back_with(c, v)
          = LET y == WF!CB(n)!construct_at(c, i, v) IN WithSize(y, y.size + 1)
    <3>1. c.size # n /\ c.front = f /\ c.size = m
      BY <1>7, Fields
    <3> HIDE DEF c
    <3>2. QED
      BY <3>1 DEF WF!CB!write_back_with, WF!CB!full, WF!CB!index_of, WithSize
  <2>2. PICK b : WF!CB(n)!construct_at(c, i, v) = Record(e, f, m, b)
    <3> HIDE DEF i
    <3>1. QED
      BY <1>4
  <2> HIDE DEF x, p, g, i, c, e
  <2>3. WithSize(Record(e, f, m, b), Record(e, f, m, b).size + 1) = Record(e, f, m + 1, b)
    BY Fields, Changed
  <2>4. WF!CB(n)!write_back_with(c, v) = Record(e, f, m + 1, b)
    BY <2>1, <2>2, <2>3
  <2>5. QED
    BY <1>7, <2>4 DEF c, e, i, WithSample
<1>8. QED
  BY <1>6, <1>7

LEMMA InRing ==
  ASSUME NEW n \in Nat \ {0}, NEW f \in 0 .. n - 1
  PROVE  /\ \A k \in Nat : (f + k) % n \in 0 .. n - 1
         /\ \A j, k \in Nat : j < k /\ k < j + n => (f + j) % n # (f + k) % n
         /\ \A k \in Nat : (((f + 1) % n) + k) % n = (f + (k + 1)) % n
         /\ (f + n) % n = f /\ (f + 0) % n = f
<1>1. ASSUME NEW k \in Nat PROVE (f + k) % n \in 0 .. n - 1
  <2>1. f + k \in Nat
    OBVIOUS
  <2>2. QED
    BY <2>1, DivMod
<1>2. ASSUME NEW j \in Nat, NEW k \in Nat, j < k, k < j + n PROVE (f + j) % n # (f + k) % n
  <2>1. f + j \in Nat /\ f + k \in Nat /\ f + j < f + k /\ f + k < (f + j) + n
    BY <1>2
  <2>2. QED
    BY <2>1, ModWindow
<1>3. ASSUME NEW k \in Nat PROVE (((f + 1) % n) + k) % n = (f + (k + 1)) % n
  <2> DEFINE a == f + 1
  <2>1. a \in Nat /\ f + (k + 1) = a + k
    OBVIOUS
  <2> HIDE DEF a
  <2>2. ((a % n) + k) % n = (a + k) % n
    BY <2>1, ModAgain
  <2>3. QED
    BY <2>1, <2>2 DEF a
<1>4. (f + n) % n = f
  <2>1. f + n \in Nat /\ f + n = n * 1 + f /\ 1 \in Nat
    OBVIOUS
  <2>2. QED
    BY <2>1, ModUnique
<1>5. (f + 0) % n = f
  <2>1. f + 0 \in Nat /\ f + 0 = n * 0 + f /\ 0 \in Nat
    OBVIOUS
  <2>2. QED
    BY <2>1, ModUnique
<1>6. QED
  BY <1>1, <1>2, <1>3, <1>4, <1>5

LEMMA RingPushed ==
  ASSUME NEW n \in Nat \ {0}, NEW A, NEW s \in Seq(A), NEW c, Ring(n, c, s), NEW v \in A
  PROVE  Ring(n, WF!CB(n)!write_back_with(c, v), Slid(n, s, v))
<1> DEFINE d == c.data
           f == c.front
           m == c.size
           i == (f + m) % n
           e == [d EXCEPT ![i] = v]
           h == IF m = n THEN (f + 1) % n ELSE f
           r == IF m = n THEN m ELSE m + 1
           u == Slid(n, s, v)
<1>1. c = Record(d, f, m, c.sound) /\ RingOf(n, d, f, m, s)
  BY DEF Ring
<1>2. PICK b : WF!CB(n)!write_back_with(c, v) = Record(e, h, r, b)
  <2> HIDE DEF d, f, m
  <2>1. \E b : WF!CB(n)!write_back_with(Record(d, f, m, c.sound), v) = WithSample(n, d, f, m, v, b)
    BY SampleWritten
  <2>2. QED
    BY <1>1, <2>1 DEF WithSample
<1> HIDE DEF d, f, m
<1>3. /\ d = [j \in 0 .. n - 1 |-> d[j]] /\ f \in 0 .. n - 1 /\ m = Len(s) /\ m \in 0 .. n
      /\ \A k \in 1 .. m : d[(f + k - 1) % n] = s[k]
  <2>1. /\ d = [j \in 0 .. n - 1 |-> d[j]] /\ f \in 0 .. n - 1 /\ m = Len(s) /\ Len(s) <= n
        /\ \A k \in 1 .. Len(s) : d[(f + k - 1) % n] = s[k]
    BY <1>1 DEF RingOf
  <2>2. Len(s) \in Nat
    OBVIOUS
  <2>3. m \in 0 .. n
    BY <2>1, <2>2
  <2>4. QED
    BY <2>1, <2>3
<1>4. /\ \A k \in Nat : (f + k) % n \in 0 .. n - 1
      /\ \A j, k \in Nat : j < k /\ k < j + n => (f + j) % n # (f + k) % n
      /\ \A k \in Nat : (((f + 1) % n) + k) % n = (f + (k + 1)) % n
      /\ (f + n) % n = f /\ (f + 0) % n = f
  BY <1>3, InRing
<1>5. i \in 0 .. n - 1
  <2>1. m \in Nat
    BY <1>3
  <2>2. QED
    BY <1>4, <2>1
<1>6. e = [j \in 0 .. n - 1 |-> e[j]] /\ e[i] = v /\ \A j \in 0 .. n - 1 : j # i => e[j] = d[j]
  <2> HIDE DEF i
  <2>1. QED
    BY <1>3, <1>5
<1>7. \A k \in 1 .. m : f + k - 1 = f + (k - 1) /\ k - 1 \in Nat
  BY <1>3
<1>8. RingOf(n, e, h, r, u)
  <2>1. CASE m = n
    <3>1. u = Append(Tail(s), v) /\ h = (f + 1) % n /\ r = n
      BY <1>3, <2>1 DEF Slid
    <3>2. Len(u) = n /\ u[n] = v /\ \A k \in 1 .. n - 1 : u[k] = s[k + 1]
      <4>1. Len(s) = n /\ Len(s) > 0
        BY <1>3, <2>1
      <4>2. Tail(s) \in Seq(A) /\ Len(Tail(s)) = n - 1 /\ \A k \in 1 .. n - 1 : Tail(s)[k] = s[k + 1]
        BY <4>1
      <4> DEFINE t == Tail(s)
      <4> HIDE DEF u, t
      <4>3. u = Append(t, v) /\ t \in Seq(A) /\ Len(t) = n - 1
        BY <3>1, <4>2 DEF t
      <4>4. Len(u) = n /\ u[n] = v /\ \A k \in 1 .. n - 1 : u[k] = t[k]
        BY <4>3
      <4>5. QED
        BY <4>2, <4>4 DEF t
    <3>3. h \in 0 .. n - 1
      <4>1. 1 \in Nat
        OBVIOUS
      <4>2. QED
        BY <1>4, <3>1, <4>1
    <3>4. ASSUME NEW k \in 1 .. n PROVE e[(h + k - 1) % n] = u[k]
      <4>1. (h + k - 1) % n = (f + k) % n
        <5> DEFINE g == (f + 1) % n
        <5>1. h = g /\ g \in 0 .. n - 1
          BY <3>1, <3>3
        <5> HIDE DEF g, h
        <5>2. k - 1 \in Nat /\ h + k - 1 = g + (k - 1) /\ (k - 1) + 1 = k
          BY <5>1
        <5>3. (g + (k - 1)) % n = (f + ((k - 1) + 1)) % n
          BY <1>4, <5>2 DEF g
        <5>4. QED
          BY <5>2, <5>3
      <4>2. CASE k = n
        BY <1>6, <2>1, <3>2, <4>1, <4>2
      <4>3. CASE k # n
        <5>1. k \in Nat /\ n \in Nat /\ k < n /\ n < k + n /\ k + 1 \in 1 .. m /\ (k + 1) - 1 = k
              /\ k \in 1 .. n - 1
          BY <2>1, <4>3
        <5>2. (f + k) % n # i /\ (f + k) % n \in 0 .. n - 1
          BY <1>4, <2>1, <5>1
        <5>3. d[(f + k) % n] = s[k + 1]
          <6>1. d[(f + (k + 1) - 1) % n] = s[k + 1]
            BY <1>3, <5>1
          <6>2. f + (k + 1) - 1 = f + k
            BY <1>3
          <6>3. QED
            BY <6>1, <6>2
        <5> HIDE DEF e, u, i, h
        <5>4. QED
          BY <1>6, <3>2, <4>1, <5>1, <5>2, <5>3
      <4>4. QED
        BY <4>2, <4>3
    <3>5. r = n
      BY <3>1
    <3> HIDE DEF e, h, r, u
    <3>6. \A k \in 1 .. Len(u) : e[(h + k - 1) % n] = u[k]
      BY <3>2, <3>4
    <3>7. r = Len(u) /\ Len(u) <= n
      BY <3>2, <3>5
    <3>8. QED
      BY <1>6, <3>3, <3>6, <3>7, Zenon DEF RingOf
  <2>2. CASE m # n
    <3>1. u = Append(s, v) /\ h = f /\ r = m + 1 /\ m < n
      BY <1>3, <2>2 DEF Slid
    <3>2. Len(u) = m + 1 /\ u[m + 1] = v /\ \A k \in 1 .. m : u[k] = s[k]
      <4> HIDE DEF u
      <4>1. QED
        BY <1>3, <3>1
    <3>3. ASSUME NEW k \in 1 .. m + 1 PROVE e[(f + k - 1) % n] = u[k]
      <4>1. CASE k = m + 1
        <5>1. f + k - 1 = f + m
          BY <1>3, <4>1
        <5> HIDE DEF e, u
        <5>2. QED
          BY <1>6, <3>2, <4>1, <5>1
      <4>2. CASE k # m + 1
        <5>1. k \in 1 .. m /\ k - 1 \in Nat /\ m \in Nat /\ k - 1 < m /\ m < (k - 1) + n
          BY <1>3, <3>1, <4>2
        <5>2. (f + (k - 1)) % n # i /\ (f + (k - 1)) % n \in 0 .. n - 1
          BY <1>4, <5>1
        <5>3. f + k - 1 = f + (k - 1)
          BY <1>7, <5>1
        <5> HIDE DEF e, u, i
        <5>4. QED
          BY <1>3, <1>6, <3>2, <5>1, <5>2, <5>3
      <4>3. QED
        BY <4>1, <4>2
    <3>4. f \in 0 .. n - 1 /\ m + 1 <= n /\ r = m + 1 /\ h = f
      BY <1>3, <3>1
    <3> HIDE DEF e, h, r, u
    <3>5. QED
      BY <1>6, <3>2, <3>3, <3>4 DEF RingOf
  <2>3. QED
    BY <2>1, <2>2
<1> HIDE DEF e, h, r, u
<1>9. QED
  <2> DEFINE y == Record(e, h, r, b)
  <2>1. y.data = e /\ y.front = h /\ y.size = r /\ y.sound = b
    BY Fields
  <2>2. y = Record(y.data, y.front, y.size, y.sound)
    BY <2>1
  <2> HIDE DEF y
  <2>3. Ring(n, y, u)
    BY <1>8, <2>1, <2>2 DEF Ring
  <2>4. QED
    BY <1>2, <2>3 DEF u, y

\* A window is emptied, or filled with one value, whatever it held.
IsRecord(c) == c = Record(c.data, c.front, c.size, c.sound)

LEMMA RingCleared ==
  ASSUME NEW n \in Nat \ {0}, NEW c, IsRecord(c)
  PROVE  Ring(n, WF!CB(n)!clear(c), <<>>)
<1> DEFINE T == {(c.front + i) % n : i \in 0 .. c.size - 1}
           d == [i \in 0 .. n - 1 |-> IF i \in T THEN NoValue ELSE c.data[i]]
           b == c.sound /\ \A i \in T : c.data[i] # NoValue
           e == Record(d, 0, 0, b)
<1>1. WF!CB(n)!clear(c) = e
  <2>1. WF!CB(n)!DestroyAll(c, T) = WithSound(WithData(c, d), b)
    <3> HIDE DEF T
    <3>1. QED
      BY DEF WF!CB!DestroyAll, WF!CB!Live, WF!CB!slot_ptr, WF!CB!Slots, WithSound, WithData
  <2>2. WF!CB(n)!clear(c) = WithSize(WithFront(WF!CB(n)!DestroyAll(c, T), 0), 0)
    BY DEF WF!CB!clear, WF!CB!index_of, WithSize, WithFront
  <2> HIDE DEF T, d, b
  <2>3. WithSound(WithData(c, d), b) = Record(d, c.front, c.size, b)
    BY Changed DEF IsRecord
  <2>4. WithSize(WithFront(Record(d, c.front, c.size, b), 0), 0) = Record(d, 0, 0, b)
    BY Changed
  <2>5. QED
    BY <2>1, <2>2, <2>3, <2>4
<1>2. d = [i \in 0 .. n - 1 |-> d[i]]
  OBVIOUS
<1> HIDE DEF d, b
<1>3. RingOf(n, d, 0, 0, <<>>)
  <2>1. Len(<<>>) = 0 /\ 0 \in 0 .. n - 1 /\ 0 <= n
    OBVIOUS
  <2>2. QED
    BY <1>2, <2>1 DEF RingOf
<1>4. e.data = d /\ e.front = 0 /\ e.size = 0 /\ e.sound = b
  BY Fields
<1>5. QED
  BY <1>1, <1>3, <1>4 DEF Ring

LEMMA RingFilled ==
  ASSUME NEW n \in Nat \ {0}, NEW c, IsRecord(c), NEW v
  PROVE  Ring(n, WF!CB(n)!fill(c, v), [i \in 1 .. n |-> v])
<1> DEFINE d == [i \in 0 .. n - 1 |-> v]
           s == [i \in 1 .. n |-> v]
           x == WF!CB(n)!clear(c)
           b == x.sound /\ \A i \in 0 .. n - 1 : ~(x.data[i] # NoValue)
           e == Record(d, 0, n, b)
<1>1. IsRecord(x) /\ x.front = 0
  <2>1. Ring(n, x, <<>>)
    BY RingCleared
  <2>2. Len(<<>>) = 0
    OBVIOUS
  <2>3. x.front = 0
    BY DEF WF!CB!clear
  <2> HIDE DEF x
  <2>4. QED
    BY <2>1, <2>3 DEF Ring, IsRecord
<1>2. WF!CB(n)!fill(c, v) = e
  <2>1. WF!CB(n)!fill(c, v) = WithSound(WithSize(WithData(x, d), n), b)
    BY DEF WF!CB!fill, WF!CB!Slots, WF!CB!Live, WF!CB!slot_ptr, WithData, WithSize, WithSound
  <2> HIDE DEF x, d, b
  <2>2. WithSound(WithSize(WithData(Record(x.data, x.front, x.size, x.sound), d), n), b)
          = Record(d, x.front, n, b)
    BY Changed
  <2>3. QED
    BY <1>1, <2>1, <2>2 DEF IsRecord
<1> HIDE DEF b
<1>3. RingOf(n, d, 0, n, s)
  <2>1. Len(s) = n /\ \A k \in 1 .. n : s[k] = v
    OBVIOUS
  <2>2. d = [i \in 0 .. n - 1 |-> d[i]] /\ \A i \in 0 .. n - 1 : d[i] = v
    OBVIOUS
  <2>3. ASSUME NEW k \in 1 .. n PROVE (0 + k - 1) % n \in 0 .. n - 1
    <3>1. 0 + k - 1 \in Nat
      OBVIOUS
    <3>2. QED
      BY <3>1, DivMod
  <2>4. 0 \in 0 .. n - 1 /\ n <= n
    OBVIOUS
  <2> HIDE DEF d, s
  <2>5. \A k \in 1 .. Len(s) : d[(0 + k - 1) % n] = s[k]
    BY <2>1, <2>2, <2>3
  <2>6. QED
    BY <2>1, <2>2, <2>4, <2>5, Zenon DEF RingOf
<1> HIDE DEF d, s
<1>4. e.data = d /\ e.front = 0 /\ e.size = n /\ e.sound = b
  BY Fields
<1>5. QED
  BY <1>2, <1>3, <1>4 DEF Ring, s

LEMMA FreshRecord ==
  ASSUME NEW n
  PROVE  IsRecord(WF!CB(n)!Fresh)
BY DEF WF!CB!Fresh, Record, IsRecord

LEMMA RingRecord ==
  ASSUME NEW n, NEW c, NEW s, Ring(n, c, s)
  PROVE  IsRecord(c)
BY DEF Ring, IsRecord

\* What is read of it.
LEMMA RingRead ==
  ASSUME NEW n \in Nat \ {0}, NEW A, NEW s \in Seq(A), NEW c, Ring(n, c, s)
  PROVE  /\ c.size = Len(s) /\ Len(s) <= n
         /\ WF!CB(n)!full(c) <=> Len(s) = n
         /\ s # <<>> => WF!CB(n)!front(c) = s[1]
         /\ WF!CB(n)!Content(c) = s
<1>1. /\ c.front \in 0 .. n - 1 /\ c.size = Len(s) /\ Len(s) <= n /\ Len(s) \in Nat
      /\ \A k \in 1 .. Len(s) : c.data[(c.front + k - 1) % n] = s[k]
  BY DEF Ring, RingOf
<1>2. WF!CB(n)!full(c) <=> Len(s) = n
  BY <1>1 DEF WF!CB!full
<1>3. ASSUME s # <<>> PROVE WF!CB(n)!front(c) = s[1]
  <2>1. 1 \in 1 .. Len(s) /\ c.front + 1 - 1 = c.front + 0
    BY <1>1, <1>3
  <2>2. (c.front + 0) % n = c.front
    BY <1>1, InRing
  <2>3. c.data[c.front] = s[1]
    BY <1>1, <2>1, <2>2
  <2>4. QED
    BY <2>3 DEF WF!CB!front, WF!CB!slot_ptr
<1>4. WF!CB(n)!Content(c) = s
  <2> DEFINE g == [k \in 1 .. c.size |-> c.data[(c.front + (k - 1)) % n]]
  <2>1. WF!CB(n)!Content(c) = g
    BY DEF WF!CB!Content, WF!CB!at, WF!CB!slot_ptr, WF!CB!index_of
  <2>2. \A k \in 1 .. Len(s) : c.front + (k - 1) = c.front + k - 1
    BY <1>1
  <2>3. g \in Seq(A) /\ Len(g) = Len(s) /\ \A k \in 1 .. Len(s) : g[k] = s[k]
    <3>1. \A k \in 1 .. Len(s) : g[k] = s[k] /\ s[k] \in A
      BY <1>1, <2>2
    <3>2. g \in [1 .. Len(s) -> A]
      BY <1>1, <3>1
    <3> DEFINE m == Len(s)
    <3> HIDE DEF g, m
    <3>3. g \in [1 .. m -> A] /\ m \in Nat
      BY <1>1, <3>2 DEF m
    <3>4. g \in Seq(A) /\ Len(g) = m
      BY <3>3
    <3>5. QED
      BY <3>1, <3>4 DEF m
  <2> HIDE DEF g
  <2>4. QED
    BY <2>1, <2>3
<1>5. QED
  BY <1>1, <1>2, <1>3, <1>4

\* moving_average_filter: the window holds the latest samples, the sum is theirs, and the
\* output their average.
Averages(n, f, v, s) ==
  /\ Ring(n, f.data, Recent(n, s)) /\ f.sum = WF!SumOf(Recent(n, s))
  /\ f.output = WF!AverageOf(n, v, s)

LEMMA RecentEmpty ==
  ASSUME NEW n \in Nat \ {0}
  PROVE  Recent(n, <<>>) = <<>>
<1> DEFINE e == <<>>
<1>1. e \in Seq(Int) /\ Len(e) = 0
  OBVIOUS
<1>2. Recent(n, e) = WF!LastOf(0, e)
  BY <1>1 DEF Recent
<1>3. 0 \in 0 .. Len(e)
  BY <1>1
<1>4. WF!LastOf(0, e) \in Seq(Int) /\ Len(WF!LastOf(0, e)) = 0
  <2> HIDE DEF e
  <2>1. QED
    BY <1>1, <1>3, LastOfFacts
<1>5. WF!LastOf(0, e) = <<>>
  BY <1>4
<1>6. QED
  BY <1>2, <1>5

LEMMA AverageSet ==
  ASSUME NEW n \in Nat \ {0}, NEW f, IsRecord(f.data), NEW v
  PROVE  Averages(n, WF!average_set_output(n, f, v), v, <<>>)
<1>1. Ring(n, WF!CB(n)!clear(f.data), <<>>)
  BY RingCleared
<1> DEFINE g == WF!average_set_output(n, f, v)
<1>2. g.data = WF!CB(n)!clear(f.data) /\ g.sum = 0 /\ g.output = v
  BY DEF WF!average_set_output
<1>3. WF!AverageOf(n, v, <<>>) = v
  BY DEF WF!AverageOf
<1> HIDE DEF g
<1>4. QED
  BY <1>1, <1>2, <1>3, RecentEmpty, SumEmpty DEF Averages, g

LEMMA AverageFresh ==
  ASSUME NEW n \in Nat \ {0}, NEW v
  PROVE  Averages(n, WF!moving_average_filter(n, v), v, <<>>)
<1> DEFINE f == [data |-> WF!CB(n)!Fresh]
<1>1. IsRecord(f.data)
  BY FreshRecord
<1>2. WF!moving_average_filter(n, v) = WF!average_set_output(n, f, v)
  BY DEF WF!moving_average_filter
<1> HIDE DEF f
<1>3. QED
  BY <1>1, <1>2, AverageSet

LEMMA AveragePushed ==
  ASSUME NEW n \in Nat \ {0}, NEW s \in Seq(Int), NEW f, NEW v, Averages(n, f, v, s), NEW x \in Int
  PROVE  Averages(n, WF!average_push(n, f, x), v, Append(s, x))
<1> DEFINE w == Recent(n, s)
           u == Slid(n, w, x)
           d == WF!CB(n)!write_back_with(f.data, x)
           z == IF WF!CB(n)!full(f.data) THEN f.sum - WF!CB(n)!front(f.data) + x ELSE f.sum + x
           g == WF!average_push(n, f, x)
<1>1. w \in Seq(Int) /\ Ring(n, f.data, w) /\ f.sum = WF!SumOf(w)
  BY RecentFacts DEF Averages
<1>2. Recent(n, Append(s, x)) = u
  BY RecentAppend
<1>3. g.data = d /\ g.sum = z /\ g.output = z \div d.size
  BY DEF WF!average_push
<1> HIDE DEF w, g
<1>4. Ring(n, d, u)
  BY <1>1, RingPushed
<1>5. (WF!CB(n)!full(f.data) <=> Len(w) = n) /\ (w # <<>> => WF!CB(n)!front(f.data) = w[1])
  BY <1>1, RingRead
<1>6. u \in Seq(Int) /\ u # <<>> /\ z = WF!SumOf(u)
  <2>1. CASE Len(w) = n
    <3>1. w # <<>> /\ u = Append(Tail(w), x)
      BY <2>1, <1>1 DEF Slid
    <3>2. w[1] \in Int /\ Tail(w) \in Seq(Int)
      BY <1>1, <3>1
    <3>3. WF!SumOf(Tail(w)) = WF!SumOf(w) - w[1] /\ WF!SumOf(w) \in Int
      BY <1>1, <3>1, SumTail, SumType
    <3>4. WF!SumOf(Append(Tail(w), x)) = WF!SumOf(Tail(w)) + x
      BY <3>2, SumAppend
    <3>5. z = f.sum - w[1] + x
      BY <1>5, <2>1, <3>1
    <3>6. u \in Seq(Int) /\ u # <<>>
      BY <3>1, <3>2
    <3> HIDE DEF u, z
    <3>7. QED
      BY <1>1, <3>1, <3>2, <3>3, <3>4, <3>5, <3>6
  <2>2. CASE Len(w) # n
    <3>1. u = Append(w, x)
      BY <2>2 DEF Slid
    <3>2. WF!SumOf(Append(w, x)) = WF!SumOf(w) + x
      BY <1>1, SumAppend
    <3>3. z = f.sum + x
      BY <1>5, <2>2
    <3>4. u \in Seq(Int) /\ u # <<>>
      BY <1>1, <3>1
    <3> HIDE DEF u, z
    <3>5. QED
      BY <1>1, <3>1, <3>2, <3>3, <3>4
  <2>3. QED
    BY <2>1, <2>2
<1> HIDE DEF z, d, u
<1>7. d.size = Len(u)
  BY <1>4, <1>6, RingRead
<1>8. WF!AverageOf(n, v, Append(s, x)) = WF!SumOf(u) \div Len(u)
  <2>1. Append(s, x) # <<>>
    OBVIOUS
  <2>2. WF!AverageOf(n, v, Append(s, x))
          = WF!SumOf(Recent(n, Append(s, x))) \div Len(Recent(n, Append(s, x)))
    BY <2>1 DEF WF!AverageOf, Recent
  <2>3. QED
    BY <1>2, <2>2
<1>9. QED
  BY <1>2, <1>3, <1>4, <1>6, <1>7, <1>8 DEF Averages, g

\* Sorting.  Any samples have a largest, and an order that sorts them.
LEMMA Largest ==
  ASSUME NEW n \in Nat, NEW s \in [1 .. n + 1 -> Int]
  PROVE  \E m \in 1 .. n + 1 : \A i \in 1 .. n + 1 : s[i] <= s[m]
<1> DEFINE T == {k \in Nat : k <= n => \E m \in 1 .. k + 1 : \A i \in 1 .. k + 1 : s[i] <= s[m]}
<1>1. 0 \in T
  <2>1. 1 \in 1 .. 0 + 1 /\ \A i \in 1 .. 0 + 1 : s[i] <= s[1]
    OBVIOUS
  <2>2. QED
    BY <2>1
<1>2. ASSUME NEW k \in Nat, k \in T PROVE k + 1 \in T
  <2>1. SUFFICES ASSUME k + 1 <= n
                 PROVE  \E m \in 1 .. (k + 1) + 1 : \A i \in 1 .. (k + 1) + 1 : s[i] <= s[m]
    OBVIOUS
  <2>2. PICK m \in 1 .. k + 1 : \A i \in 1 .. k + 1 : s[i] <= s[m]
    BY <1>2, <2>1
  <2> DEFINE l == (k + 1) + 1
  <2>3. l \in 1 .. n + 1 /\ m \in 1 .. n + 1 /\ \A i \in 1 .. l : i = l \/ i \in 1 .. k + 1
    BY <2>1
  <2>4. s[l] \in Int /\ s[m] \in Int /\ m \in 1 .. l /\ l \in 1 .. l
        /\ \A i \in 1 .. l : s[i] \in Int
    BY <2>3
  <2> HIDE DEF l
  <2>5. CASE s[l] <= s[m]
    <3>1. \A i \in 1 .. l : s[i] <= s[m]
      BY <2>2, <2>3, <2>5
    <3>2. QED
      BY <2>4, <3>1 DEF l
  <2>6. CASE s[m] < s[l]
    <3>1. ASSUME NEW i \in 1 .. l PROVE s[i] <= s[l]
      <4>1. CASE i = l
        BY <2>4, <4>1
      <4>2. CASE i # l
        <5>1. s[i] <= s[m]
          BY <2>2, <2>3, <4>2
        <5>2. QED
          BY <2>4, <2>6, <5>1
      <4>3. QED
        BY <4>1, <4>2
    <3>2. QED
      BY <2>4, <3>1 DEF l
  <2>7. QED
    BY <2>4, <2>5, <2>6
<1> HIDE DEF T
<1>3. Nat \subseteq T
  BY <1>1, <1>2, Induction
<1>4. n \in T
  BY <1>3
<1>5. QED
  BY <1>4 DEF T

\* Of the samples s, p is an order from the least to the largest.
Sorts(p, n, s) ==
  /\ p \in [1 .. n -> 1 .. n]
  /\ \A i \in 1 .. n : \E j \in 1 .. n : p[j] = i
  /\ \A i, j \in 1 .. n : i < j => s[p[i]] <= s[p[j]]

LEMMA SortingOrder ==
  ASSUME NEW n \in Nat, NEW s \in [1 .. n -> Int]
  PROVE  \E p : Sorts(p, n, s)
<1> DEFINE T == {k \in Nat : \A u \in [1 .. k -> Int] : \E p : Sorts(p, k, u)}
<1>1. 0 \in T
  <2>1. ASSUME NEW u \in [1 .. 0 -> Int] PROVE \E p : Sorts(p, 0, u)
    <3>1. 1 .. 0 = {}
      OBVIOUS
    <3>2. Sorts([i \in {} |-> 0], 0, u)
      BY <3>1 DEF Sorts
    <3>3. QED
      BY <3>2
  <2>2. QED
    BY <2>1
<1>2. ASSUME NEW k \in Nat, k \in T PROVE k + 1 \in T
  <2>1. SUFFICES ASSUME NEW u \in [1 .. k + 1 -> Int] PROVE \E p : Sorts(p, k + 1, u)
    OBVIOUS
  <2>2. PICK m \in 1 .. k + 1 : \A i \in 1 .. k + 1 : u[i] <= u[m]
    BY Largest
  <2> DEFINE to == [i \in 1 .. k |-> IF i = m THEN k + 1 ELSE i]
             w == [i \in 1 .. k |-> u[to[i]]]
  <2>3. \A i \in 1 .. k : to[i] \in 1 .. k + 1 /\ to[i] # m
    OBVIOUS
  <2>4. \A j \in 1 .. k + 1 : j = m \/ \E i \in 1 .. k : to[i] = j
    <3>1. SUFFICES ASSUME NEW j \in 1 .. k + 1, j # m PROVE \E i \in 1 .. k : to[i] = j
      OBVIOUS
    <3>2. CASE j = k + 1
      <4>1. m \in 1 .. k /\ to[m] = j
        BY <3>1, <3>2
      <4>2. QED
        BY <4>1
    <3>3. CASE j # k + 1
      <4>1. j \in 1 .. k /\ to[j] = j
        BY <3>1, <3>3
      <4>2. QED
        BY <4>1
    <3>4. QED
      BY <3>2, <3>3
  <2> HIDE DEF to
  <2>5. w \in [1 .. k -> Int] /\ \A i \in 1 .. k : w[i] = u[to[i]]
    BY <2>3
  <2> HIDE DEF w
  <2>6. PICK q : Sorts(q, k, w)
    <3>1. \A x \in [1 .. k -> Int] : \E p : Sorts(p, k, x)
      BY <1>2
    <3>2. QED
      BY <2>5, <3>1
  <2>7. /\ \A i \in 1 .. k : q[i] \in 1 .. k
        /\ \A i \in 1 .. k : \E j \in 1 .. k : q[j] = i
        /\ \A i, j \in 1 .. k : i < j => w[q[i]] <= w[q[j]]
    BY <2>6 DEF Sorts
  <2> DEFINE p == [i \in 1 .. k + 1 |-> IF i = k + 1 THEN m ELSE to[q[i]]]
  <2>8. \A i \in 1 .. k : i \in 1 .. k + 1 /\ i # k + 1 /\ p[i] = to[q[i]] /\ u[p[i]] = w[q[i]]
    <3>1. SUFFICES ASSUME NEW i \in 1 .. k
                   PROVE  /\ i \in 1 .. k + 1 /\ i # k + 1 /\ p[i] = to[q[i]]
                          /\ u[p[i]] = w[q[i]]
      OBVIOUS
    <3>2. i \in 1 .. k + 1 /\ i # k + 1
      OBVIOUS
    <3>3. p[i] = to[q[i]]
      BY <3>2
    <3> HIDE DEF p
    <3>4. q[i] \in 1 .. k
      BY <2>7
    <3>5. w[q[i]] = u[to[q[i]]]
      BY <2>5, <3>4
    <3>6. QED
      BY <3>2, <3>3, <3>5
  <2>9. k + 1 \in 1 .. k + 1 /\ p[k + 1] = m /\ \A i \in 1 .. k + 1 : i # k + 1 => i \in 1 .. k
    OBVIOUS
  <2>10. p \in [1 .. k + 1 -> 1 .. k + 1]
    <3>1. \A i \in 1 .. k + 1 : i # k + 1 => to[q[i]] \in 1 .. k + 1
      <4>1. SUFFICES ASSUME NEW i \in 1 .. k + 1, i # k + 1 PROVE to[q[i]] \in 1 .. k + 1
        OBVIOUS
      <4>2. q[i] \in 1 .. k
        BY <2>7, <2>9, <4>1
      <4>3. QED
        BY <2>3, <4>2
    <3>2. QED
      BY <3>1
  <2> HIDE DEF p
  <2>11. ASSUME NEW j \in 1 .. k + 1 PROVE \E i \in 1 .. k + 1 : p[i] = j
    <3>1. CASE j = m
      BY <2>9, <3>1
    <3>2. CASE j # m
      <4>1. PICK i \in 1 .. k : to[i] = j
        BY <2>4, <3>2
      <4>2. PICK l \in 1 .. k : q[l] = i
        BY <2>7
      <4>3. QED
        BY <2>8, <4>1, <4>2
    <3>3. QED
      BY <3>1, <3>2
  <2>12. ASSUME NEW i \in 1 .. k + 1, NEW j \in 1 .. k + 1, i < j PROVE u[p[i]] <= u[p[j]]
    <3>1. CASE j = k + 1
      <4>1. p[i] \in 1 .. k + 1 /\ p[j] = m
        BY <2>9, <2>10, <3>1
      <4>2. QED
        BY <2>2, <4>1
    <3>2. CASE j # k + 1
      <4>1. i \in 1 .. k /\ j \in 1 .. k
        BY <2>12, <3>2
      <4>2. QED
        BY <2>7, <2>8, <2>12, <4>1
    <3>3. QED
      BY <3>1, <3>2
  <2>13. QED
    BY <2>10, <2>11, <2>12 DEF Sorts
<1> HIDE DEF T
<1>3. Nat \subseteq T
  BY <1>1, <1>2, Induction
<1>4. n \in T
  BY <1>3
<1>5. QED
  BY <1>4 DEF T

LEMMA SortedFacts ==
  ASSUME NEW s \in Seq(Int)
  PROVE  \E p : Sorts(p, Len(s), s) /\ WF!Sorted(s) = [i \in 1 .. Len(s) |-> s[p[i]]]
<1> DEFINE n == Len(s)
           Is(p) == /\ \A i \in 1 .. n : \E j \in 1 .. n : p[j] = i
                    /\ \A i, j \in 1 .. n : i < j => s[p[i]] <= s[p[j]]
           order == CHOOSE p \in [1 .. n -> 1 .. n] : Is(p)
<1>1. DOMAIN s = 1 .. n /\ n \in Nat /\ s \in [1 .. n -> Int]
  OBVIOUS
<1>2. \E p \in [1 .. n -> 1 .. n] : Is(p)
  <2> HIDE DEF n
  <2>1. PICK p : Sorts(p, n, s)
    BY <1>1, SortingOrder
  <2>2. QED
    BY <2>1 DEF Sorts
<1>3. WF!Sorted(s) = [i \in 1 .. n |-> s[order[i]]]
  <2>1. WF!Sorted(s)
          = LET o == CHOOSE p \in [DOMAIN s -> DOMAIN s] :
                      /\ \A i \in DOMAIN s : \E j \in DOMAIN s : p[j] = i
                      /\ \A i, j \in DOMAIN s : i < j => s[p[i]] <= s[p[j]]
            IN  [i \in DOMAIN s |-> s[o[i]]]
    BY DEF WF!Sorted
  <2> HIDE DEF n
  <2>2. QED
    BY <1>1, <2>1
<1>4. order \in [1 .. n -> 1 .. n] /\ Is(order)
  <2> HIDE DEF Is
  <2>1. QED
    BY <1>2
<1>5. Sorts(order, n, s)
  <2> HIDE DEF order
  <2>1. QED
    BY <1>4 DEF Sorts
<1> HIDE DEF order
<1>6. QED
  BY <1>3, <1>5

\* The median of a window of an odd number of samples: fewer than half are less, and
\* fewer than half are more.  There is one, and the middle of the sorted window is it.
IsMedian(m, n, w) ==
  /\ m \in {w[i] : i \in 1 .. n}
  /\ 2 * Cardinality({i \in 1 .. n : w[i] < m}) < n
  /\ 2 * Cardinality({i \in 1 .. n : w[i] > m}) < n

LEMMA CoveredBound ==
  ASSUME NEW n \in Nat, NEW f, NEW T, T \subseteq {f[k] : k \in 1 .. n}
  PROVE  IsFiniteSet(T) /\ Cardinality(T) <= n
<1> DEFINE D == {k \in 1 .. n : f[k] \in T}
           g == [k \in D |-> f[k]]
<1>1. g \in Surjection(D, T)
  BY DEF Surjection
<1>2. IsFiniteSet(1 .. n) /\ Cardinality(1 .. n) = n
  <2>1. 1 \in Int /\ n \in Int
    OBVIOUS
  <2>2. IsFiniteSet(1 .. n) /\ Cardinality(1 .. n) = IF 1 > n THEN 0 ELSE n - 1 + 1
    BY <2>1, FS_Interval
  <2>3. QED
    BY <2>2
<1>3. D \in SUBSET (1 .. n)
  OBVIOUS
<1> HIDE DEF D, g
<1>4. IsFiniteSet(D) /\ Cardinality(D) <= Cardinality(1 .. n)
  BY <1>2, <1>3, FS_Subset
<1>5. IsFiniteSet(T) /\ Cardinality(T) <= Cardinality(D)
  BY <1>1, <1>4, FS_Surjection
<1>6. Cardinality(T) \in Nat /\ Cardinality(D) \in Nat
  BY <1>4, <1>5, FS_CardinalityType
<1>7. QED
  BY <1>2, <1>4, <1>5, <1>6

IsOdd(n) == n % 2 = 1

LEMMA MiddleIsMedian ==
  ASSUME NEW n \in Nat, IsOdd(n), NEW w \in Seq(Int), Len(w) = n
  PROVE  IsMedian(WF!Sorted(w)[n \div 2 + 1], n, w)
<1> DEFINE h == n \div 2
           r == WF!Sorted(w)
<1>1. h \in Nat /\ n = 2 * h + 1 /\ h + 1 \in 1 .. n
  BY DEF IsOdd
<1>2. PICK p : Sorts(p, n, w) /\ r = [i \in 1 .. n |-> w[p[i]]]
  BY SortedFacts
<1> HIDE DEF h
<1> DEFINE m == w[p[h + 1]]
           below == {i \in 1 .. n : w[i] < m}
           above == {i \in 1 .. n : w[i] > m}
           q == [k \in 1 .. h |-> p[h + 1 + k]]
<1>3. r[h + 1] = m
  BY <1>1, <1>2
<1>4. /\ \A i \in 1 .. n : p[i] \in 1 .. n /\ w[i] \in Int
      /\ \A i \in 1 .. n : \E j \in 1 .. n : p[j] = i
      /\ \A i, j \in 1 .. n : i < j => w[p[i]] <= w[p[j]]
  <2>1. \A i \in 1 .. n : w[i] \in Int
    OBVIOUS
  <2>2. QED
    BY <1>2, <2>1 DEF Sorts
<1>5. p[h + 1] \in 1 .. n /\ m \in Int /\ m \in {w[i] : i \in 1 .. n}
  BY <1>1, <1>4
<1> HIDE DEF m
<1>6. below \subseteq {p[k] : k \in 1 .. h}
  <2>1. SUFFICES ASSUME NEW i \in 1 .. n, w[i] < m PROVE \E k \in 1 .. h : p[k] = i
    OBVIOUS
  <2>2. PICK k \in 1 .. n : p[k] = i
    BY <1>4
  <2>3. CASE k <= h
    BY <1>1, <2>2, <2>3
  <2>4. CASE k = h + 1
    <3>1. w[i] = m
      BY <2>2, <2>4 DEF m
    <3>2. QED
      BY <1>5, <2>1, <3>1
  <2>5. CASE k > h + 1
    <3>1. m <= w[p[k]] /\ w[p[k]] \in Int
      BY <1>1, <1>4, <2>5 DEF m
    <3>2. QED
      BY <1>5, <2>1, <2>2, <3>1
  <2>6. QED
    BY <1>1, <2>3, <2>4, <2>5
<1>7. above \subseteq {q[k] : k \in 1 .. h}
  <2>1. SUFFICES ASSUME NEW i \in 1 .. n, w[i] > m PROVE \E k \in 1 .. h : q[k] = i
    OBVIOUS
  <2>2. PICK k \in 1 .. n : p[k] = i
    BY <1>4
  <2>3. CASE k < h + 1
    <3>1. w[p[k]] <= m /\ w[p[k]] \in Int
      BY <1>1, <1>4, <2>3 DEF m
    <3>2. QED
      BY <1>5, <2>1, <2>2, <3>1
  <2>4. CASE k = h + 1
    <3>1. w[i] = m
      BY <2>2, <2>4 DEF m
    <3>2. QED
      BY <1>5, <2>1, <3>1
  <2>5. CASE k > h + 1
    <3>1. k - (h + 1) \in 1 .. h /\ h + 1 + (k - (h + 1)) = k
      BY <1>1, <2>5
    <3>2. q[k - (h + 1)] = p[k]
      BY <3>1
    <3>3. QED
      BY <2>2, <3>1, <3>2
  <2>6. QED
    BY <1>1, <2>3, <2>4, <2>5
<1> HIDE DEF below, above, q
<1>8. /\ IsFiniteSet(below) /\ Cardinality(below) <= h
      /\ IsFiniteSet(above) /\ Cardinality(above) <= h
  BY <1>1, <1>6, <1>7, CoveredBound
<1>9. Cardinality(below) \in Nat /\ Cardinality(above) \in Nat
  BY <1>8, FS_CardinalityType
<1>10. 2 * Cardinality(below) < n /\ 2 * Cardinality(above) < n
  BY <1>1, <1>8, <1>9
<1>11. IsMedian(m, n, w)
  BY <1>5, <1>10 DEF IsMedian, below, above
<1>12. QED
  BY <1>3, <1>11 DEF h

LEMMA MedianUnique ==
  ASSUME NEW n \in Nat, NEW w \in Seq(Int), Len(w) = n, NEW a, IsMedian(a, n, w),
         NEW b, IsMedian(b, n, w)
  PROVE  a = b
<1> DEFINE below(m) == {i \in 1 .. n : w[i] < m}
           above(m) == {i \in 1 .. n : w[i] > m}
<1>1. IsFiniteSet(1 .. n) /\ Cardinality(1 .. n) = n
  <2>1. 1 \in Int /\ n \in Int
    OBVIOUS
  <2>2. IsFiniteSet(1 .. n) /\ Cardinality(1 .. n) = IF 1 > n THEN 0 ELSE n - 1 + 1
    BY <2>1, FS_Interval
  <2>3. QED
    BY <2>2
<1>2. \A i \in 1 .. n : w[i] \in Int
  OBVIOUS
<1>3. ASSUME NEW x \in Int, NEW y \in Int, x < y,
             2 * Cardinality(below(y)) < n, 2 * Cardinality(above(x)) < n
      PROVE  FALSE
  <2> DEFINE A == below(y)
             B == above(x)
  <2>1. A \cup B = 1 .. n /\ A \in SUBSET (1 .. n) /\ B \in SUBSET (1 .. n)
        /\ A \cap B \in SUBSET (1 .. n)
    BY <1>2, <1>3
  <2>2. 2 * Cardinality(A) < n /\ 2 * Cardinality(B) < n
    BY <1>3
  <2> HIDE DEF A, B
  <2>3. IsFiniteSet(A) /\ IsFiniteSet(B) /\ IsFiniteSet(A \cap B)
    BY <1>1, <2>1, FS_Subset
  <2>4. Cardinality(A \cup B) = Cardinality(A) + Cardinality(B) - Cardinality(A \cap B)
    BY <2>3, FS_Union
  <2>5. Cardinality(A) \in Nat /\ Cardinality(B) \in Nat /\ Cardinality(A \cap B) \in Nat
    BY <2>3, FS_CardinalityType
  <2>6. n = Cardinality(A) + Cardinality(B) - Cardinality(A \cap B)
    BY <1>1, <2>1, <2>4
  <2>7. QED
    BY <2>2, <2>5, <2>6
<1>4. a \in Int /\ b \in Int
  BY <1>2 DEF IsMedian
<1>5. /\ 2 * Cardinality(below(a)) < n /\ 2 * Cardinality(above(a)) < n
      /\ 2 * Cardinality(below(b)) < n /\ 2 * Cardinality(above(b)) < n
  BY DEF IsMedian
<1> HIDE DEF below, above
<1>6. QED
  BY <1>3, <1>4, <1>5

LEMMA SameCardinality == \A T : WF!Cardinality(T) = Cardinality(T)
BY DEF WF!Cardinality, Cardinality

LEMMA MedianFound ==
  ASSUME NEW n \in Nat, NEW v \in Int, NEW s \in Seq(Int), NEW m, IsMedian(m, n, Padded(n, v, s))
  PROVE  WF!MedianOf(n, v, s) = m
<1> DEFINE w == Padded(n, v, s)
           P(x) == /\ 2 * WF!Cardinality({i \in 1 .. n : w[i] < x}) < n
                   /\ 2 * WF!Cardinality({i \in 1 .. n : w[i] > x}) < n
           o == CHOOSE x \in {w[i] : i \in 1 .. n} : P(x)
<1>1. WF!MedianOf(n, v, s) = o
  BY DEF WF!MedianOf, Padded, Padding
<1>2. w \in Seq(Int) /\ Len(w) = n
  <2>1. IsPadded(n, Int, v, s)
    BY PaddedFacts
  <2>2. QED
    BY <2>1 DEF IsPadded
<1>3. IsMedian(m, n, w)
  OBVIOUS
<1> HIDE DEF w
<1>4. m \in {w[i] : i \in 1 .. n} /\ P(m)
  BY <1>3, SameCardinality DEF IsMedian
<1>5. o \in {w[i] : i \in 1 .. n} /\ P(o)
  <2> HIDE DEF P
  <2>1. QED
    BY <1>4
<1> HIDE DEF o
<1>6. IsMedian(o, n, w)
  BY <1>5, SameCardinality DEF IsMedian
<1>7. QED
  BY <1>1, <1>2, <1>3, <1>6, MedianUnique

\* median_filter: the window, and the output its median.
Medians(n, f, v, s) ==
  Ring(n, f.window, Padded(n, v, s)) /\ f.output = WF!MedianOf(n, v, s)

LEMMA MedianSet ==
  ASSUME NEW n \in Nat \ {0}, NEW f, IsRecord(f.window), NEW v \in Int
  PROVE  Medians(n, WF!median_set_output(n, f, v), v, <<>>)
<1> DEFINE w == [i \in 1 .. n |-> v]
           g == WF!median_set_output(n, f, v)
<1>1. Ring(n, WF!CB(n)!fill(f.window, v), w)
  BY RingFilled
<1>2. g.window = WF!CB(n)!fill(f.window, v) /\ g.output = v
  BY DEF WF!median_set_output
<1>3. Padded(n, v, <<>>) = w
  <2>1. n \in Nat
    OBVIOUS
  <2>2. QED
    BY <2>1, PaddedEmpty
<1>4. IsMedian(v, n, w)
  <2>1. \A i \in 1 .. n : w[i] = v
    OBVIOUS
  <2>2. {i \in 1 .. n : w[i] < v} = {} /\ {i \in 1 .. n : w[i] > v} = {} /\ 1 \in 1 .. n
    BY <2>1
  <2>3. v \in {w[i] : i \in 1 .. n}
    BY <2>1, <2>2
  <2> HIDE DEF w
  <2>4. 2 * Cardinality({}) < n
    BY FS_EmptySet
  <2>5. QED
    BY <2>2, <2>3, <2>4 DEF IsMedian
<1>5. WF!MedianOf(n, v, <<>>) = v
  <2> DEFINE e == <<>>
  <2>1. e \in Seq(Int) /\ n \in Nat
    OBVIOUS
  <2>2. IsMedian(v, n, Padded(n, v, e))
    BY <1>3, <1>4
  <2> HIDE DEF e
  <2>3. WF!MedianOf(n, v, e) = v
    BY <2>1, <2>2, MedianFound
  <2>4. QED
    BY <2>3 DEF e
<1> HIDE DEF w, g
<1>6. QED
  BY <1>1, <1>2, <1>3, <1>5 DEF Medians, g

LEMMA MedianFresh ==
  ASSUME NEW n \in Nat \ {0}, NEW v \in Int
  PROVE  Medians(n, WF!median_filter(n, v), v, <<>>)
<1> DEFINE f == [window |-> WF!CB(n)!Fresh]
<1>1. IsRecord(f.window)
  BY FreshRecord
<1>2. WF!median_filter(n, v) = WF!median_set_output(n, f, v)
  BY DEF WF!median_filter
<1> HIDE DEF f
<1>3. QED
  BY <1>1, <1>2, MedianSet

\* Only the window counts, not the output before.
LEMMA MedianPushed ==
  ASSUME NEW n \in Nat \ {0}, IsOdd(n), NEW s \in Seq(Int), NEW f, NEW v \in Int,
         Ring(n, f.window, Padded(n, v, s)), NEW x \in Int
  PROVE  /\ Medians(n, WF!median_push(n, f, x), v, Append(s, x))
         /\ WF!median_push(n, f, x)
              = [window |-> WF!median_push(n, f, x).window,
                 output |-> WF!MedianOf(n, v, Append(s, x))]
<1> DEFINE w == Padded(n, v, s)
           t == Append(s, x)
           u == Padded(n, v, t)
           d == WF!CB(n)!write_back_with(f.window, x)
           g == WF!median_push(n, f, x)
<1>0. n \in Nat
  OBVIOUS
<1>1. w \in Seq(Int) /\ Len(w) = n
  <2>1. IsPadded(n, Int, v, s)
    BY <1>0, PaddedFacts
  <2>2. QED
    BY <2>1 DEF IsPadded
<1>2. t \in Seq(Int)
  OBVIOUS
<1> HIDE DEF w, t, u
<1>3. u = Slid(n, w, x)
  <2>0. s \in Seq(Int) /\ n \in Nat \ {0} /\ v \in Int /\ x \in Int
    OBVIOUS
  <2>1. Padded(n, v, Append(s, x)) = Append(Tail(Padded(n, v, s)), x)
    BY ONLY <2>0, PaddedAppend
  <2>2. u = Append(Tail(w), x)
    BY <2>1 DEF u, t, w
  <2>3. QED
    BY <1>1, <2>2 DEF Slid
<1>4. u \in Seq(Int) /\ Len(u) = n
  <2>1. IsPadded(n, Int, v, t)
    BY <1>0, <1>2, PaddedFacts
  <2>2. QED
    BY <2>1 DEF IsPadded, u
<1>5. Ring(n, d, u)
  <2>1. Ring(n, f.window, w)
    BY DEF w
  <2>2. QED
    BY <1>1, <1>3, <2>1, RingPushed
<1>6. WF!CB(n)!Content(d) = u
  <2> HIDE DEF d
  <2>1. QED
    BY <1>4, <1>5, RingRead
<1> DEFINE m == WF!Sorted(u)[n \div 2 + 1]
<1>7. g = [window |-> d, output |-> m]
  BY <1>6 DEF WF!median_push
<1>8. IsMedian(m, n, u)
  BY <1>0, <1>4, MiddleIsMedian
<1> HIDE DEF m
<1>9. WF!MedianOf(n, v, t) = m
  BY <1>0, <1>2, <1>8, MedianFound DEF u
<1> HIDE DEF g, d
<1>10. g.window = d /\ g.output = m /\ g = [window |-> g.window, output |-> m]
  BY <1>7
<1>11. QED
  BY <1>5, <1>9, <1>10 DEF Medians, g, t, u

\* What a filter has seen, and a value in its range.
SeenOf(v, s) == {v} \cup {s[i] : i \in 1 .. Len(s)}
Within(y, v, s) == \E low, high \in SeenOf(v, s) : low <= y /\ y <= high

LEMMA SeenFacts ==
  ASSUME NEW v \in Int, NEW s \in Seq(Int)
  PROVE  /\ SeenOf(v, s) \subseteq Int
         /\ \A y \in SeenOf(v, s) : Within(y, v, s)
         /\ \A x \in Int : SeenOf(v, Append(s, x)) = SeenOf(v, s) \cup {x}
<1>1. SeenOf(v, s) \subseteq Int
  BY DEF SeenOf
<1>2. ASSUME NEW y \in SeenOf(v, s) PROVE Within(y, v, s)
  <2>1. y <= y
    BY <1>1
  <2>2. QED
    BY <2>1 DEF Within
<1>3. ASSUME NEW x \in Int PROVE SeenOf(v, Append(s, x)) = SeenOf(v, s) \cup {x}
  <2> DEFINE t == Append(s, x)
             n == Len(s)
  <2>1. n \in Nat /\ Len(t) = n + 1 /\ t[n + 1] = x /\ \A i \in 1 .. n : t[i] = s[i]
    OBVIOUS
  <2> HIDE DEF t, n
  <2>2. \A i \in 1 .. n + 1 : i = n + 1 \/ i \in 1 .. n
    BY <2>1
  <2>3. n + 1 \in 1 .. n + 1 /\ \A i \in 1 .. n : i \in 1 .. n + 1
    BY <2>1
  <2>4. {t[i] : i \in 1 .. n + 1} = {s[i] : i \in 1 .. n} \cup {x}
    BY <2>1, <2>2, <2>3
  <2>5. QED
    BY <2>1, <2>4 DEF SeenOf, t, n
<1>4. QED
  BY <1>1, <1>2, <1>3

LEMMA MedianSeen ==
  ASSUME NEW n \in Nat, IsOdd(n), NEW v \in Int, NEW s \in Seq(Int)
  PROVE  WF!MedianOf(n, v, s) \in SeenOf(v, s)
<1> DEFINE w == Padded(n, v, s)
           m == WF!Sorted(w)[n \div 2 + 1]
           t == Padding(n, v, s)
           l == Len(s)
<1>1. /\ Len(t) = n + l /\ l \in Nat
      /\ \A i \in 1 .. n : t[i] = v
      /\ \A i \in 1 .. l : t[n + i] = s[i]
      /\ w \in Seq(Int) /\ Len(w) = n
      /\ \A i \in 1 .. n : w[i] = t[l + i]
  <2>1. IsPadded(n, Int, v, s)
    BY PaddedFacts
  <2>2. QED
    BY <2>1 DEF IsPadded
<1> HIDE DEF w, t
<1>2. IsMedian(m, n, w)
  BY <1>1, MiddleIsMedian
<1> HIDE DEF m
<1>3. WF!MedianOf(n, v, s) = m
  BY <1>2, MedianFound DEF w
<1>4. PICK i \in 1 .. n : m = w[i]
  BY <1>2 DEF IsMedian
<1>5. CASE l + i <= n
  <2>1. l + i \in 1 .. n
    BY <1>1, <1>5
  <2>2. m = v
    BY <1>1, <1>4, <2>1
  <2>3. QED
    BY <1>3, <2>2 DEF SeenOf
<1>6. CASE l + i > n
  <2>1. l + i - n \in 1 .. l /\ n + (l + i - n) = l + i
    BY <1>1, <1>6
  <2>2. m = s[l + i - n]
    BY <1>1, <1>4, <2>1
  <2>3. QED
    BY <1>3, <2>1, <2>2 DEF SeenOf
<1>7. QED
  BY <1>1, <1>5, <1>6

\* An average is no less than the least sample, nor more than the largest.
LEMMA QuotientBounds ==
  ASSUME NEW k \in Nat \ {0}, NEW a \in Int, NEW low \in Int, NEW high \in Int,
         k * low <= a, a <= k * high
  PROVE  low <= a \div k /\ a \div k <= high
<1> DEFINE q == a \div k
           r == a % k
<1>1. q \in Int /\ r \in 0 .. k - 1 /\ a = k * q + r
  BY Z3
<1> HIDE DEF q, r
<1>2. k * q \in Int /\ k * low \in Int /\ k * high \in Int
  BY <1>1, Z3
<1>3. CASE q < low
  <2>1. k * (q + 1) <= k * low
    BY <1>1, <1>3, Z3
  <2>2. k * (q + 1) = k * q + k
    BY <1>1, Z3
  <2>3. QED
    BY <1>1, <1>2, <2>1, <2>2
<1>4. CASE q > high
  <2>1. k * (high + 1) <= k * q
    BY <1>1, <1>4, Z3
  <2>2. k * (high + 1) = k * high + k
    BY Z3
  <2>3. QED
    BY <1>1, <1>2, <2>1, <2>2
<1>5. QED
  BY <1>1, <1>3, <1>4 DEF q

LEMMA RangeOf ==
  ASSUME NEW n \in Nat, NEW s \in [1 .. n + 1 -> Int]
  PROVE  \E i, j \in 1 .. n + 1 : \A k \in 1 .. n + 1 : s[i] <= s[k] /\ s[k] <= s[j]
<1> DEFINE u == [k \in 1 .. n + 1 |-> -s[k]]
<1>1. PICK j \in 1 .. n + 1 : \A k \in 1 .. n + 1 : s[k] <= s[j]
  BY Largest
<1>2. u \in [1 .. n + 1 -> Int] /\ \A k \in 1 .. n + 1 : u[k] = -s[k] /\ s[k] \in Int
  OBVIOUS
<1> HIDE DEF u
<1>3. PICK i \in 1 .. n + 1 : \A k \in 1 .. n + 1 : u[k] <= u[i]
  BY <1>2, Largest
<1>4. \A k \in 1 .. n + 1 : s[i] <= s[k]
  BY <1>2, <1>3
<1>5. QED
  BY <1>1, <1>4

LEMMA AverageWithin ==
  ASSUME NEW n \in Nat \ {0}, NEW v \in Int, NEW s \in Seq(Int)
  PROVE  Within(WF!AverageOf(n, v, s), v, s)
<1>1. CASE s = <<>>
  <2>1. WF!AverageOf(n, v, s) = v /\ v \in SeenOf(v, s)
    BY <1>1 DEF WF!AverageOf, SeenOf
  <2>2. QED
    BY <2>1, SeenFacts
<1>2. CASE s # <<>>
  <2> DEFINE w == Recent(n, s)
             k == IF Len(s) < n THEN Len(s) ELSE n
  <2>1. Len(s) \in Nat /\ Len(s) >= 1
    BY <1>2
  <2>2. WF!AverageOf(n, v, s) = WF!SumOf(w) \div Len(w)
    BY <1>2 DEF WF!AverageOf, Recent
  <2>3. w \in Seq(Int) /\ Len(w) = k /\ \A i \in 1 .. k : w[i] = s[Len(s) - k + i]
    <3>1. n \in Nat
      OBVIOUS
    <3>2. QED
      BY <3>1, RecentFacts
  <2>4. k \in Nat \ {0} /\ k <= Len(s)
    BY <2>1
  <2> HIDE DEF w, k
  <2>5. PICK i, j \in 1 .. Len(s) : \A l \in 1 .. Len(s) : s[i] <= s[l] /\ s[l] <= s[j]
    <3> DEFINE m == Len(s) - 1
    <3>1. m \in Nat /\ m + 1 = Len(s)
      BY <2>1
    <3>2. s \in [1 .. Len(s) -> Int]
      OBVIOUS
    <3> HIDE DEF m
    <3>3. s \in [1 .. m + 1 -> Int]
      BY <3>1, <3>2
    <3>4. QED
      BY <3>1, <3>3, RangeOf
  <2>6. s[i] \in Int /\ s[j] \in Int /\ s[i] \in SeenOf(v, s) /\ s[j] \in SeenOf(v, s)
    BY <2>5 DEF SeenOf
  <2>7. \A l \in 1 .. k : s[i] <= w[l] /\ w[l] <= s[j]
    <3>1. \A l \in 1 .. k : Len(s) - k + l \in 1 .. Len(s)
      BY <2>1, <2>4
    <3>2. QED
      BY <2>3, <2>5, <3>1
  <2> DEFINE a == s[i]
             b == s[j]
  <2>8. a \in Int /\ b \in Int /\ \A l \in 1 .. Len(w) : a <= w[l] /\ w[l] <= b
    BY <2>3, <2>6, <2>7
  <2> HIDE DEF a, b
  <2>9. k * a <= WF!SumOf(w) /\ WF!SumOf(w) <= k * b /\ WF!SumOf(w) \in Int
    <3>1. Len(w) * a <= WF!SumOf(w) /\ WF!SumOf(w) <= Len(w) * b
      BY <2>3, <2>8, SumBounds
    <3>2. QED
      BY <2>3, <3>1, SumType
  <2>10. a <= WF!SumOf(w) \div k /\ WF!SumOf(w) \div k <= b
    BY <2>4, <2>8, <2>9, QuotientBounds
  <2>11. QED
    BY <2>2, <2>3, <2>6, <2>10 DEF Within, a, b
<1>3. QED
  BY <1>1, <1>2

\* The median of three.
LEMMA EnoughSamples ==
  ASSUME NEW n \in Nat, NEW v \in Int, NEW s \in Seq(Int), n <= Len(s)
  PROVE  Padded(n, v, s) = WF!LastOf(n, s)
<1> DEFINE w == Padded(n, v, s)
           u == WF!LastOf(n, s)
           t == Padding(n, v, s)
           l == Len(s)
<1>1. l \in Nat /\ n \in 0 .. l
  OBVIOUS
<1>2. /\ \A i \in 1 .. l : t[n + i] = s[i]
      /\ w \in Seq(Int) /\ Len(w) = n
      /\ \A i \in 1 .. n : w[i] = t[l + i]
  <2>1. IsPadded(n, Int, v, s)
    BY PaddedFacts
  <2>2. QED
    BY <2>1 DEF IsPadded
<1>3. u \in Seq(Int) /\ Len(u) = n /\ \A i \in 1 .. n : u[i] = s[l - n + i]
  BY <1>1, LastOfFacts
<1> HIDE DEF w, u, t, l
<1>4. ASSUME NEW i \in 1 .. n PROVE w[i] = u[i]
  <2>1. l - n + i \in 1 .. l /\ n + (l - n + i) = l + i
    BY <1>1
  <2>2. t[n + (l - n + i)] = s[l - n + i]
    BY <1>2, <2>1
  <2>3. QED
    BY <1>2, <1>3, <2>1, <2>2
<1>5. w = u
  <2>1. \A i \in 1 .. Len(w) : w[i] = u[i]
    BY <1>2, <1>4
  <2>2. w \in Seq(Int) /\ u \in Seq(Int) /\ Len(w) = Len(u)
    BY <1>2, <1>3
  <2>3. QED
    BY <2>1, <2>2
<1>6. QED
  BY <1>5 DEF w, u

LEMMA MiddleOfThree ==
  ASSUME NEW w \in [1 .. 3 -> Int], NEW i \in 1 .. 3, NEW j \in 1 .. 3, NEW k \in 1 .. 3,
         i # j, j # k, i # k, w[i] <= w[j], w[j] <= w[k]
  PROVE  IsMedian(w[j], 3, w)
<1> DEFINE below == {x \in 1 .. 3 : w[x] < w[j]}
           above == {x \in 1 .. 3 : w[x] > w[j]}
           f == [x \in 1 .. 1 |-> i]
           g == [x \in 1 .. 1 |-> k]
<1>1. \A x \in 1 .. 3 : (x = i \/ x = j \/ x = k) /\ w[x] \in Int
  <2>1. \A x \in 1 .. 3 : w[x] \in Int
    OBVIOUS
  <2>2. \A x \in 1 .. 3 : x = 1 \/ x = 2 \/ x = 3
    OBVIOUS
  <2>3. QED
    BY <2>1, <2>2
<1>2. f[1] = i /\ g[1] = k /\ 1 \in 1 .. 1
  OBVIOUS
<1> HIDE DEF f, g
<1>3. below \subseteq {f[x] : x \in 1 .. 1} /\ above \subseteq {g[x] : x \in 1 .. 1}
  BY <1>1, <1>2
<1> HIDE DEF below, above
<1>4. 1 \in Nat
  OBVIOUS
<1>5. /\ IsFiniteSet(below) /\ Cardinality(below) <= 1
      /\ IsFiniteSet(above) /\ Cardinality(above) <= 1
  BY <1>3, <1>4, CoveredBound
<1>6. Cardinality(below) \in Nat /\ Cardinality(above) \in Nat
  BY <1>5, FS_CardinalityType
<1>7. 2 * Cardinality(below) < 3 /\ 2 * Cardinality(above) < 3
  BY <1>5, <1>6
<1>8. QED
  BY <1>7 DEF IsMedian, below, above

LEMMA ThreeExchanges ==
  ASSUME NEW a \in Int, NEW b \in Int, NEW c \in Int
  PROVE  LET m == WF!median3(a, b, c) IN
         \/ m = a /\ ((b <= a /\ a <= c) \/ (c <= a /\ a <= b))
         \/ m = b /\ ((a <= b /\ b <= c) \/ (c <= b /\ b <= a))
         \/ m = c /\ ((a <= c /\ c <= b) \/ (b <= c /\ c <= a))
<1> DEFINE p == IF a > b THEN b ELSE a
           q == IF a > b THEN a ELSE b
           r == IF q > c THEN c ELSE q
<1>1. WF!Ordered(<<a, b>>)[1] = p /\ WF!Ordered(<<a, b>>)[2] = q
  BY DEF WF!Ordered
<1>2. WF!Ordered(<<q, c>>)[1] = r
  BY DEF WF!Ordered
<1>3. WF!Ordered(<<p, r>>)[2] = IF p > r THEN p ELSE r
  BY DEF WF!Ordered
<1>4. WF!median3(a, b, c) = IF p > r THEN p ELSE r
  <2> HIDE DEF p, q, r
  <2>1. QED
    BY <1>1, <1>2, <1>3 DEF WF!median3
<1>5. QED
  BY <1>4

LEMMA MedianOfThree ==
  ASSUME NEW w \in Seq(Int), Len(w) = 3
  PROVE  IsMedian(WF!median3(w[1], w[2], w[3]), 3, w)
<1>1. w[1] \in Int /\ w[2] \in Int /\ w[3] \in Int
  OBVIOUS
<1>2. \E i, j, k \in 1 .. 3 : /\ i # j /\ j # k /\ i # k /\ w[i] <= w[j] /\ w[j] <= w[k]
                              /\ WF!median3(w[1], w[2], w[3]) = w[j]
  <2> DEFINE m == WF!median3(w[1], w[2], w[3])
             Mid(i, j, k) == w[i] <= w[j] /\ w[j] <= w[k] /\ m = w[j]
  <2>1. \/ Mid(1, 2, 3) \/ Mid(1, 3, 2) \/ Mid(2, 1, 3) \/ Mid(2, 3, 1) \/ Mid(3, 1, 2)
        \/ Mid(3, 2, 1)
    BY <1>1, ThreeExchanges
  <2> HIDE DEF m
  <2>2. 1 \in 1 .. 3 /\ 2 \in 1 .. 3 /\ 3 \in 1 .. 3
    OBVIOUS
  <2>3. QED
    BY <2>1, <2>2 DEF m
<1>3. w \in [1 .. 3 -> Int]
  OBVIOUS
<1>4. QED
  BY <1>2, <1>3, MiddleOfThree

\* A smoothed output goes towards its target, and not beyond.
LEMMA Smooth ==
  ASSUME NEW k \in 0 .. 2, NEW a \in Int, NEW x \in Int
  PROVE  LET y == a + (k * (x - a)) \div 2 IN
         y \in Int /\ ((a <= y /\ y <= x) \/ (x <= y /\ y <= a))
<1>1. CASE k = 0
  BY <1>1
<1>2. CASE k = 1
  BY <1>2
<1>3. CASE k = 2
  BY <1>3
<1>4. QED
  BY <1>1, <1>2, <1>3

LEMMA SmoothWithin ==
  ASSUME NEW v \in Int, NEW s \in Seq(Int), NEW x \in Int, NEW k \in 0 .. 2, NEW a \in Int,
         Within(a, v, s), NEW z \in SeenOf(v, Append(s, x))
  PROVE  /\ a + (k * (z - a)) \div 2 \in Int
         /\ Within(a + (k * (z - a)) \div 2, v, Append(s, x))
<1> DEFINE y == a + (k * (z - a)) \div 2
           t == Append(s, x)
<1>1. t \in Seq(Int) /\ SeenOf(v, t) = SeenOf(v, s) \cup {x} /\ SeenOf(v, s) \subseteq Int
  BY SeenFacts
<1>2. SeenOf(v, t) \subseteq Int /\ z \in SeenOf(v, t)
  BY <1>1
<1>3. z \in Int
  BY <1>2
<1>4. y \in Int /\ ((a <= y /\ y <= z) \/ (z <= y /\ y <= a))
  BY <1>3, Smooth
<1>5. PICK low \in SeenOf(v, s), high \in SeenOf(v, s) : low <= a /\ a <= high
  BY DEF Within
<1>6. low \in Int /\ high \in Int /\ low \in SeenOf(v, t) /\ high \in SeenOf(v, t)
  BY <1>1, <1>5
<1> HIDE DEF y, t
<1>7. CASE a <= y /\ y <= z
  <2>1. low <= y /\ y <= z
    BY <1>3, <1>4, <1>5, <1>6, <1>7
  <2>2. Within(y, v, t)
    BY <1>2, <1>6, <2>1 DEF Within
  <2>3. QED
    BY <1>4, <2>2 DEF y, t
<1>8. CASE z <= y /\ y <= a
  <2>1. z <= y /\ y <= high
    BY <1>3, <1>4, <1>5, <1>6, <1>8
  <2>2. Within(y, v, t)
    BY <1>2, <1>6, <2>1 DEF Within
  <2>3. QED
    BY <1>4, <2>2 DEF y, t
<1>9. QED
  BY <1>4, <1>7, <1>8

\* What a filter of each class holds after the samples s, its output last set to v.
FilterHolds(c, f, k, v, s) ==
  /\ c \in {"median", "moving_average", "exponential", "exponential_median", "passthrough"}
  /\ k \in 0 .. 2 /\ v \in Int /\ s \in Seq(Int)
  /\ c \in {"median", "exponential_median"} => IsOdd(Window)
  /\ c = "median" => Medians(Window, f, v, s)
  /\ c = "moving_average" => Averages(Window, f, v, s)
  /\ c = "exponential_median" => Ring(Window, f.window, Padded(Window, v, s))
  /\ c \in {"exponential", "exponential_median"} => f.output \in Int /\ Within(f.output, v, s)
  /\ c = "passthrough" => f.output = IF s = <<>> THEN v ELSE s[Len(s)]

FiltersInv == FilterHolds(class, filter, factor, start, samples)

LEMMA FilterConstants ==
  /\ Window \in Nat \ {0} /\ Window \in Nat
  /\ Filters!Samples \subseteq Int
<1>1. Window \in Nat \ {0} /\ Window \in Nat
  BY FilterAssumption
<1>2. ASSUME NEW i \in Inputs PROVE i * 2^MaxPushes \in Int
  <2>1. i \in Int /\ MaxPushes \in Nat
    BY FilterAssumption
  <2>2. 2^MaxPushes \in Int
    BY <2>1
  <2>3. QED
    BY <2>1, <2>2, Z3
<1>3. Filters!Samples \subseteq Int
  BY <1>2 DEF Filters!Samples, Filters!Scaled
<1>4. QED
  BY <1>1, <1>3

\* The operators that the filters use are those above.
LEMMA FilterOperators ==
  /\ \A n, v : /\ Filters!WF!median_filter(n, v) = WF!median_filter(n, v)
               /\ Filters!WF!moving_average_filter(n, v) = WF!moving_average_filter(n, v)
  /\ \A n, f, v : /\ Filters!WF!median_set_output(n, f, v) = WF!median_set_output(n, f, v)
                  /\ Filters!WF!average_set_output(n, f, v) = WF!average_set_output(n, f, v)
                  /\ Filters!WF!average_push(n, f, v) = WF!average_push(n, f, v)
                  /\ Filters!WF!median_push(n, f, v) = WF!median_push(n, f, v)
  /\ \A n, v, s : /\ Filters!WF!AverageOf(n, v, s) = WF!AverageOf(n, v, s)
                  /\ Filters!WF!MedianOf(n, v, s) = WF!MedianOf(n, v, s)
  /\ \A a, b, c : Filters!WF!median3(a, b, c) = WF!median3(a, b, c)
  /\ \A n, s : Filters!WF!LastOf(n, s) = WF!LastOf(n, s)
<1>1. /\ \A n, v : /\ Filters!WF!median_filter(n, v) = WF!median_filter(n, v)
                   /\ Filters!WF!moving_average_filter(n, v) = WF!moving_average_filter(n, v)
      /\ \A n, f, v : /\ Filters!WF!median_set_output(n, f, v) = WF!median_set_output(n, f, v)
                      /\ Filters!WF!average_set_output(n, f, v) = WF!average_set_output(n, f, v)
  BY DEF Filters!WF!median_filter, WF!median_filter, Filters!WF!moving_average_filter,
         WF!moving_average_filter, Filters!WF!median_set_output, WF!median_set_output,
         Filters!WF!average_set_output, WF!average_set_output, Filters!WF!CB!Fresh, WF!CB!Fresh,
         Filters!WF!CB!Slots, WF!CB!Slots, Filters!WF!CB!clear, WF!CB!clear,
         Filters!WF!CB!fill, WF!CB!fill, Filters!WF!CB!DestroyAll, WF!CB!DestroyAll,
         Filters!WF!CB!Live, WF!CB!Live, Filters!WF!CB!slot_ptr, WF!CB!slot_ptr,
         Filters!WF!CB!index_of, WF!CB!index_of
<1>2. /\ \A n, f, v : Filters!WF!average_push(n, f, v) = WF!average_push(n, f, v)
      /\ \A n, f, v : Filters!WF!median_push(n, f, v) = WF!median_push(n, f, v)
  <2>1. /\ \A n, c, v : Filters!WF!CB(n)!write_back_with(c, v) = WF!CB(n)!write_back_with(c, v)
        /\ \A n, c : Filters!WF!CB(n)!full(c) = WF!CB(n)!full(c)
        /\ \A n, c : Filters!WF!CB(n)!front(c) = WF!CB(n)!front(c)
    BY DEF Filters!WF!CB!write_back_with, WF!CB!write_back_with, Filters!WF!CB!full, WF!CB!full,
           Filters!WF!CB!front, WF!CB!front, Filters!WF!CB!slot_ptr, WF!CB!slot_ptr,
           Filters!WF!CB!index_of, WF!CB!index_of, Filters!WF!CB!construct_at,
           WF!CB!construct_at, Filters!WF!CB!destroy_slot, WF!CB!destroy_slot,
           Filters!WF!CB!Live, WF!CB!Live
  <2>2. \A n, c : Filters!WF!CB(n)!Content(c) = WF!CB(n)!Content(c)
    BY DEF Filters!WF!CB!Content, WF!CB!Content, Filters!WF!CB!at, WF!CB!at,
           Filters!WF!CB!slot_ptr, WF!CB!slot_ptr, Filters!WF!CB!index_of, WF!CB!index_of
  <2>3. \A s : Filters!WF!Sorted(s) = WF!Sorted(s)
    BY DEF Filters!WF!Sorted, WF!Sorted
  <2>4. QED
    BY <2>1, <2>2, <2>3 DEF Filters!WF!average_push, WF!average_push, Filters!WF!median_push,
                            WF!median_push
<1>3. \A n, s : Filters!WF!LastOf(n, s) = WF!LastOf(n, s)
  BY DEF Filters!WF!LastOf, WF!LastOf
<1>4. \A n, v, s : Filters!WF!AverageOf(n, v, s) = WF!AverageOf(n, v, s)
  BY DEF Filters!WF!AverageOf, WF!AverageOf, Filters!WF!LastOf, WF!LastOf, Filters!WF!SumOf,
         WF!SumOf
<1>5. \A n, v, s : Filters!WF!MedianOf(n, v, s) = WF!MedianOf(n, v, s)
  BY DEF Filters!WF!MedianOf, WF!MedianOf, Filters!WF!LastOf, WF!LastOf,
         Filters!WF!Cardinality, WF!Cardinality
<1>6. \A a, b, c : Filters!WF!median3(a, b, c) = WF!median3(a, b, c)
  BY DEF Filters!WF!median3, WF!median3, Filters!WF!Ordered, WF!Ordered
<1>7. QED
  BY <1>1, <1>2, <1>3, <1>4, <1>5, <1>6, Zenon

LEMMA ConstructedHolds ==
  ASSUME NEW c \in {"median", "moving_average", "exponential", "exponential_median", "passthrough"},
         NEW k \in 0 .. 2, NEW v \in Int, NEW f,
         c \in {"median", "exponential_median"} => IsOdd(Window),
         c = "median" => f = WF!median_filter(Window, v),
         c = "moving_average" => f = WF!moving_average_filter(Window, v),
         c = "exponential" => f = [output |-> v],
         c = "exponential_median" => f = WF!median_filter(Window, v),
         c = "passthrough" => f = [output |-> v]
  PROVE  FilterHolds(c, f, k, v, <<>>)
<1>1. /\ Medians(Window, WF!median_filter(Window, v), v, <<>>)
      /\ Averages(Window, WF!moving_average_filter(Window, v), v, <<>>)
  BY FilterConstants, MedianFresh, AverageFresh
<1>2. <<>> \in Seq(Int)
  OBVIOUS
<1>3. Within(v, v, <<>>)
  <2>1. v \in SeenOf(v, <<>>) /\ v <= v
    BY DEF SeenOf
  <2>2. QED
    BY <2>1 DEF Within
<1>4. WF!median_filter(Window, v).output = v
  BY DEF WF!median_filter, WF!median_set_output
<1>5. c = "exponential" => f.output = v
  OBVIOUS
<1>6. c = "passthrough" => f.output = v
  OBVIOUS
<1>7. c = "median" => Medians(Window, f, v, <<>>)
  BY <1>1
<1>8. c = "moving_average" => Averages(Window, f, v, <<>>)
  BY <1>1
<1>9. c = "exponential_median" => f.output = v /\ Ring(Window, f.window, Padded(Window, v, <<>>))
  BY <1>1, <1>4 DEF Medians
<1>10. QED
  BY <1>2, <1>3, <1>5, <1>6, <1>7, <1>8, <1>9 DEF FilterHolds

\* set_output, whatever the filter held.
LEMMA SetHolds ==
  ASSUME NEW c, NEW f, NEW k, NEW v, NEW s, FilterHolds(c, f, k, v, s), c # "passthrough",
         NEW x \in Int, NEW g,
         c = "median" => g = WF!median_set_output(Window, f, x),
         c = "moving_average" => g = WF!average_set_output(Window, f, x),
         c = "exponential" => g = [output |-> x],
         c = "exponential_median" => g = WF!median_set_output(Window, f, x)
  PROVE  FilterHolds(c, g, k, x, <<>>)
<1>1. /\ c \in {"median", "moving_average", "exponential", "exponential_median"}
      /\ k \in 0 .. 2
      /\ c \in {"median", "exponential_median"} => IsOdd(Window)
      /\ c = "median" => Medians(Window, f, v, s)
      /\ c = "moving_average" => Averages(Window, f, v, s)
      /\ c = "exponential_median" => Ring(Window, f.window, Padded(Window, v, s))
  BY DEF FilterHolds
<1>2. <<>> \in Seq(Int)
  OBVIOUS
<1>3. Within(x, x, <<>>)
  <2>1. x \in SeenOf(x, <<>>) /\ x <= x
    BY DEF SeenOf
  <2>2. QED
    BY <2>1 DEF Within
<1>4. WF!median_set_output(Window, f, x).output = x
  BY DEF WF!median_set_output
<1>5. c \in {"median", "exponential_median"} =>
        Medians(Window, WF!median_set_output(Window, f, x), x, <<>>)
  <2>1. SUFFICES ASSUME c \in {"median", "exponential_median"}
                 PROVE  Medians(Window, WF!median_set_output(Window, f, x), x, <<>>)
    OBVIOUS
  <2>2. IsRecord(f.window)
    BY <1>1, <2>1, RingRecord DEF Medians
  <2>3. QED
    BY <2>2, FilterConstants, MedianSet
<1>6. c = "moving_average" => Averages(Window, WF!average_set_output(Window, f, x), x, <<>>)
  <2>1. SUFFICES ASSUME c = "moving_average"
                 PROVE  Averages(Window, WF!average_set_output(Window, f, x), x, <<>>)
    OBVIOUS
  <2>2. IsRecord(f.data)
    BY <1>1, <2>1, RingRecord DEF Averages
  <2>3. QED
    BY <2>2, FilterConstants, AverageSet
<1>7. c = "median" => Medians(Window, g, x, <<>>)
  BY <1>5
<1>8. c = "moving_average" => Averages(Window, g, x, <<>>)
  BY <1>6
<1>9. c = "exponential_median" => g.output = x /\ Ring(Window, g.window, Padded(Window, x, <<>>))
  BY <1>4, <1>5 DEF Medians
<1>10. c = "exponential" => g.output = x
  OBVIOUS
<1>11. QED
  BY <1>1, <1>2, <1>3, <1>7, <1>8, <1>9, <1>10 DEF FilterHolds

LEMMA LastAppended ==
  ASSUME NEW A, NEW s \in Seq(A), NEW x \in A
  PROVE  /\ Append(s, x) \in Seq(A) /\ Append(s, x) # <<>>
         /\ Append(s, x)[Len(Append(s, x))] = x
<1>1. Len(Append(s, x)) = Len(s) + 1 /\ Len(s) \in Nat /\ Append(s, x)[Len(s) + 1] = x
  OBVIOUS
<1>2. Append(s, x) \in Seq(A)
  OBVIOUS
<1>3. QED
  BY <1>1, <1>2

\* push.
LEMMA PushHolds ==
  ASSUME NEW c, NEW f, NEW k, NEW v, NEW s, FilterHolds(c, f, k, v, s), NEW x \in Int, NEW g,
         c = "median" => g = WF!median_push(Window, f, x),
         c = "moving_average" => g = WF!average_push(Window, f, x),
         c = "exponential" => g = [output |-> f.output + (k * (x - f.output)) \div 2],
         c = "exponential_median" =>
           LET h == WF!median_push(Window, f, x)
           IN  g = [h EXCEPT !.output = f.output + (k * (h.output - f.output)) \div 2],
         c = "passthrough" => g = [output |-> x]
  PROVE  FilterHolds(c, g, k, v, Append(s, x))
<1> DEFINE t == Append(s, x)
           m == WF!MedianOf(Window, v, t)
           h == WF!median_push(Window, f, x)
<1>1. /\ c \in {"median", "moving_average", "exponential", "exponential_median", "passthrough"}
      /\ k \in 0 .. 2 /\ v \in Int /\ s \in Seq(Int)
      /\ c \in {"median", "exponential_median"} => IsOdd(Window)
      /\ c = "median" => Medians(Window, f, v, s)
      /\ c = "moving_average" => Averages(Window, f, v, s)
      /\ c = "exponential_median" => Ring(Window, f.window, Padded(Window, v, s))
      /\ c \in {"exponential", "exponential_median"} => f.output \in Int /\ Within(f.output, v, s)
  BY DEF FilterHolds
<1>2. t \in Seq(Int) /\ t # <<>> /\ t[Len(t)] = x
  BY <1>1, LastAppended
<1>3. /\ \A y \in SeenOf(v, s) : Within(y, v, s)
      /\ SeenOf(v, t) = SeenOf(v, s) \cup {x}
  BY <1>1, SeenFacts
<1>4. c = "median" => Medians(Window, g, v, t)
  <2>1. SUFFICES ASSUME c = "median" PROVE Medians(Window, WF!median_push(Window, f, x), v, t)
    OBVIOUS
  <2>2. IsOdd(Window) /\ Ring(Window, f.window, Padded(Window, v, s))
    BY <1>1, <2>1 DEF Medians
  <2>3. QED
    BY <1>1, <2>2, FilterConstants, MedianPushed
<1>5. c = "moving_average" => Averages(Window, g, v, t)
  <2>1. SUFFICES ASSUME c = "moving_average"
                 PROVE  Averages(Window, WF!average_push(Window, f, x), v, t)
    OBVIOUS
  <2>2. Averages(Window, f, v, s)
    BY <1>1, <2>1
  <2>3. QED
    BY <1>1, <2>2, FilterConstants, AveragePushed
<1>6. c = "exponential" => g.output \in Int /\ Within(g.output, v, t)
  <2>1. SUFFICES ASSUME c = "exponential"
                 PROVE  g.output \in Int /\ Within(g.output, v, t)
    OBVIOUS
  <2>2. f.output \in Int /\ Within(f.output, v, s) /\ x \in SeenOf(v, t)
    BY <1>1, <1>3, <2>1
  <2>3. g.output = f.output + (k * (x - f.output)) \div 2
    BY <2>1
  <2> DEFINE a == f.output
             y == a + (k * (x - a)) \div 2
  <2>4. a \in Int /\ Within(a, v, s) /\ g.output = y
    BY <2>2, <2>3
  <2> HIDE DEF a
  <2>5. y \in Int /\ Within(y, v, t)
    BY <1>1, <2>2, <2>4, SmoothWithin
  <2>6. QED
    BY <2>4, <2>5
<1>7. c = "exponential_median" =>
        /\ Ring(Window, g.window, Padded(Window, v, t))
        /\ g.output \in Int /\ Within(g.output, v, t)
  <2>1. SUFFICES ASSUME c = "exponential_median"
                 PROVE  /\ Ring(Window, g.window, Padded(Window, v, t))
                        /\ g.output \in Int /\ Within(g.output, v, t)
    OBVIOUS
  <2>2. /\ f.output \in Int /\ Within(f.output, v, s) /\ IsOdd(Window)
        /\ Ring(Window, f.window, Padded(Window, v, s))
    BY <1>1, <2>1
  <2>3. Medians(Window, h, v, t) /\ h = [window |-> h.window, output |-> m]
    BY <1>1, <2>2, FilterConstants, MedianPushed
  <2>4. m \in SeenOf(v, t)
    BY <1>1, <1>2, <2>2, FilterConstants, MedianSeen
  <2> DEFINE a == f.output
             y == a + (k * (m - a)) \div 2
  <2>5. g = [h EXCEPT !.output = a + (k * (h.output - a)) \div 2]
    BY <2>1
  <2> HIDE DEF h, m, a
  <2>6. h.output = m
    BY <2>3
  <2>7. g.window = h.window /\ g.output = y
    BY <2>3, <2>5, <2>6
  <2>8. a \in Int /\ Within(a, v, s)
    BY <2>2 DEF a
  <2>9. y \in Int /\ Within(y, v, t)
    BY <1>1, <2>4, <2>8, SmoothWithin
  <2>10. QED
    BY <2>3, <2>7, <2>9 DEF Medians
<1>8. c = "passthrough" => g.output = x
  OBVIOUS
<1> HIDE DEF t
<1>9. QED
  BY <1>1, <1>2, <1>4, <1>5, <1>6, <1>7, <1>8 DEF FilterHolds, t

LEMMA FiltersInitially == Filters!Init => FiltersInv
<1> SUFFICES ASSUME Filters!Init PROVE FiltersInv
  OBVIOUS
<1>1. /\ class \in {"median", "moving_average", "exponential", "exponential_median", "passthrough"}
      /\ class \in {"median", "exponential_median"} => IsOdd(Window)
      /\ start \in Int /\ factor \in 0 .. 2 /\ samples = <<>>
      /\ filter = Filters!constructed(start)
  BY FilterConstants DEF Filters!Init, Filters!Classes, IsOdd
<1>2. /\ class = "median" => filter = WF!median_filter(Window, start)
      /\ class = "moving_average" => filter = WF!moving_average_filter(Window, start)
      /\ class = "exponential" => filter = [output |-> start]
      /\ class = "exponential_median" => filter = WF!median_filter(Window, start)
      /\ class = "passthrough" => filter = [output |-> start]
  BY <1>1, FilterOperators DEF Filters!constructed
<1>3. FilterHolds(class, filter, factor, start, <<>>)
  BY <1>1, <1>2, ConstructedHolds
<1>4. QED
  BY <1>1, <1>3 DEF FiltersInv

LEMMA FiltersKeep == FiltersInv /\ [Filters!Next]_Filters!filterVars => FiltersInv'
<1> SUFFICES ASSUME FiltersInv, [Filters!Next]_Filters!filterVars PROVE FiltersInv'
  OBVIOUS
<1>1. FilterHolds(class, filter, factor, start, samples)
  BY DEF FiltersInv
<1>2. class \in {"median", "moving_average", "exponential", "exponential_median", "passthrough"}
  BY <1>1 DEF FilterHolds
<1>3. ASSUME Filters!Push PROVE FilterHolds(class', filter', factor', start', samples')
  <2>1. PICK x \in Filters!Samples : filter' = Filters!push(x) /\ samples' = Append(samples, x)
    BY <1>3 DEF Filters!Push
  <2>2. x \in Int /\ class' = class /\ factor' = factor /\ start' = start
    BY <1>3, FilterConstants DEF Filters!Push
  <2> DEFINE g == Filters!push(x)
  <2>3. /\ class = "median" => g = WF!median_push(Window, filter, x)
        /\ class = "moving_average" => g = WF!average_push(Window, filter, x)
        /\ class = "exponential" =>
             g = [output |-> filter.output + (factor * (x - filter.output)) \div 2]
        /\ class = "exponential_median" =>
             LET h == WF!median_push(Window, filter, x)
             IN  g = [h EXCEPT !.output =
                        filter.output + (factor * (h.output - filter.output)) \div 2]
        /\ class = "passthrough" => g = [output |-> x]
    BY <1>2, FilterOperators DEF Filters!push, Filters!Smoothed
  <2> HIDE DEF g
  <2>4. FilterHolds(class, g, factor, start, Append(samples, x))
    BY <1>1, <2>2, <2>3, PushHolds
  <2>5. QED
    BY <2>1, <2>2, <2>4 DEF g
<1>4. ASSUME Filters!SetOutput PROVE FilterHolds(class', filter', factor', start', samples')
  <2>1. PICK x \in Filters!Samples : start' = x /\ filter' = Filters!set_output(x)
    BY <1>4 DEF Filters!SetOutput
  <2>2. x \in Int /\ class' = class /\ factor' = factor /\ samples' = <<>>
        /\ class # "passthrough"
    BY <1>4, FilterConstants DEF Filters!SetOutput
  <2> DEFINE g == Filters!set_output(x)
  <2>3. /\ class = "median" => g = WF!median_set_output(Window, filter, x)
        /\ class = "moving_average" => g = WF!average_set_output(Window, filter, x)
        /\ class = "exponential" => g = [output |-> x]
        /\ class = "exponential_median" => g = WF!median_set_output(Window, filter, x)
    BY <1>2, <2>2, FilterOperators DEF Filters!set_output
  <2> HIDE DEF g
  <2>4. FilterHolds(class, g, factor, x, <<>>)
    BY <1>1, <2>2, <2>3, SetHolds
  <2>5. QED
    BY <2>1, <2>2, <2>4 DEF g
<1>5. ASSUME Filters!SetSmoothing PROVE FilterHolds(class', filter', factor', start', samples')
  <2>1. class' = class /\ filter' = filter /\ start' = start /\ samples' = samples
    BY <1>5 DEF Filters!SetSmoothing
  <2>2. factor' \in 0 .. 2
    BY <1>5 DEF Filters!SetSmoothing, Filters!smooth_factor, Filters!clamp
  <2>3. QED
    BY <1>1, <2>1, <2>2 DEF FilterHolds
<1>6. ASSUME UNCHANGED Filters!filterVars
      PROVE  FilterHolds(class', filter', factor', start', samples')
  BY <1>1, <1>6 DEF Filters!filterVars
<1>7. FilterHolds(class', filter', factor', start', samples')
  BY <1>3, <1>4, <1>5, <1>6 DEF Filters!Next
<1>8. QED
  BY <1>7 DEF FiltersInv

LEMMA FilterOutput == FiltersInv => Filters!OutputExact
<1> SUFFICES ASSUME FiltersInv PROVE Filters!OutputExact
  OBVIOUS
<1> DEFINE out == filter.output
           s == samples
<1>1. /\ class \in {"median", "moving_average", "exponential", "exponential_median", "passthrough"}
      /\ start \in Int /\ s \in Seq(Int)
      /\ class = "median" => IsOdd(Window)
      /\ class = "median" => Medians(Window, filter, start, s)
      /\ class = "moving_average" => Averages(Window, filter, start, s)
      /\ class \in {"exponential", "exponential_median"} => Within(out, start, s)
      /\ class = "passthrough" => out = IF s = <<>> THEN start ELSE s[Len(s)]
  BY DEF FiltersInv, FilterHolds
<1>2. class = "median" => out = WF!MedianOf(Window, start, s)
  BY <1>1 DEF Medians
<1>3. class = "moving_average" => out = WF!AverageOf(Window, start, s)
  BY <1>1 DEF Averages
<1>4. class = "passthrough" /\ s # <<>> => out = s[Len(s)]
  BY <1>1
<1>5. Within(out, start, s)
  <2>1. \A y \in SeenOf(start, s) : Within(y, start, s)
    BY <1>1, SeenFacts
  <2>2. class = "median" => WF!MedianOf(Window, start, s) \in SeenOf(start, s)
    BY <1>1, FilterConstants, MedianSeen
  <2>3. Within(WF!AverageOf(Window, start, s), start, s)
    BY <1>1, FilterConstants, AverageWithin
  <2>4. class = "passthrough" => out \in SeenOf(start, s)
    <3>1. s = <<>> \/ Len(s) \in 1 .. Len(s)
      BY <1>1
    <3>2. QED
      BY <1>1, <3>1 DEF SeenOf
  <2>5. QED
    BY <1>1, <1>2, <1>3, <2>1, <2>2, <2>3, <2>4
<1>6. ASSUME Len(s) >= 3
      PROVE  LET u == WF!LastOf(3, s)
             IN  WF!median3(u[1], u[2], u[3]) = WF!MedianOf(3, start, s)
  <2> DEFINE u == WF!LastOf(3, s)
  <2>1. 3 \in Nat /\ 3 \in 0 .. Len(s)
    BY <1>1, <1>6
  <2>2. Padded(3, start, s) = u
    BY <1>1, <1>6, <2>1, EnoughSamples
  <2>3. u \in Seq(Int) /\ Len(u) = 3
    BY <1>1, <2>1, LastOfFacts
  <2> HIDE DEF u
  <2>4. IsMedian(WF!median3(u[1], u[2], u[3]), 3, u)
    BY <2>3, MedianOfThree
  <2>5. WF!MedianOf(3, start, s) = WF!median3(u[1], u[2], u[3])
    BY <1>1, <2>1, <2>2, <2>4, MedianFound
  <2>6. QED
    BY <2>5 DEF u
<1>7. \E low, high \in Filters!Seen : low <= out /\ out <= high
  BY <1>5 DEF Within, SeenOf, Filters!Seen
<1>8. QED
  BY <1>2, <1>3, <1>4, <1>6, <1>7, FilterOperators DEF Filters!OutputExact

\* A filter's output is what its samples say, whatever the window: the median or the
\* average of the last ones, and never out of the range of what it has seen (push,
\* set_output, set_smoothing).
THEOREM FiltersExact == Filters!Spec => []Filters!OutputExact
<1>1. Filters!Spec => []FiltersInv
  BY FiltersInitially, FiltersKeep, PTL DEF Filters!Spec
<1>2. QED
  BY <1>1, FilterOutput, PTL

-----------------------------------------------------------------------------
(* Rounding.                                                               *)

\* The powers of two that Pow2 goes through.
IsPowers(f, n) == f \in [0 .. n -> Nat] /\ f[0] = 1 /\ \A i \in 1 .. n : f[i] = 2 * f[i - 1]

LEMMA PowersExist ==
  ASSUME NEW n \in Nat
  PROVE  \E f : IsPowers(f, n)
<1> DEFINE step == [c \in (1 .. n) \X Nat |-> 2 * c[2]]
<1>1. step \in [(1 .. n) \X Nat -> Nat] /\ \A i \in 1 .. n, x \in Nat : step[<<i, x>>] = 2 * x
  OBVIOUS
<1> HIDE DEF step
<1>2. PICK f \in [0 .. n -> Nat] : Recurs(f, n, 1, step)
  <2>1. 1 \in Nat
    OBVIOUS
  <2>2. QED
    BY <1>1, <2>1, Recursion
<1>3. ASSUME NEW i \in 1 .. n PROVE f[i] = 2 * f[i - 1]
  <2>1. f[i - 1] \in Nat
    BY <1>2
  <2>2. QED
    BY <1>1, <1>2, <2>1 DEF Recurs
<1>4. QED
  BY <1>2, <1>3 DEF Recurs, IsPowers

LEMMA PowersUnique ==
  ASSUME NEW n \in Nat, NEW f, IsPowers(f, n), NEW m \in Nat, m <= n, NEW g, IsPowers(g, m)
  PROVE  \A i \in 0 .. m : f[i] = g[i]
<1> DEFINE T == {k \in Nat : k <= m => f[k] = g[k]}
<1>1. 0 \in T
  BY DEF IsPowers
<1>2. ASSUME NEW k \in Nat, k \in T PROVE k + 1 \in T
  <2>1. SUFFICES ASSUME k + 1 <= m PROVE f[k + 1] = g[k + 1]
    OBVIOUS
  <2>2. k + 1 \in 1 .. m /\ k + 1 \in 1 .. n /\ (k + 1) - 1 = k /\ f[k] = g[k]
    BY <1>2, <2>1
  <2>3. f[k + 1] = 2 * f[k] /\ g[k + 1] = 2 * g[k]
    BY <2>2 DEF IsPowers
  <2>4. QED
    BY <2>2, <2>3
<1> HIDE DEF T
<1>3. Nat \subseteq T
  BY <1>1, <1>2, Induction
<1>4. QED
  BY <1>3 DEF T

P(n) == Math!Pow2[n]

LEMMA Powers ==
  /\ \A n \in Nat : P(n) \in Nat /\ P(n) >= 1 /\ P(n + 1) = 2 * P(n)
  /\ P(0) = 1
<1> DEFINE Step(f) == [n \in Nat |-> IF n = 0 THEN 1 ELSE 2 * f[n - 1]]
           run(n) == CHOOSE f : IsPowers(f, n)
           g == [n \in Nat |-> run(n)[n]]
           h == CHOOSE f : f = Step(f)
<1>1. \A n \in Nat : IsPowers(run(n), n)
  BY PowersExist
<1> HIDE DEF run
<1>2. g = Step(g)
  <2>1. ASSUME NEW n \in Nat PROVE g[n] = Step(g)[n]
    <3>1. CASE n = 0
      BY <1>1, <3>1 DEF IsPowers
    <3>2. CASE n # 0
      <4>1. n - 1 \in Nat /\ n - 1 <= n /\ n \in 1 .. n /\ n - 1 \in 0 .. n - 1
        BY <3>2
      <4>2. IsPowers(run(n), n) /\ IsPowers(run(n - 1), n - 1)
        BY <1>1, <4>1
      <4>3. run(n)[n - 1] = run(n - 1)[n - 1]
        BY <4>1, <4>2, PowersUnique
      <4>4. run(n)[n] = 2 * run(n)[n - 1]
        BY <4>1, <4>2 DEF IsPowers
      <4>5. g[n] = run(n)[n] /\ g[n - 1] = run(n - 1)[n - 1] /\ Step(g)[n] = 2 * g[n - 1]
        BY <3>2, <4>1
      <4> HIDE DEF g, Step
      <4>6. QED
        BY <4>3, <4>4, <4>5
    <3>3. QED
      BY <3>1, <3>2
  <2>2. QED
    BY <2>1
<1>3. h = Step(h)
  <2> HIDE DEF Step, g
  <2>1. QED
    BY <1>2
<1>4. \A n : P(n) = h[n]
  BY DEF P, Math!Pow2
<1> HIDE DEF h
<1>5. h[0] = 1 /\ \A n \in Nat : h[n + 1] = 2 * h[n]
  <2>1. h[0] = 1
    BY <1>3
  <2>2. ASSUME NEW n \in Nat PROVE h[n + 1] = 2 * h[n]
    <3>1. n + 1 \in Nat /\ n + 1 # 0 /\ (n + 1) - 1 = n
      OBVIOUS
    <3>2. h[n + 1] = 2 * h[(n + 1) - 1]
      BY <1>3, <3>1
    <3>3. QED
      BY <3>1, <3>2
  <2>3. QED
    BY <2>1, <2>2
<1> DEFINE T == {n \in Nat : h[n] \in Nat /\ h[n] >= 1}
<1>6. 0 \in T
  BY <1>5
<1>7. ASSUME NEW n \in Nat, n \in T PROVE n + 1 \in T
  BY <1>5, <1>7
<1> HIDE DEF T
<1>8. Nat \subseteq T
  BY <1>6, <1>7, Induction
<1>9. \A n \in Nat : h[n] \in Nat /\ h[n] >= 1
  BY <1>8 DEF T
<1>10. QED
  BY <1>4, <1>5, <1>9

LEMMA PowerSum ==
  ASSUME NEW a \in Nat, NEW b \in Nat
  PROVE  P(a + b) = P(a) * P(b)
<1> DEFINE T == {k \in Nat : P(a + k) = P(a) * P(k)}
<1>1. 0 \in T
  <2>1. a + 0 = a /\ P(0) = 1 /\ P(a) \in Nat
    BY Powers
  <2>2. QED
    BY <2>1
<1>2. ASSUME NEW k \in Nat, k \in T PROVE k + 1 \in T
  <2>1. P(a + k) = P(a) * P(k) /\ a + (k + 1) = (a + k) + 1 /\ a + k \in Nat
    BY <1>2
  <2>2. P(a + (k + 1)) = 2 * P(a + k) /\ P(k + 1) = 2 * P(k) /\ P(a) \in Nat /\ P(k) \in Nat
    BY <2>1, Powers
  <2> DEFINE x == P(a)
             y == P(k)
             z == P(a + k)
  <2>3. x \in Nat /\ y \in Nat /\ z = x * y
    BY <2>1, <2>2
  <2> HIDE DEF x, y, z
  <2>4. x * (2 * y) = 2 * z
    BY <2>3, Z3
  <2>5. P(a + (k + 1)) = P(a) * P(k + 1)
    BY <2>2, <2>4 DEF x, y, z
  <2>6. QED
    BY <2>5
<1> HIDE DEF T
<1>3. Nat \subseteq T
  BY <1>1, <1>2, Induction
<1>4. QED
  BY <1>3 DEF T

LEMMA PowerOrder ==
  ASSUME NEW a \in Nat, NEW b \in Nat, a <= b
  PROVE  P(a) <= P(b)
<1> DEFINE T == {k \in Nat : P(a) <= P(a + k)}
<1>1. 0 \in T
  <2>1. a + 0 = a /\ P(a) \in Nat
    BY Powers
  <2>2. QED
    BY <2>1
<1>2. ASSUME NEW k \in Nat, k \in T PROVE k + 1 \in T
  <2>1. a + (k + 1) = (a + k) + 1 /\ a + k \in Nat /\ P(a) <= P(a + k)
    BY <1>2
  <2>2. P(a + (k + 1)) = 2 * P(a + k) /\ P(a) \in Nat /\ P(a + k) \in Nat
    BY <2>1, Powers
  <2>3. QED
    BY <2>1, <2>2
<1> HIDE DEF T
<1>3. b - a \in T /\ a + (b - a) = b
  <2>1. Nat \subseteq T
    BY <1>1, <1>2, Induction
  <2>2. QED
    BY <2>1
<1>4. QED
  BY <1>3 DEF T

\* A float, and a number that would be one with a larger exponent.
IsFloat(x, s, m, e) == x = s * m * P(e)
Unlimited(x) ==
  \E s \in {-1, 1}, m \in 0 .. P(MantissaBits) - 1, e \in Nat : IsFloat(x, s, m, e)

\* The least value of the wide type, in quarters, is -Bound.
Bound == P(WideBits + 1)
Coarse == MantissaBits <= WideBits - 3

LEMMA FloatConstants ==
  /\ MantissaBits \in Nat /\ MantissaBits >= 1 /\ WideBits \in Nat /\ WideBits >= 4
  /\ ~Coarse => MantissaBits >= WideBits - 1
  /\ \E last \in Nat : /\ Exponents = 0 .. last /\ last >= 2
                       /\ MantissaBits + last > WideBits + 1
<1>1. /\ MantissaBits \in Nat /\ MantissaBits >= 1 /\ WideBits \in Nat /\ WideBits >= 4
      /\ MantissaBits # WideBits - 2
  BY FloatAssumption
<1>2. \E last \in Nat : /\ Exponents = 0 .. last /\ last >= 2
                        /\ MantissaBits + last > WideBits + 1
  BY FloatAssumption
<1>3. QED
  BY <1>1, <1>2 DEF Coarse

LEMMA SmallPowers ==
  /\ P(1) = 2 /\ P(2) = 4 /\ P(3) = 8 /\ P(4) = 16
  /\ \A n \in Nat : P(n + 2) = 4 * P(n) /\ P(n + 3) = 8 * P(n) /\ P(n + 4) = 16 * P(n)
<1>1. ASSUME NEW n \in Nat
      PROVE  /\ P(n + 1) = 2 * P(n) /\ P(n + 2) = 4 * P(n) /\ P(n + 3) = 8 * P(n)
             /\ P(n + 4) = 16 * P(n) /\ P(n) \in Nat
  <2>1. P(n + 1) = 2 * P(n) /\ P(n) \in Nat
    BY Powers
  <2>2. n + 1 \in Nat /\ (n + 1) + 1 = n + 2
    OBVIOUS
  <2>3. P(n + 2) = 2 * P(n + 1)
    <3>1. P((n + 1) + 1) = 2 * P(n + 1)
      BY <2>2, Powers
    <3>2. QED
      BY <2>2, <3>1
  <2>4. P(n + 3) = 2 * P(n + 2)
    <3>1. n + 2 \in Nat /\ (n + 2) + 1 = n + 3
      OBVIOUS
    <3>2. P((n + 2) + 1) = 2 * P(n + 2)
      BY <3>1, Powers
    <3>3. QED
      BY <3>1, <3>2
  <2>5. P(n + 4) = 2 * P(n + 3)
    <3>1. n + 3 \in Nat /\ (n + 3) + 1 = n + 4
      OBVIOUS
    <3>2. P((n + 3) + 1) = 2 * P(n + 3)
      BY <3>1, Powers
    <3>3. QED
      BY <3>1, <3>2
  <2>6. QED
    BY <2>1, <2>3, <2>4, <2>5
<1>2. P(0) = 1
  BY Powers
<1>3. P(0 + 1) = 2 * P(0) /\ P(0 + 2) = 4 * P(0) /\ P(0 + 3) = 8 * P(0) /\ P(0 + 4) = 16 * P(0)
  <2>1. 0 \in Nat
    OBVIOUS
  <2>2. QED
    BY <1>1, <2>1
<1>4. P(1) = 2 /\ P(2) = 4 /\ P(3) = 8 /\ P(4) = 16
  <2>1. 0 + 1 = 1 /\ 0 + 2 = 2 /\ 0 + 3 = 3 /\ 0 + 4 = 4
    OBVIOUS
  <2>2. QED
    BY <1>2, <1>3, <2>1
<1>5. QED
  BY <1>1, <1>4

LEMMA FloatType ==
  ASSUME NEW x, NEW s \in {-1, 1}, NEW m \in Nat, NEW e \in Nat, IsFloat(x, s, m, e)
  PROVE  x \in Int
<1>1. P(e) \in Nat
  BY Powers
<1> DEFINE p == P(e)
<1>2. p \in Nat /\ x = s * m * p
  BY <1>1 DEF IsFloat
<1> HIDE DEF p
<1>3. s * m \in Int
  BY Z3
<1>4. QED
  BY <1>2, <1>3, Z3

LEMMA Floats ==
  /\ Math!Floats \subseteq Int
  /\ \A x \in Math!Floats : Unlimited(x)
  /\ \A x : \A s \in {-1, 1}, m \in 0 .. P(MantissaBits) - 1, e \in Exponents :
       IsFloat(x, s, m, e) => x \in Math!Floats
<1>1. Exponents \subseteq Nat
  BY FloatAssumption
<1>2. ASSUME NEW x \in Math!Floats
      PROVE  \E s \in {-1, 1}, m \in 0 .. P(MantissaBits) - 1, e \in Exponents : IsFloat(x, s, m, e)
  BY DEF Math!Floats, P, IsFloat
<1>3. \A x : \A s \in {-1, 1}, m \in 0 .. P(MantissaBits) - 1, e \in Exponents :
        IsFloat(x, s, m, e) => x \in Math!Floats
  BY DEF Math!Floats, P, IsFloat
<1>4. ASSUME NEW x \in Math!Floats PROVE x \in Int /\ Unlimited(x)
  <2>1. PICK s \in {-1, 1}, m \in 0 .. P(MantissaBits) - 1, e \in Exponents : IsFloat(x, s, m, e)
    BY <1>2
  <2>2. m \in Nat /\ e \in Nat
    BY <1>1, <2>1
  <2>3. QED
    BY <2>1, <2>2, FloatType DEF Unlimited
<1>5. QED
  BY <1>3, <1>4

LEMMA UnlimitedTimes ==
  ASSUME NEW x, Unlimited(x), NEW den \in {1, 2, 4}
  PROVE  x \in Int /\ Unlimited(x * den)
<1>1. PICK s \in {-1, 1}, m \in 0 .. P(MantissaBits) - 1, e \in Nat : IsFloat(x, s, m, e)
  BY DEF Unlimited
<1>2. m \in Nat /\ x \in Int
  <2>1. m \in Nat
    OBVIOUS
  <2>2. QED
    BY <1>1, <2>1, FloatType
<1>3. P(e) \in Nat /\ P(e + 1) = 2 * P(e) /\ P(e + 2) = 4 * P(e)
  BY Powers, SmallPowers
<1> DEFINE a == s * m
           p == P(e)
<1>4. a \in Int /\ p \in Nat /\ x = a * p
  BY <1>1, <1>2, <1>3, Z3 DEF IsFloat
<1>5. \E k \in {0, 1, 2} : P(e + k) = den * p /\ e + k \in Nat
  <2>1. CASE den = 1
    <3>1. e + 0 = e /\ P(e) = 1 * P(e)
      BY <1>3
    <3>2. QED
      BY <2>1, <3>1
  <2>2. CASE den = 2
    BY <1>3, <2>2
  <2>3. CASE den = 4
    BY <1>3, <2>3
  <2>4. QED
    BY <2>1, <2>2, <2>3
<1>6. PICK k \in {0, 1, 2} : P(e + k) = den * p /\ e + k \in Nat
  BY <1>5
<1> DEFINE q == P(e + k)
           j == e + k
<1>7. q = den * p /\ j \in Nat
  BY <1>6
<1> HIDE DEF a, p, q
<1>8. x * den = a * q
  BY <1>4, <1>7, Z3
<1>9. IsFloat(x * den, s, m, j)
  BY <1>8 DEF IsFloat, a, q
<1> HIDE DEF j
<1>10. QED
  BY <1>1, <1>2, <1>7, <1>9 DEF Unlimited

Half == P(WideBits - 1)

LEMMA BoundFacts ==
  /\ Half \in Nat /\ Half >= 8 /\ Bound = 4 * Half /\ Bound \in Nat
  /\ Math!Wide = [min |-> -Half, max |-> Half - 1]
  /\ \A type \in Math!IntTypes :
       /\ type.min \in Int /\ type.max \in Int
       /\ -Half <= type.min /\ type.min <= type.max /\ type.max <= Half - 1
<1> DEFINE B == WideBits
           q == P(B - 3)
           h == P(B - 2)
<1>1. B - 3 \in Nat /\ B - 2 = (B - 3) + 1 /\ B - 1 = (B - 3) + 2 /\ B + 1 = (B - 1) + 2
      /\ B - 1 \in Nat /\ 3 <= B - 1 /\ 3 \in Nat
  BY FloatConstants
<1>2. q \in Nat /\ q >= 1 /\ P((B - 3) + 1) = 2 * q /\ P((B - 3) + 2) = 4 * q
  BY <1>1, Powers, SmallPowers
<1>3. h = 2 * q /\ Half = 4 * q
  BY <1>1, <1>2 DEF Half
<1>4. Bound = 4 * Half
  <2>1. P((B - 1) + 2) = 4 * P(B - 1)
    BY <1>1, SmallPowers
  <2>2. QED
    BY <1>1, <2>1 DEF Bound, Half
<1>5. Half >= 8
  <2>1. P(3) <= P(B - 1) /\ P(3) = 8
    BY <1>1, PowerOrder, SmallPowers
  <2>2. QED
    BY <2>1 DEF Half
<1>6. Math!Wide = [min |-> -Half, max |-> Half - 1]
  BY DEF Math!Wide, Math!Signed, Half, P
<1>7. Math!Signed(B - 2) = [min |-> -q, max |-> q - 1]
  <2>1. (B - 2) - 1 = B - 3
    BY <1>1
  <2>2. Math!Signed(B - 2) = [min |-> -P((B - 2) - 1), max |-> P((B - 2) - 1) - 1]
    BY DEF Math!Signed, P
  <2>3. QED
    BY <2>1, <2>2
<1>8. Math!Unsigned(B - 2) = [min |-> 0, max |-> h - 1]
  BY DEF Math!Unsigned, P
<1> HIDE DEF q, h
<1>9. ASSUME NEW type \in Math!IntTypes
      PROVE  /\ type.min \in Int /\ type.max \in Int
             /\ -Half <= type.min /\ type.min <= type.max /\ type.max <= Half - 1
  <2>1. \/ type = [min |-> -q, max |-> q - 1]
        \/ type = [min |-> 0, max |-> h - 1]
        \/ type = [min |-> -Half, max |-> Half - 1]
    BY <1>6, <1>7, <1>8 DEF Math!IntTypes
  <2>2. \/ type.min = -q /\ type.max = q - 1
        \/ type.min = 0 /\ type.max = h - 1
        \/ type.min = -Half /\ type.max = Half - 1
    BY <2>1
  <2>3. QED
    BY <1>2, <1>3, <2>2
<1>10. QED
  BY <1>2, <1>3, <1>4, <1>5, <1>6, <1>9

LEMMA BoundIsFloat == Bound \in Math!Floats /\ -Bound \in Math!Floats
<1> DEFINE M == MantissaBits
           B == WideBits
<1>1. /\ M \in Nat /\ M >= 1 /\ B \in Nat /\ B >= 4
  BY FloatConstants
<1>2. \E m \in 0 .. P(M) - 1, e \in Exponents : m * P(e) = Bound /\ m \in Nat /\ P(e) \in Nat
  <2>1. PICK last \in Nat : Exponents = 0 .. last /\ last >= 2 /\ M + last > B + 1
    BY FloatConstants
  <2>2. CASE M <= B + 2
    <3> DEFINE m == P(M - 1)
               e == B + 2 - M
    <3>1. e \in Exponents /\ e \in Nat /\ M - 1 \in Nat /\ (M - 1) + e = B + 1 /\ (M - 1) + 1 = M
      BY <1>1, <2>1, <2>2
    <3>2. m \in Nat /\ m >= 1 /\ P((M - 1) + 1) = 2 * m /\ P(e) \in Nat
      BY <3>1, Powers
    <3>3. m \in 0 .. P(M) - 1
      BY <3>1, <3>2
    <3>4. P((M - 1) + e) = m * P(e)
      BY <3>1, PowerSum
    <3>5. m * P(e) = Bound
      BY <3>1, <3>4 DEF Bound
    <3> HIDE DEF m, e
    <3>6. QED
      BY <3>1, <3>2, <3>3, <3>5
  <2>3. CASE M > B + 2
    <3>1. 0 \in Exponents /\ P(0) = 1
      BY <2>1, Powers
    <3>2. Bound \in Nat /\ Bound >= 1 /\ P((B + 1) + 1) = 2 * Bound
      <4>1. B + 1 \in Nat
        BY <1>1
      <4>2. QED
        BY <4>1, Powers DEF Bound
    <3>3. P((B + 1) + 1) <= P(M)
      <4>1. (B + 1) + 1 \in Nat /\ (B + 1) + 1 <= M
        BY <1>1, <2>3
      <4>2. QED
        BY <1>1, <4>1, PowerOrder
    <3>4. P(M) \in Nat
      BY <1>1, Powers
    <3>5. Bound \in 0 .. P(M) - 1 /\ Bound * P(0) = Bound
      BY <3>1, <3>2, <3>3, <3>4
    <3>6. QED
      BY <3>1, <3>2, <3>5
  <2>4. QED
    BY <1>1, <2>2, <2>3
<1>3. PICK m \in 0 .. P(M) - 1, e \in Exponents : m * P(e) = Bound /\ m \in Nat /\ P(e) \in Nat
  BY <1>2
<1> DEFINE p == P(e)
<1>4. p \in Nat /\ m * p = Bound
  BY <1>3
<1> HIDE DEF p
<1>5. Bound = 1 * m * p /\ -Bound = (-1) * m * p
  BY <1>3, <1>4, Z3
<1>6. IsFloat(Bound, 1, m, e) /\ IsFloat(-Bound, -1, m, e)
  BY <1>5 DEF IsFloat, p
<1>7. QED
  BY <1>3, <1>6, Floats

\* Below its limit a coarse format has no float for a while.
LEMMA CoarseGap ==
  ASSUME Coarse, NEW x, Unlimited(x), x < Bound
  PROVE  x \in Int /\ x <= Bound - 16
<1> DEFINE M == MantissaBits
           B == WideBits
<1>1. /\ M \in Nat /\ M >= 1 /\ B \in Nat /\ B >= 4 /\ M + 3 <= B
  BY FloatConstants DEF Coarse
<1>2. PICK s \in {-1, 1}, m \in 0 .. P(M) - 1, e \in Nat : IsFloat(x, s, m, e)
  BY DEF Unlimited
<1>3. m \in Nat /\ x \in Int
  <2>1. m \in Nat
    OBVIOUS
  <2>2. QED
    BY <1>2, <2>1, FloatType
<1>4. P(B) \in Nat /\ P(B) >= 16 /\ Bound = 2 * P(B)
  <2>1. P(4) = 16 /\ P(4) <= P(B) /\ P(B) \in Nat /\ P(B + 1) = 2 * P(B)
    BY <1>1, Powers, SmallPowers, PowerOrder
  <2>2. QED
    BY <2>1 DEF Bound
<1> DEFINE p == P(e)
<1>5. p \in Nat /\ p >= 1 /\ x = s * m * p
  BY <1>2, Powers DEF IsFloat
<1>6. CASE s = -1
  <2> HIDE DEF p
  <2>1. x = -(m * p) /\ m * p \in Nat
    BY <1>3, <1>5, <1>6, Z3
  <2>2. QED
    BY <1>3, <1>4, <2>1
<1>7. CASE s = 1 /\ e >= 4
  <2> DEFINE k == P(e - 4)
             j == P(B - 4)
  <2>1. e - 4 \in Nat /\ (e - 4) + 4 = e /\ B - 3 \in Nat /\ (B - 3) + 4 = B + 1
    BY <1>1, <1>7
  <2>2. P((e - 4) + 4) = 16 * k /\ k \in Nat
    BY <2>1, Powers, SmallPowers
  <2>3. P((B - 3) + 4) = 16 * P(B - 3) /\ P(B - 3) \in Nat
    BY <2>1, Powers, SmallPowers
  <2> DEFINE r == P(B - 3)
             y == m * k
  <2>4. p = 16 * k /\ Bound = 16 * r /\ r \in Nat
    BY <2>1, <2>2, <2>3 DEF Bound
  <2> HIDE DEF p, k, r
  <2>5. x = 16 * y /\ y \in Nat
    BY <1>3, <1>5, <1>7, <2>2, <2>4, Z3
  <2> HIDE DEF y
  <2>6. QED
    BY <1>3, <2>4, <2>5
<1>8. CASE s = 1 /\ e < 4
  <2>1. p <= 8
    <3>1. e <= 3 /\ 3 \in Nat
      BY <1>8
    <3>2. P(e) <= P(3) /\ P(3) = 8
      BY <3>1, PowerOrder, SmallPowers
    <3>3. QED
      BY <3>2
  <2>2. P(M) \in Nat /\ 8 * P(M) <= P(B)
    <3>1. P(M + 3) = 8 * P(M) /\ P(M) \in Nat
      BY <1>1, Powers, SmallPowers
    <3>2. P(M + 3) <= P(B)
      <4>1. M + 3 \in Nat
        BY <1>1
      <4>2. QED
        BY <1>1, <4>1, PowerOrder
    <3>3. QED
      BY <3>1, <3>2
  <2>3. x <= 8 * m
    <3> HIDE DEF p
    <3>1. m * p <= 8 * m
      BY <1>3, <1>5, <2>1, Z3
    <3>2. x = m * p
      BY <1>3, <1>5, <1>8, Z3
    <3>3. QED
      BY <3>1, <3>2
  <2>4. m <= P(M)
    BY <1>3, <2>2
  <2>5. QED
    BY <1>3, <1>4, <2>2, <2>3, <2>4
<1>9. QED
  BY <1>6, <1>7, <1>8

\* Rounding is to within half of one, of four quarters.
LEMMA NearestFacts ==
  ASSUME NEW x \in Int
  PROVE  /\ Math!Nearest(x) \in Int
         /\ 4 * Math!Nearest(x) - 2 <= x /\ x <= 4 * Math!Nearest(x) + 2
<1> DEFINE q == (Math!Abs(x) + 2) \div 4
<1>1. Math!Abs(x) \in Nat /\ (x > 0 => Math!Abs(x) = x) /\ (x <= 0 => Math!Abs(x) = -x)
  BY DEF Math!Abs
<1>2. q \in Nat /\ 4 * q <= Math!Abs(x) + 2 /\ Math!Abs(x) + 2 <= 4 * q + 3
  BY <1>1
<1>3. Math!Nearest(x) = Math!sgn(x) * q
  <2>1. Math!Quarter = 4 /\ 4 \div 2 = 2
    BY DEF Math!Quarter
  <2>2. QED
    BY <2>1 DEF Math!Nearest
<1> HIDE DEF q
<1>4. CASE x > 0
  <2>1. Math!sgn(x) = 1
    BY <1>4 DEF Math!sgn
  <2>2. QED
    BY <1>1, <1>2, <1>3, <1>4, <2>1
<1>5. CASE x = 0
  <2>1. Math!sgn(x) = 0
    BY <1>5 DEF Math!sgn
  <2>2. Math!Nearest(x) = 0
    BY <1>2, <1>3, <2>1
  <2>3. QED
    BY <1>5, <2>2
<1>6. CASE x < 0
  <2>1. Math!sgn(x) = -1
    BY <1>6 DEF Math!sgn
  <2>2. QED
    BY <1>1, <1>2, <1>3, <1>6, <2>1
<1>7. QED
  BY <1>4, <1>5, <1>6

LEMMA ToFloatFound ==
  ASSUME NEW n \in Int, NEW f \in Math!Floats,
         \A g \in Math!Floats : Math!Abs(f - n * 4) <= Math!Abs(g - n * 4)
  PROVE  /\ Math!ToFloat(n) \in Math!Floats
         /\ Math!Abs(Math!ToFloat(n) - n * 4) <= Math!Abs(f - n * 4)
<1> DEFINE Good(t) == \A g \in Math!Floats : Math!Abs(t - n * 4) <= Math!Abs(g - n * 4)
<1>1. Math!ToFloat(n) = CHOOSE t \in Math!Floats : Good(t)
  <2>1. Math!Quarter = 4
    BY DEF Math!Quarter
  <2>2. QED
    BY <2>1 DEF Math!ToFloat
<1>2. Good(f)
  OBVIOUS
<1> HIDE DEF Good
<1>3. Math!ToFloat(n) \in Math!Floats /\ Good(Math!ToFloat(n))
  BY <1>1, <1>2
<1>4. QED
  BY <1>3 DEF Good

LEMMA AbsFacts ==
  \A x \in Int : /\ Math!Abs(x) \in Nat
                 /\ Math!Abs(x) = x \/ Math!Abs(x) = -x
                 /\ x >= 0 => Math!Abs(x) = x
                 /\ x <= 0 => Math!Abs(x) = -x
BY DEF Math!Abs

\* Of the limits of the wide type the least is a float.
LEMMA LeastIsFloat == Math!ToFloat(-Half) = -Bound
<1> DEFINE f == -Bound
           t == Math!ToFloat(-Half)
<1>1. Half \in Nat /\ Bound = 4 * Half /\ -Half \in Int /\ f = (-Half) * 4
  BY BoundFacts
<1>2. f \in Math!Floats /\ Math!Floats \subseteq Int
  BY BoundIsFloat, Floats
<1>3. Math!Abs(f - (-Half) * 4) = 0
  BY <1>1, AbsFacts
<1>4. \A g \in Math!Floats : Math!Abs(g - (-Half) * 4) \in Nat
  BY <1>1, <1>2, AbsFacts
<1>5. t \in Math!Floats /\ Math!Abs(t - (-Half) * 4) <= Math!Abs(f - (-Half) * 4)
  BY <1>1, <1>2, <1>3, <1>4, ToFloatFound
<1> HIDE DEF t
<1>6. t \in Int /\ t - (-Half) * 4 \in Int
  BY <1>1, <1>2, <1>5
<1>7. t - (-Half) * 4 = 0
  BY <1>3, <1>5, <1>6, AbsFacts
<1>8. t = -Bound
  BY <1>1, <1>6, <1>7
<1>9. QED
  BY <1>8 DEF t

\* The largest one is a float in a fine format, and in a coarse format it is
\* rounded up, to a number that the wide type does not have.
LEMMA LargestIsRounded ==
  Math!ToFloat(Half - 1) = IF Coarse THEN Bound ELSE Bound - 4
<1> DEFINE n == Half - 1
           t == Math!ToFloat(n)
<1>1. Half \in Nat /\ Half >= 8 /\ Bound = 4 * Half /\ Bound \in Nat /\ n \in Int
      /\ n * 4 = Bound - 4
  BY BoundFacts
<1>2. Math!Floats \subseteq Int
  BY Floats
<1>3. CASE Coarse
  <2>1. Bound \in Math!Floats /\ Math!Abs(Bound - n * 4) = 4
    BY <1>1, AbsFacts, BoundIsFloat
  <2>2. ASSUME NEW g \in Math!Floats
        PROVE  /\ 4 <= Math!Abs(g - n * 4)
               /\ Math!Abs(g - n * 4) <= 4 => g = Bound
    <3>1. g \in Int /\ g - n * 4 \in Int /\ g - n * 4 = g - Bound + 4
      BY <1>1, <1>2
    <3>2. CASE g < Bound
      <4>1. g <= Bound - 16
        BY <1>3, <3>2, CoarseGap, Floats
      <4>2. QED
        BY <1>1, <3>1, <4>1, AbsFacts
    <3>3. CASE g >= Bound
      BY <1>1, <3>1, <3>3, AbsFacts
    <3>4. QED
      BY <1>1, <3>1, <3>2, <3>3
  <2>3. \A g \in Math!Floats : Math!Abs(Bound - n * 4) <= Math!Abs(g - n * 4)
    BY <2>1, <2>2
  <2>4. t \in Math!Floats /\ Math!Abs(t - n * 4) <= Math!Abs(Bound - n * 4)
    BY <1>1, <2>1, <2>3, ToFloatFound
  <2> HIDE DEF t
  <2>5. t = Bound
    BY <2>1, <2>2, <2>4
  <2>6. QED
    BY <1>3, <2>5 DEF t
<1>4. CASE ~Coarse
  <2> DEFINE f == Bound - 4
  <2>1. f \in Math!Floats
    <3>1. 2 \in Exponents /\ P(2) = 4
      <4>1. PICK last \in Nat : Exponents = 0 .. last /\ last >= 2
        BY FloatConstants
      <4>2. QED
        BY <4>1, SmallPowers
    <3>2. Half <= P(MantissaBits) /\ P(MantissaBits) \in Nat
      <4>1. WideBits - 1 \in Nat /\ MantissaBits \in Nat /\ WideBits - 1 <= MantissaBits
        BY <1>4, FloatConstants
      <4>2. QED
        BY <4>1, Powers, PowerOrder DEF Half
    <3>3. n \in 0 .. P(MantissaBits) - 1
      BY <1>1, <3>2
    <3>4. IsFloat(f, 1, n, 2)
      BY <1>1, <3>1 DEF IsFloat
    <3> HIDE DEF n, f
    <3>5. QED
      BY <3>1, <3>3, <3>4, Floats
  <2>2. Math!Abs(f - n * 4) = 0
    BY <1>1, AbsFacts
  <2>3. \A g \in Math!Floats : Math!Abs(g - n * 4) \in Nat
    BY <1>1, <1>2, AbsFacts
  <2>4. t \in Math!Floats /\ Math!Abs(t - n * 4) <= Math!Abs(f - n * 4)
    BY <1>1, <2>1, <2>2, <2>3, ToFloatFound
  <2> HIDE DEF t
  <2>5. t \in Int /\ t - n * 4 \in Int
    BY <1>1, <1>2, <2>4
  <2>6. t = f
    BY <1>1, <2>2, <2>4, <2>5, AbsFacts
  <2>7. QED
    BY <1>4, <2>6 DEF t
<1>5. QED
  BY <1>3, <1>4

\* What is rounded is the nearest integer, limited.
LEMMA RoundedIsNearest ==
  ASSUME NEW x, Unlimited(x), x \in Int, NEW type \in Math!IntTypes
  PROVE  Math!saturate_round(type, x) = {Math!Clamp(Math!Nearest(x), type.min, type.max)}
<1> DEFINE n == Math!Nearest(x)
           lo == type.min
           hi == type.max
<1>1. n \in Int /\ 4 * n - 2 <= x /\ x <= 4 * n + 2
  BY NearestFacts
<1>2. /\ Half \in Nat /\ Half >= 8 /\ Bound = 4 * Half
      /\ lo \in Int /\ hi \in Int /\ -Half <= lo /\ lo <= hi /\ hi <= Half - 1
  BY BoundFacts
<1>3. Math!Wide.min = -Half /\ Math!Wide.max = Half - 1
  BY BoundFacts
<1> DEFINE top == IF Coarse THEN Bound ELSE Bound - 4
           R == Math!saturate_round(type, x)
           C == Math!Clamp(n, lo, hi)
<1>4. R = IF x >= top THEN {hi}
          ELSE IF x <= -Bound THEN {lo}
          ELSE {Math!Clamp(k, lo, hi) : k \in Math!lround(x)}
  BY <1>3, LeastIsFloat, LargestIsRounded DEF Math!saturate_round
<1>5. C = IF n < lo THEN lo ELSE IF hi < n THEN hi ELSE n
  BY DEF Math!Clamp
<1>6. top \in Int /\ Bound - 4 <= top /\ (Coarse /\ x < top => x <= Bound - 16)
      /\ (~Coarse => top = Bound - 4)
  BY <1>2, CoarseGap
<1> HIDE DEF n, lo, hi, top, R, C
<1>7. CASE x >= top
  <2>1. n >= Half - 1
    BY <1>1, <1>2, <1>6, <1>7
  <2>2. C = hi
    BY <1>1, <1>2, <1>5, <2>1
  <2>3. QED
    BY <1>4, <1>7, <2>2 DEF C, R, n, lo, hi
<1>8. CASE x < top /\ x <= -Bound
  <2>1. n <= -Half
    BY <1>1, <1>2, <1>8
  <2>2. C = lo
    BY <1>1, <1>2, <1>5, <2>1
  <2>3. R = {lo}
    BY <1>2, <1>4, <1>6, <1>8
  <2>4. QED
    BY <2>2, <2>3 DEF C, R, n, lo, hi
<1>9. CASE x < top /\ x > -Bound
  <2>1. n \in -Half .. Half - 1
    BY <1>1, <1>2, <1>6, <1>9
  <2>2. Math!lround(x) = {n}
    BY <1>3, <2>1 DEF Math!lround, n
  <2>3. ~(x >= top) /\ ~(x <= -Bound)
    BY <1>2, <1>6, <1>9
  <2>4. R = {Math!Clamp(k, lo, hi) : k \in {n}}
    BY <1>4, <2>2, <2>3
  <2>5. R = {C}
    BY <2>4 DEF C
  <2>6. QED
    BY <2>5 DEF C, R, n, lo, hi
<1>10. QED
  BY <1>2, <1>6, <1>7, <1>8, <1>9

\* And it is taken back within half a step.
LEMMA BackWithinHalf ==
  ASSUME NEW x, Unlimited(x), x \in Int, NEW type \in Math!IntTypes,
         NEW den \in {1, 2, 4}, NEW n \in Math!quantize(type, den, x),
         n \in type.min + 1 .. type.max - 1
  PROVE  2 * Math!Abs(Math!dequantize(den, n) - x) <= 4 \div den
<1> DEFINE y == x * den
           r == Math!Nearest(y)
           lo == type.min
           hi == type.max
<1>1. y \in Int /\ Unlimited(y)
  BY UnlimitedTimes
<1>2. lo \in Int /\ hi \in Int
  BY BoundFacts
<1>3. r \in Int /\ 4 * r - 2 <= y /\ y <= 4 * r + 2
  <2> HIDE DEF y
  <2>1. QED
    BY <1>1, NearestFacts
<1>4. n = Math!Clamp(r, lo, hi)
  <2>1. n \in Math!saturate_round(type, y)
    BY DEF Math!quantize
  <2> HIDE DEF y
  <2>2. Math!saturate_round(type, y) = {Math!Clamp(r, lo, hi)}
    BY <1>1, RoundedIsNearest
  <2>3. QED
    BY <2>1, <2>2
<1>5. n = r /\ n \in Int
  <2> HIDE DEF r
  <2>1. n = IF r < lo THEN lo ELSE IF hi < r THEN hi ELSE r
    BY <1>4 DEF Math!Clamp
  <2>2. QED
    BY <1>2, <1>3, <2>1
<1>6. Math!dequantize(den, n) = (n * 4) \div den
  BY DEF Math!dequantize, Math!Quarter
<1> DEFINE d == Math!dequantize(den, n)
<1>7. 4 * n - 2 <= x * den /\ x * den <= 4 * n + 2
  <2> HIDE DEF r
  <2>1. QED
    BY <1>3, <1>5
<1> HIDE DEF y, r, d
<1>8. CASE den = 1
  <2>1. d = n * 4 /\ d - x \in Int /\ -2 <= d - x /\ d - x <= 2 /\ 4 \div den = 4
    BY <1>5, <1>6, <1>7, <1>8 DEF d
  <2>2. Math!Abs(d - x) <= 2 /\ Math!Abs(d - x) \in Nat
    BY <2>1, AbsFacts
  <2>3. QED
    BY <2>1, <2>2 DEF d
<1>9. CASE den = 2
  <2>1. d = 2 * n /\ d - x \in Int /\ -1 <= d - x /\ d - x <= 1 /\ 4 \div den = 2
    BY <1>5, <1>6, <1>7, <1>9 DEF d
  <2>2. Math!Abs(d - x) <= 1 /\ Math!Abs(d - x) \in Nat
    BY <2>1, AbsFacts
  <2>3. QED
    BY <2>1, <2>2 DEF d
<1>10. CASE den = 4
  <2>1. d = n /\ d - x = 0 /\ 4 \div den = 1
    BY <1>5, <1>6, <1>7, <1>10 DEF d
  <2>2. Math!Abs(d - x) = 0
    BY <2>1, AbsFacts
  <2>3. QED
    BY <2>1, <2>2 DEF d
<1>11. QED
  BY <1>8, <1>9, <1>10

\* Every float is rounded and then limited to the integer type, also where the limit of
\* the wide type is not a float, and what is quantized comes back within half a step
\* (saturate_round, quantize, dequantize).
THEOREM RoundsExactly == \A x \in Math!Floats : Math!SaturateRoundExact(x)
<1> SUFFICES ASSUME NEW x \in Math!Floats PROVE Math!SaturateRoundExact(x)
  OBVIOUS
<1>1. x \in Int /\ Unlimited(x)
  BY Floats
<1>2. \A type \in Math!IntTypes :
        Math!saturate_round(type, x) = {Math!Clamp(Math!Nearest(x), type.min, type.max)}
  BY <1>1, RoundedIsNearest
<1>3. \A type \in Math!IntTypes : \A den \in {1, 2, 4} : \A n \in Math!quantize(type, den, x) :
        n \in type.min + 1 .. type.max - 1
          => 2 * Math!Abs(Math!dequantize(den, n) - x) <= 4 \div den
  BY <1>1, BackWithinHalf
<1>4. Math!DyadicDens = {1, 2, 4} /\ Math!Quarter = 4
  BY DEF Math!DyadicDens, Math!Quarter
<1>5. QED
  BY <1>2, <1>3, <1>4 DEF Math!SaturateRoundExact

-----------------------------------------------------------------------------
(* The sensor.                                                             *)

\* s ends with t, which lacks its first o members.
Ends(t, s, o) == Len(t) = Len(s) - o /\ \A i \in 1 .. Len(t) : t[i] = s[i + o]

LEMMA EndsRecent ==
  ASSUME NEW A, NEW s \in Seq(A), NEW t \in Seq(A), NEW o \in Nat, Ends(t, s, o),
         NEW n \in Nat, o = 0 \/ n <= Len(t)
  PROVE  Recent(n, t) = Recent(n, s)
<1> DEFINE k == IF Len(s) < n THEN Len(s) ELSE n
           j == IF Len(t) < n THEN Len(t) ELSE n
           u == Recent(n, t)
           w == Recent(n, s)
<1>1. Len(s) \in Nat /\ Len(t) \in Nat /\ Len(t) = Len(s) - o
      /\ \A i \in 1 .. Len(t) : t[i] = s[i + o]
  BY DEF Ends
<1>2. w \in Seq(A) /\ Len(w) = k /\ \A i \in 1 .. k : w[i] = s[Len(s) - k + i]
  BY RecentFacts
<1>3. u \in Seq(A) /\ Len(u) = j /\ \A i \in 1 .. j : u[i] = t[Len(t) - j + i]
  BY RecentFacts
<1>4. j = k /\ k <= Len(t) /\ k \in Nat
  BY <1>1
<1> HIDE DEF u, w, k, j
<1>5. ASSUME NEW i \in 1 .. k PROVE u[i] = w[i]
  <2>1. Len(t) - k + i \in 1 .. Len(t) /\ (Len(t) - k + i) + o = Len(s) - k + i
    BY <1>1, <1>4
  <2>2. t[Len(t) - k + i] = s[(Len(t) - k + i) + o]
    BY <1>1, <2>1
  <2>3. u[i] = t[Len(t) - k + i] /\ w[i] = s[Len(s) - k + i]
    BY <1>2, <1>3, <1>4
  <2>4. QED
    BY <2>1, <2>2, <2>3
<1>6. u = w
  BY <1>2, <1>3, <1>4, <1>5
<1>7. QED
  BY <1>6 DEF u, w

LEMMA EndsAverage ==
  ASSUME NEW s \in Seq(Int), NEW t \in Seq(Int), NEW o \in Nat, Ends(t, s, o),
         NEW n \in Nat \ {0}, o = 0 \/ n <= Len(t), NEW v
  PROVE  WF!AverageOf(n, v, t) = WF!AverageOf(n, v, s)
<1>1. n \in Nat
  OBVIOUS
<1>2. Recent(n, t) = Recent(n, s)
  BY <1>1, EndsRecent
<1>3. Len(t) = Len(s) - o /\ Len(s) \in Nat /\ Len(t) \in Nat
  BY DEF Ends
<1>4. t = <<>> <=> s = <<>>
  <2>1. Len(t) = 0 <=> Len(s) = 0
    BY <1>3
  <2>2. QED
    BY <2>1
<1>5. \A r : WF!AverageOf(n, v, r)
              = IF r = <<>> THEN v ELSE WF!SumOf(Recent(n, r)) \div Len(Recent(n, r))
  BY DEF WF!AverageOf, Recent
<1>6. QED
  BY <1>2, <1>4, <1>5

LEMMA EndsAverages ==
  ASSUME NEW s \in Seq(Int), NEW t \in Seq(Int), NEW o \in Nat, Ends(t, s, o),
         NEW n \in Nat \ {0}, o = 0 \/ n <= Len(t), NEW v, NEW f, Averages(n, f, v, s)
  PROVE  Averages(n, f, v, t)
<1>1. n \in Nat
  OBVIOUS
<1>2. Recent(n, t) = Recent(n, s)
  BY <1>1, EndsRecent
<1>3. WF!AverageOf(n, v, t) = WF!AverageOf(n, v, s)
  BY EndsAverage
<1>4. QED
  BY <1>2, <1>3 DEF Averages

\* A full window does not depend on what it was filled with before.
LEMMA PaddedLast ==
  ASSUME NEW A, NEW s \in Seq(A), NEW n \in Nat, NEW v \in A, n <= Len(s)
  PROVE  /\ Padded(n, v, s) \in Seq(A) /\ Len(Padded(n, v, s)) = n
         /\ \A i \in 1 .. n : Padded(n, v, s)[i] = s[Len(s) - n + i]
<1> DEFINE t == Padding(n, v, s)
           w == Padded(n, v, s)
           l == Len(s)
<1>1. /\ l \in Nat
      /\ \A i \in 1 .. l : t[n + i] = s[i]
      /\ w \in Seq(A) /\ Len(w) = n
      /\ \A i \in 1 .. n : w[i] = t[l + i]
  <2>1. IsPadded(n, A, v, s)
    BY PaddedFacts
  <2>2. l \in Nat
    OBVIOUS
  <2> HIDE DEF l
  <2>3. /\ \A i \in 1 .. Len(s) : t[n + i] = s[i]
        /\ w \in Seq(A) /\ Len(w) = n
        /\ \A i \in 1 .. n : w[i] = t[Len(s) + i]
    <3> HIDE DEF t, w
    <3>1. QED
      BY <2>1 DEF IsPadded, t, w
  <2>4. QED
    BY <2>2, <2>3 DEF l
<1> HIDE DEF t, w
<1>2. ASSUME NEW i \in 1 .. n PROVE w[i] = s[l - n + i]
  <2>1. l - n + i \in 1 .. l /\ n + (l - n + i) = l + i
    BY <1>1
  <2>2. QED
    BY <1>1, <2>1
<1>3. QED
  BY <1>1, <1>2 DEF w

LEMMA SamePadded ==
  ASSUME NEW A, NEW s \in Seq(A), NEW t \in Seq(A), NEW n \in Nat, NEW v \in A,
         n <= Len(s), n <= Len(t), \A i \in 1 .. n : t[Len(t) - n + i] = s[Len(s) - n + i]
  PROVE  Padded(n, v, t) = Padded(n, v, s)
<1> DEFINE u == Padded(n, v, t)
           w == Padded(n, v, s)
<1>1. u \in Seq(A) /\ Len(u) = n /\ \A i \in 1 .. n : u[i] = t[Len(t) - n + i]
  BY PaddedLast
<1>2. w \in Seq(A) /\ Len(w) = n /\ \A i \in 1 .. n : w[i] = s[Len(s) - n + i]
  BY PaddedLast
<1> HIDE DEF u, w
<1>3. \A i \in 1 .. n : u[i] = w[i]
  BY <1>1, <1>2
<1>4. u = w
  <2>1. u \in Seq(A) /\ w \in Seq(A) /\ Len(u) = n /\ Len(w) = n /\ \A i \in 1 .. n : u[i] = w[i]
    BY <1>1, <1>2, <1>3
  <2>2. QED
    BY ONLY <2>1
<1>5. QED
  BY <1>4 DEF u, w

LEMMA SameMedians ==
  ASSUME NEW n, NEW v, NEW s, NEW t, Padded(n, v, t) = Padded(n, v, s), NEW f, Medians(n, f, v, s)
  PROVE  Medians(n, f, v, t)
<1>1. \A r : WF!MedianOf(n, v, r) =
        CHOOSE m \in {Padded(n, v, r)[i] : i \in 1 .. n} :
          /\ 2 * Cardinality({i \in 1 .. n : Padded(n, v, r)[i] < m}) < n
          /\ 2 * Cardinality({i \in 1 .. n : Padded(n, v, r)[i] > m}) < n
  BY DEF WF!MedianOf, Padded, Padding, WF!Cardinality, Cardinality
<1>2. WF!MedianOf(n, v, t) = WF!MedianOf(n, v, s)
  BY <1>1
<1>3. QED
  BY <1>2 DEF Medians

LEMMA AverageType ==
  ASSUME NEW n \in Nat \ {0}, NEW v \in Int, NEW s \in Seq(Int)
  PROVE  WF!AverageOf(n, v, s) \in Int
<1> DEFINE w == Recent(n, s)
           k == IF Len(s) < n THEN Len(s) ELSE n
<1>1. n \in Nat
  OBVIOUS
<1>2. w \in Seq(Int) /\ Len(w) = k
  BY <1>1, RecentFacts
<1>3. s # <<>> => k \in Nat \ {0}
  OBVIOUS
<1> HIDE DEF w, k
<1>4. WF!SumOf(w) \in Int
  BY <1>2, SumType
<1>5. WF!AverageOf(n, v, s) = IF s = <<>> THEN v ELSE WF!SumOf(w) \div Len(w)
  BY DEF WF!AverageOf, Recent, w
<1>6. QED
  BY <1>2, <1>3, <1>4, <1>5

\* The operators that the sensor uses are those above.
LEMMA SensorOperators ==
  /\ \A n, v : /\ Sensor!WF!median_filter(n, v) = WF!median_filter(n, v)
               /\ Sensor!WF!moving_average_filter(n, v) = WF!moving_average_filter(n, v)
  /\ \A n, f, v : /\ Sensor!WF!average_push(n, f, v) = WF!average_push(n, f, v)
                  /\ Sensor!WF!median_push(n, f, v) = WF!median_push(n, f, v)
  /\ \A n, v, s : /\ Sensor!WF!AverageOf(n, v, s) = WF!AverageOf(n, v, s)
                  /\ Sensor!WF!MedianOf(n, v, s) = WF!MedianOf(n, v, s)
<1>1. \A n, v : /\ Sensor!WF!median_filter(n, v) = WF!median_filter(n, v)
                /\ Sensor!WF!moving_average_filter(n, v) = WF!moving_average_filter(n, v)
  BY DEF Sensor!WF!median_filter, WF!median_filter, Sensor!WF!moving_average_filter,
         WF!moving_average_filter, Sensor!WF!median_set_output, WF!median_set_output,
         Sensor!WF!average_set_output, WF!average_set_output, Sensor!WF!CB!Fresh, WF!CB!Fresh,
         Sensor!WF!CB!Slots, WF!CB!Slots, Sensor!WF!CB!clear, WF!CB!clear,
         Sensor!WF!CB!fill, WF!CB!fill, Sensor!WF!CB!DestroyAll, WF!CB!DestroyAll,
         Sensor!WF!CB!Live, WF!CB!Live, Sensor!WF!CB!slot_ptr, WF!CB!slot_ptr,
         Sensor!WF!CB!index_of, WF!CB!index_of
<1>2. /\ \A n, f, v : Sensor!WF!average_push(n, f, v) = WF!average_push(n, f, v)
      /\ \A n, f, v : Sensor!WF!median_push(n, f, v) = WF!median_push(n, f, v)
  <2>1. /\ \A n, c, v : Sensor!WF!CB(n)!write_back_with(c, v) = WF!CB(n)!write_back_with(c, v)
        /\ \A n, c : Sensor!WF!CB(n)!full(c) = WF!CB(n)!full(c)
        /\ \A n, c : Sensor!WF!CB(n)!front(c) = WF!CB(n)!front(c)
    BY DEF Sensor!WF!CB!write_back_with, WF!CB!write_back_with, Sensor!WF!CB!full, WF!CB!full,
           Sensor!WF!CB!front, WF!CB!front, Sensor!WF!CB!slot_ptr, WF!CB!slot_ptr,
           Sensor!WF!CB!index_of, WF!CB!index_of, Sensor!WF!CB!construct_at,
           WF!CB!construct_at, Sensor!WF!CB!destroy_slot, WF!CB!destroy_slot,
           Sensor!WF!CB!Live, WF!CB!Live
  <2>2. \A n, c : Sensor!WF!CB(n)!Content(c) = WF!CB(n)!Content(c)
    BY DEF Sensor!WF!CB!Content, WF!CB!Content, Sensor!WF!CB!at, WF!CB!at,
           Sensor!WF!CB!slot_ptr, WF!CB!slot_ptr, Sensor!WF!CB!index_of, WF!CB!index_of
  <2>3. \A s : Sensor!WF!Sorted(s) = WF!Sorted(s)
    BY DEF Sensor!WF!Sorted, WF!Sorted
  <2>4. QED
    BY <2>1, <2>2, <2>3 DEF Sensor!WF!average_push, WF!average_push, Sensor!WF!median_push,
                            WF!median_push
<1>3. \A n, v, s : Sensor!WF!AverageOf(n, v, s) = WF!AverageOf(n, v, s)
  BY DEF Sensor!WF!AverageOf, WF!AverageOf, Sensor!WF!LastOf, WF!LastOf, Sensor!WF!SumOf,
         WF!SumOf
<1>4. \A n, v, s : Sensor!WF!MedianOf(n, v, s) = WF!MedianOf(n, v, s)
  BY DEF Sensor!WF!MedianOf, WF!MedianOf, Sensor!WF!LastOf, WF!LastOf,
         Sensor!WF!Cardinality, WF!Cardinality
<1>5. QED
  BY <1>1, <1>2, <1>3, <1>4, Zenon

MostAbsorbed == Average + Median - 1

LEMMA SensorConstants ==
  /\ N \in Nat \ {0} /\ Average \in Nat \ {0} /\ Average \in Nat /\ Average >= 1
  /\ Median \in Nat /\ Median \in Nat \ {0} /\ Median >= 1 /\ IsOdd(Median)
  /\ MostAbsorbed \in Nat \ {0} /\ MostAbsorbed >= Average /\ MostAbsorbed >= Median
  /\ Codes \subseteq Nat /\ Sensor!Phases = 1 .. N
<1>1. N \in Nat \ {0} /\ Average \in Nat \ {0} /\ Codes \subseteq Nat
  BY SensorAssumption
<1>2. Median \in Nat /\ Median \in Nat \ {0} /\ Median >= 1 /\ IsOdd(Median)
  BY SensorAssumption DEF IsOdd
<1>3. Sensor!Phases = 1 .. N
  BY DEF Sensor!Phases
<1>4. QED
  BY <1>1, <1>2, <1>3 DEF MostAbsorbed

\* A transform doubles and shifts, and a converter takes it back.
LEMMA TransformForward ==
  ASSUME NEW p \in Nat, NEW x \in Int
  PROVE  Sensor!transform_forward(p, x) = 2 * (x + p)
<1> DEFINE st == Sensor!Stages(p)
           F(f) == [i \in 0 .. Len(st) |-> IF i = 0 THEN x ELSE Sensor!forward(st[i], f[i - 1])]
           t == CHOOSE f : f = F(f)
           g == [i \in 0 .. 2 |-> IF i = 0 THEN x ELSE IF i = 1 THEN x + p ELSE 2 * (x + p)]
<1>1. /\ Len(st) = 2 /\ st[1] = [gain |-> 1, offset |-> p] /\ st[2] = [gain |-> 2, offset |-> 0]
  BY DEF Sensor!Stages
<1>2. /\ \A y \in Int : Sensor!forward(st[1], y) = y + p
      /\ \A y \in Int : Sensor!forward(st[2], y) = 2 * y
  <2> HIDE DEF st
  <2>1. st[1].gain = 1 /\ st[1].offset = p /\ st[2].gain = 2 /\ st[2].offset = 0
    BY <1>1
  <2>2. QED
    BY <2>1 DEF Sensor!forward
<1>3. Sensor!transform_forward(p, x) = t[Len(st)]
  BY DEF Sensor!transform_forward
<1> HIDE DEF st
<1>4. g = F(g)
  <2>1. \A i \in 0 .. 2 : g[i] = IF i = 0 THEN x ELSE Sensor!forward(st[i], g[i - 1])
    <3>1. g[0] = x /\ g[1] = x + p /\ g[2] = 2 * (x + p) /\ x + p \in Int
      OBVIOUS
    <3> HIDE DEF g
    <3>2. g[1] = Sensor!forward(st[1], g[1 - 1]) /\ g[2] = Sensor!forward(st[2], g[2 - 1])
      BY <1>2, <3>1
    <3>3. \A i \in 0 .. 2 : i = 0 \/ i = 1 \/ i = 2
      OBVIOUS
    <3>4. QED
      BY <3>1, <3>2, <3>3
  <2>2. QED
    BY <1>1, <2>1
<1>5. t = F(t)
  <2> HIDE DEF F, g
  <2>1. QED
    BY <1>4
<1> HIDE DEF t
<1>6. \A i \in 0 .. 2 : t[i] = IF i = 0 THEN x ELSE Sensor!forward(st[i], t[i - 1])
  BY <1>1, <1>5
<1>7. t[0] = x /\ t[1] = Sensor!forward(st[1], t[0]) /\ t[2] = Sensor!forward(st[2], t[1])
  <2>1. 0 \in 0 .. 2 /\ 1 \in 0 .. 2 /\ 2 \in 0 .. 2 /\ 1 # 0 /\ 2 # 0 /\ 1 - 1 = 0 /\ 2 - 1 = 1
    OBVIOUS
  <2>2. t[1] = Sensor!forward(st[1], t[1 - 1]) /\ t[2] = Sensor!forward(st[2], t[2 - 1])
    BY <1>6, <2>1
  <2>3. t[0] = x
    BY <1>6, <2>1
  <2>4. QED
    BY <2>1, <2>2, <2>3
<1>8. t[1] = x + p /\ x + p \in Int
  BY <1>2, <1>7
<1>9. QED
  BY <1>1, <1>2, <1>3, <1>7, <1>8

LEMMA TransformInverse ==
  ASSUME NEW p \in Nat, NEW y \in Int
  PROVE  Sensor!transform_inverse(p, y) = y \div 2 - p
<1> DEFINE st == Sensor!Stages(p)
           F(f) == [i \in 1 .. Len(st) + 1 |->
                      IF i > Len(st) THEN y ELSE Sensor!inverse(st[i], f[i + 1])]
           t == CHOOSE f : f = F(f)
           g == [i \in 1 .. 3 |-> IF i = 3 THEN y ELSE IF i = 2 THEN y \div 2 ELSE y \div 2 - p]
<1>1. /\ Len(st) = 2 /\ st[1] = [gain |-> 1, offset |-> p] /\ st[2] = [gain |-> 2, offset |-> 0]
  BY DEF Sensor!Stages
<1>2. /\ \A z \in Int : Sensor!inverse(st[1], z) = z - p
      /\ \A z \in Int : Sensor!inverse(st[2], z) = z \div 2
  <2> HIDE DEF st
  <2>1. st[1].gain = 1 /\ st[1].offset = p /\ st[2].gain = 2 /\ st[2].offset = 0
    BY <1>1
  <2>2. \A z \in Int : (z - p) \div 1 = z - p /\ z - 0 = z
    OBVIOUS
  <2>3. QED
    BY <2>1, <2>2 DEF Sensor!inverse
<1>3. Sensor!transform_inverse(p, y) = t[1]
  BY DEF Sensor!transform_inverse
<1> HIDE DEF st
<1> DEFINE G(i, f) == IF i > 2 THEN y ELSE Sensor!inverse(st[i], f[i + 1])
<1>4. \A f : F(f) = [i \in 1 .. 3 |-> G(i, f)]
  <2>1. Len(st) = 2 /\ 2 + 1 = 3
    BY <1>1
  <2>2. QED
    BY <2>1
<1>5. g = F(g)
  <2>1. \A i \in 1 .. 3 : g[i] = G(i, g)
    <3>1. g[3] = y /\ g[2] = y \div 2 /\ g[1] = y \div 2 - p /\ y \div 2 \in Int
      OBVIOUS
    <3> HIDE DEF g
    <3>2. g[1] = Sensor!inverse(st[1], g[1 + 1]) /\ g[2] = Sensor!inverse(st[2], g[2 + 1])
      BY <1>2, <3>1
    <3>3. \A i \in 1 .. 3 : i = 1 \/ i = 2 \/ i = 3
      OBVIOUS
    <3>4. G(1, g) = Sensor!inverse(st[1], g[1 + 1]) /\ G(2, g) = Sensor!inverse(st[2], g[2 + 1])
          /\ G(3, g) = y
      OBVIOUS
    <3> HIDE DEF G
    <3>5. QED
      BY <3>1, <3>2, <3>3, <3>4
  <2>2. DOMAIN g = 1 .. 3 /\ g = [i \in 1 .. 3 |-> g[i]]
    OBVIOUS
  <2> HIDE DEF g, G, F
  <2>3. QED
    BY <1>4, <2>1, <2>2
<1>6. t = F(t)
  <2> HIDE DEF F, g
  <2>1. QED
    BY <1>5
<1> HIDE DEF t
<1>7. t[3] = G(3, t) /\ t[2] = G(2, t) /\ t[1] = G(1, t)
  <2>1. 3 \in 1 .. 3 /\ 2 \in 1 .. 3 /\ 1 \in 1 .. 3
    OBVIOUS
  <2> HIDE DEF F, G
  <2>2. QED
    BY <1>4, <1>6, <2>1
<1>8. t[3] = y /\ t[2] = Sensor!inverse(st[2], t[3]) /\ t[1] = Sensor!inverse(st[1], t[2])
  BY <1>7
<1>9. t[2] = y \div 2 /\ y \div 2 \in Int
  BY <1>2, <1>8
<1>10. QED
  BY <1>2, <1>3, <1>8, <1>9

\* Of the frames a: the first k codes of a phase, their average, and what the filter is
\* given.
FirstCodes(a, p, k) == [j \in 1 .. k |-> a[j][p]]
Column(a, p) == FirstCodes(a, p, Len(a))
MeanOf(a, p, k) == WF!AverageOf(Average, 0, FirstCodes(a, p, k))
InverseOf(p, y) == Sensor!transform_inverse(p, y)
ConvertedOf(a, p) == [k \in 1 .. Len(a) |-> InverseOf(p, MeanOf(a, p, k))]

LEMMA CodeTypes ==
  ASSUME NEW a \in Seq(Sensor!Frames), NEW p \in Sensor!Phases
  PROVE  /\ \A j \in 1 .. Len(a) : a[j][p] \in Codes /\ a[j][p] \in Int
         /\ \A k \in 0 .. Len(a) : /\ FirstCodes(a, p, k) \in Seq(Int)
                                   /\ Len(FirstCodes(a, p, k)) = k
                                   /\ \A j \in 1 .. k : FirstCodes(a, p, k)[j] = a[j][p]
                                   /\ MeanOf(a, p, k) \in Int
                                   /\ InverseOf(p, MeanOf(a, p, k)) \in Int
         /\ ConvertedOf(a, p) \in Seq(Int) /\ Len(ConvertedOf(a, p)) = Len(a)
         /\ \A k \in 1 .. Len(a) : ConvertedOf(a, p)[k] = InverseOf(p, MeanOf(a, p, k))
<1>1. ASSUME NEW j \in 1 .. Len(a) PROVE a[j][p] \in Codes /\ a[j][p] \in Int
  <2>1. a[j] \in [Sensor!Phases -> Codes]
    BY DEF Sensor!Frames
  <2>2. Codes \subseteq Int
    BY SensorConstants
  <2>3. QED
    BY <2>1, <2>2
<1>2. ASSUME NEW k \in 0 .. Len(a)
      PROVE  /\ FirstCodes(a, p, k) \in Seq(Int)
             /\ Len(FirstCodes(a, p, k)) = k
             /\ \A j \in 1 .. k : FirstCodes(a, p, k)[j] = a[j][p]
             /\ MeanOf(a, p, k) \in Int
             /\ InverseOf(p, MeanOf(a, p, k)) \in Int
  <2> DEFINE f == FirstCodes(a, p, k)
  <2>1. k \in Nat /\ f = [j \in 1 .. k |-> a[j][p]] /\ \A j \in 1 .. k : a[j][p] \in Int
    BY <1>1 DEF FirstCodes
  <2> HIDE DEF f
  <2>2. f \in [1 .. k -> Int] /\ \A j \in 1 .. k : f[j] = a[j][p]
    BY <2>1
  <2>3. f \in Seq(Int) /\ Len(f) = k
    BY <2>1, <2>2
  <2>4. WF!AverageOf(Average, 0, f) \in Int
    BY <2>3, AverageType, SensorConstants
  <2>5. MeanOf(a, p, k) \in Int
    BY <2>4 DEF MeanOf, f
  <2>6. p \in Nat
    BY SensorConstants
  <2>7. InverseOf(p, MeanOf(a, p, k)) = MeanOf(a, p, k) \div 2 - p
    BY <2>5, <2>6, TransformInverse DEF InverseOf
  <2>8. QED
    BY <2>2, <2>3, <2>5, <2>6, <2>7 DEF f
<1>3. /\ ConvertedOf(a, p) \in Seq(Int) /\ Len(ConvertedOf(a, p)) = Len(a)
      /\ \A k \in 1 .. Len(a) : ConvertedOf(a, p)[k] = InverseOf(p, MeanOf(a, p, k))
  <2> DEFINE c == ConvertedOf(a, p)
             n == Len(a)
  <2>1. n \in Nat /\ \A k \in 1 .. n : k \in 0 .. Len(a)
    OBVIOUS
  <2>2. \A k \in 1 .. n : InverseOf(p, MeanOf(a, p, k)) \in Int
    BY <1>2, <2>1
  <2>3. c = [k \in 1 .. n |-> InverseOf(p, MeanOf(a, p, k))]
    BY DEF ConvertedOf
  <2> HIDE DEF c, n
  <2>4. c \in [1 .. n -> Int] /\ \A k \in 1 .. n : c[k] = InverseOf(p, MeanOf(a, p, k))
    BY <2>2, <2>3
  <2>5. c \in Seq(Int) /\ Len(c) = n
    BY <2>1, <2>4
  <2>6. QED
    BY <2>4, <2>5 DEF c, n
<1>4. QED
  BY <1>1, <1>2, <1>3

\* A frame more.
LEMMA FrameAdded ==
  ASSUME NEW a \in Seq(Sensor!Frames), NEW p \in Sensor!Phases, NEW x \in Sensor!Frames
  PROVE  LET u == Append(a, x) IN
         /\ x[p] \in Codes /\ x[p] \in Int
         /\ \A k \in 0 .. Len(a) : FirstCodes(u, p, k) = FirstCodes(a, p, k)
         /\ Column(u, p) = Append(Column(a, p), x[p])
         /\ ConvertedOf(u, p) = Append(ConvertedOf(a, p), InverseOf(p, MeanOf(u, p, Len(u))))
<1> DEFINE u == Append(a, x)
           n == Len(a)
           c == Column(a, p)
           d == ConvertedOf(a, p)
           y == InverseOf(p, MeanOf(u, p, n + 1))
<1>1. /\ u \in Seq(Sensor!Frames) /\ n \in Nat /\ Len(u) = n + 1 /\ u[n + 1] = x
      /\ \A i \in 1 .. n : u[i] = a[i]
  OBVIOUS
<1>2. x[p] \in Codes /\ x[p] \in Int
  <2>1. x \in [Sensor!Phases -> Codes]
    BY DEF Sensor!Frames
  <2>2. Codes \subseteq Int
    BY SensorConstants
  <2>3. QED
    BY <2>1, <2>2
<1> HIDE DEF u
<1>3. ASSUME NEW k \in 0 .. n PROVE FirstCodes(u, p, k) = FirstCodes(a, p, k)
  <2>1. \A j \in 1 .. k : u[j] = a[j]
    BY <1>1
  <2>2. QED
    BY <2>1 DEF FirstCodes
<1>4. c \in Seq(Int) /\ Len(c) = n /\ \A j \in 1 .. n : c[j] = a[j][p]
  <2>1. n \in 0 .. Len(a)
    BY <1>1
  <2>2. QED
    BY <2>1, CodeTypes DEF Column
<1>5. /\ Column(u, p) \in Seq(Int) /\ Len(Column(u, p)) = n + 1
      /\ \A j \in 1 .. n + 1 : Column(u, p)[j] = u[j][p]
  <2>1. n + 1 \in 0 .. Len(u)
    BY <1>1
  <2>2. \A k \in 0 .. Len(u) : /\ FirstCodes(u, p, k) \in Seq(Int)
                              /\ Len(FirstCodes(u, p, k)) = k
                              /\ \A j \in 1 .. k : FirstCodes(u, p, k)[j] = u[j][p]
    BY <1>1, CodeTypes
  <2>3. Column(u, p) = FirstCodes(u, p, n + 1)
    BY <1>1 DEF Column
  <2>4. QED
    BY <2>1, <2>2, <2>3
<1>6. Column(u, p) = Append(c, x[p])
  <2> DEFINE g == Column(u, p)
             z == x[p]
  <2>1. z \in Int /\ g[n + 1] = z /\ \A j \in 1 .. n : g[j] = c[j]
    <3>1. n + 1 \in 1 .. n + 1 /\ \A j \in 1 .. n : j \in 1 .. n + 1
      BY <1>1
    <3>2. QED
      BY <1>1, <1>2, <1>4, <1>5, <3>1
  <2>2. g \in Seq(Int) /\ Len(g) = n + 1 /\ c \in Seq(Int) /\ Len(c) = n /\ n \in Nat
    BY <1>1, <1>4, <1>5
  <2> HIDE DEF g, z, c, n
  <2>3. g = Append(c, z)
    BY ONLY <2>1, <2>2
  <2>4. QED
    BY <2>3 DEF g, z, c, n
<1>7. d \in Seq(Int) /\ Len(d) = n /\ \A k \in 1 .. n : d[k] = InverseOf(p, MeanOf(a, p, k))
  BY CodeTypes
<1>8. /\ ConvertedOf(u, p) \in Seq(Int) /\ Len(ConvertedOf(u, p)) = n + 1 /\ y \in Int
      /\ \A k \in 1 .. n + 1 : ConvertedOf(u, p)[k] = InverseOf(p, MeanOf(u, p, k))
  <2>1. n + 1 \in 0 .. Len(u)
    BY <1>1
  <2>2. QED
    BY <1>1, <2>1, CodeTypes
<1>9. ConvertedOf(u, p) = Append(d, y)
  <2> DEFINE g == ConvertedOf(u, p)
  <2>1. \A k \in 1 .. n : g[k] = d[k]
    <3>1. \A k \in 1 .. n : k \in 0 .. n /\ k \in 1 .. n + 1
      BY <1>1
    <3>2. \A k \in 1 .. n : MeanOf(u, p, k) = MeanOf(a, p, k)
      BY <1>3, <3>1 DEF MeanOf
    <3>3. QED
      BY <1>7, <1>8, <3>1, <3>2
  <2>2. g \in Seq(Int) /\ Len(g) = n + 1 /\ d \in Seq(Int) /\ Len(d) = n /\ n \in Nat
        /\ g[n + 1] = y /\ y \in Int
    <3>1. n + 1 \in 1 .. n + 1
      BY <1>1
    <3>2. QED
      BY <1>1, <1>7, <1>8, <3>1
  <2> HIDE DEF g, d, y, n
  <2>3. g = Append(d, y)
    BY ONLY <2>1, <2>2
  <2>4. QED
    BY <2>3 DEF g, d, y, n
<1>10. QED
  BY <1>1, <1>2, <1>3, <1>6, <1>9 DEF u

\* The oldest frame leaves: what the filters depend on stays.
LEMMA FrameLeft ==
  ASSUME NEW a \in Seq(Sensor!Frames), Len(a) <= MostAbsorbed, NEW x \in Sensor!Frames
  PROVE  LET u == Append(a, x)
             t == Slid(MostAbsorbed, a, x)
         IN  /\ t \in Seq(Sensor!Frames) /\ Len(t) <= MostAbsorbed
             /\ \E o \in {0, 1} : Ends(t, u, o) /\ (o = 0 => t = u) /\ (o = 1 => Len(t) = MostAbsorbed)
<1> DEFINE u == Append(a, x)
           t == Slid(MostAbsorbed, a, x)
           n == Len(a)
<1>1. MostAbsorbed \in Nat /\ MostAbsorbed >= 1
  BY SensorConstants
<1>2. /\ u \in Seq(Sensor!Frames) /\ n \in Nat /\ Len(u) = n + 1 /\ u[n + 1] = x
      /\ \A i \in 1 .. n : u[i] = a[i]
  OBVIOUS
<1>3. CASE n = MostAbsorbed
  <2>1. t = Append(Tail(a), x) /\ a # <<>>
    BY <1>1, <1>3 DEF Slid
  <2>2. /\ t \in Seq(Sensor!Frames) /\ Len(t) = n /\ t[n] = x /\ \A i \in 1 .. n - 1 : t[i] = a[i + 1]
    <3> HIDE DEF t
    <3>1. QED
      BY <2>1
  <2> HIDE DEF t, u
  <2>3. ASSUME NEW i \in 1 .. n PROVE t[i] = u[i + 1]
    <3>1. CASE i = n
      BY <1>2, <2>2, <3>1
    <3>2. CASE i # n
      <4>1. i \in 1 .. n - 1 /\ i + 1 \in 1 .. n
        BY <1>2, <3>2
      <4>2. QED
        BY <1>2, <2>2, <4>1
    <3>3. QED
      BY <3>1, <3>2
  <2>4. Ends(t, u, 1)
    BY <1>2, <2>2, <2>3 DEF Ends
  <2>5. QED
    BY <1>1, <1>3, <2>2, <2>4 DEF t, u
<1>4. CASE n # MostAbsorbed
  <2>1. t = u
    BY <1>4 DEF Slid
  <2> HIDE DEF t, u
  <2>2. Len(t) <= MostAbsorbed
    BY <1>1, <1>2, <1>4, <2>1
  <2>3. Ends(t, u, 0)
    BY <1>2, <2>1 DEF Ends
  <2>4. QED
    BY <1>2, <2>1, <2>2, <2>3 DEF t, u
<1>5. QED
  BY <1>3, <1>4

LEMMA EndsCodes ==
  ASSUME NEW u \in Seq(Sensor!Frames), NEW t \in Seq(Sensor!Frames), NEW o \in Nat,
         Ends(t, u, o), NEW p \in Sensor!Phases, NEW k \in 0 .. Len(t)
  PROVE  Ends(FirstCodes(t, p, k), FirstCodes(u, p, k + o), o)
<1>1. Len(t) = Len(u) - o /\ \A i \in 1 .. Len(t) : t[i] = u[i + o]
  BY DEF Ends
<1>2. Len(u) \in Nat /\ Len(t) \in Nat
  OBVIOUS
<1>3. k + o \in 0 .. Len(u) /\ k \in Nat
  BY <1>1, <1>2
<1>4. Len(FirstCodes(t, p, k)) = k /\ \A j \in 1 .. k : FirstCodes(t, p, k)[j] = t[j][p]
  BY CodeTypes
<1>5. /\ Len(FirstCodes(u, p, k + o)) = k + o
      /\ \A j \in 1 .. k + o : FirstCodes(u, p, k + o)[j] = u[j][p]
  BY <1>3, CodeTypes
<1>6. ASSUME NEW i \in 1 .. k PROVE FirstCodes(t, p, k)[i] = FirstCodes(u, p, k + o)[i + o]
  <2>1. i \in 1 .. Len(t) /\ i + o \in 1 .. k + o
    BY <1>2, <1>3
  <2>2. FirstCodes(t, p, k)[i] = t[i][p] /\ FirstCodes(u, p, k + o)[i + o] = u[i + o][p]
    BY <1>4, <1>5, <2>1
  <2>3. QED
    BY <1>1, <2>1, <2>2
<1>7. k = (k + o) - o
  BY <1>3
<1>8. QED
  BY <1>4, <1>5, <1>6, <1>7 DEF Ends

LEMMA EndsColumn ==
  ASSUME NEW u \in Seq(Sensor!Frames), NEW t \in Seq(Sensor!Frames), NEW o \in Nat,
         Ends(t, u, o), NEW p \in Sensor!Phases, o = 0 \/ Average <= Len(t), NEW f,
         Averages(Average, f, 0, Column(u, p))
  PROVE  Averages(Average, f, 0, Column(t, p))
<1>1. Len(t) + o = Len(u) /\ Len(t) \in 0 .. Len(t) /\ Len(u) \in 0 .. Len(u) /\ Len(t) \in Nat
  BY DEF Ends
<1>2. Ends(Column(t, p), Column(u, p), o)
  <2>1. Ends(FirstCodes(t, p, Len(t)), FirstCodes(u, p, Len(t) + o), o)
    BY <1>1, EndsCodes
  <2>2. QED
    BY <1>1, <2>1 DEF Column
<1>3. Column(u, p) \in Seq(Int)
  BY <1>1, CodeTypes DEF Column
<1>4. Column(t, p) \in Seq(Int) /\ Len(Column(t, p)) = Len(t)
  BY <1>1, CodeTypes DEF Column
<1>5. o = 0 \/ Average <= Len(Column(t, p))
  BY <1>4
<1>6. Average \in Nat \ {0}
  BY SensorConstants
<1>7. QED
  BY <1>2, <1>3, <1>4, <1>5, <1>6, EndsAverages

LEMMA EndsConverted ==
  ASSUME NEW u \in Seq(Sensor!Frames), NEW t \in Seq(Sensor!Frames), NEW o \in {0, 1},
         Ends(t, u, o), NEW p \in Sensor!Phases, o = 0 => t = u, o = 1 => Len(t) = MostAbsorbed
  PROVE  Padded(Median, 0, ConvertedOf(t, p)) = Padded(Median, 0, ConvertedOf(u, p))
<1>1. CASE o = 0
  BY <1>1
<1>2. CASE o = 1
  <2> DEFINE d == ConvertedOf(t, p)
             c == ConvertedOf(u, p)
  <2>1. /\ Len(t) = MostAbsorbed /\ Len(u) = MostAbsorbed + 1
        /\ Len(t) \in Nat /\ Len(u) \in Nat
    BY <1>2 DEF Ends
  <2>2. /\ Average \in Nat \ {0} /\ Average >= 1 /\ Median \in Nat /\ Median >= 1
        /\ MostAbsorbed = Average + Median - 1
    BY SensorConstants DEF MostAbsorbed
  <2>3. d \in Seq(Int) /\ Len(d) = Len(t)
        /\ \A k \in 1 .. Len(t) : d[k] = InverseOf(p, MeanOf(t, p, k))
    BY CodeTypes
  <2>4. c \in Seq(Int) /\ Len(c) = Len(u)
        /\ \A k \in 1 .. Len(u) : c[k] = InverseOf(p, MeanOf(u, p, k))
    BY CodeTypes
  <2> HIDE DEF c, d
  <2>5. ASSUME NEW k \in Average .. Len(t) PROVE MeanOf(t, p, k) = MeanOf(u, p, k + 1)
    <3> DEFINE g == FirstCodes(t, p, k)
               h == FirstCodes(u, p, k + 1)
    <3>1. k \in 0 .. Len(t) /\ k + 1 \in 0 .. Len(u) /\ 1 \in Nat
      BY <2>1, <2>2
    <3>2. Ends(t, u, 1)
      BY <1>2
    <3>3. Ends(g, h, 1)
      BY <3>1, <3>2, EndsCodes
    <3>4. g \in Seq(Int) /\ Len(g) = k
      BY <3>1, CodeTypes
    <3>5. h \in Seq(Int)
      BY <3>1, CodeTypes
    <3>6. (o = 0 \/ Average <= Len(g)) /\ Average \in Nat \ {0} /\ o \in Nat /\ Ends(g, h, o)
      BY <1>2, <2>1, <2>2, <3>3, <3>4
    <3> HIDE DEF g, h
    <3>7. \A v : WF!AverageOf(Average, v, g) = WF!AverageOf(Average, v, h)
      BY <3>4, <3>5, <3>6, EndsAverage
    <3>8. QED
      BY <3>7 DEF MeanOf, g, h
  <2>6. ASSUME NEW i \in 1 .. Median PROVE d[Len(d) - Median + i] = c[Len(c) - Median + i]
    <3> DEFINE k == Average - 1 + i
    <3>1. /\ k \in Average .. Len(t) /\ k \in 1 .. Len(t) /\ k + 1 \in 1 .. Len(u)
          /\ Len(d) - Median + i = k /\ Len(c) - Median + i = k + 1
      BY <2>1, <2>2, <2>3, <2>4
    <3> HIDE DEF k
    <3>2. d[k] = InverseOf(p, MeanOf(t, p, k)) /\ c[k + 1] = InverseOf(p, MeanOf(u, p, k + 1))
      BY <2>3, <2>4, <3>1
    <3>3. MeanOf(t, p, k) = MeanOf(u, p, k + 1)
      BY <2>5, <3>1
    <3>4. QED
      BY <3>1, <3>2, <3>3
  <2>7. Median <= Len(d) /\ Median <= Len(c) /\ 0 \in Int
    BY <2>1, <2>2, <2>3, <2>4
  <2>8. Padded(Median, 0, d) = Padded(Median, 0, c)
    <3>1. /\ c \in Seq(Int) /\ d \in Seq(Int) /\ Median \in Nat
          /\ \A i \in 1 .. Median : d[Len(d) - Median + i] = c[Len(c) - Median + i]
      BY <2>2, <2>3, <2>4, <2>6
    <3>2. QED
      BY <2>7, <3>1, SamePadded, Zenon
  <2>9. QED
    BY <2>8 DEF c, d
<1>3. QED
  BY <1>1, <1>2

\* What the core of a phase holds after the frames a.
CoreHolds(p, core, a) ==
  /\ Averages(Average, core.prefilter, 0, Column(a, p))
  /\ Medians(Median, core.filter, 0, ConvertedOf(a, p))

LEMMA CoreFresh ==
  ASSUME NEW p \in Sensor!Phases, NEW core,
         core = [prefilter |-> Sensor!WF!moving_average_filter(Average, 0),
                 filter |-> Sensor!WF!median_filter(Median, 0)]
  PROVE  CoreHolds(p, core, <<>>)
<1>1. /\ core.prefilter = WF!moving_average_filter(Average, 0)
      /\ core.filter = WF!median_filter(Median, 0)
  BY SensorOperators
<1>2. Averages(Average, core.prefilter, 0, <<>>)
  BY <1>1, SensorConstants, AverageFresh
<1>3. Medians(Median, core.filter, 0, <<>>)
  <2>1. 0 \in Int
    OBVIOUS
  <2>2. QED
    BY <1>1, <2>1, SensorConstants, MedianFresh
<1>4. Column(<<>>, p) = <<>> /\ ConvertedOf(<<>>, p) = <<>>
  BY DEF Column, FirstCodes, ConvertedOf
<1>5. QED
  BY <1>2, <1>3, <1>4 DEF CoreHolds

\* singlephase::submit.
LEMMA CoreSubmitted ==
  ASSUME NEW a \in Seq(Sensor!Frames), Len(a) <= MostAbsorbed, NEW x \in Sensor!Frames,
         NEW p \in Sensor!Phases, NEW core, CoreHolds(p, core, a)
  PROVE  CoreHolds(p, Sensor!core_submit(p, core, x[p]), Slid(MostAbsorbed, a, x))
<1> DEFINE u == Append(a, x)
           t == Slid(MostAbsorbed, a, x)
           g == Sensor!core_submit(p, core, x[p])
           pre == WF!average_push(Average, core.prefilter, x[p])
           y == InverseOf(p, MeanOf(u, p, Len(u)))
           m == WF!median_push(Median, core.filter, y)
           z == x[p]
<1>1. z \in Int /\ Column(u, p) = Append(Column(a, p), z)
      /\ ConvertedOf(u, p) = Append(ConvertedOf(a, p), y)
  BY FrameAdded
<1>2. u \in Seq(Sensor!Frames) /\ Len(a) \in 0 .. Len(a) /\ Len(u) \in 0 .. Len(u)
  OBVIOUS
<1>3. t \in Seq(Sensor!Frames)
      /\ \E o \in {0, 1} : Ends(t, u, o) /\ (o = 0 => t = u) /\ (o = 1 => Len(t) = MostAbsorbed)
  BY FrameLeft
<1> HIDE DEF u, t
<1>4. Averages(Average, pre, 0, Column(u, p))
  <2> DEFINE c == Column(a, p)
             f == core.prefilter
  <2>1. c \in Seq(Int) /\ Average \in Nat \ {0} /\ Averages(Average, f, 0, c)
    BY <1>2, CodeTypes, SensorConstants DEF Column, CoreHolds
  <2> HIDE DEF c, f, z
  <2>2. Averages(Average, WF!average_push(Average, f, z), 0, Append(c, z))
    BY <1>1, <2>1, AveragePushed
  <2>3. QED
    BY <1>1, <2>2 DEF c, f, z
<1>5. y \in Int /\ pre.output = MeanOf(u, p, Len(u))
  <2>1. y \in Int
    BY <1>2, CodeTypes
  <2>2. QED
    BY <1>4, <2>1 DEF Averages, MeanOf, Column
<1>6. g = [prefilter |-> pre, filter |-> m]
  <2> DEFINE Y(r) == Sensor!transform_inverse(p, r)
  <2>1. \A v : Sensor!WF!average_push(Average, core.prefilter, v)
               = WF!average_push(Average, core.prefilter, v)
    BY SensorOperators
  <2>2. \A v : Sensor!WF!median_push(Median, core.filter, v)
               = WF!median_push(Median, core.filter, v)
    BY SensorOperators
  <2>3. g = [prefilter |-> pre,
             filter |-> WF!median_push(Median, core.filter, InverseOf(p, pre.output))]
    BY <2>1, <2>2 DEF Sensor!core_submit, InverseOf
  <2> HIDE DEF pre, g
  <2>4. QED
    BY <1>5, <2>3
<1>7. Medians(Median, m, 0, ConvertedOf(u, p))
  <2> DEFINE c == ConvertedOf(a, p)
             f == core.filter
  <2>1. c \in Seq(Int) /\ Median \in Nat \ {0} /\ IsOdd(Median) /\ 0 \in Int
    BY CodeTypes, SensorConstants
  <2>2. Ring(Median, f.window, Padded(Median, 0, c))
    BY DEF CoreHolds, Medians
  <2> HIDE DEF c, f, y
  <2>3. Medians(Median, WF!median_push(Median, f, y), 0, Append(c, y))
    BY <1>5, <2>1, <2>2, MedianPushed
  <2>4. QED
    BY <1>1, <2>3 DEF c, f
<1>8. g.prefilter = pre /\ g.filter = m
  BY <1>6
<1>9. PICK o \in {0, 1} : Ends(t, u, o) /\ (o = 0 => t = u) /\ (o = 1 => Len(t) = MostAbsorbed)
  BY <1>3
<1> HIDE DEF g, pre, m, y, z
<1>10. Averages(Average, pre, 0, Column(t, p))
  <2>1. o = 0 \/ Average <= Len(t)
    BY <1>9, SensorConstants
  <2>2. o \in Nat
    OBVIOUS
  <2>3. QED
    BY <1>2, <1>3, <1>4, <1>9, <2>1, <2>2, EndsColumn
<1>11. Medians(Median, m, 0, ConvertedOf(t, p))
  <2>1. Padded(Median, 0, ConvertedOf(t, p)) = Padded(Median, 0, ConvertedOf(u, p))
    BY <1>2, <1>3, <1>9, EndsConverted
  <2>2. QED
    BY <1>7, <2>1, SameMedians
<1>12. QED
  BY <1>8, <1>10, <1>11 DEF CoreHolds, g, t

\* A sum of multiples.
IsMultiple(x, d) == \E q \in Int : x = d * q

LEMMA SumMultiple ==
  ASSUME NEW s \in Seq(Int), NEW d \in Int, \A i \in 1 .. Len(s) : IsMultiple(s[i], d)
  PROVE  IsMultiple(WF!SumOf(s), d)
<1>1. PICK g : IsSums(g, s) /\ WF!SumOf(s) = g[Len(s)]
  BY Sums
<1> DEFINE T == {k \in Nat : k <= Len(s) => IsMultiple(g[k], d)}
<1>2. 0 \in T
  <2>1. g[0] = 0
    BY <1>1 DEF IsSums
  <2>2. 0 = d * 0 /\ 0 \in Int
    OBVIOUS
  <2>3. IsMultiple(0, d)
    BY <2>2 DEF IsMultiple
  <2>4. QED
    BY <2>1, <2>3
<1>3. ASSUME NEW k \in Nat, k \in T PROVE k + 1 \in T
  <2>1. SUFFICES ASSUME k + 1 <= Len(s) PROVE IsMultiple(g[k + 1], d)
    OBVIOUS
  <2>2. k + 1 \in 1 .. Len(s) /\ (k + 1) - 1 = k /\ IsMultiple(g[k], d)
    BY <1>3, <2>1
  <2>3. g[k + 1] = g[k] + s[k + 1] /\ IsMultiple(s[k + 1], d)
    BY <1>1, <2>2 DEF IsSums
  <2>4. PICK q \in Int : g[k] = d * q
    BY <2>2 DEF IsMultiple
  <2>5. PICK r \in Int : s[k + 1] = d * r
    BY <2>3 DEF IsMultiple
  <2>6. d * q + d * r = d * (q + r) /\ q + r \in Int
    BY Z3
  <2>7. g[k + 1] = d * (q + r)
    BY <2>3, <2>4, <2>5, <2>6
  <2>8. QED
    BY <2>6, <2>7 DEF IsMultiple
<1> HIDE DEF T
<1>4. Len(s) \in T
  <2>1. Nat \subseteq T
    BY <1>2, <1>3, Induction
  <2>2. QED
    BY <2>1
<1>5. QED
  BY <1>1, <1>4 DEF T

LargestCode == CHOOSE c \in Codes : \A d \in Codes : d <= c

LEMMA CodeFacts ==
  /\ LargestCode \in Nat /\ Sensor!Measured = -N .. LargestCode
  /\ \A c \in Codes : c \in Nat /\ 0 <= c /\ c <= LargestCode
  /\ \A c \in Codes : \A k \in 1 .. Average : IsMultiple(c, 2 * k)
<1>1. Codes \subseteq Nat /\ \E c \in Codes : \A d \in Codes : d <= c
  BY SensorAssumption
<1>2. LargestCode \in Codes /\ \A d \in Codes : d <= LargestCode
  BY <1>1 DEF LargestCode
<1>3. Sensor!Measured = -N .. LargestCode
  BY DEF Sensor!Measured, LargestCode
<1>4. ASSUME NEW c \in Codes, NEW k \in 1 .. Average PROVE IsMultiple(c, 2 * k)
  <2>1. c % (2 * k) = 0 /\ c \in Nat
    BY <1>1, SensorAssumption
  <2>2. k \in Nat \ {0}
    BY SensorConstants
  <2> DEFINE m == 2 * k
             q == c \div m
  <2>3. m \in Nat \ {0} /\ c % m = 0
    BY <2>1, <2>2
  <2> HIDE DEF m
  <2>4. q \in Int /\ c = m * q + (c % m)
    BY <2>1, <2>3, Z3
  <2> HIDE DEF q
  <2>5. m * q \in Int
    BY <2>3, <2>4, Z3
  <2>6. c = m * q
    BY <2>3, <2>4, <2>5
  <2>7. QED
    BY <2>4, <2>6 DEF IsMultiple, m
<1>5. QED
  BY <1>1, <1>2, <1>3, <1>4

\* An average of codes is twice a whole number.
LEMMA MeanFacts ==
  ASSUME NEW a \in Seq(Sensor!Frames), NEW p \in Sensor!Phases, NEW k \in 1 .. Len(a)
  PROVE  \E q \in Int : MeanOf(a, p, k) = 2 * q /\ 0 <= 2 * q /\ 2 * q <= LargestCode
<1> DEFINE f == FirstCodes(a, p, k)
           w == Recent(Average, f)
           l == IF Len(f) < Average THEN Len(f) ELSE Average
           s == WF!SumOf(w)
<1>1. k \in 0 .. Len(a) /\ k \in Nat /\ k >= 1
  OBVIOUS
<1>2. f \in Seq(Int) /\ Len(f) = k /\ \A j \in 1 .. k : f[j] \in Codes
  <2>1. f \in Seq(Int) /\ Len(f) = k /\ \A j \in 1 .. k : f[j] = a[j][p]
    BY <1>1, CodeTypes
  <2>2. \A j \in 1 .. k : a[j][p] \in Codes
    <3>1. \A j \in 1 .. Len(a) : a[j][p] \in Codes
      BY CodeTypes
    <3>2. QED
      BY <1>1, <3>1
  <2>3. QED
    BY <2>1, <2>2
<1> HIDE DEF f
<1>3. Average \in Nat /\ Average >= 1
  BY SensorConstants
<1>4. w \in Seq(Int) /\ Len(w) = l /\ \A i \in 1 .. l : w[i] = f[Len(f) - l + i]
  BY <1>2, <1>3, RecentFacts
<1>5. l \in 1 .. Average /\ l \in Nat \ {0} /\ l <= k
  BY <1>1, <1>2, <1>3
<1>6. MeanOf(a, p, k) = s \div l
  <2>1. f # <<>>
    BY <1>1, <1>2
  <2>2. MeanOf(a, p, k) = WF!SumOf(w) \div Len(w)
    BY <2>1 DEF MeanOf, WF!AverageOf, Recent, f
  <2>3. QED
    BY <1>4, <2>2
<1> HIDE DEF w, l
<1>7. \A i \in 1 .. Len(w) : w[i] \in Codes
  <2>1. \A i \in 1 .. l : Len(f) - l + i \in 1 .. k
    BY <1>2, <1>5
  <2>2. QED
    BY <1>2, <1>4, <2>1
<1> DEFINE L == LargestCode
<1>8. L \in Int /\ 0 \in Int /\ \A i \in 1 .. Len(w) : 0 <= w[i] /\ w[i] <= L
  BY <1>7, CodeFacts
<1>9. s \in Int /\ l * 0 <= s /\ s <= l * L
  <2> HIDE DEF L
  <2>1. Len(w) * 0 <= WF!SumOf(w) /\ WF!SumOf(w) <= Len(w) * L
    BY <1>4, <1>8, SumBounds
  <2>2. WF!SumOf(w) \in Int
    BY <1>4, SumType
  <2>3. QED
    BY <1>4, <2>1, <2>2
<1>10. PICK q \in Int : s = (2 * l) * q
  <2> DEFINE d == 2 * l
  <2>1. \A i \in 1 .. Len(w) : IsMultiple(w[i], 2 * l)
    BY <1>5, <1>7, CodeFacts
  <2>2. d \in Int /\ \A i \in 1 .. Len(w) : IsMultiple(w[i], d)
    BY <1>5, <2>1
  <2> HIDE DEF d
  <2>3. IsMultiple(WF!SumOf(w), d)
    BY <1>4, <2>2, SumMultiple
  <2>4. QED
    BY <2>3 DEF IsMultiple, d
<1> HIDE DEF s, L
<1> DEFINE r == 2 * q
<1>11. r \in Int /\ l * r <= s /\ s <= l * r
  BY <1>5, <1>9, <1>10, Z3
<1> HIDE DEF r
<1>12. r <= s \div l /\ s \div l <= r /\ 0 <= s \div l /\ s \div l <= L
  BY <1>5, <1>8, <1>9, <1>11, QuotientBounds
<1>13. s \div l \in Int
  BY <1>5, <1>9
<1> DEFINE m == s \div l
<1>14. m \in Int /\ r <= m /\ m <= r /\ 0 <= m /\ m <= L /\ MeanOf(a, p, k) = m
  BY <1>6, <1>12, <1>13
<1> HIDE DEF m
<1>15. m = 2 * q /\ 0 <= 2 * q /\ 2 * q <= L /\ MeanOf(a, p, k) = 2 * q
  BY <1>8, <1>11, <1>14 DEF r
<1>16. QED
  BY <1>15 DEF L

\* The value that a code stands for is the one that the converter computes.
LEMMA ConverterInverts ==
  ASSUME NEW a \in Seq(Sensor!Frames), NEW p \in Sensor!Phases, NEW k \in 1 .. Len(a)
  PROVE  (CHOOSE x \in Sensor!Measured : Sensor!transform_forward(p, x) = MeanOf(a, p, k))
           = InverseOf(p, MeanOf(a, p, k))
<1> DEFINE m == MeanOf(a, p, k)
           i == InverseOf(p, m)
<1>1. PICK q \in Int : m = 2 * q /\ 0 <= 2 * q /\ 2 * q <= LargestCode
  BY MeanFacts
<1>2. p \in Nat /\ p <= N /\ N \in Nat /\ m \in Int /\ LargestCode \in Nat
  BY <1>1, SensorConstants, CodeFacts
<1> HIDE DEF m
<1>3. i = m \div 2 - p
  BY <1>2, TransformInverse DEF InverseOf
<1>4. i = q - p /\ i \in Int
  BY <1>1, <1>2, <1>3
<1> HIDE DEF i
<1>5. i \in Sensor!Measured
  <2>1. i \in -N .. LargestCode
    BY <1>1, <1>2, <1>4
  <2>2. QED
    BY <2>1, CodeFacts
<1>6. ASSUME NEW x \in Sensor!Measured PROVE Sensor!transform_forward(p, x) = m <=> x = i
  <2>1. x \in Int
    BY <1>2, CodeFacts
  <2>2. Sensor!transform_forward(p, x) = 2 * (x + p)
    BY <1>2, <2>1, TransformForward
  <2>3. 2 * (x + p) = 2 * q <=> x = q - p
    BY <1>1, <1>2, <2>1
  <2>4. QED
    BY <1>1, <1>4, <2>2, <2>3
<1>7. (CHOOSE x \in Sensor!Measured : Sensor!transform_forward(p, x) = m) = i
  BY <1>5, <1>6
<1>8. QED
  BY <1>7 DEF i, m

\* In the middle of process the phases before `phase` have the frame, the others not.
PhasesHold(cs, r, ph, ab) ==
  /\ r \in Sensor!Frames
  /\ \E a \in Seq(Sensor!Frames) :
       /\ Len(a) <= MostAbsorbed /\ ab = Slid(MostAbsorbed, a, r)
       /\ \A p \in Sensor!Phases : CoreHolds(p, cs[p], IF p < ph THEN ab ELSE a)

SensorInv ==
  /\ pc \in {"pop", "submit"} /\ phase \in Sensor!Phases /\ (pc = "pop" => phase = 1)
  /\ queue \in Seq(Sensor!Frames)
  /\ absorbed \in Seq(Sensor!Frames) /\ Len(absorbed) <= MostAbsorbed
  /\ cores = [p \in Sensor!Phases |-> cores[p]]
  /\ pc = "pop" => \A p \in Sensor!Phases : CoreHolds(p, cores[p], absorbed)
  /\ pc = "submit" => PhasesHold(cores, raw, phase, absorbed)

LEMMA SensorInitially == Sensor!Init => SensorInv
<1> SUFFICES ASSUME Sensor!Init PROVE SensorInv
  OBVIOUS
<1>1. pc = "pop" /\ phase = 1 /\ queue = <<>> /\ absorbed = <<>>
  BY DEF Sensor!Init
<1>2. 1 \in Sensor!Phases /\ MostAbsorbed \in Nat
  BY SensorConstants
<1> DEFINE core == [prefilter |-> Sensor!WF!moving_average_filter(Average, 0),
                    filter |-> Sensor!WF!median_filter(Median, 0)]
<1>3. cores = [p \in Sensor!Phases |-> core]
  BY DEF Sensor!Init
<1>4. \A p \in Sensor!Phases : CoreHolds(p, core, <<>>)
  BY CoreFresh
<1> HIDE DEF core
<1>5. cores = [p \in Sensor!Phases |-> cores[p]] /\ \A p \in Sensor!Phases : cores[p] = core
  BY <1>3
<1>6. <<>> \in Seq(Sensor!Frames) /\ Len(<<>>) = 0
  OBVIOUS
<1>7. QED
  BY <1>1, <1>2, <1>4, <1>5, <1>6 DEF SensorInv

\* The interrupt changes the queue only.
LEMMA SensorSubmit ==
  ASSUME SensorInv, NEW frame \in Sensor!Frames, Sensor!submit(frame)
  PROVE  SensorInv'
<1>1. UNCHANGED <<cores, pc, raw, phase, absorbed>>
  BY DEF Sensor!submit
<1>2. queue' \in Seq(Sensor!Frames)
  <2>1. queue \in Seq(Sensor!Frames) /\ (queue' = queue \/ queue' = Append(queue, frame))
    BY DEF Sensor!submit, SensorInv
  <2>2. QED
    BY <2>1
<1>3. QED
  BY <1>1, <1>2 DEF SensorInv

LEMMA SensorPop ==
  ASSUME SensorInv, Sensor!try_pop
  PROVE  SensorInv'
<1> DEFINE r == Head(queue)
           ab == Slid(MostAbsorbed, absorbed, r)
<1>1. /\ pc = "pop" /\ queue # <<>> /\ raw' = r /\ queue' = Tail(queue) /\ pc' = "submit"
      /\ cores' = cores /\ phase' = phase
  BY DEF Sensor!try_pop
<1>2. /\ phase = 1 /\ phase \in Sensor!Phases /\ queue \in Seq(Sensor!Frames)
      /\ absorbed \in Seq(Sensor!Frames) /\ Len(absorbed) <= MostAbsorbed
      /\ cores = [p \in Sensor!Phases |-> cores[p]]
      /\ \A p \in Sensor!Phases : CoreHolds(p, cores[p], absorbed)
  BY <1>1 DEF SensorInv
<1>3. r \in Sensor!Frames /\ queue' \in Seq(Sensor!Frames)
  BY <1>1, <1>2
<1> HIDE DEF r
<1>4. absorbed' = ab
  <2> DEFINE s == Append(absorbed, r)
             n == Len(absorbed)
             K == MostAbsorbed
  <2>1. absorbed' = IF Len(s) > K THEN Tail(s) ELSE s
    BY DEF Sensor!try_pop, MostAbsorbed, r
  <2>2. n \in Nat /\ n <= K /\ K \in Nat /\ K >= 1 /\ Len(s) = n + 1
    <3>1. n \in Nat /\ Len(s) = n + 1
      BY <1>2, <1>3
    <3>2. QED
      BY <1>2, <3>1, SensorConstants
  <2>3. n >= 1 => Tail(s) = Append(Tail(absorbed), r)
    <3>1. absorbed \in Seq(Sensor!Frames) /\ r \in Sensor!Frames
      BY <1>2, <1>3
    <3>2. QED
      BY ONLY <3>1
  <2>4. ab = IF n = K THEN Append(Tail(absorbed), r) ELSE s
    BY DEF Slid
  <2> HIDE DEF s, n, K, ab
  <2>5. CASE n = K
    <3>1. n >= 1 /\ Len(s) > K
      BY <2>2, <2>5
    <3>2. absorbed' = Tail(s) /\ ab = Append(Tail(absorbed), r)
      BY <2>1, <2>4, <2>5, <3>1
    <3>3. QED
      BY <2>3, <3>1, <3>2
  <2>6. CASE n # K
    <3>1. ~(Len(s) > K)
      BY <2>2, <2>6
    <3>2. QED
      BY <2>1, <2>4, <2>6, <3>1
  <2>7. QED
    BY <2>5, <2>6
<1>5. ab \in Seq(Sensor!Frames) /\ Len(ab) <= MostAbsorbed
  BY <1>2, <1>3, FrameLeft
<1>6. PhasesHold(cores, r, phase, ab)
  <2>1. \A p \in Sensor!Phases : ~(p < phase)
    BY <1>2, SensorConstants
  <2> HIDE DEF ab
  <2>2. \A p \in Sensor!Phases : CoreHolds(p, cores[p], IF p < phase THEN ab ELSE absorbed)
    BY <1>2, <2>1
  <2>3. QED
    BY <1>2, <1>3, <2>2 DEF PhasesHold, ab
<1> HIDE DEF ab
<1>7. QED
  BY <1>1, <1>2, <1>3, <1>4, <1>5, <1>6 DEF SensorInv

LEMMA SensorSubmitImpl ==
  ASSUME SensorInv, Sensor!submit_impl
  PROVE  SensorInv'
<1> DEFINE g == Sensor!core_submit(phase, cores[phase], raw[phase])
<1>1. /\ pc = "submit" /\ queue' = queue /\ absorbed' = absorbed
      /\ cores' = [cores EXCEPT ![phase] = g]
      /\ phase' = IF phase = N THEN 1 ELSE phase + 1
      /\ pc' = IF phase = N THEN "pop" ELSE "submit"
      /\ phase # N => raw' = raw
  BY DEF Sensor!submit_impl
<1>2. /\ phase \in Sensor!Phases /\ queue \in Seq(Sensor!Frames)
      /\ absorbed \in Seq(Sensor!Frames) /\ Len(absorbed) <= MostAbsorbed
      /\ cores = [p \in Sensor!Phases |-> cores[p]]
      /\ PhasesHold(cores, raw, phase, absorbed)
  BY <1>1 DEF SensorInv
<1>3. /\ Sensor!Phases = 1 .. N /\ N \in Nat \ {0} /\ phase \in Nat /\ 1 <= phase /\ phase <= N
  BY <1>2, SensorConstants
<1>4. raw \in Sensor!Frames
  BY <1>2 DEF PhasesHold
<1>5. PICK a \in Seq(Sensor!Frames) :
        /\ Len(a) <= MostAbsorbed /\ absorbed = Slid(MostAbsorbed, a, raw)
        /\ \A p \in Sensor!Phases : CoreHolds(p, cores[p], IF p < phase THEN absorbed ELSE a)
  BY <1>2 DEF PhasesHold
<1>6. CoreHolds(phase, g, absorbed)
  <2>1. CoreHolds(phase, cores[phase], a)
    BY <1>2, <1>3, <1>5
  <2>2. CoreHolds(phase, g, Slid(MostAbsorbed, a, raw))
    BY <1>2, <1>4, <1>5, <2>1, CoreSubmitted
  <2>3. QED
    BY <1>5, <2>2
<1> HIDE DEF g
<1>7. /\ cores' = [p \in Sensor!Phases |-> cores'[p]]
      /\ cores'[phase] = g /\ \A p \in Sensor!Phases : p # phase => cores'[p] = cores[p]
  BY <1>1, <1>2
<1>8. CASE phase = N
  <2>1. ASSUME NEW p \in Sensor!Phases PROVE CoreHolds(p, cores'[p], absorbed')
    <3>1. CASE p = phase
      BY <1>1, <1>6, <1>7, <3>1
    <3>2. CASE p # phase
      <4>1. p < phase
        BY <1>3, <1>8, <3>2
      <4>2. QED
        BY <1>1, <1>5, <1>7, <3>2, <4>1
    <3>3. QED
      BY <3>1, <3>2
  <2>2. pc' = "pop" /\ phase' = 1 /\ 1 \in Sensor!Phases
    BY <1>1, <1>3, <1>8
  <2>3. QED
    BY <1>1, <1>2, <1>7, <2>1, <2>2 DEF SensorInv
<1>9. CASE phase # N
  <2>1. pc' = "submit" /\ phase' = phase + 1 /\ phase' \in Sensor!Phases /\ raw' = raw
    BY <1>1, <1>3, <1>9
  <2>2. ASSUME NEW p \in Sensor!Phases
        PROVE  CoreHolds(p, cores'[p], IF p < phase' THEN absorbed ELSE a)
    <3>1. CASE p = phase
      <4>1. p < phase'
        BY <1>3, <2>1, <3>1
      <4>2. QED
        BY <1>6, <1>7, <3>1, <4>1
    <3>2. CASE p # phase
      <4>1. p < phase' <=> p < phase
        BY <1>3, <2>1, <3>2
      <4>2. cores'[p] = cores[p]
        BY <1>7, <3>2
      <4>3. QED
        BY <1>5, <4>1, <4>2
    <3>3. QED
      BY <3>1, <3>2
  <2>3. PhasesHold(cores', raw', phase', absorbed')
    BY <1>1, <1>4, <1>5, <2>1, <2>2 DEF PhasesHold
  <2>4. QED
    BY <1>1, <1>2, <1>7, <2>1, <2>3 DEF SensorInv
<1>10. QED
  BY <1>8, <1>9

LEMMA SensorKeeps == SensorInv /\ [Sensor!Next]_Sensor!sensorVars => SensorInv'
<1> SUFFICES ASSUME SensorInv, [Sensor!Next]_Sensor!sensorVars PROVE SensorInv'
  OBVIOUS
<1>1. CASE UNCHANGED Sensor!sensorVars
  BY <1>1 DEF SensorInv, Sensor!sensorVars
<1>2. CASE Sensor!Next
  BY <1>2, SensorSubmit, SensorPop, SensorSubmitImpl DEF Sensor!Next
<1>3. QED
  BY <1>1, <1>2

LEMMA SensorValue == SensorInv => ValuesOfOneInstant
<1> SUFFICES ASSUME SensorInv, pc # "submit", NEW p \in Sensor!Phases
             PROVE  LET converted == [k \in 1 .. Len(absorbed) |->
                                        CHOOSE x \in Sensor!Measured :
                                          Sensor!transform_forward(p, x) = Sensor!Averaged(p)[k]]
                    IN  Sensor!value(p) = Sensor!WF!MedianOf(Median, 0, converted)
  BY DEF ValuesOfOneInstant, Sensor!ValuesOfOneInstant
<1>1. pc = "pop" /\ absorbed \in Seq(Sensor!Frames) /\ CoreHolds(p, cores[p], absorbed)
  BY DEF SensorInv
<1>2. \A k \in 1 .. Len(absorbed) : Sensor!Averaged(p)[k] = MeanOf(absorbed, p, k)
  BY SensorOperators DEF Sensor!Averaged, MeanOf, FirstCodes
<1>3. \A k \in 1 .. Len(absorbed) :
        (CHOOSE x \in Sensor!Measured : Sensor!transform_forward(p, x) = Sensor!Averaged(p)[k])
          = InverseOf(p, MeanOf(absorbed, p, k))
  BY <1>1, <1>2, ConverterInverts
<1>4. Sensor!value(p) = WF!MedianOf(Median, 0, ConvertedOf(absorbed, p))
  BY <1>1 DEF CoreHolds, Medians, Sensor!value
<1>5. [k \in 1 .. Len(absorbed) |->
         CHOOSE x \in Sensor!Measured : Sensor!transform_forward(p, x) = Sensor!Averaged(p)[k]]
        = ConvertedOf(absorbed, p)
  BY <1>3 DEF ConvertedOf
<1>6. QED
  BY <1>4, <1>5, SensorOperators

\* Whenever process is not in the middle of a frame, the values of all phases belong to
\* the same frames, each the median of the converted averages of its own codes, whatever
\* the interrupt submits meanwhile (process, submit, submit_impl).
THEOREM SensorValues == Sensor!Spec => []ValuesOfOneInstant
<1>1. Sensor!Spec => []SensorInv
  BY SensorInitially, SensorKeeps, PTL DEF Sensor!Spec
<1>2. QED
  BY <1>1, SensorValue, PTL

-----------------------------------------------------------------------------
(* All parts side by side.                                                 *)

\* A step of one part leaves the others alone, so that a behaviour of all parts is one of
\* each part.
LEMMA StepOfOnePart ==
  ASSUME MCNext
  PROVE  /\ UNCHANGED <<part, number>>
         /\ Next \/ UNCHANGED containerVars
         /\ Filters!Next \/ UNCHANGED filterVars
         /\ Sensor!Next \/ UNCHANGED sensorVars
         /\ Nvm!Next \/ UNCHANGED nvmVars
         /\ Action!Next \/ UNCHANGED actionVars
         /\ Mirror!Next \/ UNCHANGED flags_
         /\ Triple!Next \/ UNCHANGED tripleVars
<1>1. CASE Only("containers") /\ Next
  BY <1>1 DEF Only
<1>2. CASE Only("filters") /\ Filters!Next
  BY <1>2 DEF Only
<1>3. CASE Only("sensors") /\ Sensor!Next
  BY <1>3 DEF Only
<1>4. CASE Only("nvm") /\ Nvm!Next
  BY <1>4 DEF Only
<1>5. CASE Only("action") /\ Action!Next
  BY <1>5 DEF Only
<1>6. CASE Only("mirror") /\ Mirror!Next
  BY <1>6 DEF Only
<1>7. CASE Only("triple") /\ Triple!Next
  BY <1>7 DEF Only
<1>8. QED
  BY <1>1, <1>2, <1>3, <1>4, <1>5, <1>6, <1>7, Zenon DEF MCNext

LEMMA SameVariables ==
  /\ UNCHANGED containerVars => UNCHANGED vars
  /\ UNCHANGED filterVars => UNCHANGED Filters!filterVars
  /\ UNCHANGED sensorVars => UNCHANGED Sensor!sensorVars
  /\ UNCHANGED nvmVars => UNCHANGED Nvm!nvmVars
  /\ UNCHANGED actionVars => UNCHANGED Action!actionVars
  /\ UNCHANGED tripleVars => UNCHANGED Triple!vars
BY DEF containerVars, Filters!filterVars, filterVars, Sensor!sensorVars, sensorVars,
       Nvm!nvmVars, Nvm!callVars, Nvm!ghostVars, nvmVars, Action!actionVars, actionVars,
       Triple!vars, tripleVars

LEMMA StepOfEach ==
  [MCNext]_allVars =>
    /\ UNCHANGED <<part, number>>
    /\ [Next]_vars
    /\ [Filters!Next]_Filters!filterVars
    /\ [Sensor!Next]_Sensor!sensorVars
    /\ [Nvm!Next]_Nvm!nvmVars
    /\ [Action!Next]_Action!actionVars
    /\ [Mirror!Next]_flags_
    /\ [Triple!Next]_Triple!vars
<1>1. CASE MCNext
  BY <1>1, StepOfOnePart, SameVariables
<1>2. CASE UNCHANGED allVars
  <2>1. /\ UNCHANGED <<part, number>> /\ UNCHANGED containerVars /\ UNCHANGED filterVars
        /\ UNCHANGED sensorVars /\ UNCHANGED nvmVars /\ UNCHANGED actionVars
        /\ UNCHANGED flags_ /\ UNCHANGED tripleVars
    BY <1>2 DEF allVars
  <2>2. QED
    BY <2>1, SameVariables
<1>3. QED
  BY <1>1, <1>2

MathInv == part = "math" => number \in Math!Floats

LEMMA MathIsExact == MathInv => MathExact
<1>1. SUFFICES ASSUME number \in Math!Floats
               PROVE  /\ Math!SaturateRoundExact(number)
                      /\ Math!AnglesNormal(number)
                      /\ Math!BoundsKept(number)
  BY DEF MathInv, MathExact
<1>2. number \in Int
  BY <1>1, Floats
<1>3. QED
  BY <1>1, <1>2, RoundsExactly, AnglesAreNormal, BoundsAreKept

\* A behaviour of the parts side by side is one of each of them.
THEOREM EachPartBehaves ==
  MCSpec => /\ Spec /\ Filters!Spec /\ Sensor!Spec /\ Nvm!Spec /\ Action!Spec /\ Triple!Spec
            /\ Mirror!Init /\ [][Mirror!Next]_flags_
            /\ []MathInv
<1>1. MCInit => /\ Init /\ Filters!Init /\ Sensor!Init /\ Nvm!Init /\ Action!Init
                /\ Mirror!Init /\ Triple!Init
  BY DEF MCInit
<1>2. MCInit => MathInv
  BY DEF MCInit, MathInv
<1>3. MathInv /\ [MCNext]_allVars => MathInv'
  BY StepOfEach DEF MathInv
<1>4. MCSpec => []MathInv
  BY <1>2, <1>3, PTL DEF MCSpec
<1>5. QED
  BY <1>1, <1>4, StepOfEach, PTL
     DEF MCSpec, Spec, Filters!Spec, Sensor!Spec, Nvm!Spec, Action!Spec, Triple!Spec

\* What is computed incrementally or in a roundabout way is what its definition says: the
\* output of a filter after any samples, the moment a triggered action is executed, the
\* answers of a mirror, and the functions of math.hpp (push, check_and_execute, worst,
\* saturate_round).
THEOREM DefinitionsAreMatched == MCSpec => []MatchDefinitions
<1>1. MathInv => MathExact
  BY MathIsExact
<1>2. /\ Filters!OutputExact /\ Action!ExecutedWhenHeld /\ Mirror!AnswersAgree /\ MathExact
        => MatchDefinitions
  BY DEF MatchDefinitions
<1>3. QED
  BY <1>1, <1>2, EachPartBehaves, FiltersExact, ExecutesHeldTrigger, MirrorAnswersAgree, PTL
=============================================================================
