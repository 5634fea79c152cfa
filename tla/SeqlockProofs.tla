--------------------------- MODULE SeqlockProofs ---------------------------
(***************************************************************************)
(* Proofs about Seqlock, for values of any number of words and a sequence  *)
(* number of any width that no attempt of a load lets come round.          *)
(***************************************************************************)
EXTENDS Seqlock, ModArith

(* Facts about the sequence number.                                        *)

LEMMA Modulus ==
  /\ SeqMod \in Nat \ {0} /\ SeqMod % 2 = 0
  /\ MaxOverlap \in Nat /\ 2 * MaxOverlap < SeqMod
  /\ MaxValue \in Nat
BY SeqlockAssumption

\* The remainder goes on counting where the number wraps.
LEMMA ModNext ==
  ASSUME NEW c \in Nat \ {0}, NEW a \in Nat
  PROVE  ((a % c) + 1) % c = (a + 1) % c
<1> DEFINE q == a \div c
           r == a % c
<1>1. q \in Nat /\ r \in 0 .. c - 1 /\ a = c * q + r
  BY DivMod
<1> HIDE DEF q, r
<1>2. c * q \in Nat /\ c * q = c * q + 0 /\ 0 \in 0 .. c - 1
  <2>1. c * q \in Nat
    BY <1>1, Z3
  <2>2. \A x \in Nat : x = x + 0
    OBVIOUS
  <2>3. c * q = c * q + 0
    BY <2>1, <2>2
  <2>4. 0 \in 0 .. c - 1
    OBVIOUS
  <2>5. QED
    BY <2>1, <2>3, <2>4
<1>3. (c * q) % c = 0
  BY <1>1, <1>2, ModUnique
<1> DEFINE m == c * q
<1>4. m \in Nat /\ m % c = 0 /\ a = m + r
  BY <1>1, <1>2, <1>3
<1> HIDE DEF m
<1>5. r + 1 \in Nat /\ a + 1 = (r + 1) + m
  BY <1>1, <1>4
<1>6. ((r + 1) + m) % c = (r + 1) % c
  BY <1>4, <1>5, ModShift
<1>7. QED
  BY <1>5, <1>6 DEF r

\* An even number of values: the number is odd and even by turns, also where it wraps.
LEMMA IncrFacts ==
  ASSUME NEW s \in 0 .. SeqMod - 1
  PROVE  /\ Incr(s) \in 0 .. SeqMod - 1
         /\ Odd(Incr(s)) <=> ~Odd(s)
<1>1. SeqMod \in Nat \ {0} /\ SeqMod % 2 = 0
  BY Modulus
<1>2. CASE s + 1 = SeqMod
  <2>1. SeqMod = SeqMod * 1 + 0 /\ 0 \in 0 .. SeqMod - 1
    BY <1>1
  <2>2. SeqMod % SeqMod = 0
    BY <1>1, <2>1, ModUnique
  <2>3. Incr(s) = 0
    BY <1>2, <2>2 DEF Incr
  <2>4. QED
    BY <1>1, <1>2, <2>3 DEF Odd
<1>3. CASE s + 1 # SeqMod
  <2>1. s + 1 = SeqMod * 0 + (s + 1) /\ s + 1 \in 0 .. SeqMod - 1 /\ s + 1 \in Nat
    BY <1>1, <1>3
  <2>2. Incr(s) = s + 1
    BY <1>1, <2>1, ModUnique DEF Incr
  <2>3. QED
    BY <1>1, <2>1, <2>2 DEF Odd
<1>4. QED
  BY <1>2, <1>3

\* The number is the sampled one again only if nothing was added to it.
LEMMA SameNumber ==
  ASSUME NEW s \in 0 .. SeqMod - 1, NEW n \in 0 .. 2 * MaxOverlap, (s + n) % SeqMod = s
  PROVE  n = 0
<1>1. SeqMod \in Nat \ {0} /\ 2 * MaxOverlap < SeqMod /\ MaxOverlap \in Nat
  BY Modulus
<1>2. s = SeqMod * 0 + s
  BY <1>1
<1>3. s % SeqMod = s
  BY <1>1, <1>2, ModUnique
<1>4. SUFFICES ASSUME n # 0 PROVE FALSE
  OBVIOUS
<1>5. s \in Nat /\ s + n \in Nat /\ s < s + n /\ s + n < s + SeqMod
  BY <1>1, <1>4
<1>6. QED
  BY <1>1, <1>3, <1>5, ModWindow

-----------------------------------------------------------------------------
(* The invariant, which is inductive.                                      *)

IInv == TypeOK /\ NumberTells

LEMMA Initially == Init => IInv
<1> SUFFICES ASSUME Init PROVE IInv
  OBVIOUS
<1>1. 0 \in Values /\ 0 \in 0 .. SeqMod - 1 /\ 0 \in 0 .. MaxOverlap
  BY Modulus DEF Values
<1>2. Whole(0) \in [Words -> Values] /\ Whole(0) \in Wholes
  BY <1>1 DEF Whole, Wholes
<1>3. TypeOK
  BY <1>1, <1>2 DEF Init, TypeOK
<1>4. ~Odd(seq)
  BY DEF Init, Odd
<1>5. QED
  BY <1>3, <1>4 DEF Init, IInv, NumberTells

\* A store begins: the number becomes odd, and the reader will see that it moved.
LEMMA BeginKeeps == ASSUME IInv, NEW v \in Values, Begin(v) PROVE IInv'
<1>1. /\ seq \in 0 .. SeqMod - 1 /\ s1 \in 0 .. SeqMod - 1 /\ overlap \in 0 .. MaxOverlap
      /\ ~Odd(seq)
  BY DEF IInv, NumberTells, TypeOK, Begin
<1>2. seq' \in 0 .. SeqMod - 1 /\ Odd(seq')
  BY <1>1, IncrFacts DEF Begin
<1>3. overlap' \in 0 .. MaxOverlap
  BY <1>1, Modulus DEF Begin
<1>4. TypeOK'
  BY <1>2, <1>3 DEF IInv, NumberTells, TypeOK, Begin, readerVars, ghostVars, Values, Wholes, Whole
<1>5. ASSUME rpc = "copy" PROVE seq' = (s1 + SinceSample') % SeqMod /\ overlap' # 0
  <2>1. seq = (s1 + 2 * overlap) % SeqMod /\ overlap' = overlap + 1
    BY <1>5 DEF IInv, NumberTells, Begin, SinceSample
  <2>2. SinceSample' = 2 * overlap + 1
    BY <1>1, <2>1 DEF Begin, SinceSample
  <2>3. s1 + 2 * overlap \in Nat /\ SeqMod \in Nat \ {0}
        /\ (s1 + 2 * overlap) + 1 = s1 + (2 * overlap + 1)
    BY <1>1, Modulus
  <2>4. seq' = (s1 + (2 * overlap + 1)) % SeqMod
    BY <2>1, <2>3, ModNext DEF Begin, Incr
  <2>5. QED
    BY <1>1, <2>1, <2>2, <2>4
<1>6. QED
  BY <1>2, <1>4, <1>5 DEF IInv, NumberTells, Begin, readerVars, ghostVars, Odd

LEMMA WriteWordKeeps == ASSUME IInv, NEW w \in Words, WriteWord(w) PROVE IInv'
<1>1. value \in [Words -> Values] /\ desired \in Values
  BY DEF IInv, NumberTells, TypeOK
<1>2. value' \in [Words -> Values]
  BY <1>1 DEF WriteWord
<1>3. TypeOK'
  BY <1>2 DEF IInv, NumberTells, TypeOK, WriteWord, readerVars, ghostVars, Values, Wholes, Whole
<1>4. \A u \in Words \ wleft' : value'[u] = desired'
  <2> SUFFICES ASSUME NEW u \in Words \ wleft' PROVE value'[u] = desired
    BY DEF WriteWord
  <2>1. CASE u = w
    BY <2>1, <1>1 DEF WriteWord
  <2>2. CASE u # w
    BY <2>2, <1>1 DEF IInv, NumberTells, WriteWord
  <2>3. QED
    BY <2>1, <2>2
<1>5. QED
  BY <1>3, <1>4 DEF IInv, NumberTells, WriteWord, readerVars, ghostVars, Odd, SinceSample

\* A store ends: the value is whole, and even the number.
LEMMA WholeAtEnd == IInv /\ End => value = Whole(desired) /\ value \in Wholes
<1> SUFFICES ASSUME IInv, End PROVE value = Whole(desired) /\ value \in Wholes
  OBVIOUS
<1>1. value \in [Words -> Values] /\ desired \in Values /\ \A w \in Words : value[w] = desired
  BY DEF IInv, NumberTells, TypeOK, End
<1>2. value = Whole(desired)
  BY <1>1 DEF Whole
<1>3. QED
  BY <1>1, <1>2 DEF Wholes

LEMMA EndKeeps == IInv /\ End => IInv'
<1> SUFFICES ASSUME IInv, End PROVE IInv'
  OBVIOUS
<1>1. /\ seq \in 0 .. SeqMod - 1 /\ s1 \in 0 .. SeqMod - 1 /\ overlap \in 0 .. MaxOverlap
      /\ Odd(seq)
  BY DEF IInv, NumberTells, TypeOK, End
<1>2. seq' \in 0 .. SeqMod - 1 /\ ~Odd(seq')
  BY <1>1, IncrFacts DEF End
<1>3. committed' \in Wholes /\ candidates' \in SUBSET Wholes
  BY WholeAtEnd DEF IInv, NumberTells, TypeOK, End
<1>4. 0 \in Values
  BY Modulus DEF Values
<1>5. TypeOK'
  BY <1>2, <1>3, <1>4 DEF IInv, NumberTells, TypeOK, End, readerVars, Values, Wholes, Whole
<1>6. ASSUME rpc = "copy" PROVE seq' = (s1 + SinceSample') % SeqMod /\ overlap' # 0
  <2>1. overlap # 0 /\ overlap' = overlap
    BY <1>6 DEF IInv, NumberTells, End
  <2>2. seq = (s1 + (2 * overlap - 1)) % SeqMod
    BY <1>1, <1>6, <2>1 DEF IInv, NumberTells, End, SinceSample
  <2>3. SinceSample' = 2 * overlap
    BY <2>1 DEF End, SinceSample
  <2>4. s1 + (2 * overlap - 1) \in Nat /\ SeqMod \in Nat \ {0}
        /\ (s1 + (2 * overlap - 1)) + 1 = s1 + 2 * overlap
    BY <1>1, <2>1, Modulus
  <2>5. seq' = (s1 + 2 * overlap) % SeqMod
    BY <2>2, <2>4, ModNext DEF End, Incr
  <2>6. QED
    BY <2>1, <2>3, <2>5
<1>7. QED
  BY <1>2, <1>5, <1>6 DEF IInv, NumberTells, End, readerVars, Odd

LEMMA LoadKeeps == IInv /\ Load => IInv'
<1> SUFFICES ASSUME IInv, Load PROVE IInv'
  OBVIOUS
<1>1. TypeOK'
  BY DEF IInv, NumberTells, TypeOK, Load, writerVars, Values, Wholes, Whole
<1>2. QED
  BY <1>1 DEF IInv, NumberTells, Load, writerVars, Odd, SinceSample

\* An attempt begins on an even number, when no store is in progress.
LEMMA SampleKeeps == IInv /\ Sample => IInv'
<1> SUFFICES ASSUME IInv, Sample PROVE IInv'
  OBVIOUS
<1>1. wpc = "idle" /\ ~Odd(seq) /\ seq \in 0 .. SeqMod - 1
  BY DEF IInv, NumberTells, TypeOK, Sample, ReaderRuns
<1>2. 0 \in 0 .. MaxOverlap /\ SeqMod \in Nat \ {0}
  BY Modulus
<1>3. TypeOK'
  BY <1>1, <1>2 DEF IInv, NumberTells, TypeOK, Sample, writerVars, ghostVars, Values, Wholes, Whole
<1>4. SinceSample' = 0
  BY DEF Sample, SinceSample
<1>5. seq = SeqMod * 0 + seq /\ seq \in Nat /\ seq + 0 = seq
  BY <1>1, <1>2
<1>6. seq' = (s1' + SinceSample') % SeqMod
  BY <1>1, <1>2, <1>4, <1>5, ModUnique DEF Sample
<1>7. QED
  BY <1>1, <1>3, <1>6 DEF IInv, NumberTells, Sample, writerVars, ghostVars, Odd

LEMMA CopyWordKeeps == ASSUME IInv, NEW w \in Words, CopyWord(w) PROVE IInv'
<1>1. snapshot \in [Words -> Values] /\ value \in [Words -> Values]
  BY DEF IInv, NumberTells, TypeOK
<1>2. snapshot' \in [Words -> Values]
  BY <1>1 DEF CopyWord
<1>3. TypeOK'
  BY <1>2 DEF IInv, NumberTells, TypeOK, CopyWord, writerVars, ghostVars, Values, Wholes, Whole
<1>4. overlap = 0 => \A u \in Words \ rleft' : snapshot'[u] = committed[u]
  <2> SUFFICES ASSUME overlap = 0, NEW u \in Words \ rleft' PROVE snapshot'[u] = committed[u]
    OBVIOUS
  <2>1. value = committed
    BY DEF IInv, NumberTells, CopyWord
  <2>2. CASE u = w
    BY <2>1, <2>2, <1>1 DEF CopyWord
  <2>3. CASE u # w
    BY <2>3, <1>1 DEF IInv, NumberTells, CopyWord
  <2>4. QED
    BY <2>2, <2>3
<1>5. QED
  BY <1>3, <1>4 DEF IInv, NumberTells, CopyWord, writerVars, ghostVars, Odd, SinceSample

LEMMA RetryKeeps == IInv /\ Retry => IInv'
<1> SUFFICES ASSUME IInv, Retry PROVE IInv'
  OBVIOUS
<1>1. 0 \in 0 .. MaxOverlap
  BY Modulus
<1>2. TypeOK'
  BY <1>1 DEF IInv, NumberTells, TypeOK, Retry, writerVars, ghostVars, Values, Wholes, Whole
<1>3. QED
  BY <1>2 DEF IInv, NumberTells, Retry, writerVars, ghostVars, Odd

\* The number is the same: the writer did nothing, and the copy is the committed value.
LEMMA WhatReturns == IInv /\ Return => snapshot = committed /\ committed \in candidates
<1> SUFFICES ASSUME IInv, Return PROVE snapshot = committed /\ committed \in candidates
  OBVIOUS
<1>1. /\ s1 \in 0 .. SeqMod - 1 /\ overlap \in 0 .. MaxOverlap
      /\ (s1 + SinceSample) % SeqMod = s1
  BY DEF IInv, NumberTells, TypeOK, Return
<1>2. /\ SinceSample \in 0 .. 2 * MaxOverlap
      /\ SinceSample = 0 => overlap = 0
  BY <1>1, Modulus DEF SinceSample
<1>3. overlap = 0
  BY <1>1, <1>2, SameNumber
<1>4. \A w \in Words : snapshot[w] = committed[w]
  BY <1>3 DEF IInv, NumberTells, Return
<1>5. snapshot \in [Words -> Values] /\ committed \in [Words -> Values]
  BY DEF IInv, NumberTells, TypeOK, Wholes, Whole
<1>6. snapshot = committed
  BY <1>4, <1>5
<1>7. QED
  BY <1>6 DEF IInv, NumberTells, Return

LEMMA ReturnKeeps == IInv /\ Return => IInv'
<1> SUFFICES ASSUME IInv, Return PROVE IInv'
  OBVIOUS
<1>1. 0 \in Values /\ 0 \in 0 .. SeqMod - 1 /\ 0 \in 0 .. MaxOverlap
  BY Modulus DEF Values
<1>2. snapshot' \in [Words -> Values] /\ result' \in [Words -> Values]
  BY <1>1 DEF IInv, NumberTells, TypeOK, Return, Whole
<1>3. TypeOK'
  BY <1>1, <1>2 DEF IInv, NumberTells, TypeOK, Return, writerVars, Values, Wholes, Whole
<1>4. QED
  BY <1>3 DEF IInv, NumberTells, Return, writerVars, Odd

LEMMA StutterKeeps == IInv /\ UNCHANGED vars => IInv'
BY DEF IInv, NumberTells, vars, TypeOK, Wholes, Whole, Values, Odd, SinceSample

\* An update begins as a store of a value it computes.
LEMMA UpdateBegins == IInv /\ Update => \E v \in Values : Begin(v)
<1> SUFFICES ASSUME IInv, NEW w \in Words, Begin((value[w] + 1) % (MaxValue + 1))
             PROVE  \E v \in Values : Begin(v)
  BY DEF Update
<1>1. value[w] + 1 \in Nat /\ MaxValue + 1 \in Nat \ {0} /\ (MaxValue + 1) - 1 = MaxValue
  BY Modulus DEF IInv, NumberTells, TypeOK, Values
<1>2. (value[w] + 1) % (MaxValue + 1) \in 0 .. (MaxValue + 1) - 1
  BY <1>1, DivMod
<1>3. QED
  BY <1>1, <1>2 DEF Values

LEMMA Inductive == IInv /\ [Next]_vars => IInv'
<1> SUFFICES ASSUME IInv, [Next]_vars PROVE IInv'
  OBVIOUS
<1>1. ASSUME NEW v \in Values, Begin(v) PROVE IInv'
  BY <1>1, BeginKeeps
<1>2. ASSUME NEW w \in Words, WriteWord(w) PROVE IInv'
  BY <1>2, WriteWordKeeps
<1>3. CASE End
  BY <1>3, EndKeeps
<1>4. CASE Load
  BY <1>4, LoadKeeps
<1>5. CASE Sample
  BY <1>5, SampleKeeps
<1>6. ASSUME NEW w \in Words, CopyWord(w) PROVE IInv'
  BY <1>6, CopyWordKeeps
<1>7. CASE Retry
  BY <1>7, RetryKeeps
<1>8. CASE Return
  BY <1>8, ReturnKeeps
<1>9. CASE UNCHANGED vars
  BY <1>9, StutterKeeps
<1>10. QED
  BY <1>1, <1>2, <1>3, <1>4, <1>5, <1>6, <1>7, <1>8, <1>9, UpdateBegins
     DEF Next, Store, WriterStep, ReaderStep

\* The number tells the reader what the writer did since it was sampled (store, load).
THEOREM Invariance == Spec => []IInv
<1>1. Init => IInv
  BY Initially
<1>2. IInv /\ [Next]_vars => IInv'
  BY Inductive
<1>3. QED
  BY <1>1, <1>2, PTL DEF Spec

-----------------------------------------------------------------------------
(* The refinement: End commits, Load calls, Return returns; what else the  *)
(* two do is invisible.                                                    *)

LEMMA InitRefines == Init => Latest!Init
BY DEF Init, Latest!Init

LEMMA StepRefines == IInv /\ [Next]_vars => [Latest!Next]_(Latest!vars)
<1> SUFFICES ASSUME IInv, [Next]_vars PROVE [Latest!Next]_(Latest!vars)
  OBVIOUS
<1>1. ASSUME NEW v \in Values, Begin(v) PROVE UNCHANGED Latest!vars
  BY <1>1 DEF Begin, readerVars, ghostVars, Latest!vars
<1>2. ASSUME NEW w \in Words, WriteWord(w) PROVE UNCHANGED Latest!vars
  BY <1>2 DEF WriteWord, readerVars, ghostVars, Latest!vars
<1>3. ASSUME End PROVE Latest!Next
  <2>1. value \in Wholes /\ (rpc = "idle" => candidates = {})
    BY <1>3, WholeAtEnd DEF IInv, NumberTells
  <2>2. Latest!Commit(value)
    BY <1>3, <2>1 DEF End, readerVars, Latest!Commit
  <2>3. QED
    BY <2>1, <2>2 DEF Latest!Next
<1>4. ASSUME Load PROVE Latest!Next
  BY <1>4 DEF Load, writerVars, Latest!Next, Latest!Call
<1>5. ASSUME Sample PROVE UNCHANGED Latest!vars
  BY <1>5 DEF Sample, ghostVars, Latest!vars
<1>6. ASSUME NEW w \in Words, CopyWord(w) PROVE UNCHANGED Latest!vars
  BY <1>6 DEF CopyWord, ghostVars, Latest!vars
<1>7. ASSUME Retry PROVE UNCHANGED Latest!vars
  BY <1>7 DEF Retry, ghostVars, Latest!vars
<1>8. ASSUME Return PROVE Latest!Next
  BY <1>8, WhatReturns DEF Return, Latest!Next, Latest!Return
<1>9. ASSUME UNCHANGED vars PROVE UNCHANGED Latest!vars
  BY <1>9 DEF vars, Latest!vars
<1>10. QED
  BY <1>1, <1>2, <1>3, <1>4, <1>5, <1>6, <1>7, <1>8, <1>9, UpdateBegins
     DEF Next, Store, WriterStep, ReaderStep

\* Every load returns, whole, a value that was the latest while it ran, for values
\* and sequence numbers of any size (store, update, load).
THEOREM ImplementsLatest == Spec => SeqlockImplementsLatest
<1>1. Init => Latest!Init
  BY InitRefines
<1>2. IInv /\ [Next]_vars => [Latest!Next]_(Latest!vars)
  BY StepRefines
<1>3. QED
  BY <1>1, <1>2, Invariance, PTL DEF IInv, Spec, Latest!Spec, SeqlockImplementsLatest
=============================================================================
