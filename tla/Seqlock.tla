------------------------------- MODULE Seqlock -------------------------------
(***************************************************************************)
(* emb::seqlock and emb::isr_seqlock: one writer, and a reader that copies *)
(* the value and retries when the sequence number says the copy may be     *)
(* torn.                                                                   *)
(*                                                                         *)
(* The value is a function on Words: memcpy moves it word by word, in any  *)
(* order.  A step is one access to the sequence number or to one word.     *)
(* The two classes differ in where they reject an odd sequence number and  *)
(* in who runs: the threads of seqlock interleave freely, while the reader *)
(* of isr_seqlock, whose priority must not be higher than the writer's,    *)
(* takes no step between the begin and the end of a store.                 *)
(***************************************************************************)
EXTENDS Naturals

CONSTANTS
  Words,       \* the words of a T
  MaxValue,    \* a word holds 0 .. MaxValue
  SeqMod,      \* 2^w for the w-bit sequence number
  MaxOverlap   \* bound: stores that begin during one attempt of a load

\* An attempt that 2^(w-1) stores overtake would not notice them.
ASSUME SeqlockAssumption ==
  /\ SeqMod \in Nat /\ SeqMod % 2 = 0
  /\ MaxOverlap \in Nat /\ 2 * MaxOverlap < SeqMod
  /\ Words # {}
  /\ MaxValue \in Nat

VARIABLES
  isr,         \* which class: TRUE for isr_seqlock
  seq,         \* seq_
  value,       \* value_
  wpc,         \* where the writer is in store or update
  desired,     \* the word it writes everywhere
  wleft,       \* the words it has not written yet
  rpc,         \* where the reader is in load
  s1,          \* load's first sample of seq_
  rleft,       \* the words it has not copied yet
  snapshot,    \* its copy
  overlap,     \* stores begun since the sample
  result,      \* what the last load returned
  committed,   \* ghost: the value last published
  candidates   \* ghost: the values published while this load was running

writerVars == <<wpc, desired, wleft>>
readerVars == <<rpc, s1, rleft, snapshot>>
ghostVars == <<committed, candidates>>
vars == <<isr, seq, value, wpc, desired, wleft, rpc, s1, rleft, snapshot,
          overlap, result, committed, candidates>>

Values == 0 .. MaxValue

\* A stored value has the same content in every word, so that a mixture shows.
Whole(v) == [w \in Words |-> v]
Wholes == {Whole(v) : v \in Values}

Incr(s) == (s + 1) % SeqMod
Odd(s) == s % 2 = 1

Init ==
  /\ isr \in BOOLEAN
  /\ seq = 0
  /\ value = Whole(0)
  /\ wpc = "idle" /\ desired = 0 /\ wleft = {}
  /\ rpc = "idle" /\ s1 = 0 /\ rleft = {} /\ snapshot = Whole(0)
  /\ overlap = 0
  /\ result = Whole(0)
  /\ committed = Whole(0)
  /\ candidates = {}

-----------------------------------------------------------------------------
(* The writer.                                                             *)

\* Faulty Begin: the sequence number moves only when the store is over.
BeginSilent(v) ==
  /\ wpc = "idle"
  /\ wpc' = "copy"
  /\ desired' = v
  /\ wleft' = Words
  /\ UNCHANGED <<isr, seq, value, readerVars, overlap, result, ghostVars>>

Begin(v) ==
  /\ wpc = "idle"
  /\ rpc = "copy" => overlap < MaxOverlap
  /\ seq' = Incr(seq)
  /\ overlap' = IF rpc = "copy" THEN overlap + 1 ELSE overlap
  /\ wpc' = "copy"
  /\ desired' = v
  /\ wleft' = Words
  /\ UNCHANGED <<isr, value, readerVars, result, ghostVars>>

Store(v) == Begin(v)

\* The new value is a function of the current one, read by its only writer.
Update == \E w \in Words : Begin((value[w] + 1) % (MaxValue + 1))

WriteWord(w) ==
  /\ wpc = "copy"
  /\ w \in wleft
  /\ value' = [value EXCEPT ![w] = desired]
  /\ wleft' = wleft \ {w}
  /\ UNCHANGED <<isr, seq, wpc, desired, readerVars, overlap, result, ghostVars>>

\* Faulty End: the store ends on the number it began with.
EndOdd ==
  /\ wpc = "copy"
  /\ wleft = {}
  /\ wpc' = "idle"
  /\ desired' = 0
  /\ committed' = value
  /\ candidates' = IF rpc = "idle" THEN {} ELSE candidates \cup {value}
  /\ UNCHANGED <<isr, seq, value, wleft, readerVars, overlap, result>>

End ==
  /\ wpc = "copy"
  /\ wleft = {}
  /\ seq' = Incr(seq)
  /\ wpc' = "idle"
  /\ desired' = 0
  /\ committed' = value
  /\ candidates' = IF rpc = "idle" THEN {} ELSE candidates \cup {value}
  /\ UNCHANGED <<isr, value, wleft, readerVars, overlap, result>>

-----------------------------------------------------------------------------
(* The reader.                                                             *)

ReaderRuns == isr => wpc = "idle"

Load ==
  /\ ReaderRuns
  /\ rpc = "idle"
  /\ rpc' = "sample"
  /\ candidates' = {committed}
  /\ UNCHANGED <<isr, seq, value, writerVars, s1, rleft, snapshot, overlap,
                 result, committed>>

\* seqlock samples again at once when the number is odd.
Sample ==
  /\ ReaderRuns
  /\ rpc = "sample"
  /\ ~isr => ~Odd(seq)
  /\ s1' = seq
  /\ rleft' = Words
  /\ overlap' = 0
  /\ rpc' = "copy"
  /\ UNCHANGED <<isr, seq, value, writerVars, snapshot, result, ghostVars>>

CopyWord(w) ==
  /\ ReaderRuns
  /\ rpc = "copy"
  /\ w \in rleft
  /\ snapshot' = [snapshot EXCEPT ![w] = value[w]]
  /\ rleft' = rleft \ {w}
  /\ UNCHANGED <<isr, seq, value, writerVars, rpc, s1, overlap, result, ghostVars>>

Retry ==
  /\ ReaderRuns
  /\ rpc = "copy"
  /\ rleft = {}
  /\ seq # s1 \/ Odd(s1)
  /\ rpc' = "sample"
  /\ overlap' = 0
  /\ UNCHANGED <<isr, seq, value, writerVars, s1, rleft, snapshot, result, ghostVars>>

Return ==
  /\ ReaderRuns
  /\ rpc = "copy"
  /\ rleft = {}
  /\ seq = s1 /\ ~Odd(s1)
  /\ rpc' = "idle"
  /\ result' = snapshot
  /\ s1' = 0
  /\ snapshot' = Whole(0)
  /\ overlap' = 0
  /\ candidates' = {}
  /\ UNCHANGED <<isr, seq, value, writerVars, rleft, committed>>

-----------------------------------------------------------------------------
WriterStep == (\E w \in Words : WriteWord(w)) \/ End
ReaderStep == Sample \/ (\E w \in Words : CopyWord(w)) \/ Retry \/ Return

Next ==
  \/ \E v \in Values : Store(v)
  \/ Update
  \/ WriterStep
  \/ Load
  \/ ReaderStep

\* What has begun goes on; nobody must begin.
Fairness == WF_vars(WriterStep) /\ WF_vars(ReaderStep)

Spec == Init /\ [][Next]_vars /\ Fairness

-----------------------------------------------------------------------------
TypeOK ==
  /\ isr \in BOOLEAN
  /\ seq \in 0 .. SeqMod - 1
  /\ value \in [Words -> Values]
  /\ wpc \in {"idle", "copy"} /\ desired \in Values /\ wleft \in SUBSET Words
  /\ rpc \in {"idle", "sample", "copy"}
  /\ s1 \in 0 .. SeqMod - 1
  /\ rleft \in SUBSET Words
  /\ snapshot \in [Words -> Values]
  /\ overlap \in 0 .. MaxOverlap
  /\ result \in [Words -> Values]
  /\ committed \in Wholes
  /\ candidates \in SUBSET Wholes

\* Where the sequence number stands after the stores that began since the sample.
SinceSample == IF overlap > 0 /\ wpc = "copy" THEN 2 * overlap - 1 ELSE 2 * overlap

\* The number is odd exactly during a store; it has moved by what the writer did
\* since the reader sampled it, so that it is the same again only if the writer
\* did nothing; and then what is copied is the committed value.
NumberTells ==
  /\ Odd(seq) <=> wpc = "copy"
  /\ wpc = "idle" => value = committed /\ wleft = {}
  /\ wpc = "copy" => \A w \in Words \ wleft : value[w] = desired
  /\ rpc # "copy" => overlap = 0
  /\ rpc = "idle" => candidates = {}
  /\ rpc # "idle" => committed \in candidates
  /\ rpc = "copy" =>
       /\ ~Odd(s1)
       /\ seq = (s1 + SinceSample) % SeqMod
       /\ overlap = 0 => \A w \in Words \ rleft : snapshot[w] = committed[w]
       /\ overlap = 0 => wpc = "idle"

Latest == INSTANCE LatestValue WITH
            Initial <- Whole(0), loading <- (rpc # "idle")

\* A load returns a value some store wrote as a whole, and one that was the
\* latest while the load ran, however often the writer overtook it; for the
\* sequence number tells the reader what the writer did (load, store).
SeqlockImplementsLatest == [](TypeOK /\ NumberTells) /\ Latest!Spec

\* A load returns once the writer leaves the lock alone.
SeqlockLoadReturns == <>[](wpc = "idle") => (rpc # "idle" ~> rpc = "idle")
=============================================================================
