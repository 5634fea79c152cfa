---------------------------- MODULE BoundedFifo ----------------------------
(***************************************************************************)
(* What a bounded single-producer single-consumer queue promises to its    *)
(* two users: a FIFO of at most Capacity values.  Each operation takes     *)
(* effect in one step.  accepted is what the producer was last told,       *)
(* result what the consumer last got (NoValue for std::nullopt).           *)
(***************************************************************************)
EXTENDS Naturals, Sequences

CONSTANTS Capacity, Values, NoValue

VARIABLES q, accepted, result

fifoVars == <<q, accepted, result>>

Init ==
  /\ q = << >>
  /\ accepted = FALSE
  /\ result = NoValue

\* try_push returns true: the value joins the tail.
Push(v) ==
  /\ Len(q) < Capacity
  /\ q' = Append(q, v)
  /\ accepted' = TRUE
  /\ UNCHANGED result

\* try_push returns false, only when the queue really is full.
Reject ==
  /\ Len(q) = Capacity
  /\ accepted' = FALSE
  /\ UNCHANGED <<q, result>>

\* try_pop returns the head and removes it.
Pop ==
  /\ q # << >>
  /\ result' = Head(q)
  /\ q' = Tail(q)
  /\ UNCHANGED accepted

\* front() returns a copy of the head.
Peek ==
  /\ q # << >>
  /\ result' = Head(q)
  /\ UNCHANGED <<q, accepted>>

\* try_pop or front() returns nullopt, only when the queue really is empty.
FindEmpty ==
  /\ q = << >>
  /\ result' = NoValue
  /\ UNCHANGED <<q, accepted>>

\* clear() drops a prefix; what the producer pushes meanwhile may stay.
Drop ==
  /\ \E n \in 1..Len(q) : q' = SubSeq(q, n + 1, Len(q))
  /\ UNCHANGED <<accepted, result>>

Next ==
  \/ \E v \in Values : Push(v)
  \/ Reject
  \/ Pop
  \/ Peek
  \/ FindEmpty
  \/ Drop

Spec == Init /\ [][Next]_fifoVars
============================================================================
