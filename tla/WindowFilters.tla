--------------------------- MODULE WindowFilters ---------------------------
(***************************************************************************)
(* emb's filters over a window of samples, as operators on a record, with  *)
(* the window a circular_buffer.  Samples are integers.                    *)
(***************************************************************************)
EXTENDS Integers, Sequences, FiniteSets

CONSTANTS NoValue, MovedFrom

\* A circular_buffer of n samples.
CB(n) == INSTANCE CircularBuffer WITH Capacity <- n

\* std::sort.
Sorted(s) ==
  LET order == CHOOSE p \in [DOMAIN s -> DOMAIN s] :
        /\ \A i \in DOMAIN s : \E j \in DOMAIN s : p[j] = i
        /\ \A i, j \in DOMAIN s : i < j => s[p[i]] <= s[p[j]]
  IN  [i \in DOMAIN s |-> s[order[i]]]

-----------------------------------------------------------------------------
(* algorithm.hpp: the median of three by three exchanges.                  *)

Ordered(p) == IF p[1] > p[2] THEN <<p[2], p[1]>> ELSE p

median3(a, b, c) ==
  LET ab == Ordered(<<a, b>>)
      bc == Ordered(<<ab[2], c>>)
  IN  Ordered(<<ab[1], bc[1]>>)[2]

-----------------------------------------------------------------------------
(* median_filter: an odd window, full from the start.                      *)

median_set_output(n, f, v) == [window |-> CB(n)!fill(f.window, v), output |-> v]

\* The constructor: an empty window, then reset.
median_filter(n, v) == median_set_output(n, [window |-> CB(n)!Fresh], v)

median_push(n, f, v) ==
  LET w == CB(n)!write_back_with(f.window, v)
  IN  [window |-> w, output |-> Sorted(CB(n)!Content(w))[n \div 2 + 1]]

-----------------------------------------------------------------------------
(* moving_average_filter: a running sum beside the window, which fills up. *)

average_set_output(n, f, v) == [data |-> CB(n)!clear(f.data), sum |-> 0, output |-> v]

moving_average_filter(n, v) == average_set_output(n, [data |-> CB(n)!Fresh], v)

\* Faulty average_push: the sample that leaves the window is read after it left.
average_push_late(n, f, v) ==
  LET full == CB(n)!full(f.data)
      data == CB(n)!write_back_with(f.data, v)
      sum  == IF full THEN f.sum - CB(n)!front(data) + v ELSE f.sum + v
  IN  [data |-> data, sum |-> sum, output |-> sum \div data.size]

average_push(n, f, v) ==
  LET full == CB(n)!full(f.data)
      data == CB(n)!write_back_with(f.data, v)
      sum  == IF full THEN f.sum - CB(n)!front(f.data) + v ELSE f.sum + v
  IN  [data |-> data, sum |-> sum, output |-> sum \div data.size]

-----------------------------------------------------------------------------
(* What the filters stand for: the samples since set_output(v), latest     *)
(* last, put behind a window of v, and the last n of that.                 *)

LastOf(n, s) == SubSeq(s, Len(s) - n + 1, Len(s))

MedianOf(n, v, samples) ==
  LET w == LastOf(n, [i \in 1 .. n |-> v] \o samples)
  IN  CHOOSE m \in {w[i] : i \in 1 .. n} :
        /\ 2 * Cardinality({i \in 1 .. n : w[i] < m}) < n
        /\ 2 * Cardinality({i \in 1 .. n : w[i] > m}) < n

SumOf(s) ==
  LET Sum[i \in 0 .. Len(s)] == IF i = 0 THEN 0 ELSE Sum[i - 1] + s[i]
  IN  Sum[Len(s)]

AverageOf(n, v, samples) ==
  IF samples = <<>> THEN v
  ELSE LET w == LastOf(IF Len(samples) < n THEN Len(samples) ELSE n, samples)
       IN  SumOf(w) \div Len(w)
=============================================================================
