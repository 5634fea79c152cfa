------------------------------- MODULE Filters -------------------------------
(***************************************************************************)
(* One filter of each of emb's classes, used from one context: samples     *)
(* pushed, the output set or reset, the smoothing changed, in any order.   *)
(*                                                                         *)
(* A sample is a multiple of 2^MaxPushes, so that an exponential filter    *)
(* that halves the distance at every push computes with integers.          *)
(***************************************************************************)
EXTENDS Integers, Sequences

CONSTANTS
  Inputs,      \* the samples, before scaling
  Window,      \* window of the median and of the average
  MaxPushes,   \* bound: pushes between two set_output
  NoValue, MovedFrom

VARIABLES
  class,       \* which filter
  filter,      \* its window, sum and output
  factor,      \* smooth_factor_, in halves
  start,       \* ghost: the last set_output
  samples      \* ghost: the samples pushed since

filterVars == <<class, filter, factor, start, samples>>

WF == INSTANCE WindowFilters

\* A window that is sorted for its median must be odd.
Classes ==
  {"moving_average", "exponential", "passthrough"}
    \cup (IF Window % 2 = 1 THEN {"median", "exponential_median"} ELSE {})

Scaled(i) == i * 2^MaxPushes
Samples == {Scaled(i) : i \in Inputs}

clamp(x, lower, upper) == IF x < lower THEN lower ELSE IF x > upper THEN upper ELSE x

\* sampling_period / time_constant between 0 and 1, in halves.
smooth_factor(period, constant) == clamp((2 * period) \div constant, 0, 2)

Smoothed(output, v) == output + (factor * (v - output)) \div 2

set_output(v) ==
  CASE class = "median"             -> WF!median_set_output(Window, filter, v)
    [] class = "moving_average"     -> WF!average_set_output(Window, filter, v)
    [] class = "exponential"        -> [output |-> v]
    [] class = "exponential_median" -> WF!median_set_output(Window, filter, v)

constructed(v) ==
  CASE class = "median"             -> WF!median_filter(Window, v)
    [] class = "moving_average"     -> WF!moving_average_filter(Window, v)
    [] class = "exponential"        -> [output |-> v]
    [] class = "exponential_median" -> WF!median_filter(Window, v)
    [] class = "passthrough"        -> [output |-> v]

push(v) ==
  CASE class = "median"             -> WF!median_push(Window, filter, v)
    [] class = "moving_average"     -> WF!average_push(Window, filter, v)
    [] class = "exponential"        -> [output |-> Smoothed(filter.output, v)]
    [] class = "exponential_median" ->
         LET f == WF!median_push(Window, filter, v)
         IN  [f EXCEPT !.output = Smoothed(filter.output, @)]
    [] class = "passthrough"        -> [output |-> v]

Init ==
  /\ class \in Classes
  /\ start \in Samples
  /\ filter = constructed(start)
  /\ factor \in 0 .. 2
  /\ samples = <<>>

Push ==
  /\ Len(samples) < MaxPushes
  /\ \E v \in Samples : filter' = push(v) /\ samples' = Append(samples, v)
  /\ UNCHANGED <<class, factor, start>>

\* set_output, and reset with the initial output.
SetOutput ==
  /\ class # "passthrough"
  /\ \E v \in Samples : start' = v /\ filter' = set_output(v)
  /\ samples' = <<>>
  /\ UNCHANGED <<class, factor>>

\* set_smoothing, set_timestep.
SetSmoothing ==
  /\ class \in {"exponential", "exponential_median"}
  /\ \E period \in 0 .. 3, constant \in {1, 2} : factor' = smooth_factor(period, constant)
  /\ UNCHANGED <<class, filter, start, samples>>

Next == Push \/ SetOutput \/ SetSmoothing

Spec == Init /\ [][Next]_filterVars

-----------------------------------------------------------------------------
Seen == {start} \cup {samples[i] : i \in 1 .. Len(samples)}

\* A median or an average is that of exactly the last Window samples, however
\* far the window has wrapped around and whatever sum it carries along; a
\* smoothed output never leaves the range of what the filter has seen since its
\* output was set; the median of three is the middle one.
OutputExact ==
  LET out == filter.output IN
  /\ class = "median" => out = WF!MedianOf(Window, start, samples)
  /\ class = "moving_average" => out = WF!AverageOf(Window, start, samples)
  /\ class = "passthrough" /\ samples # <<>> => out = samples[Len(samples)]
  /\ \E low, high \in Seen : low <= out /\ out <= high
  /\ Len(samples) >= 3 =>
       LET s == WF!LastOf(3, samples)
       IN  WF!median3(s[1], s[2], s[3]) = WF!MedianOf(3, start, samples)
=============================================================================
