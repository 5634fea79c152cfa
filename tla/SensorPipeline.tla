--------------------------- MODULE SensorPipeline ---------------------------
(***************************************************************************)
(* emb::sensor::buffered over a polyphase core: the interrupt submits a    *)
(* frame, one code for every phase, and the main loop drains the queue     *)
(* through the phases one after the other: a streaming prefilter (moving   *)
(* average), a transform that turns the code into the measured value, and  *)
(* a median filter.  The interrupt may come between any two of the main    *)
(* loop's steps.                                                           *)
(*                                                                         *)
(* The queue is the specification BoundedFifo that isr_spsc_inplace_queue  *)
(* implements: a sequence of at most Depth frames.                         *)
(***************************************************************************)
EXTENDS Integers, Sequences, FiniteSets

CONSTANTS
  N,           \* phases
  Codes,       \* what a phase's code may be
  Depth,       \* capacity of the queue
  Average,     \* window of the prefilter
  Median,      \* window of the filter, odd
  NoValue, MovedFrom

VARIABLES
  queue,       \* queue_
  cores,       \* cores_: prefilter and filter of each phase
  pc,          \* where the main loop is in process
  raw,         \* the frame that it took from the queue
  phase,       \* the phase it submits next
  absorbed     \* ghost: the latest frames taken from the queue

sensorVars == <<queue, cores, pc, raw, phase, absorbed>>

WF == INSTANCE WindowFilters

Phases == 1 .. N
Frames == [Phases -> Codes]
NoFrame == [p \in Phases |-> 0]

-----------------------------------------------------------------------------
(* transform: stages in the order of the signal path, here an offset that  *)
(* differs from phase to phase and a gain of 2.                            *)

Stages(p) == << [gain |-> 1, offset |-> p], [gain |-> 2, offset |-> 0] >>

forward(s, x) == x * s.gain + s.offset
inverse(s, y) == (y - s.offset) \div s.gain

\* Front to back.
transform_forward(p, x) ==
  LET through[i \in 0 .. Len(Stages(p))] ==
        IF i = 0 THEN x ELSE forward(Stages(p)[i], through[i - 1])
  IN  through[Len(Stages(p))]

\* Back to front.
transform_inverse(p, y) ==
  LET through[i \in 1 .. Len(Stages(p)) + 1] ==
        IF i > Len(Stages(p)) THEN y ELSE inverse(Stages(p)[i], through[i + 1])
  IN  through[1]

-----------------------------------------------------------------------------
\* singlephase::submit, with streaming_prefilter's push and output.
core_submit(p, core, code) ==
  LET pre == WF!average_push(Average, core.prefilter, code)
  IN  [prefilter |-> pre,
       filter |-> WF!median_push(Median, core.filter, transform_inverse(p, pre.output))]

value(p) == cores[p].filter.output

Init ==
  /\ queue = <<>>
  /\ cores = [p \in Phases |-> [prefilter |-> WF!moving_average_filter(Average, 0),
                                filter |-> WF!median_filter(Median, 0)]]
  /\ pc = "pop" /\ raw = NoFrame /\ phase = 1
  /\ absorbed = <<>>

\* The interrupt; on overflow the newest sample is dropped.
submit(frame) ==
  /\ queue' = IF Len(queue) < Depth THEN Append(queue, frame) ELSE queue
  /\ UNCHANGED <<cores, pc, raw, phase, absorbed>>

\* process; it returns when the queue is empty, and is called again.
try_pop ==
  /\ pc = "pop"
  /\ queue # <<>>
  /\ raw' = Head(queue)
  /\ queue' = Tail(queue)
  /\ absorbed' = LET s == Append(absorbed, Head(queue))
                     kept == Average + Median - 1
                 IN  IF Len(s) > kept THEN Tail(s) ELSE s
  /\ pc' = "submit"
  /\ UNCHANGED <<cores, phase>>

\* Faulty submit_impl: the last phase is left out.
submit_impl_short ==
  /\ pc = "submit"
  /\ cores' = IF phase = N THEN cores
              ELSE [cores EXCEPT ![phase] = core_submit(phase, @, raw[phase])]
  /\ phase' = IF phase = N THEN 1 ELSE phase + 1
  /\ pc' = IF phase = N THEN "pop" ELSE "submit"
  /\ raw' = IF phase = N THEN NoFrame ELSE raw
  /\ UNCHANGED <<queue, absorbed>>

submit_impl ==
  /\ pc = "submit"
  /\ cores' = [cores EXCEPT ![phase] = core_submit(phase, @, raw[phase])]
  /\ phase' = IF phase = N THEN 1 ELSE phase + 1
  /\ pc' = IF phase = N THEN "pop" ELSE "submit"
  /\ raw' = IF phase = N THEN NoFrame ELSE raw
  /\ UNCHANGED <<queue, absorbed>>

Next ==
  \/ \E frame \in Frames : submit(frame)
  \/ try_pop
  \/ submit_impl

Spec == Init /\ [][Next]_sensorVars

-----------------------------------------------------------------------------
\* The values that the codes stand for.
Measured == -N .. CHOOSE c \in Codes : \A d \in Codes : d <= c

\* The codes of phase p in the absorbed frames, through the moving average.
Averaged(p) ==
  [k \in 1 .. Len(absorbed) |->
     WF!AverageOf(Average, 0, [j \in 1 .. k |-> absorbed[j][p]])]

\* The values of all phases read back from the main loop belong to the same
\* frames, each the median of the converted averages of its own codes: no phase
\* runs ahead, no frame is applied twice, out of order or to another phase,
\* whatever the interrupt submits meanwhile.  A converter inverts its transform.
ValuesOfOneInstant ==
  pc # "submit" =>
    \A p \in Phases :
      LET converted == [k \in 1 .. Len(absorbed) |->
                          CHOOSE x \in Measured : transform_forward(p, x) = Averaged(p)[k]]
      IN  value(p) = WF!MedianOf(Median, 0, converted)
=============================================================================
