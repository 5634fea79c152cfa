---------------------------- MODULE CommandedRamp ----------------------------
(***************************************************************************)
(* emb::control::command_multiplexer, which passes the command of one of   *)
(* several sources on to its sink, with a ramp_generator for its sink: the *)
(* loop of a program that polls the one and updates the other.             *)
(*                                                                         *)
(* The sources and the sink are the program's: a source offers the command *)
(* that it likes at any time, and accept sets the target of the ramp.      *)
(* Values are taken to be far enough from the limits of the float format   *)
(* that a step is never rounded away.                                      *)
(***************************************************************************)
EXTENDS Integers

CONSTANTS
  Sources,
  Commands,    \* numbers; 0, which is command_type{}, is one
  Steps,       \* what a slope times a time step may be
  monostate    \* the source_ of a multiplexer with no active source

VARIABLES
  source_,     \* the active source
  offered,     \* what get of each source returns
  sink,        \* the ramp
  heard        \* ghost: what the active source offered since the last poll

rampVars == <<source_, offered, sink, heard>>

NoCommand == 0

-----------------------------------------------------------------------------
(* emb::ramp_generator: an output that moves to its target by at most one  *)
(* step at an update.                                                      *)

ramp_set_target(r, value) == [r EXCEPT !.target = value]
ramp_set_output(r, value) == [r EXCEPT !.target = value, !.output = value]
ramp_reset(r) == ramp_set_output(r, r.init)

\* The step is the slope times the time step.
ramp_set_slope(r, size) == [r EXCEPT !.step = size]

ramp_construct(size, init) ==
  ramp_reset(ramp_set_slope([step |-> size, init |-> init, target |-> init, output |-> init], size))

Lesser(a, b) == IF a < b THEN a ELSE b
Greater(a, b) == IF a < b THEN b ELSE a

ramp_update(r) ==
  [r EXCEPT !.output = IF r.output < r.target THEN Lesser(r.output + r.step, r.target)
                       ELSE Greater(r.output - r.step, r.target)]

ramp_at_target(r) == r.output = r.target

-----------------------------------------------------------------------------

Init ==
  /\ source_ = monostate
  /\ offered \in [Sources -> {NoCommand}]
  /\ \E step \in Steps : sink = ramp_construct(step, NoCommand)
  /\ heard = {NoCommand}

\* What poll visits.
CommandOf(s) == IF s = monostate THEN NoCommand ELSE offered[s]

accept(command) ==
  /\ sink' = ramp_set_target(sink, command)
  /\ heard' = {command}

\* Faulty activate: the sink keeps its command until the next poll.
activate_quietly(s) ==
  /\ source_' = s
  /\ heard' = {CommandOf(s)}
  /\ UNCHANGED <<offered, sink>>

\* A source, or the variant that holds one or none.
activate(s) ==
  /\ source_' = s
  /\ accept(CommandOf(s))
  /\ UNCHANGED offered

deactivate ==
  /\ source_' = monostate
  /\ accept(NoCommand)
  /\ UNCHANGED offered

poll ==
  /\ accept(CommandOf(source_))
  /\ UNCHANGED <<source_, offered>>

is_active(s) == source_ = s

Offer(s, command) ==
  /\ offered' = [offered EXCEPT ![s] = command]
  /\ heard' = IF is_active(s) THEN heard \cup {command} ELSE heard
  /\ UNCHANGED <<source_, sink>>

update ==
  /\ sink' = ramp_update(sink)
  /\ UNCHANGED <<source_, offered, heard>>

set_slope(step) ==
  /\ sink' = ramp_set_slope(sink, step)
  /\ UNCHANGED <<source_, offered, heard>>

\* The program sets the ramp's output only while nothing commands it, to NoCommand.
reset ==
  /\ source_ = monostate
  /\ sink' = ramp_reset(sink)
  /\ UNCHANGED <<source_, offered, heard>>

Next ==
  \/ \E s \in Sources \cup {monostate} : activate(s)
  \/ deactivate
  \/ poll
  \/ update
  \/ \E s \in Sources, command \in Commands : Offer(s, command)
  \/ \E step \in Steps : set_slope(step)
  \/ reset

\* The loop of the program comes round again and again.
Spec == Init /\ [][Next]_rampVars /\ WF_rampVars(poll) /\ WF_rampVars(update)

-----------------------------------------------------------------------------
\* An output moves by one step at most, and not past its target.
Between(a, b, c) == (a <= b /\ b <= c) \/ (c <= b /\ b <= a)
StepsTowardsTarget ==
  sink'.output # sink.output /\ source_ # monostate =>
    /\ Between(sink.output, sink'.output, sink.target)
    /\ sink'.output - sink.output \in -sink.step .. sink.step

\* The sink obeys the active source only: its target is a command that this source
\* has offered since the last poll, its output moves towards it and not past it
\* (activate, deactivate, poll, update).
SinkObeysActive ==
  /\ [](sink.target \in heard)
  /\ [][StepsTowardsTarget]_rampVars

\* And it comes to rest at the command that an active source keeps offering.
SinkFollowsActive ==
  /\ SinkObeysActive
  /\ \A s \in Sources, command \in Commands :
       <>[](is_active(s) /\ offered[s] = command) => <>[](ramp_at_target(sink) /\ sink.target = command)
=============================================================================
