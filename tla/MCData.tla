------------------------------- MODULE MCData -------------------------------
(***************************************************************************)
(* The parts of Data side by side: a behaviour is one of one of them.      *)
(***************************************************************************)
EXTENDS Data, TLC

CONSTANTS kp, ki, kd, One

VARIABLES
  part,
  number       \* the argument of the functions

filterVars == <<class, filter, factor, start, samples>>
sensorVars == <<queue, cores, pc, raw, phase, absorbed>>
nvmVars == <<layout, memory, call, todo, value, field, erased, candidates, intact>>
actionVars == <<time, trigger_detected_, trigger_timepoint_, executed, polls>>
tripleVars == <<buf, shared, write, read, wpc, desired, wleft, rpc, rleft, snapshot,
                result, committed, fresh, took, owed>>
allVars == <<part, containerVars, filterVars, sensorVars, nvmVars, actionVars, flags_,
             tripleVars, number>>

-----------------------------------------------------------------------------
\* The next firmware has one parameter more, in the middle; one parameter has two
\* bytes, and a value that is the other one with its bytes exchanged.
MCLayouts == << <<kp, ki>>, <<kp, kd, ki>> >>
MCValuesOf == [p \in {kp, ki, kd} |->
                 IF p = ki THEN {<<Zero, One>>, <<One, Zero>>} ELSE {<<One>>}]
MCdefault_value == [p \in {kp, ki, kd} |-> IF p = ki THEN <<Zero, One>> ELSE <<One>>]

MCExponents == 0 .. WideBits - 1

MCSymmetry == Permutations(Objects) \cup Permutations(Values)

\* The parts that a behaviour is not of are in one of their initial states.
Unless(p, isOne) == part = p \/ isOne

MCInit ==
  /\ part \in {"containers", "filters", "sensors", "nvm", "action", "mirror", "triple", "math"}
  /\ Init /\ Unless("containers", kind = "inplace_stack" /\ trivial)
  /\ Filters!Init /\ Unless("filters", class = "passthrough" /\ factor = 0 /\ start = 0)
  /\ Sensor!Init
  /\ Nvm!Init
  /\ Action!Init
  /\ Mirror!Init
  /\ Triple!Init
  /\ number \in IF part = "math" THEN Math!Floats ELSE {0}

Only(p) ==
  /\ part = p /\ UNCHANGED <<part, number>>
  /\ IF p = "containers" THEN TRUE ELSE UNCHANGED containerVars
  /\ IF p = "filters" THEN TRUE ELSE UNCHANGED filterVars
  /\ IF p = "sensors" THEN TRUE ELSE UNCHANGED sensorVars
  /\ IF p = "nvm" THEN TRUE ELSE UNCHANGED nvmVars
  /\ IF p = "action" THEN TRUE ELSE UNCHANGED actionVars
  /\ IF p = "mirror" THEN TRUE ELSE UNCHANGED flags_
  /\ IF p = "triple" THEN TRUE ELSE UNCHANGED tripleVars

MCNext ==
  \/ Only("containers") /\ Next
  \/ Only("filters") /\ Filters!Next
  \/ Only("sensors") /\ Sensor!Next
  \/ Only("nvm") /\ Nvm!Next
  \/ Only("action") /\ Action!Next
  \/ Only("mirror") /\ Mirror!Next
  \/ Only("triple") /\ Triple!Next

MCSpec == MCInit /\ [][MCNext]_allVars

-----------------------------------------------------------------------------
\* The functions of math.hpp agree with their definitions (saturate_round, quantize,
\* norm2pi, normpi, range, signed_pu, unsigned_pu).
MathExact ==
  part = "math" =>
    /\ Math!SaturateRoundExact(number)
    /\ Math!AnglesNormal(number)
    /\ Math!BoundsKept(number)

\* What is computed incrementally or in a roundabout way is what its definition says:
\* the output of a filter after any samples, the moment a triggered action is
\* executed, the answers of a mirror, and the functions of math.hpp (push,
\* check_and_execute, worst, saturate_round).
MatchDefinitions ==
  /\ Filters!OutputExact
  /\ Action!ExecutedWhenHeld
  /\ Mirror!AnswersAgree
  /\ MathExact
=============================================================================
