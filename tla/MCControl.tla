------------------------------ MODULE MCControl ------------------------------
\* A behaviour is one of one of the parts; the others stay as they are.
EXTENDS Control

VARIABLE part

spVars == <<state_, lock_guard, step, next_state, prev_state, told>>
schedulerVars == <<tasks, adaptive, delay, delayAge, pc, index, calling, lag, credit, owed>>
loopVars == <<source_, offered, sink, heard>>
controllerVars == <<controller, inverting, kp_, kc_, limits, out_i_, error_, out_, fresh>>
registerVars == <<control, status, writeOne, fields, raised>>
actuatorVars == <<kind, contact, polarity, desired_, pin, actual>>
allVars == <<part, vars, spVars, schedulerVars, loopVars, controllerVars, registerVars,
             actuatorVars>>

-----------------------------------------------------------------------------
MCPolicies == {"moore", "mealy", "mixed"}

\* Every handler is re-entrant that may be.
MCReentrant ==
  [p \in MCPolicies |->
     CASE p = "moore" -> {"on_entry"}
       [] p = "mealy" -> {"on_event"}
       [] p = "mixed" -> {"on_event", "on_entry"}]

MCCommands == {-1, 0, 1, 4}
MCErrors == {-3, -1, 0, 1, 3}
MCLimits == {[lower |-> -2, upper |-> 3], [lower |-> 0, upper |-> 1]}

\* The parts that a behaviour is not of are in one of their initial states.
Chosen(S) == CHOOSE x \in S : TRUE
Unless(p, isOne) == part = p \/ isOne

MCInit ==
  /\ part \in {"fsm", "sp", "scheduler", "loop", "controllers", "registers", "actuators"}
  /\ Init /\ Unless("fsm", policy = "moore" /\ state = Chosen(States))
  /\ Sp!Init /\ Unless("sp", state_ = Chosen(SpStates))
  /\ Scheduler!Init
  /\ Loop!Init /\ Unless("loop", sink.step = Chosen(Steps))
  /\ Controllers!Init
  /\ Unless("controllers", /\ controller = "p" /\ inverting /\ kp_ = Chosen(Gains)
                           /\ limits.lower = 0)
  /\ Registers!Init /\ Unless("registers", writeOne)
  /\ Actuators!Init
  /\ Unless("actuators", /\ kind = "normally_open" /\ contact = "make" /\ actual = "open"
                         /\ desired_ = "open" /\ {polarity[w] : w \in DOMAIN polarity} = {"active_low"})

Only(p) ==
  /\ part = p /\ UNCHANGED part
  /\ IF p = "fsm" THEN TRUE ELSE UNCHANGED vars
  /\ IF p = "sp" THEN TRUE ELSE UNCHANGED spVars
  /\ IF p = "scheduler" THEN TRUE ELSE UNCHANGED schedulerVars
  /\ IF p = "loop" THEN TRUE ELSE UNCHANGED loopVars
  /\ IF p = "controllers" THEN TRUE ELSE UNCHANGED controllerVars
  /\ IF p = "registers" THEN TRUE ELSE UNCHANGED registerVars
  /\ IF p = "actuators" THEN TRUE ELSE UNCHANGED actuatorVars

MCNext ==
  \/ Only("fsm") /\ Next
  \/ Only("sp") /\ Sp!Next
  \/ Only("scheduler") /\ Scheduler!Next
  \/ Only("loop") /\ Loop!Next
  \/ Only("controllers") /\ Controllers!Next
  \/ Only("registers") /\ Registers!Next
  \/ Only("actuators") /\ Actuators!Next

\* The fairness of each part, when the behaviour is one of that part.
MCFairness ==
  /\ WF_allVars(Only("scheduler") /\ Scheduler!run)
  /\ WF_allVars(Only("scheduler") /\ Scheduler!RunStep)
  /\ WF_allVars(Only("loop") /\ Loop!poll)
  /\ WF_allVars(Only("loop") /\ Loop!update)

MCSpec == MCInit /\ [][MCNext]_allVars /\ MCFairness
=============================================================================
