------------------------------- MODULE Control -------------------------------
(***************************************************************************)
(* The parts of the library that run and drive a program, side by side:    *)
(* the state machines, the scheduler, the multiplexer with its sink, the   *)
(* controllers, the registers and the actuators.  They share nothing.      *)
(***************************************************************************)
EXTENDS FiniteStateMachine

CONSTANTS
  SpStates, Contexts, NoContext,
  max_simple_tasks, max_adaptive_tasks, Periods, AdaptivePeriods, Delays, MaxLag,
  Sources, Commands, Steps, monostate,
  Errors, Gains, kiTs, AntiWindupGains, Limits, FloatMax,
  Width, Fields

VARIABLES
  state_, lock_guard, step, next_state, prev_state, told,
  tasks, adaptive, delay, delayAge, pc, index, calling, lag, credit, owed,
  source_, offered, sink, heard,
  controller, inverting, kp_, kc_, limits, out_i_, error_, out_, fresh,
  control, status, writeOne, fields, raised,
  kind, contact, polarity, desired_, pin, actual

Sp == INSTANCE SpMachines
Scheduler == INSTANCE Scheduler
Loop == INSTANCE CommandedRamp
Controllers == INSTANCE Controllers
Registers == INSTANCE Registers
Actuators == INSTANCE Actuators

-----------------------------------------------------------------------------
(* What the parts are given.                                               *)

ASSUME SpAssumption == NoContext \notin Contexts

\* Times are counts of a clock's ticks, and one of them is the longest.
ASSUME SchedulerAssumption ==
  LET times == Periods \cup AdaptivePeriods \cup Delays IN
  /\ times \subseteq Nat /\ MaxLag \in Nat
  /\ \E longest \in times : \A t \in times : t <= longest

ASSUME LoopAssumption ==
  /\ monostate \notin Sources
  /\ 0 \in Commands /\ Commands \subseteq Int /\ Steps \subseteq Nat

\* The limits of one type of float leave room for what the parts of a controller add
\* up to; an error may have either sign; and 0, which a controller begins with, is not
\* out of the reach of all limits.
ASSUME ControllersAssumption ==
  LET floats == -FloatMax .. FloatMax
      Reach == (2 + kiTs) * Controllers!GreatestP
  IN
  /\ FloatMax \in Nat /\ kiTs \in Nat
  /\ Errors # {} /\ Errors \subseteq floats /\ \A e \in Errors : -e \in Errors
  /\ Gains # {} /\ Gains \subseteq 1 .. FloatMax
  /\ AntiWindupGains \subseteq {0, 1}
  /\ \A l \in Limits : l.lower \in floats /\ l.upper \in floats /\ l.lower <= l.upper
  /\ \E l \in Limits : l.lower <= 0
  /\ \E l \in Limits : 0 <= l.upper
  /\ -FloatMax + Reach <= Controllers!LowestLimit
  /\ Controllers!HighestLimit + Reach <= FloatMax

\* A field is a contiguous mask, and no two overlap: others do not compile.
ASSUME RegistersAssumption ==
  /\ Width \in Nat
  /\ \A f \in Fields : \E lo, hi \in 0 .. Width - 1 : lo <= hi /\ f = lo .. hi
  /\ \A f, g \in Fields : f # g => f \cap g = {}

-----------------------------------------------------------------------------
\* Properties of the instances, stated there: of the transitions of sp1 and sp2
\* (change_state, dispatch), of the scheduler (run), of a multiplexer's sink (poll,
\* update), of the controllers (push), of registers (write, clear_w1) and of
\* actuators (command, in_sync).
TransitionsChained == Sp!TransitionsChained
CalledAsScheduled == Scheduler!CalledAsScheduled
DueTaskRuns == Scheduler!DueTaskRuns
SinkFollowsActive == Loop!SinkFollowsActive
NoWindup == Controllers!NoWindup
FieldsAndFlagsKept == Registers!FieldsAndFlagsKept
InSyncMeansThere == Actuators!InSyncMeansThere
=============================================================================
