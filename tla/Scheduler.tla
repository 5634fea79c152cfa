------------------------------ MODULE Scheduler ------------------------------
(***************************************************************************)
(* emb::scheduler::basic_scheduler: a table of periodic tasks, a table of  *)
(* adaptive ones, one delayed task, and run, which calls those that are    *)
(* due.  A task may itself add tasks, delay one, reset the scheduler or,   *)
(* if it is adaptive, change its period; time passes during a call and     *)
(* between calls.                                                          *)
(*                                                                         *)
(* A time stamp t is kept as its age, Clock::now() - t, up to MaxAge, above *)
(* which ages are not told apart: the clock itself is unbounded.           *)
(***************************************************************************)
EXTENDS Integers, Sequences

CONSTANTS
  max_simple_tasks, max_adaptive_tasks,
  Periods,     \* what the period of a task may be
  AdaptivePeriods,  \* and of an adaptive one
  Delays,      \* what the delay of a delayed task may be
  MaxLag       \* bound: how long a call of run takes

VARIABLES
  tasks,       \* tasks_: [period, age of exec_timepoint]
  adaptive,    \* adaptive_tasks_
  delay,       \* delayed_task_delay_, 0 for none
  delayAge,    \* age of delayed_task_start_
  pc,          \* "main", or which loop run is in
  index,       \* its i, counted from 1
  calling,     \* a task is being called
  lag,         \* age of now, the time that run compares with
  credit,      \* ghost: per task, the time since it was added or reset, less
               \*        a period for every call
  owed         \* ghost: a delayed task was added, and neither called nor replaced

table == <<tasks, adaptive>>
delayed == <<delay, delayAge, owed>>
schedulerVars == <<tasks, adaptive, delay, delayAge, pc, index, calling, lag, credit, owed>>

\* The largest number of a set.
Largest(S) == CHOOSE x \in S : \A y \in S : y <= x

MaxAge == Largest(Periods \cup AdaptivePeriods \cup Delays) + MaxLag + 1
Older(age) == IF age < MaxAge THEN age + 1 ELSE age

Init ==
  /\ tasks = <<>> /\ adaptive = <<>>
  /\ delay = 0 /\ delayAge = 0
  /\ pc = "main" /\ index = 1 /\ calling = FALSE /\ lag = 0
  /\ credit = [tasks |-> <<>>, adaptive |-> <<>>]
  /\ owed = FALSE

\* Code of the program runs outside of run, or inside of a task.
UserRuns == pc = "main" \/ calling

Tick ==
  /\ UserRuns
  /\ pc # "main" => lag < MaxLag
  /\ lag' = IF pc = "main" THEN 0 ELSE lag + 1
  /\ tasks' = [i \in DOMAIN tasks |-> [tasks[i] EXCEPT !.age = Older(@)]]
  /\ adaptive' = [i \in DOMAIN adaptive |-> [adaptive[i] EXCEPT !.age = Older(@)]]
  /\ delayAge' = Older(delayAge)
  /\ credit' = [t \in DOMAIN credit |-> [i \in DOMAIN credit[t] |-> Older(credit[t][i])]]
  /\ UNCHANGED <<delay, pc, index, calling, owed>>

-----------------------------------------------------------------------------
(* What the program calls.                                                 *)

\* The tables are inplace_vectors, which must not be full.
add_task ==
  /\ UserRuns
  /\ Len(tasks) < max_simple_tasks
  /\ \E p \in Periods : tasks' = Append(tasks, [period |-> p, age |-> 0])
  /\ credit' = [credit EXCEPT !.tasks = Append(@, 0)]
  /\ UNCHANGED <<adaptive, delayed, pc, index, calling, lag>>

add_adaptive_task ==
  /\ UserRuns
  /\ Len(adaptive) < max_adaptive_tasks
  /\ \E p \in AdaptivePeriods : adaptive' = Append(adaptive, [period |-> p, age |-> 0])
  /\ credit' = [credit EXCEPT !.adaptive = Append(@, 0)]
  /\ UNCHANGED <<tasks, delayed, pc, index, calling, lag>>

\* A delayed task that the delayed task adds is forgotten when it returns; a
\* delay of 0 is no task at all.
add_delayed_task ==
  /\ UserRuns
  /\ \E d \in Delays :
       /\ delay' = d
       /\ owed' = (d # 0 /\ pc # "delayed")
  /\ delayAge' = 0
  /\ UNCHANGED <<table, pc, index, calling, lag, credit>>

reset ==
  /\ UserRuns
  /\ tasks' = [i \in DOMAIN tasks |-> [tasks[i] EXCEPT !.age = 0]]
  /\ adaptive' = [i \in DOMAIN adaptive |-> [adaptive[i] EXCEPT !.age = 0]]
  /\ credit' = [t \in DOMAIN credit |-> [i \in DOMAIN credit[t] |-> 0]]
  /\ UNCHANGED <<delayed, pc, index, calling, lag>>

\* adaptive_task_context, valid during the call.
set_period ==
  /\ pc = "adaptive" /\ calling
  /\ \E p \in AdaptivePeriods : adaptive' = [adaptive EXCEPT ![index].period = p]
  /\ UNCHANGED <<tasks, delayed, pc, index, calling, lag, credit>>

-----------------------------------------------------------------------------
(* run.                                                                    *)

run ==
  /\ pc = "main"
  /\ pc' = "tasks" /\ index' = 1 /\ lag' = 0
  /\ UNCHANGED <<table, delayed, calling, credit>>

\* Faulty Due: compares with the clock and not with the sample.
DueByTheClock(task) == task.age >= task.period

\* now >= exec_timepoint + period, between two time stamps.
Due(task) == task.age - lag >= task.period

\* exec_timepoint = now, and the call begins.
CallTask ==
  /\ pc = "tasks" /\ ~calling
  /\ index <= Len(tasks) /\ Due(tasks[index])
  /\ tasks' = [tasks EXCEPT ![index].age = lag]
  /\ credit' = [credit EXCEPT !.tasks[index] = @ - tasks[index].period]
  /\ calling' = TRUE
  /\ UNCHANGED <<adaptive, delayed, pc, index, lag>>

CallAdaptive ==
  /\ pc = "adaptive" /\ ~calling
  /\ index <= Len(adaptive) /\ Due(adaptive[index])
  /\ adaptive' = [adaptive EXCEPT ![index].age = lag]
  /\ credit' = [credit EXCEPT !.adaptive[index] = @ - adaptive[index].period]
  /\ calling' = TRUE
  /\ UNCHANGED <<tasks, delayed, pc, index, lag>>

\* Faulty Advance: the task after one that was called is passed over.
AdvancePast ==
  /\ pc \in {"tasks", "adaptive"}
  /\ LET loop == IF pc = "tasks" THEN tasks ELSE adaptive IN
     /\ index <= Len(loop)
     /\ calling \/ ~Due(loop[index])
  /\ calling' = FALSE
  /\ index' = IF calling THEN index + 2 ELSE index + 1
  /\ UNCHANGED <<table, delayed, pc, lag, credit>>

\* The next element, of a table that the calls may have made longer.
Advance ==
  /\ pc \in {"tasks", "adaptive"}
  /\ LET loop == IF pc = "tasks" THEN tasks ELSE adaptive IN
     /\ index <= Len(loop)
     /\ calling \/ ~Due(loop[index])
  /\ calling' = FALSE
  /\ index' = index + 1
  /\ UNCHANGED <<table, delayed, pc, lag, credit>>

LoopEnds ==
  /\ ~calling
  /\ \/ pc = "tasks" /\ index > Len(tasks) /\ pc' = "adaptive"
     \/ pc = "adaptive" /\ index > Len(adaptive) /\ pc' = "delayed"
  /\ index' = 1
  /\ UNCHANGED <<table, delayed, calling, lag, credit>>

CallDelayed ==
  /\ pc = "delayed" /\ ~calling
  /\ delay # 0 /\ delayAge - lag >= delay
  /\ calling' = TRUE
  /\ owed' = FALSE
  /\ UNCHANGED <<table, delay, delayAge, pc, index, lag, credit>>

DelayedReturns ==
  /\ pc = "delayed" /\ calling
  /\ delay' = 0
  /\ calling' = FALSE /\ pc' = "main" /\ lag' = 0
  /\ UNCHANGED <<table, delayAge, index, credit, owed>>

NothingDelayed ==
  /\ pc = "delayed" /\ ~calling
  /\ delay = 0 \/ delayAge - lag < delay
  /\ pc' = "main" /\ lag' = 0
  /\ UNCHANGED <<table, delayed, index, calling, credit>>

RunStep ==
  \/ CallTask \/ CallAdaptive \/ Advance \/ LoopEnds
  \/ CallDelayed \/ DelayedReturns \/ NothingDelayed

Next ==
  \/ Tick
  \/ add_task \/ add_adaptive_task \/ add_delayed_task \/ reset \/ set_period
  \/ run
  \/ RunStep

\* The main loop calls run again and again, a call of a task returns.
Fairness == WF_schedulerVars(run) /\ WF_schedulerVars(RunStep)

Spec == Init /\ [][Next]_schedulerVars /\ Fairness

-----------------------------------------------------------------------------
\* However late run comes, how long the tasks take and when they are added, a
\* task is never called more often than once per period: there is no burst of
\* calls that makes up for missed ones, and time spent in other tasks is not
\* counted twice (run compares with the time it sampled at its begin).
RateBounded ==
  \A t \in DOMAIN credit : \A i \in DOMAIN credit[t] : credit[t][i] >= 0

\* A delayed task with a delay is neither forgotten nor called twice, whoever
\* else is called and whatever they add: only another one replaces it. The
\* exception is one that the delayed task adds itself.
DelayedTaskKept == owed => delay # 0

\* Every call is one that was asked for, and at the rate that was asked for: the
\* periodic and adaptive tasks, and the delayed one (run, add_task, reset).
CalledAsScheduled ==
  /\ [](RateBounded /\ DelayedTaskKept)
  /\ [][CallDelayed => owed]_schedulerVars

\* A task that is due is called, or its time starts anew, whatever the others do.
DueTaskRuns ==
  \A i \in 1 .. max_simple_tasks :
    (i \in DOMAIN tasks /\ tasks[i].age >= tasks[i].period)
      ~> (/\ i \in DOMAIN tasks
          /\ tasks[i].age < tasks[i].period \/ (pc = "tasks" /\ calling /\ index = i))
=============================================================================
