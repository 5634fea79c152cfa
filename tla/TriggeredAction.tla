--------------------------- MODULE TriggeredAction ---------------------------
(***************************************************************************)
(* emb::chrono::triggered_action: an action that is executed at the polls  *)
(* that have seen the trigger for longer than a delay.                     *)
(*                                                                         *)
(* A poll takes no time, and is made at any time.                          *)
(***************************************************************************)
EXTENDS Integers, Sequences

CONSTANTS
  delay_,
  MaxTime,     \* bound: of the clock
  MaxPolls     \* bound: of the calls of check_and_execute

VARIABLES
  time,        \* Clock::now()
  trigger_detected_, trigger_timepoint_,
  executed,    \* whether the last poll executed the action
  polls        \* ghost: when the trigger was polled, and what it said

actionVars == <<time, trigger_detected_, trigger_timepoint_, executed, polls>>

\* With what the action has of the polls before.
check_and_execute(triggered, detected, timepoint) ==
  /\ trigger_detected_' = triggered
  /\ trigger_timepoint_' = IF triggered /\ ~detected THEN time ELSE timepoint
  /\ executed' = (triggered /\ time > trigger_timepoint_' + delay_)
  /\ polls' = Append(polls, [at |-> time, triggered |-> triggered])
  /\ UNCHANGED time

Init ==
  /\ time = 0
  /\ trigger_detected_ = FALSE /\ trigger_timepoint_ = 0
  /\ executed = FALSE
  /\ polls = <<>>

\* The constructor polls too.
construct ==
  /\ polls = <<>>
  /\ \E triggered \in BOOLEAN : check_and_execute(triggered, FALSE, time)

poll ==
  /\ Len(polls) \in 1 .. MaxPolls - 1
  /\ \E triggered \in BOOLEAN :
       check_and_execute(triggered, trigger_detected_, trigger_timepoint_)

Tick ==
  /\ time < MaxTime
  /\ time' = time + 1
  /\ UNCHANGED <<trigger_detected_, trigger_timepoint_, executed, polls>>

Next == construct \/ poll \/ Tick

Spec == Init /\ [][Next]_actionVars

-----------------------------------------------------------------------------
\* A poll executes the action just when it sees the trigger, and so did every poll
\* since one that is longer ago than the delay: one poll that does not see it
\* begins the delay anew (check_and_execute).
ExecutedWhenHeld ==
  executed <=>
    LET last == Len(polls) IN
    \E first \in DOMAIN polls :
      /\ polls[last].at - polls[first].at > delay_
      /\ \A i \in first .. last : polls[i].triggered
=============================================================================
