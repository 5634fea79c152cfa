-------------------------- MODULE FiniteStateMachine --------------------------
(***************************************************************************)
(* emb::fsm::v2 and v3::finite_state_machine: on_event decides on a        *)
(* transition, which runs on_exit, changes the state and runs on_entry.    *)
(* The handlers are the user's; they are given the machine, and may make   *)
(* it dispatch or make a transition before they return.                    *)
(***************************************************************************)
EXTENDS Integers, Sequences, SequencesExt

CONSTANTS
  States,
  Policies,   \* of moore_policy, mealy_policy and mixed_policy, the ones in use
  Reentrant,  \* Reentrant[p]: the handlers that may call the machine
  MaxDepth    \* bound: the handlers that have not returned

Handlers == {"on_event", "on_entry", "on_exit"}
None == "none"

EntryAction(p) == p \in {"moore", "mixed"}
ExitAction(p) == p = "mixed"

\* moore_policy gives on_event a machine that it cannot change; a transition from
\* on_exit would run on_exit again, and is left to no policy.
ASSUME FsmAssumption ==
  /\ None \notin States
  /\ Policies \subseteq {"moore", "mealy", "mixed"}
  /\ Reentrant \in [Policies -> SUBSET {"on_event", "on_entry"}]
  /\ "moore" \in Policies => "on_event" \notin Reentrant["moore"]
  /\ MaxDepth \in Nat

VARIABLES
  policy,
  started,  \* whether start_fsm has been called, and stop_fsm not
  state,    \* state_
  calls,    \* the handlers that run: which, of which state, and where it leads
  entered   \* ghost: for each state, how often it was entered more than exited; of
            \* a machine without exit actions, the state that was entered last

vars == <<policy, started, state, calls, entered>>

Top == Last(calls)
Call(handler, s, next) == [handler |-> handler, of |-> s, next |-> next]

\* Who may call the machine: its owner, or the handler that runs.
MayCall ==
  /\ started
  /\ Len(calls) < MaxDepth
  /\ calls # <<>> => Top.handler \in Reentrant[policy]

Init ==
  /\ policy \in Policies
  /\ started = FALSE
  /\ state \in States
  /\ calls = <<>>
  /\ entered = [s \in States |-> 0]

OnlyIn(s) == [u \in States |-> IF u = s THEN 1 ELSE 0]
NoState == [u \in States |-> 0]

\* enter_state, with the handlers in below to return to.
Enter(s, below) ==
  IF EntryAction(policy)
    THEN /\ calls' = Append(below, Call("on_entry", s, None))
         /\ entered' = IF ExitAction(policy) THEN [entered EXCEPT ![s] = @ + 1] ELSE OnlyIn(s)
    ELSE calls' = below /\ UNCHANGED entered

\* exit_state, on the way to state next, or, of stop_fsm, to none.
Exit(next, below) ==
  /\ calls' = Append(below, Call("on_exit", state, next))
  /\ entered' = [entered EXCEPT ![state] = @ - 1]
  /\ UNCHANGED state

\* Faulty TransitionLate: the state is changed first.
TransitionLate(next, below) ==
  IF ExitAction(policy)
    THEN /\ calls' = Append(below, Call("on_exit", next, next))
         /\ entered' = [entered EXCEPT ![next] = @ - 1]
         /\ state' = next
    ELSE state' = next /\ Enter(next, below)

\* exit_state, the assignment and enter_state.
Transition(next, below) ==
  IF ExitAction(policy) THEN Exit(next, below)
                        ELSE state' = next /\ Enter(next, below)

StartFsm ==
  /\ ~started /\ calls = <<>>
  /\ started' = TRUE
  /\ Enter(state, calls)
  /\ UNCHANGED <<policy, state>>

StopFsm ==
  /\ started /\ calls = <<>>
  /\ started' = FALSE
  /\ IF ExitAction(policy) THEN Exit(None, calls) ELSE UNCHANGED <<state, calls, entered>>
  /\ UNCHANGED policy

Dispatch ==
  /\ MayCall
  /\ calls' = Append(calls, Call("on_event", state, None))
  /\ UNCHANGED <<policy, started, state, entered>>

ForceTransition(next) ==
  /\ MayCall
  /\ Transition(next, calls)
  /\ UNCHANGED <<policy, started>>

\* on_event returns no_transition, or the state to go to.
OnEventReturns(next) ==
  /\ calls # <<>> /\ Top.handler = "on_event"
  /\ IF next = None THEN calls' = Front(calls) /\ UNCHANGED <<state, entered>>
                    ELSE Transition(next, Front(calls))
  /\ UNCHANGED <<policy, started>>

OnExitReturns ==
  /\ calls # <<>> /\ Top.handler = "on_exit"
  /\ IF Top.next = None THEN calls' = Front(calls) /\ UNCHANGED <<state, entered>>
                        ELSE state' = Top.next /\ Enter(Top.next, Front(calls))
  /\ UNCHANGED <<policy, started>>

OnEntryReturns ==
  /\ calls # <<>> /\ Top.handler = "on_entry"
  /\ calls' = Front(calls)
  /\ UNCHANGED <<policy, started, state, entered>>

Next ==
  \/ StartFsm \/ StopFsm \/ Dispatch
  \/ \E next \in States : ForceTransition(next)
  \/ \E next \in States \cup {None} : OnEventReturns(next)
  \/ OnExitReturns \/ OnEntryReturns

Spec == Init /\ [][Next]_vars

-----------------------------------------------------------------------------
Exiting == calls # <<>> /\ Top.handler = "on_exit"

TypeOK ==
  /\ policy \in Policies /\ started \in BOOLEAN /\ state \in States
  /\ calls \in Seq([handler : Handlers, of : States, next : States \cup {None}])
  /\ entered \in [States -> Int]

\* However deep the handlers call each other, the state that the machine is in is
\* entered, and has not been exited, and no other is, except while on_exit takes the
\* machine out of it; on_exit runs for that state. A machine without exit actions
\* begins on_entry of every state it comes to, and last of all, of the state it is in
\* (force_transition, dispatch, start_fsm, stop_fsm).
EntryExitPaired ==
  /\ TypeOK
  /\ Exiting => ExitAction(policy) /\ Top.of = state
  /\ entered = IF ~EntryAction(policy) THEN NoState
               ELSE IF started THEN (IF Exiting THEN NoState ELSE OnlyIn(state))
               ELSE IF ExitAction(policy) THEN NoState
               ELSE IF entered = NoState THEN NoState ELSE OnlyIn(state)
=============================================================================
