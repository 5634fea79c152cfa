------------------------------ MODULE SpMachines ------------------------------
(***************************************************************************)
(* emb::fsm::sp1 and sp2: a transition is made under a lock guard, and     *)
(* calls finalize (on_exit) of the state it leaves and initiate (on_enter) *)
(* of the one it comes to.  Several contexts use one machine, say the main *)
(* loop and an interrupt.  The two differ in who decides on a transition:  *)
(* a state that calls change_state, or the one that the event is           *)
(* dispatched to.  Neither holds the lock when it decides.                 *)
(***************************************************************************)
EXTENDS Naturals

CONSTANTS
  SpStates,
  Contexts,
  NoContext

VARIABLES
  state_,      \* id of the state_ of sp1, of the current_state_ of sp2
  lock_guard,  \* the context that holds it
  step,        \* for each context: where its call is
  next_state,  \* for each context: the state it goes to
  prev_state,  \* for each context: its prev_state
  told         \* ghost: what the last handler was told: which, of which state,
               \* and the state that is left for it, or that it was come from

spVars == <<state_, lock_guard, step, next_state, prev_state, told>>

\* The constructors enter the initial state without a call.
Init ==
  /\ state_ \in SpStates
  /\ lock_guard = NoContext
  /\ step = [c \in Contexts |-> "idle"]
  /\ next_state = [c \in Contexts |-> state_]
  /\ prev_state = [c \in Contexts |-> state_]
  /\ told = [handler |-> "enter", of |-> state_, other |-> state_]

Goto(c, s) == step' = [step EXCEPT ![c] = s]

\* sp1: a state calls change_state; sp2: the event is dispatched to the current
\* state, and it answers with a state to go to. Neither holds the lock.
Decide(c) ==
  /\ step[c] = "idle"
  /\ \E s \in SpStates : next_state' = [next_state EXCEPT ![c] = s]
  /\ Goto(c, "decided")
  /\ UNCHANGED <<state_, lock_guard, prev_state, told>>

\* Faulty Leave: the previous state is the one that decided.
LeaveStale(c) ==
  /\ step[c] = "decided" /\ lock_guard = NoContext
  /\ lock_guard' = c
  /\ told' = [handler |-> "exit", of |-> prev_state[c], other |-> next_state[c]]
  /\ Goto(c, "exit")
  /\ UNCHANGED <<state_, next_state, prev_state>>

\* The lock; prev_state; finalize, on_exit.
Leave(c) ==
  /\ step[c] = "decided" /\ lock_guard = NoContext
  /\ lock_guard' = c
  /\ prev_state' = [prev_state EXCEPT ![c] = state_]
  /\ told' = [handler |-> "exit", of |-> state_, other |-> next_state[c]]
  /\ Goto(c, "exit")
  /\ UNCHANGED <<state_, next_state>>

\* It returns; the state is changed; initiate, on_enter.
Come(c) ==
  /\ step[c] = "exit"
  /\ state_' = next_state[c]
  /\ told' = [handler |-> "enter", of |-> next_state[c], other |-> prev_state[c]]
  /\ Goto(c, "enter")
  /\ UNCHANGED <<lock_guard, next_state, prev_state>>

Release(c) ==
  /\ step[c] = "enter"
  /\ lock_guard' = NoContext
  /\ Goto(c, "idle")
  /\ UNCHANGED <<state_, next_state, prev_state, told>>

Next == \E c \in Contexts : Decide(c) \/ Leave(c) \/ Come(c) \/ Release(c)

Spec == Init /\ [][Next]_spVars

-----------------------------------------------------------------------------
\* Two contexts may decide on a transition before either makes it. Still every state
\* that is entered is exited before the next is entered, and each handler is told
\* of the state that really comes before or after (change_state, dispatch).
TransitionsChained ==
  [][told' # told =>
       IF told'.handler = "exit"
         THEN told.handler = "enter" /\ told'.of = told.of
         ELSE told.handler = "exit" /\ told'.of = told.other /\ told'.other = told.of
    ]_spVars
=============================================================================
