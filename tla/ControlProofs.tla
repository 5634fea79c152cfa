---------------------------- MODULE ControlProofs ----------------------------
(***************************************************************************)
(* Proofs about the parts that Control sets side by side, each for any     *)
(* behaviour of its own specification: the state machines, with handlers   *)
(* nested to any depth, any number of contexts and tasks, any periods,     *)
(* gains, limits and fields.                                               *)
(***************************************************************************)
EXTENDS Control, ModArith, FiniteSetTheorems, TLAPS

CallType == [handler : Handlers, of : States, next : States \cup {None}]

NotExits(q) == \A i \in 1 .. Len(q) : q[i].handler # "on_exit"

\* EntryExitPaired says what holds of the handler on top; when it returns, the one below
\* is on top. That one is never on_exit, which may not call the machine. And on_exit runs
\* on the way to a state, or in stop_fsm, alone.
IInv ==
  /\ EntryExitPaired
  /\ \A i \in 1 .. Len(calls) - 1 : calls[i].handler # "on_exit"
  /\ Exiting => (started <=> Top.next # None)
  /\ ~started /\ calls # <<>> => Exiting /\ Len(calls) = 1

-----------------------------------------------------------------------------
(* The stack of handlers of a machine of v2 or v3.                         *)

LEMMA Pushed ==
  ASSUME NEW q \in Seq(CallType), NEW c \in CallType
  PROVE  /\ Append(q, c) \in Seq(CallType) /\ Append(q, c) # <<>>
         /\ Len(Append(q, c)) = Len(q) + 1
         /\ Last(Append(q, c)) = c
         /\ \A i \in 1 .. Len(q) : Append(q, c)[i] = q[i]
BY DEF Last

LEMMA Popped ==
  ASSUME NEW q \in Seq(CallType), q # <<>>
  PROVE  /\ Front(q) \in Seq(CallType) /\ Len(Front(q)) = Len(q) - 1 /\ Len(q) \in Nat \ {0}
         /\ \A i \in 1 .. Len(q) - 1 : Front(q)[i] = q[i]
         /\ Last(q) = q[Len(q)] /\ Last(q) \in CallType
         /\ Front(q) # <<>> => Last(Front(q)) = q[Len(q) - 1] /\ Len(q) - 1 \in 1 .. Len(q) - 1
<1>1. Len(q) \in Nat \ {0} /\ Front(q) = SubSeq(q, 1, Len(q) - 1)
  BY DEF Front
<1>2. /\ Front(q) \in Seq(CallType) /\ Len(Front(q)) = Len(q) - 1
      /\ \A i \in 1 .. Len(q) - 1 : Front(q)[i] = q[i]
  <2>1. \A i \in 1 .. Len(q) - 1 : i \in 1 .. Len(q) /\ q[i] \in CallType
    BY <1>1
  <2>2. Front(q) = [i \in 1 .. Len(q) - 1 |-> q[i]] /\ Len(q) - 1 \in Nat
    BY <1>1
  <2>3. QED
    BY <2>1, <2>2
<1>3. Last(q) = q[Len(q)] /\ Last(q) \in CallType
  BY <1>1 DEF Last
<1>4. Front(q) # <<>> => Last(Front(q)) = q[Len(q) - 1] /\ Len(q) - 1 \in 1 .. Len(q) - 1
  BY <1>1, <1>2 DEF Last
<1>5. QED
  BY <1>1, <1>2, <1>3, <1>4

LEMMA NoneIsNoState == None \notin States
BY FsmAssumption

LEMMA CallTyped ==
  ASSUME NEW h \in Handlers, NEW s \in States, NEW n \in States \cup {None}
  PROVE  /\ Call(h, s, n) \in CallType
         /\ Call(h, s, n).handler = h /\ Call(h, s, n).of = s /\ Call(h, s, n).next = n
BY DEF Call, CallType

LEMMA Typed == TypeOK <=> /\ policy \in Policies /\ started \in BOOLEAN /\ state \in States
                          /\ calls \in Seq(CallType)
                          /\ entered \in [States -> Int]
BY DEF TypeOK, CallType

-----------------------------------------------------------------------------
(* enter_state and exit_state, wherever they are called from.              *)

\* The state is entered when no other is.
LEMMA EnterKeeps ==
  ASSUME policy \in Policies, UNCHANGED policy, started',
         entered \in [States -> Int], (EntryAction(policy) /\ ~ExitAction(policy)) \/ entered = NoState,
         NEW s \in States, state' = s,
         NEW below \in Seq(CallType), NotExits(below),
         Enter(s, below)
  PROVE  IInv'
<1>1. CASE EntryAction(policy)
  <2> DEFINE c == Call("on_entry", s, None)
  <2>1. c \in CallType /\ c.handler = "on_entry"
    BY CallTyped DEF Handlers
  <2>2. calls' = Append(below, c)
    BY <1>1 DEF Enter
  <2> HIDE DEF c
  <2>3. /\ calls' \in Seq(CallType) /\ Len(calls') = Len(below) + 1 /\ Last(calls') = c
        /\ \A i \in 1 .. Len(below) : calls'[i] = below[i]
    BY <2>1, <2>2, Pushed
  <2>4. entered' = OnlyIn(s)
    BY <1>1 DEF Enter, OnlyIn, NoState
  <2>5. entered' \in [States -> Int]
    BY <2>4 DEF OnlyIn
  <2>6. TypeOK'
    BY <2>3, <2>5 DEF TypeOK, CallType
  <2>7. ~Exiting'
    BY <2>1, <2>3 DEF Exiting, Top
  <2>8. entered' = OnlyIn(state)'
    BY <2>4 DEF OnlyIn
  <2>9. EntryExitPaired'
    BY <1>1, <2>6, <2>7, <2>8 DEF EntryExitPaired, EntryAction
  <2>10. \A i \in 1 .. Len(calls') - 1 : calls'[i].handler # "on_exit"
    BY <2>3 DEF NotExits
  <2>11. QED
    BY <2>7, <2>9, <2>10 DEF IInv
<1>2. CASE ~EntryAction(policy)
  <2>1. calls' = below /\ entered' = NoState
    BY <1>2 DEF Enter, EntryAction, ExitAction
  <2>2. TypeOK'
    BY <2>1 DEF TypeOK, CallType, Enter, NoState
  <2>3. ~Exiting'
    BY <2>1, Popped DEF Exiting, Top, NotExits
  <2>4. EntryExitPaired'
    BY <1>2, <2>1, <2>2, <2>3 DEF EntryExitPaired, EntryAction, NoState
  <2>5. QED
    BY <2>1, <2>3, <2>4 DEF IInv, NotExits
<1>3. QED
  BY <1>1, <1>2

\* on_exit runs for the state that is entered.
LEMMA ExitKeeps ==
  ASSUME TypeOK, UNCHANGED policy, ExitAction(policy), entered = OnlyIn(state),
         NEW n \in States \cup {None}, started' \in BOOLEAN, started' <=> n # None,
         NEW below \in Seq(CallType), NotExits(below), n = None => below = <<>>,
         Exit(n, below)
  PROVE  IInv'
<1> DEFINE c == Call("on_exit", state, n)
<1>1. state \in States /\ policy \in Policies /\ EntryAction(policy)
  BY DEF TypeOK, ExitAction, EntryAction
<1>2. c \in CallType /\ c.handler = "on_exit" /\ c.of = state /\ c.next = n
  BY <1>1, CallTyped DEF Handlers
<1>3. calls' = Append(below, c) /\ state' = state
  BY DEF Exit
<1> HIDE DEF c
<1>4. /\ calls' \in Seq(CallType) /\ Len(calls') = Len(below) + 1 /\ Last(calls') = c
      /\ calls' # <<>> /\ \A i \in 1 .. Len(below) : calls'[i] = below[i]
  BY <1>2, <1>3, Pushed
<1>5. entered' = NoState
  BY <1>1 DEF Exit, OnlyIn, NoState
<1>6. TypeOK'
  BY <1>1, <1>3, <1>4, <1>5 DEF TypeOK, CallType, NoState
<1>7. Exiting' /\ Top' = c
  BY <1>2, <1>4 DEF Exiting, Top
<1>8. EntryExitPaired'
  BY <1>1, <1>2, <1>3, <1>5, <1>6, <1>7 DEF EntryExitPaired, EntryAction, ExitAction, NoState
<1>9. \A i \in 1 .. Len(calls') - 1 : calls'[i].handler # "on_exit"
  BY <1>4 DEF NotExits
<1>10. ~started' => Len(calls') = 1
  BY <1>4
<1>11. QED
  BY <1>2, <1>7, <1>8, <1>9, <1>10 DEF IInv

\* A transition, of a machine that is in its state.
LEMMA TransitionKeeps ==
  ASSUME IInv, started, ~Exiting, UNCHANGED <<policy, started>>,
         NEW s \in States, NEW below \in Seq(CallType), NotExits(below),
         Transition(s, below)
  PROVE  IInv'
<1>1. TypeOK /\ policy \in Policies /\ entered \in [States -> Int]
  BY DEF IInv, EntryExitPaired, TypeOK
<1>2. CASE ExitAction(policy)
  <2>1. entered = OnlyIn(state)
    BY <1>2 DEF IInv, EntryExitPaired, EntryAction, ExitAction
  <2>2. Exit(s, below) /\ s # None
    BY <1>2, NoneIsNoState DEF Transition
  <2>3. QED
    BY <1>1, <1>2, <2>1, <2>2, ExitKeeps DEF TypeOK
<1>3. CASE ~ExitAction(policy)
  <2>1. state' = s /\ Enter(s, below)
    BY <1>3 DEF Transition
  <2>2. EntryAction(policy) \/ entered = NoState
    BY DEF IInv, EntryExitPaired
  <2>3. QED
    BY <1>1, <1>3, <2>1, <2>2, EnterKeeps
<1>4. QED
  BY <1>2, <1>3

-----------------------------------------------------------------------------
LEMMA Initially == Init => IInv
<1> SUFFICES ASSUME Init PROVE IInv
  OBVIOUS
<1>1. TypeOK
  <2>1. entered \in [States -> Int] /\ policy \in Policies /\ state \in States
    BY DEF Init
  <2>2. calls \in Seq(CallType)
    BY DEF Init
  <2>3. started \in BOOLEAN
    BY DEF Init
  <2>4. QED
    BY <2>1, <2>2, <2>3, Typed
<1>2. ~Exiting /\ entered = NoState
  BY DEF Init, Exiting, NoState
<1>3. QED
  BY <1>1, <1>2 DEF Init, IInv, EntryExitPaired

\* Who may call the machine is not on_exit, nor anything that it has called.
LEMMA Callers ==
  ASSUME IInv, MayCall
  PROVE  started /\ ~Exiting /\ NotExits(calls) /\ calls \in Seq(CallType)
<1>1. calls \in Seq(CallType) /\ policy \in Policies
  BY DEF IInv, EntryExitPaired, TypeOK, CallType
<1>2. ~Exiting
  BY <1>1, FsmAssumption DEF MayCall, Exiting
<1>3. ASSUME NEW i \in 1 .. Len(calls) PROVE calls[i].handler # "on_exit"
  <2>1. calls # <<>> /\ Len(calls) \in Nat /\ Top = calls[Len(calls)]
    BY <1>1, <1>3 DEF Top, Last
  <2>2. CASE i = Len(calls)
    BY <1>2, <2>1, <2>2 DEF Exiting
  <2>3. CASE i # Len(calls)
    BY <2>1, <2>3 DEF IInv
  <2>4. QED
    BY <2>2, <2>3
<1>4. QED
  BY <1>1, <1>2, <1>3 DEF MayCall, NotExits

\* What is left when the handler on top returns.
LEMMA Returning ==
  ASSUME IInv, calls # <<>>
  PROVE  /\ calls \in Seq(CallType) /\ Top \in CallType
         /\ Front(calls) \in Seq(CallType) /\ NotExits(Front(calls))
         /\ ~Exiting => started
<1>1. calls \in Seq(CallType)
  BY DEF IInv, EntryExitPaired, TypeOK, CallType
<1>2. started \in BOOLEAN
  BY DEF IInv, EntryExitPaired, TypeOK
<1>3. QED
  BY <1>1, <1>2, Popped DEF IInv, NotExits, Top

\* A handler other than on_exit returns, and nothing else changes.
LEMMA ReturnKeeps ==
  ASSUME IInv, calls # <<>>, ~Exiting, calls' = Front(calls),
         UNCHANGED <<policy, started, state, entered>>
  PROVE  IInv'
<1>1. /\ calls' \in Seq(CallType) /\ NotExits(calls') /\ started
  BY Returning
<1>2. TypeOK'
  BY <1>1 DEF IInv, EntryExitPaired, TypeOK, CallType
<1>3. ~Exiting'
  BY <1>1, Popped DEF Exiting, Top, NotExits
<1>4. EntryExitPaired'
  BY <1>1, <1>2, <1>3 DEF IInv, EntryExitPaired, OnlyIn, NoState
<1>5. QED
  BY <1>1, <1>3, <1>4 DEF IInv, NotExits

LEMMA StartFsmKeeps == IInv /\ StartFsm => IInv'
<1> SUFFICES ASSUME IInv, StartFsm PROVE IInv'
  OBVIOUS
<1>1. /\ policy \in Policies /\ state \in States /\ entered \in [States -> Int]
      /\ calls = <<>> /\ ~started /\ ~Exiting
  BY DEF IInv, EntryExitPaired, TypeOK, StartFsm, Exiting
<1>2. (EntryAction(policy) /\ ~ExitAction(policy)) \/ entered = NoState
  BY <1>1 DEF IInv, EntryExitPaired
<1>3. <<>> \in Seq(CallType) /\ NotExits(<<>>)
  BY DEF NotExits
<1>4. QED
  BY <1>1, <1>2, <1>3, EnterKeeps DEF StartFsm

LEMMA StopFsmKeeps == IInv /\ StopFsm => IInv'
<1> SUFFICES ASSUME IInv, StopFsm PROVE IInv'
  OBVIOUS
<1>1. TypeOK /\ calls = <<>> /\ started /\ ~Exiting /\ started' = FALSE
  BY DEF IInv, EntryExitPaired, StopFsm, Exiting
<1>2. <<>> \in Seq(CallType) /\ NotExits(<<>>)
  BY DEF NotExits
<1>3. CASE ExitAction(policy)
  <2>1. entered = OnlyIn(state) /\ Exit(None, <<>>)
    BY <1>1, <1>3 DEF IInv, EntryExitPaired, EntryAction, ExitAction, StopFsm
  <2>2. QED
    BY <1>1, <1>2, <1>3, <2>1, ExitKeeps DEF StopFsm
<1>4. CASE ~ExitAction(policy)
  <2>1. UNCHANGED <<policy, state, calls, entered>>
    BY <1>4 DEF StopFsm
  <2>2. TypeOK'
    BY <1>1, <2>1 DEF TypeOK
  <2>3. ~Exiting'
    BY <1>1, <2>1 DEF Exiting
  <2>4. EntryExitPaired'
    BY <1>1, <1>4, <2>1, <2>2, <2>3
       DEF IInv, EntryExitPaired, EntryAction, ExitAction, OnlyIn, NoState
  <2>5. QED
    BY <1>1, <2>1, <2>3, <2>4 DEF IInv
<1>5. QED
  BY <1>3, <1>4

LEMMA DispatchKeeps == IInv /\ Dispatch => IInv'
<1> SUFFICES ASSUME IInv, Dispatch PROVE IInv'
  OBVIOUS
<1> DEFINE c == Call("on_event", state, None)
<1>1. started /\ ~Exiting /\ NotExits(calls) /\ calls \in Seq(CallType)
  BY Callers DEF Dispatch
<1>2. state \in States
  BY DEF IInv, EntryExitPaired, TypeOK
<1>3. c \in CallType /\ c.handler = "on_event" /\ calls' = Append(calls, c)
  BY <1>2, CallTyped DEF Handlers, Dispatch
<1> HIDE DEF c
<1>4. /\ calls' \in Seq(CallType) /\ Len(calls') = Len(calls) + 1 /\ Last(calls') = c
      /\ \A i \in 1 .. Len(calls) : calls'[i] = calls[i]
  BY <1>1, <1>3, Pushed
<1>5. TypeOK'
  BY <1>4 DEF IInv, EntryExitPaired, TypeOK, CallType, Dispatch
<1>6. ~Exiting'
  BY <1>3, <1>4 DEF Exiting, Top
<1>7. EntryExitPaired'
  BY <1>1, <1>5, <1>6 DEF IInv, EntryExitPaired, Dispatch, OnlyIn, NoState
<1>8. \A i \in 1 .. Len(calls') - 1 : calls'[i].handler # "on_exit"
  BY <1>1, <1>4 DEF NotExits
<1>9. QED
  BY <1>1, <1>6, <1>7, <1>8 DEF IInv, Dispatch

LEMMA ForceTransitionKeeps ==
  ASSUME IInv, NEW s \in States, ForceTransition(s)
  PROVE  IInv'
BY Callers, TransitionKeeps DEF ForceTransition

LEMMA OnEventReturnsKeeps ==
  ASSUME IInv, NEW n \in States \cup {None}, OnEventReturns(n)
  PROVE  IInv'
<1>1. calls # <<>> /\ ~Exiting
  BY DEF OnEventReturns, Exiting
<1>2. CASE n = None
  BY <1>1, <1>2, ReturnKeeps DEF OnEventReturns
<1>3. CASE n # None
  BY <1>1, <1>3, Returning, TransitionKeeps DEF OnEventReturns
<1>4. QED
  BY <1>2, <1>3

LEMMA OnExitReturnsKeeps == IInv /\ OnExitReturns => IInv'
<1> SUFFICES ASSUME IInv, OnExitReturns PROVE IInv'
  OBVIOUS
<1>1. calls # <<>> /\ Exiting
  BY DEF OnExitReturns, Exiting
<1>2. /\ calls \in Seq(CallType) /\ Top \in CallType
      /\ Front(calls) \in Seq(CallType) /\ NotExits(Front(calls))
  BY <1>1, Returning
<1>3. /\ ExitAction(policy) /\ EntryAction(policy) /\ policy \in Policies
      /\ entered \in [States -> Int] /\ entered = NoState
  BY <1>1 DEF IInv, EntryExitPaired, ExitAction, EntryAction, TypeOK
<1>4. CASE Top.next = None
  <2>1. ~started /\ Len(calls) = 1
    BY <1>1, <1>4 DEF IInv, EntryExitPaired, TypeOK
  <2>2. calls' = Front(calls) /\ UNCHANGED <<policy, started, state, entered>>
    BY <1>4 DEF OnExitReturns
  <2>3. calls' = <<>>
    BY <1>1, <1>2, <2>1, <2>2, Popped
  <2>4. TypeOK'
    BY <2>2, <2>3 DEF IInv, EntryExitPaired, TypeOK
  <2>5. ~Exiting'
    BY <2>3 DEF Exiting
  <2>6. EntryExitPaired'
    BY <1>3, <2>1, <2>2, <2>4, <2>5 DEF EntryExitPaired, EntryAction, ExitAction, NoState
  <2>7. QED
    BY <2>3, <2>5, <2>6 DEF IInv
<1>5. CASE Top.next # None
  <2>1. started /\ started' /\ Top.next \in States
    BY <1>1, <1>2, <1>5 DEF IInv, EntryExitPaired, TypeOK, CallType, OnExitReturns
  <2>2. state' = Top.next /\ Enter(Top.next, Front(calls)) /\ UNCHANGED policy
    BY <1>5 DEF OnExitReturns
  <2>3. QED
    BY <1>2, <1>3, <2>1, <2>2, EnterKeeps
<1>6. QED
  BY <1>4, <1>5

LEMMA OnEntryReturnsKeeps == IInv /\ OnEntryReturns => IInv'
BY ReturnKeeps DEF OnEntryReturns, Exiting

LEMMA StutterKeeps == IInv /\ UNCHANGED vars => IInv'
BY DEF IInv, vars, EntryExitPaired, TypeOK, Exiting, Top, OnlyIn, NoState

LEMMA Inductive == IInv /\ [Next]_vars => IInv'
BY StartFsmKeeps, StopFsmKeeps, DispatchKeeps, ForceTransitionKeeps, OnEventReturnsKeeps,
   OnExitReturnsKeeps, OnEntryReturnsKeeps, StutterKeeps DEF Next

\* Entry and exit actions pair, however deep the handlers nest (dispatch,
\* force_transition, start_fsm, stop_fsm).
THEOREM Paired == Spec => []EntryExitPaired
<1>1. Init => IInv
  BY Initially
<1>2. IInv /\ [Next]_vars => IInv'
  BY Inductive
<1>3. IInv => EntryExitPaired
  BY DEF IInv
<1>4. QED
  BY <1>1, <1>2, <1>3, PTL DEF Spec

-----------------------------------------------------------------------------
(* sp1 and sp2.                                                            *)

\* What was told last, by where the context is that holds the lock.
SpInv ==
  /\ lock_guard \in Contexts \cup {NoContext}
  /\ step \in [Contexts -> {"idle", "decided", "exit", "enter"}]
  /\ next_state \in [Contexts -> SpStates] /\ prev_state \in [Contexts -> SpStates]
  /\ state_ \in SpStates
  /\ \A c \in Contexts : lock_guard = c <=> step[c] \in {"exit", "enter"}
  /\ lock_guard = NoContext => told.handler = "enter" /\ told.of = state_
  /\ \A c \in Contexts : step[c] = "exit" =>
       /\ told.handler = "exit" /\ told.of = state_ /\ told.other = next_state[c]
       /\ prev_state[c] = state_
  /\ \A c \in Contexts : step[c] = "enter" => told.handler = "enter" /\ told.of = state_

\* Another context is in neither handler.
LEMMA OneTransition ==
  ASSUME SpInv, NEW c \in Contexts, lock_guard = c
  PROVE  \A d \in Contexts \ {c} : step[d] \in {"idle", "decided"}
BY DEF SpInv

LEMMA SpInductive == SpInv /\ [Sp!Next]_(Sp!spVars) => SpInv'
<1> SUFFICES ASSUME SpInv, [Sp!Next]_(Sp!spVars) PROVE SpInv'
  OBVIOUS
<1>1. ASSUME NEW c \in Contexts, Sp!Decide(c) PROVE SpInv'
  <2>1. /\ step' = [step EXCEPT ![c] = "decided"] /\ step[c] = "idle"
        /\ UNCHANGED <<state_, lock_guard, prev_state, told>>
    BY <1>1 DEF Sp!Decide, Sp!Goto
  <2>2. PICK s \in SpStates : next_state' = [next_state EXCEPT ![c] = s]
    BY <1>1 DEF Sp!Decide
  <2>3. \A d \in Contexts : d # c => step'[d] = step[d] /\ next_state'[d] = next_state[d]
    BY <2>1, <2>2 DEF SpInv
  <2>4. step'[c] = "decided"
    BY <2>1 DEF SpInv
  <2>5. QED
    BY <2>1, <2>2, <2>3, <2>4 DEF SpInv
<1>2. ASSUME NEW c \in Contexts, Sp!Leave(c) PROVE SpInv'
  <2>1. /\ lock_guard = NoContext /\ lock_guard' = c
        /\ prev_state' = [prev_state EXCEPT ![c] = state_]
        /\ told' = [handler |-> "exit", of |-> state_, other |-> next_state[c]]
        /\ step' = [step EXCEPT ![c] = "exit"]
        /\ UNCHANGED <<state_, next_state>>
    BY <1>2 DEF Sp!Leave, Sp!Goto
  <2>2. /\ step'[c] = "exit" /\ prev_state'[c] = state_
        /\ \A d \in Contexts \ {c} : step'[d] = step[d] /\ prev_state'[d] = prev_state[d]
    BY <2>1 DEF SpInv
  <2>3. \A d \in Contexts : step[d] \in {"idle", "decided"}
    BY <2>1, SpAssumption DEF SpInv
  <2>4. c # NoContext
    BY SpAssumption
  <2>5. QED
    BY <2>1, <2>2, <2>3, <2>4 DEF SpInv
<1>3. ASSUME NEW c \in Contexts, Sp!Come(c) PROVE SpInv'
  <2>1. /\ step[c] = "exit"
        /\ state_' = next_state[c]
        /\ told' = [handler |-> "enter", of |-> next_state[c], other |-> prev_state[c]]
        /\ step' = [step EXCEPT ![c] = "enter"]
        /\ UNCHANGED <<lock_guard, next_state, prev_state>>
    BY <1>3 DEF Sp!Come, Sp!Goto
  <2>2. /\ lock_guard = c /\ c # NoContext /\ step'[c] = "enter"
        /\ \A d \in Contexts \ {c} : step'[d] = step[d]
    BY <2>1, SpAssumption DEF SpInv
  <2>3. \A d \in Contexts \ {c} : step[d] \in {"idle", "decided"}
    BY <2>2, OneTransition
  <2>4. QED
    BY <2>1, <2>2, <2>3 DEF SpInv
<1>4. ASSUME NEW c \in Contexts, Sp!Release(c) PROVE SpInv'
  <2>1. /\ step[c] = "enter" /\ lock_guard' = NoContext
        /\ step' = [step EXCEPT ![c] = "idle"]
        /\ UNCHANGED <<state_, next_state, prev_state, told>>
    BY <1>4 DEF Sp!Release, Sp!Goto
  <2>2. /\ lock_guard = c /\ c # NoContext /\ step'[c] = "idle"
        /\ \A d \in Contexts \ {c} : step'[d] = step[d]
    BY <2>1, SpAssumption DEF SpInv
  <2>3. \A d \in Contexts \ {c} : step[d] \in {"idle", "decided"}
    BY <2>2, OneTransition
  <2>4. \A d \in Contexts : d # NoContext
    BY SpAssumption
  <2>5. QED
    BY <2>1, <2>2, <2>3, <2>4 DEF SpInv
<1>5. CASE UNCHANGED Sp!spVars
  BY <1>5 DEF SpInv, Sp!spVars
<1>6. QED
  BY <1>1, <1>2, <1>3, <1>4, <1>5 DEF Sp!Next

LEMMA SpInitially == Sp!Init => SpInv
<1> SUFFICES ASSUME Sp!Init PROVE SpInv
  OBVIOUS
<1>1. \A c \in Contexts : step[c] = "idle" /\ c # NoContext
  BY SpAssumption DEF Sp!Init
<1>2. QED
  BY <1>1 DEF Sp!Init, SpInv

\* However many contexts decide on transitions at once, every state that is entered
\* is exited before the next one is, and the handlers are told so (change_state,
\* dispatch).
THEOREM ChainOfTransitions == Sp!Spec => TransitionsChained
<1> DEFINE Chained ==
      told' # told =>
        IF told'.handler = "exit"
          THEN told.handler = "enter" /\ told'.of = told.of
          ELSE told.handler = "exit" /\ told'.of = told.other /\ told'.other = told.of
<1>1. SpInv /\ [Sp!Next]_(Sp!spVars) => Chained
  <2> SUFFICES ASSUME SpInv, [Sp!Next]_(Sp!spVars), told' # told PROVE Chained
    OBVIOUS
  <2>1. PICK c \in Contexts : Sp!Leave(c) \/ Sp!Come(c)
    BY DEF Sp!Next, Sp!spVars, Sp!Decide, Sp!Release
  <2>2. CASE Sp!Leave(c)
    BY <2>2 DEF Sp!Leave, SpInv
  <2>3. CASE Sp!Come(c)
    BY <2>3 DEF Sp!Come, SpInv
  <2>4. QED
    BY <2>1, <2>2, <2>3
<1>2. SpInv /\ [Sp!Next]_(Sp!spVars) => [Chained]_(Sp!spVars)
  BY <1>1
<1>3. QED
  BY <1>2, SpInitially, SpInductive, PTL DEF Sp!Spec, TransitionsChained, Sp!TransitionsChained

-----------------------------------------------------------------------------
(* The scheduler.                                                          *)

Older(age) == Scheduler!Older(age)

LEMMA AgesGrow ==
  /\ \A a \in Nat : Older(a) \in Nat
  /\ \A a \in Int : Older(a) \in Int
  /\ \A a, b \in Int : a <= b => Older(a) <= Older(b)
<1> DEFINE times == Periods \cup AdaptivePeriods \cup Delays
<1>1. PICK longest \in times : \A x \in times : x <= longest
  BY SchedulerAssumption
<1>2. Scheduler!Largest(times) \in times
  BY <1>1 DEF Scheduler!Largest
<1>3. Scheduler!MaxAge \in Nat
  BY <1>2, SchedulerAssumption DEF Scheduler!MaxAge
<1>4. QED
  BY <1>3 DEF Older, Scheduler!Older

\* A table of tasks with the credit of each: no task has less than the age of its time
\* stamp, which a call turns back by a period at least.
Table(table, credits, periods) ==
  /\ table \in Seq([period : periods, age : Nat])
  /\ credits \in Seq(Int)
  /\ Len(table) = Len(credits)
  /\ \A i \in 1 .. Len(table) : table[i].age <= credits[i]

LEMMA TableEntries ==
  ASSUME NEW table, NEW credits, NEW periods, Table(table, credits, periods)
  PROVE  /\ DOMAIN table = 1 .. Len(table) /\ DOMAIN credits = DOMAIN table /\ Len(table) \in Nat
         /\ \A i \in DOMAIN table :
              /\ table[i] \in [period : periods, age : Nat]
              /\ credits[i] \in Int
              /\ table[i].age <= credits[i]
         /\ credits = [i \in DOMAIN credits |-> credits[i]]
<1> DEFINE Entries == [period : periods, age : Nat]
<1>1. table \in Seq(Entries) /\ credits \in Seq(Int) /\ Len(table) = Len(credits)
  BY DEF Table
<1> HIDE DEF Entries
<1>2. DOMAIN table = 1 .. Len(table) /\ DOMAIN credits = DOMAIN table /\ Len(table) \in Nat
  BY <1>1
<1>3. \A i \in DOMAIN table : table[i] \in Entries
  BY <1>1
<1>4. \A i \in DOMAIN table : credits[i] \in Int
  BY <1>1
<1>5. credits = [i \in DOMAIN credits |-> credits[i]]
  BY <1>1
<1>6. \A i \in DOMAIN table : table[i].age <= credits[i]
  BY <1>2 DEF Table
<1>7. QED
  BY <1>2, <1>3, <1>4, <1>5, <1>6 DEF Entries

LEMMA TableBounded ==
  ASSUME NEW table, NEW credits, NEW periods, Table(table, credits, periods)
  PROVE  \A i \in DOMAIN credits : credits[i] >= 0
<1>1. ASSUME NEW i \in 1 .. Len(table) PROVE credits[i] >= 0
  <2>1. table[i].age \in Nat /\ credits[i] \in Int /\ table[i].age <= credits[i]
    BY TableEntries
  <2>2. QED
    BY <2>1
<1>2. QED
  BY <1>1, TableEntries

LEMMA TableAdds ==
  ASSUME NEW table, NEW credits, NEW periods, Table(table, credits, periods), NEW p \in periods
  PROVE  Table(Append(table, [period |-> p, age |-> 0]), Append(credits, 0), periods)
<1> DEFINE task == [period |-> p, age |-> 0]
           T == Append(table, task)
           C == Append(credits, 0)
<1>1. task \in [period : periods, age : Nat] /\ task.age = 0
  OBVIOUS
<1> HIDE DEF task
<1>2. T \in Seq([period : periods, age : Nat]) /\ C \in Seq(Int) /\ Len(T) = Len(C)
  BY <1>1 DEF Table
<1>3. ASSUME NEW i \in 1 .. Len(T) PROVE T[i].age <= C[i]
  <2>1. CASE i = Len(table) + 1
    BY <1>1, <2>1 DEF Table
  <2>2. CASE i # Len(table) + 1
    <3>1. i \in 1 .. Len(table) /\ T[i] = table[i] /\ C[i] = credits[i]
      BY <1>2, <1>3, <2>2 DEF Table
    <3>2. QED
      BY <3>1 DEF Table
  <2>3. QED
    BY <2>1, <2>2
<1>4. QED
  BY <1>2, <1>3 DEF Table, task

\* Every time stamp is made older, or anew, and so is its credit.
LEMMA TableAges ==
  ASSUME NEW table, NEW credits, NEW periods, Table(table, credits, periods),
         NEW T, NEW C, DOMAIN T = DOMAIN table,
         T = [i \in DOMAIN T |-> T[i]],
         \A i \in DOMAIN table : T[i] \in [period : periods, age : Nat],
         C = [i \in DOMAIN credits |-> C[i]],
         \A i \in DOMAIN credits : C[i] \in Int /\ T[i].age <= C[i]
  PROVE  Table(T, C, periods)
<1>1. DOMAIN T = 1 .. Len(table) /\ DOMAIN C = 1 .. Len(table) /\ Len(table) \in Nat
  BY TableEntries
<1> DEFINE Entries == [period : periods, age : Nat]
<1>2. \A i \in 1 .. Len(table) : T[i] \in Entries /\ C[i] \in Int
  BY <1>1, TableEntries
<1> HIDE DEF Entries
<1>3. T = [i \in 1 .. Len(table) |-> T[i]] /\ C = [i \in 1 .. Len(table) |-> C[i]]
  BY <1>1, TableEntries
<1>4. T \in Seq(Entries) /\ C \in Seq(Int) /\ Len(T) = Len(C)
  BY <1>1, <1>2, <1>3
<1>5. QED
  BY <1>1, <1>4 DEF Table, Entries

LEMMA TableTicks ==
  ASSUME NEW table, NEW credits, NEW periods, Table(table, credits, periods)
  PROVE  Table([i \in DOMAIN table |-> [table[i] EXCEPT !.age = Older(@)]],
               [i \in DOMAIN credits |-> Older(credits[i])], periods)
<1> DEFINE T == [i \in DOMAIN table |-> [table[i] EXCEPT !.age = Older(@)]]
           C == [i \in DOMAIN credits |-> Older(credits[i])]
<1>1. ASSUME NEW i \in DOMAIN table
      PROVE  /\ T[i] \in [period : periods, age : Nat]
             /\ C[i] \in Int /\ T[i].age <= C[i]
  <2>1. /\ table[i] \in [period : periods, age : Nat] /\ credits[i] \in Int
        /\ i \in DOMAIN credits /\ table[i].age <= credits[i]
    BY TableEntries
  <2>2. T[i].age = Older(table[i].age) /\ T[i].period = table[i].period
    BY <2>1
  <2>3. Older(table[i].age) \in Nat /\ Older(credits[i]) \in Int
        /\ Older(table[i].age) <= Older(credits[i])
    BY <2>1, AgesGrow
  <2>4. T[i] \in [period : periods, age : Nat]
    BY <2>1, <2>3
  <2>5. QED
    BY <2>1, <2>2, <2>3, <2>4
<1>2. DOMAIN table = DOMAIN credits
  BY TableEntries
<1>3. T = [i \in DOMAIN T |-> T[i]] /\ DOMAIN T = DOMAIN table /\ C = [i \in DOMAIN credits |-> C[i]]
  OBVIOUS
<1> HIDE DEF T, C
<1>4. Table(T, C, periods)
  BY <1>1, <1>2, <1>3, TableAges
<1>5. QED
  BY <1>4 DEF T, C

LEMMA TableResets ==
  ASSUME NEW table, NEW credits, NEW periods, Table(table, credits, periods)
  PROVE  Table([i \in DOMAIN table |-> [table[i] EXCEPT !.age = 0]],
               [i \in DOMAIN credits |-> 0], periods)
<1> DEFINE T == [i \in DOMAIN table |-> [table[i] EXCEPT !.age = 0]]
           C == [i \in DOMAIN credits |-> 0]
<1>1. ASSUME NEW i \in DOMAIN table
      PROVE  /\ T[i] \in [period : periods, age : Nat]
             /\ C[i] \in Int /\ T[i].age <= C[i]
  <2>1. table[i] \in [period : periods, age : Nat] /\ i \in DOMAIN credits
    BY TableEntries
  <2>2. T[i].age = 0 /\ T[i] \in [period : periods, age : Nat] /\ C[i] = 0
    BY <2>1
  <2>3. QED
    BY <2>2
<1>2. DOMAIN table = DOMAIN credits
  BY TableEntries
<1>3. T = [i \in DOMAIN T |-> T[i]] /\ DOMAIN T = DOMAIN table /\ C = [i \in DOMAIN credits |-> C[i]]
  OBVIOUS
<1> HIDE DEF T, C
<1>4. Table(T, C, periods)
  BY <1>1, <1>2, <1>3, TableAges
<1>5. QED
  BY <1>4 DEF T, C

\* A task is called when it is older than a period, less the time since run began.
LEMMA TableCalls ==
  ASSUME NEW table, NEW credits, NEW periods \in SUBSET Nat, Table(table, credits, periods),
         NEW n \in 1 .. Len(table), NEW l \in Nat, table[n].age - l >= table[n].period
  PROVE  Table([table EXCEPT ![n].age = l], [credits EXCEPT ![n] = @ - table[n].period], periods)
<1> DEFINE T == [table EXCEPT ![n].age = l]
           C == [credits EXCEPT ![n] = @ - table[n].period]
<1>1. DOMAIN table = DOMAIN credits /\ DOMAIN T = DOMAIN table /\ DOMAIN C = DOMAIN credits
  BY TableEntries
<1>2. ASSUME NEW i \in DOMAIN table
      PROVE  /\ T[i] \in [period : periods, age : Nat]
             /\ C[i] \in Int /\ T[i].age <= C[i]
  <2>1. /\ table[i] \in [period : periods, age : Nat] /\ credits[i] \in Int
        /\ i \in DOMAIN credits /\ table[i].age <= credits[i]
    BY TableEntries
  <2>2. CASE i = n
    <3>1. T[i] = [table[n] EXCEPT !.age = l] /\ C[i] = credits[n] - table[n].period
      BY <2>1, <2>2
    <3>2. table[n].age \in Nat /\ table[n].period \in Nat /\ table[n].period \in periods
      BY <2>1, <2>2
    <3>3. T[i].age = l /\ T[i] \in [period : periods, age : Nat]
      BY <2>1, <2>2, <3>1
    <3>4. QED
      BY <2>1, <2>2, <3>1, <3>2, <3>3
  <2>3. CASE i # n
    BY <2>1, <2>3
  <2>4. QED
    BY <2>2, <2>3
<1>3. T = [i \in DOMAIN T |-> T[i]] /\ C = [i \in DOMAIN credits |-> C[i]]
  OBVIOUS
<1> HIDE DEF T, C
<1>4. Table(T, C, periods)
  BY <1>1, <1>2, <1>3, TableAges
<1>5. QED
  BY <1>4 DEF T, C

LEMMA TablePaces ==
  ASSUME NEW table, NEW credits, NEW periods, Table(table, credits, periods),
         NEW n, NEW p \in periods
  PROVE  Table([table EXCEPT ![n].period = p], credits, periods)
<1> DEFINE T == [table EXCEPT ![n].period = p]
<1>1. DOMAIN table = DOMAIN credits /\ DOMAIN T = DOMAIN table
  BY TableEntries
<1>2. ASSUME NEW i \in DOMAIN table
      PROVE  /\ T[i] \in [period : periods, age : Nat]
             /\ credits[i] \in Int /\ T[i].age <= credits[i]
  <2>1. /\ table[i] \in [period : periods, age : Nat] /\ credits[i] \in Int
        /\ table[i].age <= credits[i]
    BY TableEntries
  <2>2. T[i] = IF i = n THEN [table[i] EXCEPT !.period = p] ELSE table[i]
    BY <2>1
  <2>3. QED
    BY <2>1, <2>2
<1>3. T = [i \in DOMAIN T |-> T[i]] /\ credits = [i \in DOMAIN credits |-> credits[i]]
  BY TableEntries
<1> HIDE DEF T
<1>4. Table(T, credits, periods)
  BY <1>1, <1>2, <1>3, TableAges
<1>5. QED
  BY <1>4 DEF T

RunInv ==
  /\ lag \in Nat /\ index \in Nat \ {0}
  /\ pc \in {"main", "tasks", "adaptive", "delayed"}
TablesInv ==
  /\ credit \in [{"tasks", "adaptive"} -> Seq(Int)]
  /\ Table(tasks, credit.tasks, Periods)
  /\ Table(adaptive, credit.adaptive, AdaptivePeriods)

\* A delay runs for a task that was added, unless that task is being called.
DelayInv ==
  /\ owed => delay # 0
  /\ pc = "delayed" /\ calling => ~owed
  /\ delay # 0 => owed \/ (pc = "delayed" /\ calling)
SchedulerInv == RunInv /\ TablesInv /\ DelayInv

LEMMA SchedulerInitially == Scheduler!Init => SchedulerInv
<1> SUFFICES ASSUME Scheduler!Init PROVE SchedulerInv
  OBVIOUS
<1>1. Table(<<>>, <<>>, Periods) /\ Table(<<>>, <<>>, AdaptivePeriods)
  BY DEF Table
<1>2. RunInv /\ DelayInv
  BY DEF Scheduler!Init, RunInv, DelayInv
<1>3. credit = [tasks |-> <<>>, adaptive |-> <<>>] /\ tasks = <<>> /\ adaptive = <<>>
  BY DEF Scheduler!Init
<1>4. credit \in [{"tasks", "adaptive"} -> Seq(Int)]
  <2>1. <<>> \in Seq(Int)
    OBVIOUS
  <2>2. credit = [x \in {"tasks", "adaptive"} |-> <<>>]
    BY <1>3
  <2>3. QED
    BY <2>1, <2>2
<1>5. QED
  BY <1>1, <1>2, <1>3, <1>4 DEF SchedulerInv, TablesInv

LEMMA TablesInductive == RunInv /\ TablesInv /\ [Scheduler!Next]_(Scheduler!schedulerVars) => TablesInv'
<1> SUFFICES ASSUME RunInv, TablesInv, [Scheduler!Next]_(Scheduler!schedulerVars)
             PROVE  TablesInv'
  OBVIOUS
<1>1. /\ credit \in [{"tasks", "adaptive"} -> Seq(Int)]
      /\ Table(tasks, credit.tasks, Periods)
      /\ Table(adaptive, credit.adaptive, AdaptivePeriods)
      /\ credit.tasks \in Seq(Int) /\ credit.adaptive \in Seq(Int)
      /\ lag \in Nat /\ index \in Nat \ {0}
      /\ Periods \in SUBSET Nat /\ AdaptivePeriods \in SUBSET Nat
  BY SchedulerAssumption DEF TablesInv, RunInv
<1>2. SUFFICES ASSUME ~UNCHANGED <<tasks, adaptive, credit>> PROVE TablesInv'
  BY DEF TablesInv
<1>3. CASE Scheduler!Tick
  <2>1. /\ tasks' = [i \in DOMAIN tasks |-> [tasks[i] EXCEPT !.age = Older(@)]]
        /\ adaptive' = [i \in DOMAIN adaptive |-> [adaptive[i] EXCEPT !.age = Older(@)]]
        /\ credit' = [x \in DOMAIN credit |-> [i \in DOMAIN credit[x] |-> Older(credit[x][i])]]
    BY <1>3 DEF Scheduler!Tick, Older
  <2>2. /\ credit'.tasks = [i \in DOMAIN credit.tasks |-> Older(credit.tasks[i])]
        /\ credit'.adaptive = [i \in DOMAIN credit.adaptive |-> Older(credit.adaptive[i])]
        /\ credit' = [x \in {"tasks", "adaptive"} |-> credit'[x]]
    BY <1>1, <2>1
  <2>3. Table(tasks', credit'.tasks, Periods) /\ Table(adaptive', credit'.adaptive, AdaptivePeriods)
    BY <1>1, <2>1, <2>2, TableTicks
  <2>4. credit'.tasks \in Seq(Int) /\ credit'.adaptive \in Seq(Int)
    BY <2>3 DEF Table
  <2>5. QED
    BY <2>2, <2>3, <2>4 DEF TablesInv
<1>4. CASE Scheduler!add_task
  <2>1. PICK p \in Periods : tasks' = Append(tasks, [period |-> p, age |-> 0])
    BY <1>4 DEF Scheduler!add_task
  <2>2. credit' = [credit EXCEPT !.tasks = Append(@, 0)] /\ adaptive' = adaptive
    BY <1>4 DEF Scheduler!add_task
  <2>3. /\ credit'.tasks = Append(credit.tasks, 0) /\ credit'.adaptive = credit.adaptive
        /\ credit' \in [{"tasks", "adaptive"} -> Seq(Int)]
    <3>1. Append(credit.tasks, 0) \in Seq(Int)
      BY <1>1
    <3>2. QED
      BY <1>1, <2>2, <3>1
  <2>4. Table(tasks', credit'.tasks, Periods)
    BY <1>1, <2>1, <2>3, TableAdds
  <2>5. QED
    BY <1>1, <2>2, <2>3, <2>4 DEF TablesInv
<1>5. CASE Scheduler!add_adaptive_task
  <2>1. PICK p \in AdaptivePeriods : adaptive' = Append(adaptive, [period |-> p, age |-> 0])
    BY <1>5 DEF Scheduler!add_adaptive_task
  <2>2. credit' = [credit EXCEPT !.adaptive = Append(@, 0)] /\ tasks' = tasks
    BY <1>5 DEF Scheduler!add_adaptive_task
  <2>3. /\ credit'.adaptive = Append(credit.adaptive, 0) /\ credit'.tasks = credit.tasks
        /\ credit' \in [{"tasks", "adaptive"} -> Seq(Int)]
    <3>1. Append(credit.adaptive, 0) \in Seq(Int)
      BY <1>1
    <3>2. QED
      BY <1>1, <2>2, <3>1
  <2>4. Table(adaptive', credit'.adaptive, AdaptivePeriods)
    BY <1>1, <2>1, <2>3, TableAdds
  <2>5. QED
    BY <1>1, <2>2, <2>3, <2>4 DEF TablesInv
<1>6. CASE Scheduler!reset
  <2>1. /\ tasks' = [i \in DOMAIN tasks |-> [tasks[i] EXCEPT !.age = 0]]
        /\ adaptive' = [i \in DOMAIN adaptive |-> [adaptive[i] EXCEPT !.age = 0]]
        /\ credit' = [x \in DOMAIN credit |-> [i \in DOMAIN credit[x] |-> 0]]
    BY <1>6 DEF Scheduler!reset
  <2>2. /\ credit'.tasks = [i \in DOMAIN credit.tasks |-> 0]
        /\ credit'.adaptive = [i \in DOMAIN credit.adaptive |-> 0]
        /\ credit' = [x \in {"tasks", "adaptive"} |-> credit'[x]]
    BY <1>1, <2>1
  <2>3. Table(tasks', credit'.tasks, Periods) /\ Table(adaptive', credit'.adaptive, AdaptivePeriods)
    BY <1>1, <2>1, <2>2, TableResets
  <2>4. credit'.tasks \in Seq(Int) /\ credit'.adaptive \in Seq(Int)
    BY <2>3 DEF Table
  <2>5. QED
    BY <2>2, <2>3, <2>4 DEF TablesInv
<1>7. CASE Scheduler!set_period
  <2>1. PICK p \in AdaptivePeriods : adaptive' = [adaptive EXCEPT ![index].period = p]
    BY <1>7 DEF Scheduler!set_period
  <2>2. tasks' = tasks /\ credit' = credit
    BY <1>7 DEF Scheduler!set_period
  <2>3. Table(adaptive', credit'.adaptive, AdaptivePeriods)
    BY <1>1, <2>1, <2>2, TablePaces
  <2>4. QED
    BY <1>1, <2>2, <2>3 DEF TablesInv
<1>8. CASE Scheduler!CallTask
  <2>1. /\ index <= Len(tasks) /\ tasks[index].age - lag >= tasks[index].period
        /\ tasks' = [tasks EXCEPT ![index].age = lag]
        /\ credit' = [credit EXCEPT !.tasks[index] = @ - tasks[index].period]
        /\ adaptive' = adaptive
    BY <1>8 DEF Scheduler!CallTask, Scheduler!Due
  <2>2. /\ credit'.tasks = [credit.tasks EXCEPT ![index] = @ - tasks[index].period]
        /\ credit'.adaptive = credit.adaptive
        /\ credit' = [x \in {"tasks", "adaptive"} |-> credit'[x]]
    BY <1>1, <2>1
  <2>3. index \in 1 .. Len(tasks)
    BY <1>1, <2>1 DEF Table
  <2>4. Table(tasks', credit'.tasks, Periods)
    BY <1>1, <2>1, <2>2, <2>3, TableCalls
  <2>5. credit'.tasks \in Seq(Int)
    BY <2>4 DEF Table
  <2>6. QED
    BY <1>1, <2>1, <2>2, <2>4, <2>5 DEF TablesInv
<1>9. CASE Scheduler!CallAdaptive
  <2>1. /\ index <= Len(adaptive) /\ adaptive[index].age - lag >= adaptive[index].period
        /\ adaptive' = [adaptive EXCEPT ![index].age = lag]
        /\ credit' = [credit EXCEPT !.adaptive[index] = @ - adaptive[index].period]
        /\ tasks' = tasks
    BY <1>9 DEF Scheduler!CallAdaptive, Scheduler!Due
  <2>2. /\ credit'.adaptive = [credit.adaptive EXCEPT ![index] = @ - adaptive[index].period]
        /\ credit'.tasks = credit.tasks
        /\ credit' = [x \in {"tasks", "adaptive"} |-> credit'[x]]
    BY <1>1, <2>1
  <2>3. index \in 1 .. Len(adaptive)
    BY <1>1, <2>1 DEF Table
  <2>4. Table(adaptive', credit'.adaptive, AdaptivePeriods)
    BY <1>1, <2>1, <2>2, <2>3, TableCalls
  <2>5. credit'.adaptive \in Seq(Int)
    BY <2>4 DEF Table
  <2>6. QED
    BY <1>1, <2>1, <2>2, <2>4, <2>5 DEF TablesInv
<1>10. QED
  BY <1>2, <1>3, <1>4, <1>5, <1>6, <1>7, <1>8, <1>9
     DEF Scheduler!Next, Scheduler!RunStep, Scheduler!schedulerVars, Scheduler!table,
         Scheduler!add_delayed_task, Scheduler!run, Scheduler!Advance, Scheduler!LoopEnds,
         Scheduler!CallDelayed, Scheduler!DelayedReturns, Scheduler!NothingDelayed

LEMMA DelayInductive == RunInv /\ DelayInv /\ [Scheduler!Next]_(Scheduler!schedulerVars) => RunInv' /\ DelayInv'
<1> SUFFICES ASSUME RunInv, DelayInv, [Scheduler!Next]_(Scheduler!schedulerVars)
             PROVE  RunInv' /\ DelayInv'
  OBVIOUS
<1> USE DEF RunInv, DelayInv, Scheduler!delayed, Scheduler!UserRuns
<1>1. ASSUME Scheduler!Tick \/ Scheduler!add_task \/ Scheduler!add_adaptive_task
             \/ Scheduler!reset \/ Scheduler!set_period
      PROVE  RunInv' /\ DelayInv'
  BY <1>1 DEF Scheduler!Tick, Scheduler!add_task, Scheduler!add_adaptive_task, Scheduler!reset,
              Scheduler!set_period
<1>2. CASE Scheduler!add_delayed_task
  BY <1>2 DEF Scheduler!add_delayed_task
<1>3. CASE Scheduler!run
  BY <1>3 DEF Scheduler!run
<1>4. ASSUME Scheduler!CallTask \/ Scheduler!CallAdaptive \/ Scheduler!Advance \/ Scheduler!LoopEnds
      PROVE  RunInv' /\ DelayInv'
  BY <1>4 DEF Scheduler!CallTask, Scheduler!CallAdaptive, Scheduler!Advance, Scheduler!LoopEnds
<1>5. ASSUME Scheduler!CallDelayed \/ Scheduler!DelayedReturns \/ Scheduler!NothingDelayed
      PROVE  RunInv' /\ DelayInv'
  BY <1>5 DEF Scheduler!CallDelayed, Scheduler!DelayedReturns, Scheduler!NothingDelayed
<1>6. CASE UNCHANGED Scheduler!schedulerVars
  BY <1>6 DEF Scheduler!schedulerVars
<1>7. QED
  BY <1>1, <1>2, <1>3, <1>4, <1>5, <1>6 DEF Scheduler!Next, Scheduler!RunStep

LEMMA SchedulerInductive == SchedulerInv /\ [Scheduler!Next]_(Scheduler!schedulerVars) => SchedulerInv'
BY TablesInductive, DelayInductive DEF SchedulerInv

\* No task is called more often than once per period, however late run comes and
\* whatever the tasks themselves add, reset and delay; and the delayed task is called
\* once for every time that it is added (run, add_task, reset).
THEOREM CallsKeepToSchedule == Scheduler!Spec => CalledAsScheduled
<1>1. SchedulerInv => Scheduler!RateBounded /\ Scheduler!DelayedTaskKept
  <2> SUFFICES ASSUME SchedulerInv PROVE Scheduler!RateBounded /\ Scheduler!DelayedTaskKept
    OBVIOUS
  <2>1. DOMAIN credit = {"tasks", "adaptive"}
    BY DEF SchedulerInv, TablesInv
  <2>2. /\ \A i \in DOMAIN credit.tasks : credit.tasks[i] >= 0
        /\ \A i \in DOMAIN credit.adaptive : credit.adaptive[i] >= 0
    BY TableBounded DEF SchedulerInv, TablesInv
  <2>3. QED
    BY <2>1, <2>2 DEF Scheduler!RateBounded, Scheduler!DelayedTaskKept, SchedulerInv, DelayInv
<1>2. SchedulerInv /\ [Scheduler!Next]_(Scheduler!schedulerVars)
        => [Scheduler!CallDelayed => owed]_(Scheduler!schedulerVars)
  BY DEF SchedulerInv, DelayInv, Scheduler!CallDelayed
<1>3. QED
  BY <1>1, <1>2, SchedulerInitially, SchedulerInductive, PTL
     DEF Scheduler!Spec, CalledAsScheduled, Scheduler!CalledAsScheduled

-----------------------------------------------------------------------------
(* The multiplexer and the ramp.                                           *)

Idle == 0  \* NoCommand

LoopInv ==
  /\ source_ \in Sources \cup {monostate}
  /\ offered \in [Sources -> Commands]
  /\ sink \in [step : Steps, init : {Idle}, target : Commands, output : Int]
  /\ sink.target \in heard
  /\ source_ = monostate => heard = {Idle}

LEMMA LoopInitially == Loop!Init => LoopInv
<1> SUFFICES ASSUME Loop!Init PROVE LoopInv
  OBVIOUS
<1>1. PICK size \in Steps : sink = Loop!ramp_construct(size, Idle)
  BY DEF Loop!Init, Loop!NoCommand, Idle
<1>2. sink = [step |-> size, init |-> Idle, target |-> Idle, output |-> Idle]
  BY <1>1 DEF Loop!ramp_construct, Loop!ramp_reset, Loop!ramp_set_slope, Loop!ramp_set_output
<1>3. Idle \in Commands /\ Idle \in Int
  BY LoopAssumption DEF Idle
<1>4. sink \in [step : Steps, init : {Idle}, target : Commands, output : Int] /\ sink.target = Idle
  BY <1>2, <1>3
<1>5. offered \in [Sources -> Commands]
  BY <1>3 DEF Loop!Init, Loop!NoCommand, Idle
<1>6. heard = {Idle} /\ source_ = monostate
  BY DEF Loop!Init, Loop!NoCommand, Idle
<1>7. QED
  BY <1>4, <1>5, <1>6 DEF LoopInv

\* The sink accepts the command of the source that is active from now on.
LEMMA AcceptKeeps ==
  ASSUME LoopInv, NEW s \in Sources \cup {monostate}, source_' = s,
         Loop!accept(Loop!CommandOf(s)), UNCHANGED offered
  PROVE  LoopInv' /\ sink'.output = sink.output
<1> DEFINE command == Loop!CommandOf(s)
<1>1. command \in Commands /\ (s = monostate => command = Idle)
  BY LoopAssumption DEF Loop!CommandOf, Loop!NoCommand, LoopInv, Idle
<1> HIDE DEF command
<1>2. heard' = {command} /\ sink' = [sink EXCEPT !.target = command]
  BY DEF Loop!accept, Loop!ramp_set_target, command
<1>3. /\ sink' \in [step : Steps, init : {Idle}, target : Commands, output : Int]
      /\ sink'.target = command /\ sink'.output = sink.output
  BY <1>1, <1>2 DEF LoopInv
<1>4. QED
  BY <1>1, <1>2, <1>3 DEF LoopInv

\* A step of the ramp.
LEMMA UpdateMoves ==
  ASSUME LoopInv, Loop!update
  PROVE  /\ sink' \in [step : Steps, init : {Idle}, target : Commands, output : Int]
         /\ sink'.target = sink.target
         /\ Loop!Between(sink.output, sink'.output, sink.target)
         /\ sink'.output - sink.output \in -sink.step .. sink.step
<1> DEFINE moved == IF sink.output < sink.target
                      THEN Loop!Lesser(sink.output + sink.step, sink.target)
                      ELSE Loop!Greater(sink.output - sink.step, sink.target)
<1>1. sink.step \in Nat /\ sink.target \in Int /\ sink.output \in Int
  BY LoopAssumption DEF LoopInv
<1>2. moved \in Int /\ Loop!Between(sink.output, moved, sink.target)
      /\ moved - sink.output \in -sink.step .. sink.step
  BY <1>1 DEF Loop!Lesser, Loop!Greater, Loop!Between
<1>3. sink' = [sink EXCEPT !.output = moved]
  BY DEF Loop!update, Loop!ramp_update
<1> HIDE DEF moved
<1>4. /\ sink' \in [step : Steps, init : {Idle}, target : Commands, output : Int]
      /\ sink'.target = sink.target /\ sink'.output = moved
  BY <1>2, <1>3 DEF LoopInv
<1>5. QED
  BY <1>2, <1>4

LEMMA LoopInductive ==
  LoopInv /\ [Loop!Next]_(Loop!rampVars) => LoopInv' /\ [Loop!StepsTowardsTarget]_(Loop!rampVars)
<1> SUFFICES ASSUME LoopInv, [Loop!Next]_(Loop!rampVars)
             PROVE  LoopInv' /\ [Loop!StepsTowardsTarget]_(Loop!rampVars)
  OBVIOUS
<1> USE DEF Loop!StepsTowardsTarget
<1>1. ASSUME NEW s \in Sources \cup {monostate}, Loop!activate(s)
      PROVE  LoopInv' /\ Loop!StepsTowardsTarget
  BY <1>1, AcceptKeeps DEF Loop!activate
<1>2. CASE Loop!deactivate
  <2>1. Loop!CommandOf(monostate) = Loop!NoCommand
    BY DEF Loop!CommandOf
  <2>2. QED
    BY <1>2, <2>1, AcceptKeeps DEF Loop!deactivate
<1>3. CASE Loop!poll
  <2>1. source_ \in Sources \cup {monostate}
    BY DEF LoopInv
  <2>2. QED
    BY <1>3, <2>1, AcceptKeeps DEF Loop!poll
<1>4. CASE Loop!update
  <2>1. UNCHANGED <<source_, offered, heard>>
    BY <1>4 DEF Loop!update
  <2>2. LoopInv'
    BY <1>4, <2>1, UpdateMoves DEF LoopInv
  <2>3. QED
    BY <1>4, <2>2, UpdateMoves
<1>5. ASSUME NEW s \in Sources, NEW command \in Commands, Loop!Offer(s, command)
      PROVE  LoopInv' /\ Loop!StepsTowardsTarget
  BY <1>5, LoopAssumption DEF Loop!Offer, Loop!is_active, LoopInv
<1>6. ASSUME NEW size \in Steps, Loop!set_slope(size)
      PROVE  LoopInv' /\ Loop!StepsTowardsTarget
  <2>1. sink' = [sink EXCEPT !.step = size] /\ UNCHANGED <<source_, offered, heard>>
    BY <1>6 DEF Loop!set_slope, Loop!ramp_set_slope
  <2>2. /\ sink' \in [step : Steps, init : {Idle}, target : Commands, output : Int]
        /\ sink'.target = sink.target /\ sink'.output = sink.output
    BY <2>1 DEF LoopInv
  <2>3. QED
    BY <2>1, <2>2 DEF LoopInv
<1>7. CASE Loop!reset
  <2>1. /\ source_ = monostate /\ UNCHANGED <<source_, offered, heard>>
        /\ sink' = [sink EXCEPT !.target = sink.init, !.output = sink.init]
    BY <1>7 DEF Loop!reset, Loop!ramp_reset, Loop!ramp_set_output
  <2>2. sink.init = Idle /\ Idle \in Commands /\ Idle \in Int /\ heard = {Idle}
    BY <2>1, LoopAssumption DEF LoopInv, Idle
  <2>3. /\ sink' \in [step : Steps, init : {Idle}, target : Commands, output : Int]
        /\ sink'.target = Idle
    BY <2>1, <2>2 DEF LoopInv
  <2>4. QED
    BY <2>1, <2>2, <2>3 DEF LoopInv
<1>8. CASE UNCHANGED Loop!rampVars
  BY <1>8 DEF Loop!rampVars, LoopInv
<1>9. QED
  BY <1>1, <1>2, <1>3, <1>4, <1>5, <1>6, <1>7, <1>8 DEF Loop!Next

\* The target of the sink is never a command of a source that is not active, and its
\* output moves towards the target and not past it (activate, deactivate, poll, update).
THEOREM SinkObeys == Loop!Spec => Loop!SinkObeysActive
<1>1. LoopInv => sink.target \in heard
  BY DEF LoopInv
<1>2. QED
  BY <1>1, LoopInitially, LoopInductive, PTL DEF Loop!Spec, Loop!SinkObeysActive

-----------------------------------------------------------------------------
(* Actuators.                                                              *)

ActuatorInv ==
  /\ kind \in {"normally_closed", "normally_open"} /\ contact \in {"break", "make"}
  /\ polarity \in [{"control", "feedback"} -> {"active_low", "active_high"}]
  /\ desired_ \in {"closed", "open"} /\ actual \in {"closed", "open"}
  /\ pin = Actuators!to_level(Actuators!encode(kind, desired_), polarity.control)

LEMMA ActuatorInductive == ActuatorInv /\ [Actuators!Next]_(Actuators!actuatorVars) => ActuatorInv'
<1> USE DEF ActuatorInv, Actuators!Positions
<1>1. ASSUME ActuatorInv, NEW p \in Actuators!Positions, Actuators!command(p) PROVE ActuatorInv'
  BY <1>1 DEF Actuators!command
<1>2. ASSUME ActuatorInv, Actuators!Moves \/ Actuators!Disturbed PROVE ActuatorInv'
  BY <1>2 DEF Actuators!Moves, Actuators!Disturbed, Actuators!Driven, Actuators!Other,
              Actuators!Rest
<1>3. ASSUME ActuatorInv, UNCHANGED Actuators!actuatorVars PROVE ActuatorInv'
  BY <1>3 DEF Actuators!actuatorVars
<1>4. QED
  BY <1>1, <1>2, <1>3 DEF Actuators!Next

\* Pin, encoder, decoder and contact agree for every kind of actuator and every polarity
\* (command, in_sync).
THEOREM InSync == Actuators!Spec => []InSyncMeansThere
<1>1. Actuators!Init => ActuatorInv
  BY DEF Actuators!Init, ActuatorInv, Actuators!Positions
<1>2. ActuatorInv => InSyncMeansThere
  <2> SUFFICES ASSUME ActuatorInv PROVE InSyncMeansThere
    OBVIOUS
  <2>1. Actuators!Driven(pin) = desired_
    BY DEF ActuatorInv, Actuators!Driven, Actuators!to_state, Actuators!to_level,
           Actuators!encode, Actuators!Other, Actuators!Rest
  <2>2. Actuators!ReadActual = actual
    BY DEF ActuatorInv, Actuators!ReadActual, Actuators!decode, Actuators!Decoder,
           Actuators!to_state, Actuators!to_level, Actuators!Sensed, Actuators!Other,
           Actuators!Rest
  <2>3. QED
    BY <2>1, <2>2 DEF InSyncMeansThere, Actuators!InSyncMeansThere, Actuators!in_sync
<1>3. QED
  BY <1>1, <1>2, ActuatorInductive, PTL DEF Actuators!Spec

-----------------------------------------------------------------------------
(* The controllers.  The constants bound what the parts of a controller    *)
(* add up to, so that a push of a backcalc controller stays among the      *)
(* floats and its integral comes out as I - P + the limited output.        *)

ControllersInv ==
  /\ controller \in {"p", "backcalc", "clamping", "integrator"}
  /\ inverting \in BOOLEAN /\ fresh \in BOOLEAN
  /\ kp_ \in Gains /\ kc_ \in {0, 1} /\ (kc_ = 0 => controller = "backcalc")
  /\ limits \in Limits
  /\ out_i_ \in Int /\ error_ \in Int /\ out_ \in Int
  /\ NoWindup

LEMMA Products ==
  ASSUME NEW a \in Nat, NEW b \in Nat, NEW c \in Nat, NEW d \in Nat, a <= b, c <= d
  PROVE  a * c \in Nat /\ a * c <= b * d
<1>1. \A x, y \in Nat : x * y \in Nat
  BY Z3
<1>2. b * d = a * c + a * (d - c) + (b - a) * d
  BY Z3
<1>3. a * (d - c) \in Nat /\ (b - a) * d \in Nat /\ a * c \in Nat /\ b * d \in Nat
  BY <1>1
<1>4. QED
  BY <1>2, <1>3, Z3

LEMMA Negated == ASSUME NEW k \in Int, NEW e \in Int
                 PROVE  k * e \in Int /\ k * (-e) = -(k * e)
  BY Z3

\* The proportional part is at most GreatestP, of either sign.
LEMMA ProportionalBounded ==
  LET G == Controllers!GreatestP IN
  /\ G \in Nat
  /\ \A k \in Gains, e \in Errors : k * e \in -G .. G
<1> DEFINE G == Controllers!GreatestP
           S == {k * e : k \in Gains, e \in Errors}
<1>1. /\ FloatMax \in Nat /\ Gains # {} /\ Errors # {}
      /\ \A k \in Gains : k \in Nat /\ k <= FloatMax
      /\ \A e \in Errors : e \in Int /\ -e \in Errors /\ e <= FloatMax
  BY ControllersAssumption
<1>2. FloatMax * FloatMax \in Nat
  BY <1>1, Z3
<1>3. ASSUME NEW k \in Gains, NEW e \in Errors
      PROVE  k * e \in Int /\ k * (-e) = -(k * e) /\ k * e <= FloatMax * FloatMax
  <2>1. k * e \in Int /\ k * (-e) = -(k * e)
    BY <1>1, Negated
  <2>2. CASE e >= 0
    <3>1. k \in Nat /\ FloatMax \in Nat /\ e \in Nat /\ k <= FloatMax /\ e <= FloatMax
      BY <1>1, <2>2
    <3>2. QED
      BY <2>1, <3>1, Products
  <2>3. CASE e < 0
    <3>1. -e \in Nat /\ k \in Nat
      BY <1>1, <2>3
    <3>2. k * (-e) \in Nat
      BY <3>1, Z3
    <3>3. QED
      BY <1>2, <2>1, <3>2
  <2>4. QED
    BY <1>1, <2>2, <2>3
<1>4. S \in SUBSET Int /\ S # {}
  BY <1>1, <1>3
<1>5. \A x \in S : x <= FloatMax * FloatMax
  BY <1>3
<1>6. PICK m \in S : \A x \in S : x <= m
  <2> HIDE DEF S
  <2>1. \E b \in Int : \A x \in S : x <= b
    BY <1>2, <1>5
  <2> QED BY <1>4, <2>1, Extremes
<1>7. G \in S /\ \A k \in Gains, e \in Errors : k * e <= G
  <2>1. \A k \in Gains, e \in Errors : k * e \in S
    OBVIOUS
  <2>2. m \in S /\ \A k \in Gains, e \in Errors : k * e <= m
    BY <1>6, <2>1
  <2>3. QED
    BY <2>2 DEF Controllers!GreatestP
<1>8. G \in Int
  BY <1>4, <1>7
<1> HIDE DEF G, S
<1>9. ASSUME NEW k \in Gains, NEW e \in Errors PROVE k * e \in -G .. G
  <2>1. k * e <= G /\ k * (-e) <= G
    BY <1>1, <1>7
  <2>2. QED
    BY <1>3, <1>8, <2>1
<1>10. G \in Nat
  <2>1. PICK k \in Gains, e \in Errors : TRUE
    BY <1>1
  <2>2. k * e \in -G .. G /\ k * e \in Int
    BY <1>3, <1>9
  <2>3. QED
    BY <1>8, <2>2
<1>11. QED
  BY <1>9, <1>10 DEF G

\* So is the error itself, and the integral of it over one push.
LEMMA IntegralBounded ==
  LET G == Controllers!GreatestP IN
  /\ kiTs * G \in Nat
  /\ (2 + kiTs) * G = 2 * G + kiTs * G
  /\ \A e \in Errors : kiTs * e \in -(kiTs * G) .. kiTs * G
<1> DEFINE G == Controllers!GreatestP
<1>1. G \in Nat /\ \A k \in Gains, e \in Errors : k * e \in -G .. G
  BY ProportionalBounded
<1> HIDE DEF G
<1>2. /\ kiTs \in Nat /\ Gains # {}
      /\ \A k \in Gains : k \in Nat /\ k >= 1
      /\ \A e \in Errors : e \in Int /\ -e \in Errors
  BY ControllersAssumption
<1>3. kiTs * G \in Nat /\ (2 + kiTs) * G = 2 * G + kiTs * G
  BY <1>1, <1>2, Z3
<1>4. ASSUME NEW e \in Errors, e >= 0 PROVE kiTs * e \in Nat /\ kiTs * e <= kiTs * G
  <2>1. PICK k \in Gains : TRUE
    BY <1>2
  <2>2. k * e \in -G .. G /\ k \in Nat /\ 1 \in Nat /\ 1 <= k /\ e \in Nat /\ e <= e
    BY <1>1, <1>2, <1>4
  <2>3. 1 * e <= k * e
    BY <2>2, Products
  <2>4. e <= G
    BY <1>1, <2>2, <2>3
  <2>5. kiTs <= kiTs
    BY <1>2
  <2>6. QED
    BY <1>1, <1>2, <2>2, <2>4, <2>5, Products
<1>5. ASSUME NEW e \in Errors PROVE kiTs * e \in -(kiTs * G) .. kiTs * G
  <2>1. kiTs * e \in Int /\ kiTs * (-e) = -(kiTs * e) /\ e \in Int /\ -e \in Errors
    BY <1>2, Negated
  <2>2. CASE e >= 0
    BY <1>3, <1>4, <2>1, <2>2
  <2>3. CASE e < 0
    <3>1. -e >= 0
      BY <2>1, <2>3
    <3>2. kiTs * (-e) \in Nat /\ kiTs * (-e) <= kiTs * G
      BY <1>4, <2>1, <3>1
    <3>3. QED
      BY <1>3, <2>1, <3>2
  <2>4. QED
    BY <2>1, <2>2, <2>3
<1>6. QED
  BY <1>3, <1>5 DEF G

LEMMA LimitsBounded ==
  LET L == Controllers!LowestLimit
      H == Controllers!HighestLimit
  IN
  /\ L \in Int /\ H \in Int /\ L <= 0 /\ 0 <= H
  /\ \A l \in Limits : /\ l.lower \in Int /\ l.upper \in Int
                       /\ L <= l.lower /\ l.lower <= l.upper /\ l.upper <= H
<1> DEFINE L == Controllers!LowestLimit
           H == Controllers!HighestLimit
           Lowers == {l.lower : l \in Limits}
           Uppers == {l.upper : l \in Limits}
<1>1. /\ FloatMax \in Nat
      /\ \A l \in Limits : /\ l.lower \in Int /\ l.upper \in Int /\ l.lower <= l.upper
                           /\ -FloatMax <= l.lower /\ l.upper <= FloatMax
      /\ \E l \in Limits : l.lower <= 0
      /\ \E l \in Limits : 0 <= l.upper
  BY ControllersAssumption
<1>2. L \in Lowers /\ \A l \in Limits : L <= l.lower
  <2>1. /\ Lowers \in SUBSET Int /\ Lowers # {}
        /\ -FloatMax \in Int /\ \A x \in Lowers : -FloatMax <= x
        /\ \A l \in Limits : l.lower \in Lowers
    BY <1>1
  <2>2. PICK m \in Lowers : \A x \in Lowers : m <= x
    <3> HIDE DEF Lowers
    <3> QED BY <2>1, Extremes
  <2>3. m \in Lowers /\ \A l \in Limits : m <= l.lower
    BY <2>1, <2>2
  <2>4. QED
    BY <2>3, Zenon DEF Controllers!LowestLimit
<1>3. H \in Uppers /\ \A l \in Limits : l.upper <= H
  <2>1. /\ Uppers \in SUBSET Int /\ Uppers # {}
        /\ FloatMax \in Int /\ \A x \in Uppers : x <= FloatMax
        /\ \A l \in Limits : l.upper \in Uppers
    BY <1>1
  <2>2. PICK m \in Uppers : \A x \in Uppers : x <= m
    <3> HIDE DEF Uppers
    <3> QED BY <2>1, Extremes
  <2>3. m \in Uppers /\ \A l \in Limits : l.upper <= m
    BY <2>1, <2>2
  <2>4. QED
    BY <2>3, Zenon DEF Controllers!HighestLimit
<1>4. L \in Int /\ H \in Int
  BY <1>1, <1>2, <1>3
<1> HIDE DEF L, H, Lowers, Uppers
<1>5. L <= 0 /\ 0 <= H
  BY <1>1, <1>2, <1>3, <1>4
<1>6. QED
  BY <1>1, <1>2, <1>3, <1>4, <1>5 DEF L, H

LEMMA Limited ==
  ASSUME NEW x \in Int, limits \in Limits
  PROVE  /\ Controllers!ToLimits(x) \in Int
         /\ Controllers!ToLimits(x) \in limits.lower .. limits.upper
         /\ Controllers!ToLimits(x) <= x \/ Controllers!ToLimits(x) = limits.lower
         /\ Controllers!ToLimits(x) >= x \/ Controllers!ToLimits(x) = limits.upper
  BY LimitsBounded DEF Controllers!ToLimits, Controllers!clamp

\* What the integral of a controller with anti-windup is between pushes, and how far it
\* is from the limits of the floats.
LEMMA Margins ==
  ASSUME ControllersInv
  PROVE  LET L == Controllers!LowestLimit
             H == Controllers!HighestLimit
             G == Controllers!GreatestP
             O == Controllers!OnePush
         IN
         /\ {L, H, G, O, FloatMax} \subseteq Int
         /\ 0 <= G /\ 0 <= O /\ 0 <= FloatMax
         /\ controller = "backcalc" => O = kiTs * G
         /\ L <= limits.lower /\ limits.lower <= limits.upper /\ limits.upper <= H
         /\ limits.lower \in Int /\ limits.upper \in Int
         /\ L <= 0 /\ 0 <= H
         /\ -FloatMax + 2 * G + O <= L /\ H + 2 * G + O <= FloatMax
         /\ out_i_ \in Int /\ out_i_ \in -FloatMax .. FloatMax
         /\ kc_ # 0 => out_i_ \in L - G - O .. H + G + O
<1> DEFINE L == Controllers!LowestLimit
           H == Controllers!HighestLimit
           G == Controllers!GreatestP
           R == (2 + kiTs) * G
           I == kiTs * G
           O == Controllers!OnePush
<1>1. G \in Nat /\ I \in Nat /\ R = 2 * G + I
  BY ProportionalBounded, IntegralBounded
<1>2. FloatMax \in Nat /\ -FloatMax + R <= L /\ H + R <= FloatMax
  BY ControllersAssumption
<1>3. O = IF controller = "backcalc" THEN I ELSE 0
  BY DEF Controllers!OnePush
<1>4. /\ L \in Int /\ H \in Int /\ L <= 0 /\ 0 <= H
      /\ limits.lower \in Int /\ limits.upper \in Int
      /\ L <= limits.lower /\ limits.lower <= limits.upper /\ limits.upper <= H
  BY LimitsBounded DEF ControllersInv
<1>5. /\ out_i_ \in Int /\ out_i_ \in -FloatMax .. FloatMax
      /\ kc_ # 0 => out_i_ \in L - G - O .. H + G + O
  BY DEF ControllersInv, NoWindup, Controllers!NoWindup
<1> HIDE DEF L, H, G, R, I, O
<1>6. /\ {L, H, G, O, FloatMax} \subseteq Int
      /\ 0 <= G /\ 0 <= O /\ 0 <= FloatMax
      /\ -FloatMax + 2 * G + O <= L /\ H + 2 * G + O <= FloatMax
  BY <1>1, <1>2, <1>3, <1>4
<1>7. controller = "backcalc" => O = kiTs * G
  BY <1>3 DEF I
<1>8. QED
  BY <1>4, <1>5, <1>6, <1>7 DEF L, H, G, O

\* What a step that keeps the configuration has to show.
LEMMA PushShows ==
  ASSUME ControllersInv,
         UNCHANGED <<controller, inverting, kp_, kc_, limits>>, fresh' \in BOOLEAN,
         out_i_' \in Int, error_' \in Int, out_' \in Int,
         fresh' => out_' \in limits.lower .. limits.upper,
         out_i_' \in -FloatMax .. FloatMax,
         kc_ # 0 =>
           out_i_' \in Controllers!LowestLimit - Controllers!GreatestP - Controllers!OnePush
                    .. Controllers!HighestLimit + Controllers!GreatestP + Controllers!OnePush
  PROVE  ControllersInv'
<1>1. Controllers!OnePush' = Controllers!OnePush
  BY DEF Controllers!OnePush
<1>2. NoWindup'
  BY <1>1 DEF NoWindup, Controllers!NoWindup
<1>3. QED
  BY <1>2 DEF ControllersInv

LEMMA BackcalcKeeps ==
  ASSUME ControllersInv, NEW e \in Errors, Controllers!PushBackcalc(e), fresh' = TRUE,
         UNCHANGED <<controller, inverting, kp_, kc_, limits>>
  PROVE  ControllersInv'
<1> DEFINE L == Controllers!LowestLimit
           H == Controllers!HighestLimit
           G == Controllers!GreatestP
           O == Controllers!OnePush
           P == e * kp_
           I == kiTs * e
           out == Controllers!ToFloats(P + out_i_)
           Over == out - out_'
<1>1. P \in Int /\ P \in -G .. G
  <2>1. kp_ * e \in -G .. G /\ kp_ \in Int /\ e \in Int /\ kp_ \in Gains
    BY ProportionalBounded, ControllersAssumption DEF ControllersInv
  <2>2. e * kp_ = kp_ * e /\ kp_ * e \in Int
    BY <2>1, Z3
  <2>3. QED
    BY <2>1, <2>2
<1>2. controller = "backcalc" /\ I \in Int /\ I \in -O .. O
  <2>1. controller = "backcalc" /\ O = kiTs * G
    BY Margins DEF Controllers!PushBackcalc
  <2>2. I \in -(kiTs * G) .. kiTs * G
    BY IntegralBounded
  <2>3. I \in Int
    BY <2>2
  <2>4. QED
    BY <2>1, <2>2, <2>3
<1>3. /\ out_' = Controllers!ToLimits(out)
      /\ out_i_' = Controllers!ToFloats(out_i_ + I - kc_ * Over)
      /\ error_' = error_
  BY DEF Controllers!PushBackcalc
<1>4. /\ {L, H, G, O, FloatMax} \subseteq Int
      /\ 0 <= G /\ 0 <= O /\ 0 <= FloatMax
      /\ L <= limits.lower /\ limits.lower <= limits.upper /\ limits.upper <= H
      /\ limits.lower \in Int /\ limits.upper \in Int
      /\ -FloatMax + 2 * G + O <= L /\ H + 2 * G + O <= FloatMax
      /\ out_i_ \in Int /\ out_i_ \in -FloatMax .. FloatMax
      /\ kc_ # 0 => out_i_ \in L - G - O .. H + G + O
  BY Margins
<1>5. kc_ \in {0, 1} /\ limits \in Limits /\ error_ \in Int
  BY DEF ControllersInv
<1>6. \A x \in Int : /\ Controllers!ToFloats(x) \in Int
                     /\ Controllers!ToFloats(x) \in -FloatMax .. FloatMax
                     /\ x \in -FloatMax .. FloatMax => Controllers!ToFloats(x) = x
  BY <1>4 DEF Controllers!ToFloats, Controllers!clamp
<1> HIDE DEF P, I, L, H, G, O
<1>7. out \in Int /\ (kc_ # 0 => out = P + out_i_)
  <2>1. P + out_i_ \in Int /\ (kc_ # 0 => P + out_i_ \in -FloatMax .. FloatMax)
    BY <1>1, <1>4
  <2>2. QED
    BY <1>6, <2>1
<1> HIDE DEF out
<1>8. out_' \in Int /\ out_' \in limits.lower .. limits.upper
  BY <1>3, <1>5, <1>7, Limited
<1>9. CASE kc_ = 1
  <2>1. kc_ * Over = Over /\ Over \in Int
    BY <1>7, <1>8, <1>9
  <2>2. out_i_ + I - kc_ * Over = I - P + out_'
    BY <1>1, <1>2, <1>4, <1>7, <1>8, <1>9, <2>1
  <2>3. I - P + out_' \in L - G - O .. H + G + O /\ I - P + out_' \in -FloatMax .. FloatMax
    BY <1>1, <1>2, <1>4, <1>8
  <2>4. out_i_' = I - P + out_'
    BY <1>1, <1>2, <1>3, <1>6, <1>8, <2>2, <2>3
  <2>5. QED
    BY <1>3, <1>5, <1>8, <2>3, <2>4, PushShows DEF L, H, G, O
<1>10. CASE kc_ = 0
  <2>1. kc_ * Over = 0
    <3>1. Over \in Int
      BY <1>7, <1>8
    <3> HIDE DEF Over
    <3>2. QED
      BY <1>10, <3>1, Z3
  <2>2. out_i_ + I - kc_ * Over \in Int
    BY <1>2, <1>4, <2>1
  <2>3. out_i_' \in Int /\ out_i_' \in -FloatMax .. FloatMax
    BY <1>3, <1>6, <2>2
  <2>4. QED
    BY <1>3, <1>5, <1>8, <1>10, <2>3, PushShows
<1>11. QED
  BY <1>5, <1>9, <1>10

LEMMA ClampingKeeps ==
  ASSUME ControllersInv, NEW e \in Errors, Controllers!PushClamping(e), fresh' = TRUE,
         UNCHANGED <<controller, inverting, kp_, kc_, limits>>
  PROVE  ControllersInv'
<1> DEFINE L == Controllers!LowestLimit
           H == Controllers!HighestLimit
           G == Controllers!GreatestP
           O == Controllers!OnePush
           P == e * kp_
           I == ((e + error_) * kiTs) \div 2 + out_i_
           out == P + I
<1>1. P \in Int /\ P \in -G .. G /\ e \in Int
  <2>1. kp_ * e \in -G .. G /\ kp_ \in Int /\ e \in Int /\ kp_ \in Gains
    BY ProportionalBounded, ControllersAssumption DEF ControllersInv
  <2>2. e * kp_ = kp_ * e /\ kp_ * e \in Int
    BY <2>1, Z3
  <2>3. QED
    BY <2>1, <2>2
<1>2. /\ {L, H, G, O, FloatMax} \subseteq Int
      /\ 0 <= G /\ 0 <= O /\ 0 <= FloatMax
      /\ L <= limits.lower /\ limits.lower <= limits.upper /\ limits.upper <= H
      /\ limits.lower \in Int /\ limits.upper \in Int
      /\ -FloatMax + 2 * G + O <= L /\ H + 2 * G + O <= FloatMax
      /\ out_i_ \in Int /\ out_i_ \in -FloatMax .. FloatMax
      /\ kc_ # 0 => out_i_ \in L - G - O .. H + G + O
  BY Margins
<1>3. kc_ = 1 /\ limits \in Limits /\ error_ \in Int
  BY DEF ControllersInv, Controllers!PushClamping
<1>4. I \in Int
  <2>1. e + error_ \in Int /\ kiTs \in Int
    BY <1>1, <1>3, ControllersAssumption
  <2>2. (e + error_) * kiTs \in Int
    BY <2>1, Z3
  <2>3. ((e + error_) * kiTs) \div 2 \in Int
    BY <2>2, Z3
  <2>4. QED
    BY <1>2, <2>3
<1>5. /\ out_' = Controllers!ToLimits(out)
      /\ out_i_' = IF out = out_' THEN I
                   ELSE IF Controllers!Within(P, out) THEN Controllers!Beyond(out) - P
                   ELSE out_i_
      /\ error_' = e
  BY DEF Controllers!PushClamping
<1> HIDE DEF P, I, L, H, G, O
<1>6. out \in Int
  BY <1>1, <1>4
<1>7. out_' \in Int /\ out_' \in limits.lower .. limits.upper
  BY <1>3, <1>5, <1>6, Limited
<1>8. out_i_' \in Int /\ out_i_' \in L - G - O .. H + G + O
  <2>1. CASE out = out_'
    <3>1. out_i_' = I /\ I = out_' - P
      BY <1>1, <1>4, <1>5, <2>1
    <3>2. QED
      BY <1>1, <1>2, <1>7, <3>1
  <2>2. CASE out # out_' /\ Controllers!Within(P, out)
    <3>1. out_i_' = Controllers!Beyond(out) - P
      BY <1>5, <2>2
    <3>2. Controllers!Beyond(out) \in Int /\ Controllers!Beyond(out) \in L .. H
      BY <1>2 DEF Controllers!Beyond
    <3>3. QED
      BY <1>1, <1>2, <3>1, <3>2
  <2>3. CASE out # out_' /\ ~Controllers!Within(P, out)
    BY <1>2, <1>3, <1>5, <2>3
  <2>4. QED
    BY <2>1, <2>2, <2>3
<1>9. out_i_' \in -FloatMax .. FloatMax
  BY <1>2, <1>8
<1>10. QED
  BY <1>1, <1>3, <1>5, <1>7, <1>8, <1>9, PushShows DEF L, H, G, O

LEMMA PushKeeps == ControllersInv /\ Controllers!push => ControllersInv'
<1> SUFFICES ASSUME ControllersInv, Controllers!push PROVE ControllersInv'
  OBVIOUS
<1>1. fresh' = TRUE /\ UNCHANGED <<controller, inverting, kp_, kc_, limits>>
  BY DEF Controllers!push
<1>2. PICK d \in Errors :
        LET e == Controllers!error(d) IN
        \/ Controllers!PushP(e) \/ Controllers!PushBackcalc(e) \/ Controllers!PushClamping(e)
        \/ Controllers!PushIntegrator(d)
  BY DEF Controllers!push
<1> DEFINE e == Controllers!error(d)
<1>3. e \in Errors
  BY ControllersAssumption DEF Controllers!error
<1> HIDE DEF e
<1>4. /\ limits \in Limits /\ kp_ \in Gains /\ kp_ \in Int /\ error_ \in Int
      /\ e \in Int /\ d \in Int
  <2>1. Errors \subseteq Int /\ Gains \subseteq Int
    BY ControllersAssumption
  <2>2. QED
    BY <1>3, <2>1 DEF ControllersInv
<1>5. CASE Controllers!PushP(e)
  <2>1. kp_ * e \in Int
    BY <1>4, Z3
  <2>2. out_' = Controllers!ToLimits(kp_ * e) /\ out_i_' = out_i_ /\ error_' = error_
    BY <1>5 DEF Controllers!PushP
  <2>3. out_' \in Int /\ out_' \in limits.lower .. limits.upper
    BY <1>4, <2>1, <2>2, Limited
  <2>4. QED
    BY <1>1, <1>4, <2>2, <2>3, Margins, PushShows
<1>6. CASE Controllers!PushIntegrator(d)
  <2>1. out_i_ + d \in Int
    BY <1>4 DEF ControllersInv
  <2>2. out_i_' = Controllers!ToLimits(out_i_ + d) /\ out_' = out_i_' /\ error_' = error_
    BY <1>6 DEF Controllers!PushIntegrator
  <2>3. out_i_' \in Int /\ out_i_' \in limits.lower .. limits.upper
    BY <1>4, <2>1, <2>2, Limited
  <2> DEFINE L == Controllers!LowestLimit
             H == Controllers!HighestLimit
             G == Controllers!GreatestP
             O == Controllers!OnePush
  <2>4. /\ {L, H, G, O, FloatMax} \subseteq Int /\ 0 <= G /\ 0 <= O
        /\ L <= limits.lower /\ limits.upper <= H
        /\ limits.lower \in Int /\ limits.upper \in Int
        /\ -FloatMax + 2 * G + O <= L /\ H + 2 * G + O <= FloatMax
    BY Margins
  <2> HIDE DEF L, H, G, O
  <2>5. out_i_' \in L - G - O .. H + G + O /\ out_i_' \in -FloatMax .. FloatMax
    BY <2>3, <2>4
  <2>6. QED
    BY <1>1, <1>4, <2>2, <2>3, <2>5, PushShows DEF L, H, G, O
<1>7. QED
  BY <1>1, <1>2, <1>3, <1>5, <1>6, BackcalcKeeps, ClampingKeeps DEF e

\* What a controller begins with, and begins again with after a reset.
LEMMA Begins ==
  ASSUME limits \in Limits
  PROVE  LET v == IF controller = "integrator" THEN Controllers!ToLimits(0) ELSE 0
             O == Controllers!OnePush
         IN
         /\ v \in Int
         /\ controller = "integrator" => v \in limits.lower .. limits.upper
         /\ v \in -FloatMax .. FloatMax
         /\ v \in Controllers!LowestLimit - Controllers!GreatestP - O
                  .. Controllers!HighestLimit + Controllers!GreatestP + O
<1> DEFINE L == Controllers!LowestLimit
           H == Controllers!HighestLimit
           G == Controllers!GreatestP
           O == Controllers!OnePush
           v == IF controller = "integrator" THEN Controllers!ToLimits(0) ELSE 0
<1>1. v \in Int /\ (controller = "integrator" => v \in limits.lower .. limits.upper)
  BY Limited
<1>2. /\ FloatMax \in Nat /\ limits.lower \in Int /\ limits.upper \in Int
      /\ -FloatMax <= limits.lower /\ limits.upper <= FloatMax
  BY ControllersAssumption
<1>3. /\ L \in Int /\ H \in Int /\ L <= 0 /\ 0 <= H
      /\ L <= limits.lower /\ limits.upper <= H
  BY LimitsBounded
<1>4. G \in Nat /\ O \in Nat
  BY ProportionalBounded, IntegralBounded DEF Controllers!OnePush
<1>5. controller # "integrator" => v = 0
  OBVIOUS
<1> HIDE DEF L, H, G, O, v
<1>6. v \in L .. H /\ v \in -FloatMax .. FloatMax
  BY <1>1, <1>2, <1>3, <1>5
<1>7. v \in L - G - O .. H + G + O
  BY <1>1, <1>3, <1>4, <1>6
<1>8. QED
  BY <1>1, <1>6, <1>7 DEF L, H, G, O, v

LEMMA ControllersInitially == Controllers!Init => ControllersInv
<1> SUFFICES ASSUME Controllers!Init PROVE ControllersInv
  OBVIOUS
<1>1. /\ controller \in {"p", "backcalc", "clamping", "integrator"} /\ inverting \in BOOLEAN
      /\ kp_ \in Gains /\ limits \in Limits /\ error_ = 0 /\ out_ = out_i_
      /\ fresh = (controller = "integrator")
      /\ kc_ \in IF controller = "backcalc" THEN AntiWindupGains ELSE {1}
      /\ out_i_ = IF controller = "integrator" THEN Controllers!ToLimits(0) ELSE 0
  BY DEF Controllers!Init
<1>2. fresh \in BOOLEAN /\ kc_ \in {0, 1} /\ (kc_ = 0 => controller = "backcalc")
  BY <1>1, ControllersAssumption
<1>3. NoWindup /\ out_i_ \in Int
  BY <1>1, Begins DEF NoWindup, Controllers!NoWindup
<1>4. QED
  BY <1>1, <1>2, <1>3 DEF ControllersInv

LEMMA ControllersInductive ==
  ControllersInv /\ [Controllers!Next]_(Controllers!controllerVars) => ControllersInv'
<1> SUFFICES ASSUME ControllersInv, [Controllers!Next]_(Controllers!controllerVars)
             PROVE  ControllersInv'
  OBVIOUS
<1>1. CASE Controllers!push
  BY <1>1, PushKeeps
<1>2. CASE Controllers!reset
  <2>1. /\ UNCHANGED <<controller, inverting, kp_, kc_, limits>>
        /\ error_' = 0 /\ out_' = out_i_' /\ fresh' = (controller = "integrator")
        /\ out_i_' = IF controller = "integrator" THEN Controllers!ToLimits(0) ELSE 0
    BY <1>2 DEF Controllers!reset
  <2>2. limits \in Limits /\ fresh' \in BOOLEAN
    BY <2>1 DEF ControllersInv
  <2> DEFINE v == IF controller = "integrator" THEN Controllers!ToLimits(0) ELSE 0
  <2>3. /\ v \in Int
        /\ controller = "integrator" => v \in limits.lower .. limits.upper
        /\ v \in -FloatMax .. FloatMax
        /\ v \in Controllers!LowestLimit - Controllers!GreatestP - Controllers!OnePush
                 .. Controllers!HighestLimit + Controllers!GreatestP + Controllers!OnePush
    BY <2>2, Begins
  <2> HIDE DEF v
  <2>4. out_i_' = v /\ out_' = v
    BY <2>1 DEF v
  <2>5. fresh' => out_' \in limits.lower .. limits.upper
    BY <2>1, <2>3, <2>4
  <2>6. out_i_' \in Int /\ out_' \in Int /\ error_' \in Int
    BY <2>1, <2>3, <2>4
  <2>7. QED
    BY <2>1, <2>2, <2>3, <2>4, <2>5, <2>6, PushShows, Zenon
<1>3. CASE Controllers!set_limits
  <2>1. NoWindup'
    BY <1>3 DEF Controllers!set_limits, ControllersInv, NoWindup, Controllers!NoWindup,
                Controllers!OnePush
  <2>2. QED
    BY <1>3, <2>1 DEF Controllers!set_limits, ControllersInv
<1>4. CASE Controllers!set_kp
  <2>1. NoWindup'
    BY <1>4 DEF Controllers!set_kp, ControllersInv, NoWindup, Controllers!NoWindup,
                Controllers!OnePush
  <2>2. QED
    BY <1>4, <2>1 DEF Controllers!set_kp, ControllersInv
<1>5. CASE UNCHANGED Controllers!controllerVars
  BY <1>5 DEF Controllers!controllerVars, ControllersInv, NoWindup, Controllers!NoWindup,
              Controllers!OnePush
<1>6. QED
  BY <1>1, <1>2, <1>3, <1>4, <1>5 DEF Controllers!Next

\* The output is within its limits after a push; and the integral of a controller with
\* anti-windup stays within what one push and the proportional part can take back,
\* whatever the gains and limits become between pushes (push, reset, set_limits, set_kp).
THEOREM IntegralStaysBounded == Controllers!Spec => []NoWindup
<1>1. ControllersInv => NoWindup
  BY DEF ControllersInv
<1>2. QED
  BY <1>1, ControllersInitially, ControllersInductive, PTL DEF Controllers!Spec

-----------------------------------------------------------------------------
(* The registers.  A field holds, of the bits of its register, those of    *)
(* its mask, counted from the lowest.                                      *)

Lo(f) == Registers!countr_zero(f)
InField(f) == Registers!Low(f, control)

RegistersInv ==
  /\ fields = [f \in Fields |-> InField(f)]
  /\ status = raised /\ status \subseteq Registers!Bits
  /\ writeOne \in BOOLEAN

LEMMA SameCount == ASSUME NEW S PROVE Registers!Cardinality(S) = Cardinality(S)
  BY DEF Cardinality, Registers!Cardinality, IsFiniteSet, Registers!IsFiniteSet

LEMMA FieldIsInterval ==
  ASSUME NEW f \in Fields
  PROVE  /\ Lo(f) \in Nat /\ Lo(f) \in f
         /\ IsFiniteSet(f) /\ Cardinality(f) \in Nat \ {0}
         /\ f = Lo(f) .. Lo(f) + Cardinality(f) - 1
         /\ \A b \in f : b \in Int /\ b >= Lo(f)
<1>1. PICK lo \in 0 .. Width - 1, hi \in 0 .. Width - 1 : lo <= hi /\ f = lo .. hi
  BY RegistersAssumption
<1>2. Width \in Nat /\ lo \in Nat /\ hi \in Nat
  BY RegistersAssumption
<1>3. lo \in f /\ \A c \in f : lo <= c
  BY <1>1, <1>2
<1>4. \A b \in f : (\A c \in f : b <= c) => b = lo
  BY <1>1, <1>2, <1>3
<1>5. Lo(f) = lo
  BY <1>3, <1>4 DEF Lo, Registers!countr_zero
<1>6. IsFiniteSet(f) /\ Cardinality(f) = hi - lo + 1
  BY <1>1, <1>2, FS_Interval
<1>7. QED
  BY <1>1, <1>2, <1>3, <1>5, <1>6

\* Counted from the lowest, bits are the same when they are at the same place.
LEMMA LowIn ==
  ASSUME NEW f \in Fields, NEW mask, NEW b \in Int
  PROVE  b \in Registers!Low(f, mask) <=> b + Lo(f) \in f \cap mask
<1>1. Lo(f) \in Int /\ \A c \in f : c \in Int
  BY FieldIsInterval
<1>2. Registers!Low(f, mask) = {c - Lo(f) : c \in f \cap mask}
  BY DEF Registers!Low, Lo
<1>3. (b + Lo(f)) - Lo(f) = b
  BY <1>1
<1>4. ASSUME NEW c \in f \cap mask, b = c - Lo(f) PROVE b + Lo(f) \in f \cap mask
  <2>1. b + Lo(f) = c
    BY <1>1, <1>4
  <2>2. QED
    BY <2>1
<1>5. QED
  BY <1>2, <1>3, <1>4

LEMMA LowInts ==
  ASSUME NEW f \in Fields, NEW mask
  PROVE  Registers!Low(f, mask) \subseteq 0 .. Cardinality(f) - 1
<1>1. /\ Lo(f) \in Nat /\ Cardinality(f) \in Nat
      /\ f = Lo(f) .. Lo(f) + Cardinality(f) - 1
  BY FieldIsInterval
<1>2. \A b \in f : b - Lo(f) \in 0 .. Cardinality(f) - 1
  BY <1>1
<1>3. Registers!Low(f, mask) = {b - Lo(f) : b \in f \cap mask}
  BY DEF Registers!Low, Lo
<1>4. QED
  BY <1>2, <1>3

\* Of values that agree on a field, the field keeps the same.
LEMMA LowSame ==
  ASSUME NEW f \in Fields, NEW mask, NEW other, f \cap mask = f \cap other
  PROVE  Registers!Low(f, mask) = Registers!Low(f, other)
  BY DEF Registers!Low

\* A number is of what a field has of a value, when its bit is one of the field's.
LEMMA LowBits ==
  ASSUME NEW f \in Fields, NEW mask
  PROVE  /\ Registers!Low(f, mask) \subseteq Int
         /\ \A b \in Int : b \in Registers!Low(f, mask) <=> b + Lo(f) \in f /\ b + Lo(f) \in mask
<1>1. Cardinality(f) \in Int /\ 0 .. Cardinality(f) - 1 \subseteq Int
  BY FieldIsInterval
<1>2. QED
  BY <1>1, LowInts, LowIn

LEMMA LowUnion ==
  ASSUME NEW f \in Fields, NEW a, NEW b
  PROVE  Registers!Low(f, a \cup b) = Registers!Low(f, a) \cup Registers!Low(f, b)
<1> DEFINE L(m) == Registers!Low(f, m)
<1>1. \A x \in Int : x \in L(a \cup b) <=> x \in L(a) \cup L(b)
  BY LowBits
<1>2. L(a \cup b) \subseteq Int /\ L(a) \subseteq Int /\ L(b) \subseteq Int
  BY LowBits
<1> HIDE DEF L
<1>3. L(a \cup b) = L(a) \cup L(b)
  BY <1>1, <1>2, Zenon
<1>4. QED
  BY <1>3 DEF L

LEMMA LowMinus ==
  ASSUME NEW f \in Fields, NEW a, NEW b
  PROVE  Registers!Low(f, a \ b) = Registers!Low(f, a) \ Registers!Low(f, b)
<1> DEFINE L(m) == Registers!Low(f, m)
<1>1. \A x \in Int : x \in L(a \ b) <=> x \in L(a) \ L(b)
  BY LowBits
<1>2. L(a \ b) \subseteq Int /\ L(a) \subseteq Int
  BY LowBits
<1> HIDE DEF L
<1>3. L(a \ b) = L(a) \ L(b)
  BY <1>1, <1>2, Zenon
<1>4. QED
  BY <1>3 DEF L

LEMMA LowToggled ==
  ASSUME NEW f \in Fields, NEW a, NEW b
  PROVE  Registers!Low(f, Registers!Toggled(a, b))
           = Registers!Toggled(Registers!Low(f, a), Registers!Low(f, b))
<1> DEFINE L(m) == Registers!Low(f, m)
           c == a \ b
           d == b \ a
<1>1. L(c) = L(a) \ L(b) /\ L(d) = L(b) \ L(a)
  BY LowMinus
<1> HIDE DEF c, d
<1>2. L(c \cup d) = L(c) \cup L(d)
  BY LowUnion
<1> HIDE DEF L
<1>3. L(c \cup d) = (L(a) \ L(b)) \cup (L(b) \ L(a))
  BY <1>1, <1>2
<1>4. QED
  BY <1>3 DEF L, c, d, Registers!Toggled

\* A value written to a field is what the field then keeps, cut to its width, and its
\* neighbours keep theirs.
LEMMA EncodedIn ==
  ASSUME NEW f \in Fields, NEW value \in SUBSET Registers!Bits
  PROVE  /\ Registers!Encoded(f, value) \subseteq f
         /\ Registers!Low(f, Registers!Encoded(f, value)) = Registers!Kept(f, value)
<1> DEFINE E == Registers!Encoded(f, value)
           n == Cardinality(f)
<1>1. E = {b + Lo(f) : b \in value} \cap f
  BY DEF Registers!Encoded, Registers!ShiftLeft, Lo
<1>2. /\ Lo(f) \in Nat /\ n \in Nat /\ f = Lo(f) .. Lo(f) + n - 1
      /\ \A b \in value : b \in Nat
  BY FieldIsInterval, RegistersAssumption DEF Registers!Bits
<1>3. Registers!Kept(f, value) = {b \in value : b < n}
  BY SameCount DEF Registers!Kept
<1>4. ASSUME NEW b \in Int PROVE b + Lo(f) \in E <=> b \in value /\ b < n
  <2>1. ASSUME b + Lo(f) \in E PROVE b \in value /\ b < n
    <3>1. PICK c \in value : b + Lo(f) = c + Lo(f)
      BY <1>1, <2>1
    <3>2. b = c /\ b + Lo(f) \in f
      BY <1>1, <1>2, <2>1, <3>1
    <3>3. QED
      BY <1>2, <3>2
  <2>2. ASSUME b \in value, b < n PROVE b + Lo(f) \in E
    BY <1>1, <1>2, <2>2
  <2>3. QED
    BY <2>1, <2>2
<1>5. Registers!Low(f, E) \subseteq Int
  BY <1>2, LowInts
<1>6. E \subseteq f
  BY <1>1
<1>7. \A b \in Int : b \in Registers!Low(f, E) <=> b \in value /\ b < n
  BY <1>4, <1>6, LowIn
<1> HIDE DEF E
<1>8. Registers!Low(f, E) = Registers!Kept(f, value)
  BY <1>2, <1>3, <1>5, <1>7
<1>9. QED
  BY <1>6, <1>8 DEF E

LEMMA Apart ==
  ASSUME NEW f \in Fields, NEW g \in Fields, f # g
  PROVE  f \cap g = {}
  BY RegistersAssumption

\* What every operation on the register keeps: each field as its ghost has it.
LEMMA Disturbs ==
  ASSUME RegistersInv, NEW new, NEW ghost,
         control' = new, fields' = [f \in Fields |-> ghost[f]],
         \A f \in Fields : ghost[f] = Registers!Low(f, new),
         UNCHANGED <<status, writeOne, raised>>
  PROVE  RegistersInv'
<1>1. fields' = [f \in Fields |-> InField(f)']
  BY DEF InField, Registers!Low, Lo, Registers!countr_zero
<1>2. QED
  BY <1>1 DEF RegistersInv, Registers!Bits

LEMMA WriteKeeps ==
  ASSUME RegistersInv, NEW f \in Fields, NEW value \in SUBSET Registers!Bits,
         Registers!write(f, value)
  PROVE  RegistersInv'
<1> DEFINE E == Registers!Encoded(f, value)
           new == (control \ f) \cup E
           ghost == [fields EXCEPT ![f] = Registers!Kept(f, value)]
<1>1. /\ control' = new /\ fields' = ghost
      /\ UNCHANGED <<status, writeOne, raised>>
  BY DEF Registers!write
<1>2. \A g \in Fields : fields[g] = Registers!Low(g, control)
  BY DEF RegistersInv, InField
<1>3. DOMAIN fields = Fields
  BY DEF RegistersInv
<1>4. E \subseteq f /\ Registers!Low(f, E) = Registers!Kept(f, value)
  BY EncodedIn
<1> HIDE DEF E
<1>5. f \cap new = f \cap E
  BY <1>4
<1>6. ASSUME NEW g \in Fields PROVE ghost[g] = Registers!Low(g, new)
  <2>1. CASE g = f
    BY <1>3, <1>4, <1>5, <2>1, LowSame
  <2>2. CASE g # f
    <3>1. g \cap f = {}
      BY <2>2, Apart
    <3>2. g \cap new = g \cap control
      BY <1>4, <3>1
    <3>3. QED
      BY <1>2, <1>3, <2>2, <3>2, LowSame
  <2>3. QED
    BY <2>1, <2>2
<1>7. ghost = [g \in Fields |-> ghost[g]]
  BY <1>3
<1>8. QED
  BY <1>1, <1>6, <1>7, Disturbs

LEMMA ModifyKeeps ==
  ASSUME RegistersInv, NEW f \in Fields, NEW g \in Fields,
         NEW value \in SUBSET Registers!Bits, NEW other \in SUBSET Registers!Bits,
         Registers!modify(f, value, g, other)
  PROVE  RegistersInv'
<1> DEFINE E == Registers!Encoded(f, value)
           F == Registers!Encoded(g, other)
           new == (control \ (f \cup g)) \cup (E \cup F)
           ghost == [fields EXCEPT ![f] = Registers!Kept(f, value),
                                   ![g] = Registers!Kept(g, other)]
<1>1. /\ f \cap g = {}
      /\ control' = new /\ fields' = ghost
      /\ UNCHANGED <<status, writeOne, raised>>
  BY DEF Registers!modify
<1>2. \A h \in Fields : fields[h] = Registers!Low(h, control)
  BY DEF RegistersInv, InField
<1>3. DOMAIN fields = Fields
  BY DEF RegistersInv
<1>4. /\ E \subseteq f /\ Registers!Low(f, E) = Registers!Kept(f, value)
      /\ F \subseteq g /\ Registers!Low(g, F) = Registers!Kept(g, other)
  BY EncodedIn
<1> HIDE DEF E, F
<1>5. f \cap new = f \cap E /\ g \cap new = g \cap F
  BY <1>1, <1>4
<1>6. f # g
  BY <1>1, FieldIsInterval
<1>7. ASSUME NEW h \in Fields PROVE ghost[h] = Registers!Low(h, new)
  <2>1. CASE h = f
    BY <1>3, <1>4, <1>5, <1>6, <2>1, LowSame
  <2>2. CASE h = g
    BY <1>3, <1>4, <1>5, <1>6, <2>2, LowSame
  <2>3. CASE h # f /\ h # g
    <3>1. h \cap f = {} /\ h \cap g = {}
      BY <2>3, Apart
    <3>2. h \cap new = h \cap control
      BY <1>4, <3>1
    <3>3. QED
      BY <1>2, <1>3, <2>3, <3>2, LowSame
  <2>4. QED
    BY <2>1, <2>2, <2>3
<1>8. ghost = [h \in Fields |-> ghost[h]]
  BY <1>3
<1>9. QED
  BY <1>1, <1>7, <1>8, Disturbs

LEMMA MaskKeeps ==
  ASSUME RegistersInv, NEW mask \in Registers!Masks,
         Registers!set(mask) \/ Registers!clear(mask) \/ Registers!toggle(mask)
  PROVE  RegistersInv'
<1> DEFINE L(f) == Registers!Low(f, mask)
<1>1. \A f \in Fields : fields[f] = Registers!Low(f, control)
  BY DEF RegistersInv, InField
<1>2. CASE Registers!set(mask)
  <2> DEFINE new == control \cup mask
             ghost == [f \in Fields |-> fields[f] \cup L(f)]
  <2>1. control' = new /\ fields' = ghost /\ UNCHANGED <<status, writeOne, raised>>
    BY <1>2 DEF Registers!set
  <2>2. ASSUME NEW f \in Fields PROVE ghost[f] = Registers!Low(f, new)
    <3>1. fields[f] = Registers!Low(f, control)
      BY <1>1
    <3>2. ghost[f] = Registers!Low(f, control) \cup L(f)
      BY <3>1
    <3>3. Registers!Low(f, new) = Registers!Low(f, control) \cup L(f)
      BY LowUnion
    <3>4. QED
      BY <3>2, <3>3, Zenon
  <2>3. ghost = [f \in Fields |-> ghost[f]]
    OBVIOUS
  <2> HIDE DEF new, ghost
  <2>4. QED
    BY <2>1, <2>2, <2>3, Disturbs
<1>3. CASE Registers!clear(mask)
  <2> DEFINE new == control \ mask
             ghost == [f \in Fields |-> fields[f] \ L(f)]
  <2>1. control' = new /\ fields' = ghost /\ UNCHANGED <<status, writeOne, raised>>
    BY <1>3 DEF Registers!clear
  <2>2. ASSUME NEW f \in Fields PROVE ghost[f] = Registers!Low(f, new)
    <3>1. fields[f] = Registers!Low(f, control)
      BY <1>1
    <3>2. ghost[f] = Registers!Low(f, control) \ L(f)
      BY <3>1
    <3>3. Registers!Low(f, new) = Registers!Low(f, control) \ L(f)
      BY LowMinus
    <3>4. QED
      BY <3>2, <3>3, Zenon
  <2>3. ghost = [f \in Fields |-> ghost[f]]
    OBVIOUS
  <2> HIDE DEF new, ghost
  <2>4. QED
    BY <2>1, <2>2, <2>3, Disturbs
<1>4. CASE Registers!toggle(mask)
  <2> DEFINE new == Registers!Toggled(control, mask)
             ghost == [f \in Fields |-> Registers!Toggled(fields[f], L(f))]
  <2>1. control' = new /\ fields' = ghost /\ UNCHANGED <<status, writeOne, raised>>
    BY <1>4 DEF Registers!toggle
  <2>2. ASSUME NEW f \in Fields PROVE ghost[f] = Registers!Low(f, new)
    <3>1. fields[f] = Registers!Low(f, control)
      BY <1>1
    <3>2. ghost[f] = Registers!Toggled(Registers!Low(f, control), L(f))
      BY <3>1
    <3>3. Registers!Low(f, new) = Registers!Toggled(Registers!Low(f, control), L(f))
      BY LowToggled
    <3>4. QED
      BY <3>2, <3>3, Zenon
  <2>3. ghost = [f \in Fields |-> ghost[f]]
    OBVIOUS
  <2> HIDE DEF new, ghost
  <2>4. QED
    BY <2>1, <2>2, <2>3, Disturbs
<1>5. QED
  BY <1>2, <1>3, <1>4

LEMMA FlagsKeep ==
  ASSUME RegistersInv, NEW mask \in Registers!Masks, NEW flag \in Registers!Bits,
         \/ Registers!clear_w1(mask) \/ Registers!clear_w0(mask) \/ Registers!Raise(flag)
  PROVE  RegistersInv'
<1>1. fields' = fields /\ control' = control /\ writeOne' = writeOne
  BY DEF Registers!clear_w1, Registers!clear_w0, Registers!Raise
<1>2. status \subseteq Registers!Bits /\ status = raised
  BY DEF RegistersInv
<1>3. status' = raised' /\ status' \subseteq Registers!Bits
  BY <1>2, Zenon DEF Registers!clear_w1, Registers!clear_w0, Registers!Raise, Registers!Written
<1>4. fields' = [f \in Fields |-> InField(f)']
  BY <1>1 DEF RegistersInv, InField, Registers!Low, Lo, Registers!countr_zero
<1>5. QED
  BY <1>1, <1>3, <1>4 DEF RegistersInv, Registers!Bits

LEMMA RegistersInductive ==
  RegistersInv /\ [Registers!Next]_(Registers!registerVars) => RegistersInv'
<1> SUFFICES ASSUME RegistersInv, [Registers!Next]_(Registers!registerVars)
             PROVE  RegistersInv'
  OBVIOUS
<1>1. ASSUME NEW f \in Fields, NEW value \in SUBSET Registers!Bits, Registers!write(f, value)
      PROVE  RegistersInv'
  BY <1>1, WriteKeeps
<1>2. ASSUME NEW f \in Fields, NEW g \in Fields, NEW value \in SUBSET Registers!Bits,
             NEW other \in SUBSET Registers!Bits, Registers!modify(f, value, g, other)
      PROVE  RegistersInv'
  BY <1>2, ModifyKeeps
<1>3. ASSUME NEW mask \in Registers!Masks,
             \/ \E cond \in BOOLEAN : Registers!set_or_clear(mask, cond)
             \/ Registers!toggle(mask)
      PROVE  RegistersInv'
  BY <1>3, MaskKeeps DEF Registers!set_or_clear
<1>4. ASSUME NEW mask \in Registers!Masks, Registers!clear_w1(mask) \/ Registers!clear_w0(mask)
      PROVE  RegistersInv'
  <2>1. PICK flag \in Registers!Bits : TRUE
    BY DEF Registers!Masks
  <2>2. QED
    BY <1>4, FlagsKeep
<1>5. ASSUME NEW flag \in Registers!Bits, Registers!Raise(flag) PROVE RegistersInv'
  <2>1. {flag} \in Registers!Masks
    BY DEF Registers!Masks
  <2>2. QED
    BY <1>5, <2>1, FlagsKeep
<1>6. CASE UNCHANGED Registers!registerVars
  BY <1>6 DEF Registers!registerVars, RegistersInv, InField, Registers!Low, Lo,
              Registers!countr_zero, Registers!Bits
<1>7. QED
  BY <1>1, <1>2, <1>3, <1>4, <1>5, <1>6, Zenon DEF Registers!Next

\* A field reads as the value it was given, cut to its width, and the flags are those
\* raised and not cleared (write, modify, set, clear, toggle, clear_w1, clear_w0).
THEOREM RegistersHold == Registers!Spec => []FieldsAndFlagsKept
<1>1. Registers!Init => RegistersInv
  BY DEF Registers!Init, RegistersInv, InField, Registers!Low
<1>2. RegistersInv => FieldsAndFlagsKept
  <2> SUFFICES ASSUME RegistersInv PROVE FieldsAndFlagsKept
    OBVIOUS
  <2>1. ASSUME NEW f \in Fields
        PROVE  /\ Registers!is_contiguous_mask(f)
               /\ Registers!read(control, f) = fields[f]
               /\ Registers!test_any(control, f) <=> fields[f] # {}
               /\ Registers!test_all(control, f)
                    <=> Registers!Cardinality(fields[f]) = Registers!Cardinality(f)
    <3> DEFINE n == Cardinality(f)
    <3>1. /\ Lo(f) \in Nat /\ n \in Nat \ {0} /\ f = Lo(f) .. Lo(f) + n - 1
          /\ \A b \in f : b \in Int /\ b >= Lo(f)
      BY FieldIsInterval
    <3>2. fields[f] = Registers!Low(f, control)
      BY DEF RegistersInv, InField
    <3>3. \A mask : Registers!ShiftRight(f \cap mask, Lo(f)) = Registers!Low(f, mask)
      BY <3>1 DEF Registers!ShiftRight, Registers!Low, Lo
    <3>4. Registers!is_contiguous_mask(f)
      <4>1. Registers!ShiftRight(f, Lo(f)) = 0 .. n - 1
        <5>1. Registers!ShiftRight(f, Lo(f)) = {b - Lo(f) : b \in f}
          BY <3>1 DEF Registers!ShiftRight
        <5>2. \A b \in f : b - Lo(f) \in 0 .. n - 1
          BY <3>1
        <5>3. \A b \in 0 .. n - 1 : b + Lo(f) \in f /\ b = (b + Lo(f)) - Lo(f)
          BY <3>1
        <5> HIDE DEF n
        <5>4. QED
          BY <5>1, <5>2, <5>3
      <4>2. Cardinality(0 .. n - 1) = n
        BY <3>1, FS_Interval
      <4>3. QED
        BY <4>1, <4>2, SameCount DEF Registers!is_contiguous_mask, Lo
    <3>5. Registers!read(control, f) = fields[f]
      BY <3>2, <3>3 DEF Registers!read, Lo
    <3>6. Registers!test_any(control, f) <=> fields[f] # {}
      BY <3>2 DEF Registers!test_any, Registers!Low
    <3>7. fields[f] \in SUBSET (0 .. n - 1)
      BY <3>2, LowInts
    <3>8. fields[f] = 0 .. n - 1 <=> f \subseteq control
      <4>1. \A b \in Int : b \in fields[f] <=> b + Lo(f) \in f \cap control
        BY <3>2, LowIn
      <4>2. \A c \in f : c - Lo(f) \in 0 .. n - 1 /\ (c - Lo(f)) + Lo(f) = c
        BY <3>1
      <4>3. \A b \in 0 .. n - 1 : b \in Int /\ b + Lo(f) \in f
        BY <3>1
      <4> HIDE DEF n
      <4>4. ASSUME fields[f] = 0 .. n - 1, NEW c \in f PROVE c \in control
        <5>1. c - Lo(f) \in fields[f] /\ c - Lo(f) \in Int
          BY <4>2, <4>3, <4>4
        <5>2. (c - Lo(f)) + Lo(f) \in f \cap control
          BY <4>1, <5>1
        <5>3. QED
          BY <4>2, <5>2
      <4>5. ASSUME f \subseteq control, NEW b \in 0 .. n - 1 PROVE b \in fields[f]
        BY <4>1, <4>3, <4>5
      <4>6. QED
        BY <3>7, <4>4, <4>5
    <3>9. Cardinality(fields[f]) = n <=> fields[f] = 0 .. n - 1
      <4>1. IsFiniteSet(0 .. n - 1) /\ Cardinality(0 .. n - 1) = n
        BY <3>1, FS_Interval
      <4> HIDE DEF n
      <4>2. Cardinality(0 .. n - 1) = Cardinality(fields[f]) => 0 .. n - 1 = fields[f]
        BY <3>7, <4>1, FS_Subset
      <4>3. QED
        BY <4>1, <4>2
    <3>10. Registers!test_all(control, f)
             <=> Registers!Cardinality(fields[f]) = Registers!Cardinality(f)
      BY <3>8, <3>9, SameCount DEF Registers!test_all
    <3>11. QED
      BY <3>4, <3>5, <3>6, <3>10
  <2>2. status = raised
    BY DEF RegistersInv
  <2>3. QED
    BY <2>1, <2>2 DEF FieldsAndFlagsKept, Registers!FieldsAndFlagsKept
<1>3. QED
  BY <1>1, <1>2, RegistersInductive, PTL DEF Registers!Spec
=============================================================================
