------------------------------- MODULE RawNode -------------------------------
(***************************************************************************)
(* emb::can::raw::node: frames that the bus interrupt queues are given to  *)
(* the first slot that they match; slots that stay silent time out;        *)
(* periodic frames are sent.                                               *)
(*                                                                         *)
(* Times are relative: gap is how long ago now_ was sampled, and the ages  *)
(* of the slots are how long before that.  now_ is the zero of the clock   *)
(* until the first run.                                                    *)
(***************************************************************************)
EXTENDS Integers, Sequences, FiniteSetsExt

CONSTANTS
  Ids,        \* the identifiers of frames
  RxSlots,    \* the slots in the order they are added: [accepts, timeout]
  TxPeriods,  \* the periods of the periodic frames
  Capacity,   \* rx_queue_capacity
  MaxBoot,    \* bound: from the zero of the clock to the first run
  MaxGap,     \* bound: from the begin of a run to the begin of the next
  MaxQueued   \* bound: the frames that are queued while one run lasts

Rx == DOMAIN RxSlots
Tx == DOMAIN TxPeriods

VARIABLES
  ran,       \* whether run was ever called
  added,     \* how many slots rx_ has
  addedTx,   \* how many slots tx_ has
  gap,       \* how long ago now_ was sampled
  lastRx,    \* by how much last_rx of each slot is before now_
  timedOut,  \* timed_out of each slot
  lastTx,    \* by how much last_tx of each periodic frame is before now_
  rxq,       \* rx_queue_
  pc,        \* where run is
  at,        \* the slot it is at
  queued,    \* the frames that were queued since it began
  heard,     \* ghost: how long ago a frame for each slot was queued, or the slot
             \* added; the zero of the clock, if it was added before the first run
  dropped    \* ghost: whether frames for it were dropped since the last queued one

runVars == <<pc, at>>
queueVars == <<rxq, queued, heard, dropped>>
slotVars == <<lastRx, timedOut, lastTx>>
vars == <<ran, added, addedTx, gap, slotVars, runVars, queueVars>>

\* Ages are told apart up to the longest time they are compared to.
MaxAge == Max({RxSlots[s].timeout : s \in Rx} \cup {TxPeriods[s] : s \in Tx} \cup {1})
Aged(age, n) == IF age + n < MaxAge THEN age + n ELSE MaxAge

\* The slot a frame is given to, or 0: the first that matches.
Matching(id) == {s \in 1 .. added : id \in RxSlots[s].accepts}
Owner(id) == IF Matching(id) = {} THEN 0 ELSE Min(Matching(id))

Init ==
  /\ ran = FALSE
  /\ added = 0 /\ addedTx = 0
  /\ gap = 0
  /\ lastRx = [s \in Rx |-> 0] /\ lastTx = [s \in Tx |-> 0]
  /\ timedOut = [s \in Rx |-> FALSE]
  /\ rxq = <<>> /\ queued = 0
  /\ pc = "idle" /\ at = 0
  /\ heard = [s \in Rx |-> 0] /\ dropped = [s \in Rx |-> FALSE]

Tick ==
  /\ gap < IF ran THEN MaxGap ELSE MaxBoot
  /\ gap' = gap + 1
  /\ heard' = [s \in Rx |-> Aged(heard[s], 1)]
  /\ UNCHANGED <<ran, added, addedTx, slotVars, runVars, rxq, queued, dropped>>

\* enqueue_rx, in the bus interrupt: a frame that finds the queue full is dropped.
Enqueue(id) ==
  /\ queued < MaxQueued
  /\ queued' = queued + 1
  /\ IF Len(rxq) < Capacity
       THEN /\ rxq' = Append(rxq, id)
            /\ heard' = [s \in Rx |-> IF s = Owner(id) THEN 0 ELSE heard[s]]
            /\ dropped' = [s \in Rx |-> s # Owner(id) /\ dropped[s]]
       ELSE /\ dropped' = [s \in Rx |-> s = Owner(id) \/ dropped[s]]
            /\ UNCHANGED <<rxq, heard>>
  /\ UNCHANGED <<ran, added, addedTx, gap, slotVars, runVars>>

AddRx ==
  /\ pc = "idle"
  /\ added + 1 \in Rx
  /\ added' = added + 1
  /\ lastRx' = [lastRx EXCEPT ![added + 1] = 0]
  /\ heard' = [heard EXCEPT ![added + 1] = IF ran THEN 0 ELSE Aged(gap, 0)]
  /\ dropped' = [dropped EXCEPT ![added + 1] = FALSE]
  /\ UNCHANGED <<ran, addedTx, gap, timedOut, lastTx, runVars, rxq, queued>>

AddPeriodicTx ==
  /\ pc = "idle"
  /\ addedTx + 1 \in Tx
  /\ addedTx' = addedTx + 1
  /\ lastTx' = [lastTx EXCEPT ![addedTx + 1] = 0]
  /\ UNCHANGED <<ran, added, gap, lastRx, timedOut, runVars, queueVars>>

-----------------------------------------------------------------------------
(* run.                                                                    *)

Begin ==
  /\ pc = "idle"
  /\ ran' = TRUE
  /\ gap' = 0
  /\ lastRx' = [s \in Rx |-> IF s <= added THEN Aged(lastRx[s], gap) ELSE 0]
  /\ lastTx' = [s \in Tx |-> IF s <= addedTx THEN Aged(lastTx[s], gap) ELSE 0]
  /\ pc' = "dispatch"
  /\ queued' = 0
  /\ UNCHANGED <<added, addedTx, timedOut, at, rxq, heard, dropped>>

\* Faulty DispatchSilent: the frame does not count as a sign of life.
DispatchSilent ==
  /\ pc = "dispatch" /\ rxq # <<>>
  /\ rxq' = Tail(rxq)
  /\ timedOut' = [s \in Rx |-> s # Owner(Head(rxq)) /\ timedOut[s]]
  /\ UNCHANGED <<ran, added, addedTx, gap, lastRx, lastTx, runVars, queued, heard, dropped>>

\* dispatch_rx, of the frame that try_pop returns.
Dispatch ==
  /\ pc = "dispatch" /\ rxq # <<>>
  /\ rxq' = Tail(rxq)
  /\ lastRx' = [s \in Rx |-> IF s = Owner(Head(rxq)) THEN 0 ELSE lastRx[s]]
  /\ timedOut' = [s \in Rx |-> s # Owner(Head(rxq)) /\ timedOut[s]]
  /\ UNCHANGED <<ran, added, addedTx, gap, lastTx, runVars, queued, heard, dropped>>

Dispatched ==
  /\ pc = "dispatch" /\ rxq = <<>>
  /\ pc' = "timeouts" /\ at' = 1
  /\ UNCHANGED <<ran, added, addedTx, gap, slotVars, queueVars>>

\* Faulty CheckStops: the first slot without a timeout, or past it, ends the loop.
CheckStops ==
  /\ pc = "timeouts" /\ at <= added
  /\ IF RxSlots[at].timeout = 0 \/ timedOut[at]
       THEN at' = added + 1 /\ UNCHANGED timedOut
       ELSE /\ at' = at + 1
            /\ timedOut' = [timedOut EXCEPT ![at] = lastRx[at] >= RxSlots[at].timeout]
  /\ UNCHANGED <<ran, added, addedTx, gap, lastRx, lastTx, pc, queueVars>>

\* A slot that is not yet timed out is, and its on_timeout called, when it has been
\* silent for its timeout.
CheckTimeout ==
  /\ pc = "timeouts" /\ at <= added
  /\ at' = at + 1
  /\ timedOut' = [timedOut EXCEPT ![at] =
       @ \/ (RxSlots[at].timeout # 0 /\ lastRx[at] >= RxSlots[at].timeout)]
  /\ UNCHANGED <<ran, added, addedTx, gap, lastRx, lastTx, pc, queueVars>>

Checked ==
  /\ pc = "timeouts" /\ at = added + 1
  /\ pc' = "send" /\ at' = 1
  /\ UNCHANGED <<ran, added, addedTx, gap, slotVars, queueVars>>

\* A periodic frame that is due is sent; if the bus refuses it, in the next run.
Send ==
  /\ pc = "send" /\ at <= addedTx
  /\ at' = at + 1
  /\ \/ TxPeriods[at] # 0 /\ lastTx[at] >= TxPeriods[at] /\ lastTx' = [lastTx EXCEPT ![at] = 0]
     \/ UNCHANGED lastTx
  /\ UNCHANGED <<ran, added, addedTx, gap, lastRx, timedOut, pc, queueVars>>

Return ==
  /\ pc = "send" /\ at = addedTx + 1
  /\ pc' = "idle" /\ at' = 0
  /\ UNCHANGED <<ran, added, addedTx, gap, slotVars, queueVars>>

Run == Begin \/ Dispatch \/ Dispatched \/ CheckTimeout \/ Checked \/ Send \/ Return
Next == Tick \/ (\E id \in Ids : Enqueue(id)) \/ AddRx \/ AddPeriodicTx \/ Run

\* run is called again and again, and the clock runs.
Spec == Init /\ [][Next]_vars /\ WF_vars(Run) /\ WF_vars(Tick)

-----------------------------------------------------------------------------
TypeOK ==
  /\ ran \in BOOLEAN /\ added \in 0 .. Len(RxSlots) /\ addedTx \in 0 .. Len(TxPeriods)
  /\ gap \in 0 .. Max({MaxBoot, MaxGap})
  /\ lastRx \in [Rx -> 0 .. MaxAge] /\ lastTx \in [Tx -> 0 .. MaxAge]
  /\ timedOut \in [Rx -> BOOLEAN]
  /\ rxq \in Seq(Ids) /\ Len(rxq) <= Capacity /\ queued \in 0 .. MaxQueued
  /\ pc \in {"idle", "dispatch", "timeouts", "send"}
  /\ heard \in [Rx -> 0 .. MaxAge] /\ dropped \in [Rx -> BOOLEAN]

\* A frame that the slot is to be given waits in the queue.
Waiting(s) == \E i \in DOMAIN rxq : Owner(rxq[i]) = s

\* What the node knows of each slot: unless a frame for it waits or was dropped, it
\* has been silent at least as long as the node believes, but for the time one run
\* takes.
SilenceTracked ==
  \A s \in 1 .. added :
    Waiting(s) \/ dropped[s] \/ Aged(heard[s], MaxGap) >= lastRx[s]

\* A slot times out only when no frame that it is given was queued for its timeout,
\* but for the time of one run, unless the queue was full; a slot that was added before
\* the first run, for its timeout from the zero of the clock (run, add_rx).
NoFalseTimeout ==
  /\ [](TypeOK /\ SilenceTracked)
  /\ [][\A s \in Rx : timedOut'[s] /\ ~timedOut[s] =>
       Waiting(s) \/ dropped[s] \/ heard[s] + MaxGap >= RxSlots[s].timeout]_vars

\* A slot that is no longer given frames times out, and stays so (run).
SilenceReported ==
  \A s \in Rx : RxSlots[s].timeout # 0 =>
    \/ <>[](s > added)
    \/ []<>Waiting(s)
    \/ <>[]timedOut[s]
=============================================================================
