--------------------------- MODULE CanopenServer ---------------------------
(***************************************************************************)
(* emb::can::canopen::server and its services: NMT slave, SDO server, RPDO *)
(* consumer, TPDO, heartbeat and SYNC producers, heartbeat consumer and    *)
(* EMCY producer.                                                          *)
(*                                                                         *)
(* Two actors.  The bus interrupt calls enqueue_rx between any two steps   *)
(* of the thread.  The thread calls run() again and again, and the         *)
(* configuration functions between runs or from a callback a step of run() *)
(* has called.  A loop over the slots of one service is one step: the      *)
(* interrupt touches nothing but the receive queue, which IsrSpscQueue     *)
(* shows to be the bounded FIFO it is here.                                *)
(*                                                                         *)
(* Time.  The code only compares differences: (now - last) >= period.  So  *)
(* a time is kept as its age, how far the clock has moved past it, and     *)
(* lag is the age of the now that run() sampled at its start and compares  *)
(* with to its end, while dispatch_rx samples a fresh one.  Ages stop at   *)
(* MaxAge, where every comparison has been decided, which keeps the model  *)
(* finite without a last instant.                                          *)
(***************************************************************************)
EXTENDS Naturals, FiniteSets, Sequences, SequencesExt

CONSTANTS
  Rpdos,          \* the RPDO slots
  Tpdos,          \* the TPDO slots
  Remotes,        \* the nodes whose heartbeat may be watched
  Heartbeat,      \* the heartbeat producer's timer
  Sync,           \* the SYNC producer's timer
  WatchCapacity,  \* hb_consumer::capacity
  RxCapacity,     \* Opt.rx_queue_capacity
  TsdoCapacity,   \* tsdo_queue_capacity
  Periods,        \* Periods[t]: the periods or timeouts t may be given, 0 = off
  MaxPeriod,      \* the longest of them
  MaxLag,         \* bound: one run() takes at most this long
  Burst,          \* bound: the bus delivers at most this many frames per tick
  Arrivals        \* the frames the bus delivers

Timers == Rpdos \cup Tpdos \cup Remotes \cup {Heartbeat, Sync}
Supervised == Rpdos \cup Remotes

\* Faulty CommandState: the codes 0x02 and 0x80 are mixed up.
CommandStateSwapped ==
  [start |-> "operational", stop |-> "pre_operational",
   enter_pre_operational |-> "stopped",
   reset_node |-> "pre_operational", reset_communication |-> "pre_operational"]

\* nmt_slave::decode and handle_nmt_command: the state each command leads to.
CommandState ==
  [start |-> "operational", stop |-> "stopped",
   enter_pre_operational |-> "pre_operational",
   reset_node |-> "pre_operational", reset_communication |-> "pre_operational"]

Commands == DOMAIN CommandState

\* What a frame is to dispatch_rx: a decoded command, a request the SDO server
\* answers, an abort it does not, the PDO of a slot, the heartbeat of a node,
\* or something nobody takes (a command for another node included).
Frames == Commands \cup {"sdo", "sdo_abort", "other"} \cup Rpdos \cup Remotes

ASSUME ServerAssumption ==
  /\ RxCapacity \in Nat \ {0}
  /\ TsdoCapacity \in Nat \ {0}
  /\ WatchCapacity \in Nat
  /\ MaxPeriod \in Nat
  /\ MaxLag \in Nat
  /\ Burst \in Nat
  /\ Periods \in [Timers -> SUBSET (0 .. MaxPeriod)]
  /\ Arrivals \subseteq Frames
  \* different parts of the server keep different timers
  /\ Heartbeat \notin Rpdos \cup Tpdos \cup Remotes
  /\ Sync \notin Rpdos \cup Tpdos \cup Remotes \cup {Heartbeat}
  /\ Rpdos \cap Tpdos = {} /\ Rpdos \cap Remotes = {} /\ Tpdos \cap Remotes = {}
  \* different kinds of frames have different identifiers
  /\ (Commands \cup {"sdo", "sdo_abort", "other"}) \cap Supervised = {}

MaxAge == MaxPeriod + MaxLag
Ages == 0 .. MaxAge

VARIABLES
  nmt,      \* nmt_.state()
  rxq,      \* rx_queue_
  tsdo,     \* how many responses wait in tsdo_queue_
  active,   \* the timers that were set up: a bound RPDO or TPDO, a watch, ...
  period,   \* their period or timeout
  age,      \* the age of last_rx or last_tx
  expired,  \* timed_out of the RPDO slots, lost of the watches
  pc,       \* where run() is
  lag,      \* the age of run()'s now; 0 between runs
  burst,    \* frames delivered since the clock moved
  heard     \* ghost: the age of the latest reason a peer has to count as alive

timerVars == <<active, period, age, expired, heard>>
vars == <<nmt, rxq, tsdo, active, period, age, expired, pc, lag, burst, heard>>

\* The server after its constructor: the state it enters there, nothing set up.
Init ==
  /\ nmt = "pre_operational"
  /\ rxq = << >>
  /\ tsdo = 0
  /\ active = {Heartbeat, Sync}
  /\ period = [t \in Timers |-> 0]
  /\ age = [t \in Timers |-> 0]
  /\ expired = {}
  /\ pc = "idle"
  /\ lag = 0
  /\ burst = 0
  /\ heard = [t \in Supervised |-> 0]

-----------------------------------------------------------------------------
(* The clock and the bus interrupt.                                        *)

Older(a) == IF a < MaxAge THEN a + 1 ELSE a

\* A timer that is off has no age: set_period and setup restart it.
ClockTick ==
  /\ pc # "idle" => lag < MaxLag
  /\ lag' = IF pc = "idle" THEN 0 ELSE lag + 1
  /\ age' = [t \in Timers |-> IF period[t] = 0 THEN 0 ELSE Older(age[t])]
  /\ heard' = [t \in Supervised |-> IF period[t] = 0 THEN 0 ELSE Older(heard[t])]
  /\ burst' = 0
  /\ UNCHANGED <<nmt, rxq, tsdo, active, period, expired, pc>>

\* enqueue_rx: the newest frame is dropped when the queue is full.
EnqueueRx(f) ==
  /\ burst < Burst
  /\ burst' = burst + 1
  /\ rxq' = IF Len(rxq) < RxCapacity THEN Append(rxq, f) ELSE rxq
  /\ UNCHANGED <<nmt, tsdo, timerVars, pc, lag>>

-----------------------------------------------------------------------------
(* run(): one sample of the clock, then every service in turn.             *)

\* The sample.  A peer whose frame waits in the queue by now counts as heard.
RunBegin ==
  /\ pc = "idle"
  /\ pc' = "drain"
  /\ lag' = 0
  /\ heard' = [t \in Supervised |-> IF t \in ToSet(rxq) THEN 0 ELSE heard[t]]
  /\ UNCHANGED <<nmt, rxq, tsdo, active, period, age, expired, burst>>

\* Faulty ApplyNmtState: the RPDO timers run on while the node is not operational.
ApplyNmtStateNoReset(s) ==
  /\ nmt' = s
  /\ heard' = [t \in Supervised |->
                 IF s = "operational" /\ s # nmt /\ t \in Rpdos THEN 0 ELSE heard[t]]
  /\ UNCHANGED <<age, expired>>

\* apply_nmt_state: nothing when already there; entering operational restarts
\* the supervision of every RPDO slot.
ApplyNmtState(s) ==
  /\ nmt' = s
  /\ IF s = "operational" /\ s # nmt
       THEN /\ age' = [t \in Timers |-> IF t \in Rpdos THEN 0 ELSE age[t]]
            /\ heard' = [t \in Supervised |-> IF t \in Rpdos THEN 0 ELSE heard[t]]
            /\ expired' = expired \ Rpdos
       ELSE UNCHANGED <<age, heard, expired>>

TakeFrame ==
  /\ pc = "drain"
  /\ rxq # << >>
  /\ rxq' = Tail(rxq)
  /\ UNCHANGED <<active, period, pc, lag, burst>>

DispatchNmt ==
  /\ TakeFrame
  /\ Head(rxq) \in Commands
  /\ ApplyNmtState(CommandState[Head(rxq)])
  /\ UNCHANGED tsdo

\* sdo_.try_handle, served in every NMT state: the request is carried out, and
\* its response is dropped when the response queue is full.
DispatchSdo ==
  /\ TakeFrame
  /\ Head(rxq) = "sdo"
  /\ tsdo' = IF tsdo < TsdoCapacity THEN tsdo + 1 ELSE tsdo
  /\ UNCHANGED <<nmt, age, expired, heard>>

\* rpdo_.try_handle: outside operational the frame is swallowed.
DispatchRpdo ==
  /\ TakeFrame
  /\ Head(rxq) \in Rpdos
  /\ IF Head(rxq) \in active /\ nmt = "operational"
       THEN /\ age' = [age EXCEPT ![Head(rxq)] = 0]
            /\ expired' = expired \ {Head(rxq)}
       ELSE UNCHANGED <<age, expired>>
  /\ UNCHANGED <<nmt, tsdo, heard>>

\* hb_consumer_.try_handle, in every NMT state.
DispatchHeartbeat ==
  /\ TakeFrame
  /\ Head(rxq) \in Remotes
  /\ IF Head(rxq) \in active
       THEN /\ age' = [age EXCEPT ![Head(rxq)] = 0]
            /\ expired' = expired \ {Head(rxq)}
       ELSE UNCHANGED <<age, expired>>
  /\ UNCHANGED <<nmt, tsdo, heard>>

\* An SDO abort, or a frame that matches nothing.
DispatchIgnored ==
  /\ TakeFrame
  /\ Head(rxq) \in {"sdo_abort", "other"}
  /\ UNCHANGED <<nmt, tsdo, age, expired, heard>>

\* try_pop returns nullopt.
DrainDone ==
  /\ pc = "drain"
  /\ rxq = << >>
  /\ pc' = "rpdo"
  /\ UNCHANGED <<nmt, rxq, tsdo, timerVars, lag, burst>>

\* (now - last) >= period, for a timer that is on.
Due(t) ==
  /\ t \in active
  /\ period[t] # 0
  /\ age[t] >= period[t] + lag

\* rpdo_.tick.  Each new timeout calls on_timeout and sends an EMCY, whose
\* result is ignored and which leaves nothing behind in the server.
TickRpdo ==
  /\ pc = "rpdo"
  /\ expired' = IF nmt = "operational"
                  THEN expired \cup {t \in Rpdos : Due(t)}
                  ELSE expired
  /\ pc' = "tpdo"
  /\ UNCHANGED <<nmt, rxq, tsdo, active, period, age, heard, lag, burst>>

\* The bus accepts the frames of the timers in ok; the others stay due.
SendDue(service, ok) ==
  /\ ok \subseteq {t \in service : Due(t)}
  /\ age' = [t \in Timers |-> IF t \in ok THEN lag ELSE age[t]]

\* Faulty TickTpdo: PDOs are sent in every NMT state.
TickTpdoAlways ==
  /\ pc = "tpdo"
  /\ \E ok \in SUBSET Tpdos : SendDue(Tpdos, ok)
  /\ pc' = "sdo"
  /\ UNCHANGED <<nmt, rxq, tsdo, active, period, expired, heard, lag, burst>>

TickTpdo ==
  /\ pc = "tpdo"
  /\ IF nmt = "operational"
       THEN \E ok \in SUBSET Tpdos : SendDue(Tpdos, ok)
       ELSE UNCHANGED age
  /\ pc' = "sdo"
  /\ UNCHANGED <<nmt, rxq, tsdo, active, period, expired, heard, lag, burst>>

\* sdo_.drain: responses leave until the first one the bus refuses.
DrainSdo ==
  /\ pc = "sdo"
  /\ tsdo' \in 0 .. tsdo
  /\ pc' = "heartbeat"
  /\ UNCHANGED <<nmt, rxq, timerVars, lag, burst>>

\* Faulty TickHeartbeat: a stopped node falls silent.
TickHeartbeatGated(ok) ==
  /\ pc = "heartbeat"
  /\ IF nmt = "stopped" THEN UNCHANGED age ELSE SendDue({Heartbeat}, ok)
  /\ pc' = "sync"
  /\ UNCHANGED <<nmt, rxq, tsdo, active, period, expired, heard, lag, burst>>

\* hb_producer_.tick, in every NMT state.
TickHeartbeat(ok) ==
  /\ pc = "heartbeat"
  /\ SendDue({Heartbeat}, ok)
  /\ pc' = "sync"
  /\ UNCHANGED <<nmt, rxq, tsdo, active, period, expired, heard, lag, burst>>

TickSync(ok) ==
  /\ pc = "sync"
  /\ SendDue({Sync}, ok)
  /\ pc' = "watch"
  /\ UNCHANGED <<nmt, rxq, tsdo, active, period, expired, heard, lag, burst>>

\* Faulty TickWatch: a stopped node does not watch its peers.
TickWatchGated ==
  /\ pc = "watch"
  /\ expired' = IF nmt = "stopped" THEN expired ELSE expired \cup {t \in Remotes : Due(t)}
  /\ pc' = "idle"
  /\ lag' = 0
  /\ UNCHANGED <<nmt, rxq, tsdo, active, period, age, heard, burst>>

\* hb_consumer_.tick, in every NMT state.
TickWatch ==
  /\ pc = "watch"
  /\ expired' = expired \cup {t \in Remotes : Due(t)}
  /\ pc' = "idle"
  /\ lag' = 0
  /\ UNCHANGED <<nmt, rxq, tsdo, active, period, age, heard, burst>>

-----------------------------------------------------------------------------
(* The functions the application calls: between runs, or from a callback   *)
(* of the step of run() that led to pc.                                    *)

Callable == pc \in {"idle", "drain", "tpdo", "sdo"}

Start ==
  /\ Callable
  /\ ApplyNmtState("operational")
  /\ UNCHANGED <<rxq, tsdo, active, period, pc, lag, burst>>

Stop ==
  /\ Callable
  /\ ApplyNmtState("stopped")
  /\ UNCHANGED <<rxq, tsdo, active, period, pc, lag, burst>>

\* What every set-up function does: last = now, timed_out = false.
Restart(t, p) ==
  /\ active' = active \cup {t}
  /\ period' = [period EXCEPT ![t] = p]
  /\ age' = [age EXCEPT ![t] = 0]
  /\ heard' = [u \in Supervised |-> IF u = t THEN 0 ELSE heard[u]]
  /\ expired' = expired \ {t}
  /\ UNCHANGED <<nmt, rxq, tsdo, pc, lag, burst>>

SetupRpdo(t, p) == Callable /\ Restart(t, p)
SetupTpdo(t, p) == Callable /\ Restart(t, p)
SetHeartbeatPeriod(p) == Callable /\ Restart(Heartbeat, p)
SetSyncPeriod(p) == Callable /\ Restart(Sync, p)

\* A new watch needs a free place; one that exists is restarted.
WatchHeartbeat(t, p) ==
  /\ Callable
  /\ t \in active \/ Cardinality(active \cap Remotes) < WatchCapacity
  /\ Restart(t, p)

-----------------------------------------------------------------------------
RunStep ==
  \/ RunBegin
  \/ DispatchNmt
  \/ DispatchSdo
  \/ DispatchRpdo
  \/ DispatchHeartbeat
  \/ DispatchIgnored
  \/ DrainDone
  \/ TickRpdo
  \/ TickTpdo
  \/ DrainSdo
  \/ \E ok \in SUBSET {Heartbeat} : TickHeartbeat(ok)
  \/ \E ok \in SUBSET {Sync} : TickSync(ok)
  \/ TickWatch

Call ==
  \/ Start
  \/ Stop
  \/ \E t \in Rpdos : \E p \in Periods[t] : SetupRpdo(t, p)
  \/ \E t \in Tpdos : \E p \in Periods[t] : SetupTpdo(t, p)
  \/ \E p \in Periods[Heartbeat] : SetHeartbeatPeriod(p)
  \/ \E p \in Periods[Sync] : SetSyncPeriod(p)
  \/ \E t \in Remotes : \E p \in Periods[t] : WatchHeartbeat(t, p)

Next ==
  \/ ClockTick
  \/ \E f \in Arrivals : EnqueueRx(f)
  \/ RunStep
  \/ Call

\* The main loop calls run() forever and time passes.  A bus that is asked
\* again and again takes a heartbeat in the end.
Fairness ==
  /\ WF_vars(RunStep)
  /\ WF_vars(ClockTick)
  /\ SF_vars(TickHeartbeat({Heartbeat}))

Spec == Init /\ [][Next]_vars /\ Fairness

-----------------------------------------------------------------------------
TypeOK ==
  /\ nmt \in {"stopped", "operational", "pre_operational"}
  /\ rxq \in Seq(Frames) /\ Len(rxq) <= RxCapacity
  /\ tsdo \in 0 .. TsdoCapacity
  /\ active \in SUBSET Timers
  /\ period \in [Timers -> 0 .. MaxPeriod]
  /\ age \in [Timers -> Ages]
  /\ expired \in SUBSET Supervised
  /\ pc \in {"idle", "drain", "rpdo", "tpdo", "sdo", "heartbeat", "sync", "watch"}
  /\ lag \in 0 .. MaxLag
  /\ burst \in 0 .. Burst
  /\ heard \in [Supervised -> Ages]

\* The code's time stamp of a peer is never older than the latest sign of life
\* it should have seen, except while that sign still waits in the queue that
\* run() is draining.  For an RPDO slot, entering operational is such a sign.
EvidenceCounted ==
  \A t \in Supervised \cap active :
    (t \in Rpdos => nmt = "operational")
      => \/ age[t] <= heard[t]
         \/ pc = "drain" /\ t \in ToSet(rxq)

\* A peer is declared lost (RPDO timeout, heartbeat lost) only when it has been
\* silent for its whole timeout at the instant run() sampled: never because its
\* frame was waiting in the queue, because the node has just become
\* operational, or because time has passed during the run.
NoFalseTimeout ==
  /\ [](TypeOK /\ EvidenceCounted)
  /\ [][\A t \in expired' \ expired : heard[t] >= period[t] + lag]_vars

\* A PDO leaves the node only while it is operational: also when a callback or
\* a command changed the state earlier in the same run.
NoStrayPdo ==
  [][\A t \in Tpdos : pc = "tpdo" /\ pc' = "sdo" /\ age'[t] # age[t]
        => nmt = "operational"]_vars

\* A stop command that got into the receive queue stops the node, whatever is
\* queued around it.
StopObeyed == "stop" \in ToSet(rxq) ~> nmt = "stopped"

\* A peer that stays silent is declared lost.
Silent(t) ==
  /\ t \in active \ expired
  /\ period[t] # 0
  /\ age[t] = MaxAge
  /\ t \in Rpdos => nmt = "operational"

SilenceDetected == \A t \in Supervised : Silent(t) ~> ~Silent(t)

\* A heartbeat that is due is sent, in every NMT state.
HeartbeatKeepsGoing ==
  (period[Heartbeat] # 0 /\ age[Heartbeat] >= period[Heartbeat] + MaxLag)
    ~> (age[Heartbeat] < period[Heartbeat] + MaxLag \/ period[Heartbeat] = 0)
=============================================================================
