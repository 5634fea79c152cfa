------------------------------ MODULE CanProofs ------------------------------
(***************************************************************************)
(* Proofs about CanNodes.  Of the CANopen server: for any number of slots  *)
(* and watches, any periods, queues and frames, and a run that takes any   *)
(* time.  Of the SDO server: for any dictionary, variables and clients.    *)
(***************************************************************************)
EXTENDS CanNodes, ModArith, TLAPS

\* The invariant, which is inductive.
IInv == TypeOK /\ EvidenceCounted

-----------------------------------------------------------------------------
(* The receive queue as a set of frames.                                   *)

LEMMA Appended ==
  ASSUME NEW S, NEW q \in Seq(S), NEW f \in S
  PROVE  /\ Append(q, f) \in Seq(S) /\ Len(Append(q, f)) = Len(q) + 1
         /\ ToSet(q) \subseteq ToSet(Append(q, f))
BY DEF ToSet

LEMMA Taken ==
  ASSUME NEW S, NEW q \in Seq(S), q # << >>
  PROVE  /\ Head(q) \in S /\ Tail(q) \in Seq(S) /\ Len(Tail(q)) = Len(q) - 1
         /\ ToSet(q) \subseteq ToSet(Tail(q)) \cup {Head(q)}
<1>1. /\ Len(q) \in Nat \ {0} /\ Head(q) = q[1] /\ Head(q) \in S
      /\ Tail(q) \in Seq(S) /\ Len(Tail(q)) = Len(q) - 1
  OBVIOUS
<1>2. \A i \in 2 .. Len(q) : i - 1 \in 1 .. Len(Tail(q)) /\ q[i] = Tail(q)[i - 1]
  BY <1>1
<1>3. ASSUME NEW i \in DOMAIN q PROVE q[i] \in ToSet(Tail(q)) \cup {Head(q)}
  <2>1. CASE i = 1
    BY <1>1, <2>1
  <2>2. CASE i # 1
    <3>1. i \in 2 .. Len(q)
      BY <2>2
    <3>2. i - 1 \in DOMAIN Tail(q) /\ q[i] = Tail(q)[i - 1]
      BY <1>1, <1>2, <3>1
    <3>3. QED
      BY <3>2 DEF ToSet
  <2>3. QED
    BY <2>1, <2>2
<1>4. QED
  BY <1>1, <1>3 DEF ToSet

LEMMA NothingQueued == ToSet(<< >>) = {}
BY DEF ToSet

-----------------------------------------------------------------------------
(* The ages.                                                               *)

LEMMA Bounds == MaxPeriod \in Nat /\ MaxLag \in Nat /\ MaxAge \in Nat /\ 0 \in Ages
BY ServerAssumption DEF MaxAge, Ages

LEMMA OlderKeeps ==
  ASSUME NEW a \in Ages, NEW b \in Ages
  PROVE  Older(a) \in Ages /\ (a <= b => Older(a) <= Older(b))
BY Bounds DEF Older, Ages

\* What supervises a peer is kept by nothing else of the server.
LEMMA PartsApart ==
  /\ Supervised \cap Tpdos = {} /\ Heartbeat \notin Supervised /\ Sync \notin Supervised
  /\ Supervised \subseteq Timers
  /\ Rpdos \subseteq Supervised /\ Remotes \subseteq Supervised
  /\ Supervised \cap (Commands \cup {"sdo", "sdo_abort", "other"}) = {}
  /\ Rpdos \cap Remotes = {}
BY ServerAssumption DEF Supervised, Timers

-----------------------------------------------------------------------------
LEMMA Initially == Init => IInv
<1> SUFFICES ASSUME Init PROVE IInv
  OBVIOUS
<1>1. /\ 0 \in Ages /\ 0 \in 0 .. MaxPeriod /\ 0 \in 0 .. MaxLag /\ 0 \in 0 .. Burst
      /\ 0 \in 0 .. TsdoCapacity /\ 0 <= RxCapacity
  BY Bounds, ServerAssumption
<1>2. rxq \in Seq(Frames) /\ Len(rxq) <= RxCapacity
  BY <1>1 DEF Init
<1>3. {Heartbeat, Sync} \subseteq Timers
  BY DEF Timers
<1>4. period \in [Timers -> 0 .. MaxPeriod] /\ age \in [Timers -> Ages]
      /\ heard \in [Supervised -> Ages]
  BY <1>1 DEF Init
<1>5. TypeOK
  BY <1>1, <1>2, <1>3, <1>4 DEF Init, TypeOK
<1>6. EvidenceCounted
  BY PartsApart DEF Init, EvidenceCounted
<1>7. QED
  BY <1>5, <1>6 DEF IInv

\* A step that leaves ages, the evidence and the queue alone, and does not enter
\* operational or leave drain.
LEMMA QuietStep ==
  ASSUME EvidenceCounted, UNCHANGED <<nmt, rxq, active, age, heard>>,
         pc = "drain" => pc' = "drain"
  PROVE  EvidenceCounted'
BY DEF EvidenceCounted

LEMMA ClockTickKeeps == IInv /\ ClockTick => IInv'
<1> SUFFICES ASSUME IInv, ClockTick PROVE IInv'
  OBVIOUS
<1>1. /\ age \in [Timers -> Ages] /\ heard \in [Supervised -> Ages]
      /\ period \in [Timers -> 0 .. MaxPeriod] /\ lag \in 0 .. MaxLag
      /\ pc \in {"idle", "drain", "rpdo", "tpdo", "sdo", "heartbeat", "sync", "watch"}
  BY DEF IInv, TypeOK
<1>2. age' \in [Timers -> Ages] /\ heard' \in [Supervised -> Ages]
  BY <1>1, Bounds, OlderKeeps, PartsApart DEF ClockTick
<1>3. lag' \in 0 .. MaxLag /\ burst' \in 0 .. Burst
  BY <1>1, Bounds, ServerAssumption DEF ClockTick
<1>4. TypeOK'
  BY <1>2, <1>3 DEF IInv, TypeOK, ClockTick
<1>5. ASSUME NEW t \in Supervised, age[t] <= heard[t] PROVE age'[t] <= heard'[t]
  BY <1>1, <1>5, Bounds, OlderKeeps, PartsApart DEF ClockTick, Ages
<1>6. EvidenceCounted'
  BY <1>5 DEF IInv, EvidenceCounted, ClockTick
<1>7. QED
  BY <1>4, <1>6 DEF IInv

\* A frame that arrives only adds to what waits.
LEMMA EnqueueKeeps ==
  ASSUME IInv, NEW f \in Arrivals, EnqueueRx(f)
  PROVE  IInv'
<1>1. /\ rxq \in Seq(Frames) /\ f \in Frames /\ Len(rxq) <= RxCapacity /\ burst \in 0 .. Burst
      /\ RxCapacity \in Nat /\ Burst \in Nat
  BY ServerAssumption DEF IInv, TypeOK
<1>2. rxq' \in Seq(Frames) /\ Len(rxq') <= RxCapacity /\ ToSet(rxq) \subseteq ToSet(rxq')
  BY <1>1, Appended DEF EnqueueRx
<1>3. burst' \in 0 .. Burst
  BY <1>1 DEF EnqueueRx
<1>4. TypeOK'
  BY <1>2, <1>3 DEF IInv, TypeOK, EnqueueRx, timerVars
<1>5. EvidenceCounted'
  BY <1>2 DEF IInv, EvidenceCounted, EnqueueRx, timerVars
<1>6. QED
  BY <1>4, <1>5 DEF IInv

\* A peer whose frame waits is heard at the instant that run samples, which is before
\* the frame is taken.
LEMMA RunBeginKeeps == IInv /\ RunBegin => IInv'
<1> SUFFICES ASSUME IInv, RunBegin PROVE IInv'
  OBVIOUS
<1>1. heard' \in [Supervised -> Ages]
  BY Bounds DEF IInv, TypeOK, RunBegin
<1>2. 0 \in 0 .. MaxLag
  BY Bounds
<1>3. TypeOK'
  BY <1>1, <1>2 DEF IInv, TypeOK, RunBegin
<1>4. EvidenceCounted'
  BY DEF IInv, TypeOK, EvidenceCounted, RunBegin
<1>5. QED
  BY <1>3, <1>4 DEF IInv

\* apply_nmt_state: entering operational restarts the slots, and is evidence.
LEMMA ApplyKeeps ==
  ASSUME TypeOK, NEW s \in {"stopped", "operational", "pre_operational"}, ApplyNmtState(s)
  PROVE  /\ nmt' \in {"stopped", "operational", "pre_operational"}
         /\ age' \in [Timers -> Ages] /\ heard' \in [Supervised -> Ages]
         /\ expired' \in SUBSET Supervised
         /\ \A t \in Supervised :
              \/ age'[t] = age[t] /\ heard'[t] = heard[t]
                   /\ (t \in Rpdos /\ nmt' = "operational" => nmt = "operational")
              \/ age'[t] = 0 /\ heard'[t] = 0
<1>1. CASE s = "operational" /\ s # nmt
  <2>1. /\ age' = [t \in Timers |-> IF t \in Rpdos THEN 0 ELSE age[t]]
        /\ heard' = [t \in Supervised |-> IF t \in Rpdos THEN 0 ELSE heard[t]]
        /\ expired' = expired \ Rpdos /\ nmt' = s
    BY <1>1 DEF ApplyNmtState
  <2>2. QED
    BY <1>1, <2>1, Bounds, PartsApart DEF TypeOK
<1>2. CASE ~(s = "operational" /\ s # nmt)
  BY <1>2 DEF ApplyNmtState, TypeOK
<1>3. QED
  BY <1>1, <1>2

LEMMA TakeFrameTypes ==
  ASSUME TypeOK, TakeFrame
  PROVE  /\ rxq' \in Seq(Frames) /\ Len(rxq') <= RxCapacity
         /\ ToSet(rxq) \subseteq ToSet(rxq') \cup {Head(rxq)}
         /\ pc = "drain" /\ pc' = "drain"
<1>1. rxq \in Seq(Frames) /\ rxq # << >> /\ Len(rxq) <= RxCapacity /\ RxCapacity \in Nat
  BY ServerAssumption DEF TypeOK, TakeFrame
<1>2. /\ rxq' \in Seq(Frames) /\ Len(rxq') = Len(rxq) - 1
      /\ ToSet(rxq) \subseteq ToSet(rxq') \cup {Head(rxq)}
  BY <1>1, Taken DEF TakeFrame
<1>3. Len(rxq) \in Nat /\ Len(rxq') <= RxCapacity
  BY <1>1, <1>2
<1>4. QED
  BY <1>2, <1>3 DEF TakeFrame

\* The cases of dispatch_rx: the frame that is taken is one of nobody, or the age of
\* its peer is zero.
LEMMA DispatchNmtKeeps == IInv /\ DispatchNmt => IInv'
<1> SUFFICES ASSUME IInv, DispatchNmt PROVE IInv'
  OBVIOUS
<1>1. TypeOK /\ TakeFrame /\ Head(rxq) \in Commands
  BY DEF IInv, DispatchNmt
<1>2. CommandState[Head(rxq)] \in {"stopped", "operational", "pre_operational"}
  BY <1>1 DEF Commands, CommandState
<1>3. /\ nmt' \in {"stopped", "operational", "pre_operational"}
      /\ age' \in [Timers -> Ages] /\ heard' \in [Supervised -> Ages]
      /\ expired' \in SUBSET Supervised
      /\ \A t \in Supervised :
           \/ age'[t] = age[t] /\ heard'[t] = heard[t]
                /\ (t \in Rpdos /\ nmt' = "operational" => nmt = "operational")
           \/ age'[t] = 0 /\ heard'[t] = 0
  BY <1>1, <1>2, ApplyKeeps DEF DispatchNmt
<1>4. /\ rxq' \in Seq(Frames) /\ Len(rxq') <= RxCapacity
      /\ ToSet(rxq) \subseteq ToSet(rxq') \cup {Head(rxq)}
      /\ pc = "drain" /\ pc' = "drain"
  BY <1>1, TakeFrameTypes
<1>5. TypeOK'
  BY <1>3, <1>4 DEF IInv, TypeOK, DispatchNmt, TakeFrame
<1>6. \A t \in Supervised : t \in ToSet(rxq) => t \in ToSet(rxq')
  BY <1>1, <1>4, PartsApart
<1>7. EvidenceCounted'
  BY <1>3, <1>4, <1>6 DEF IInv, EvidenceCounted, DispatchNmt, TakeFrame
<1>8. QED
  BY <1>5, <1>7 DEF IInv

LEMMA DispatchSdoKeeps == IInv /\ DispatchSdo => IInv'
<1> SUFFICES ASSUME IInv, DispatchSdo PROVE IInv'
  OBVIOUS
<1>1. TypeOK /\ TakeFrame /\ Head(rxq) = "sdo"
  BY DEF IInv, DispatchSdo
<1>2. /\ rxq' \in Seq(Frames) /\ Len(rxq') <= RxCapacity
      /\ ToSet(rxq) \subseteq ToSet(rxq') \cup {Head(rxq)}
      /\ pc = "drain" /\ pc' = "drain"
  BY <1>1, TakeFrameTypes
<1>3. tsdo' \in 0 .. TsdoCapacity
  BY <1>1, ServerAssumption DEF TypeOK, DispatchSdo
<1>4. TypeOK'
  BY <1>2, <1>3 DEF IInv, TypeOK, DispatchSdo, TakeFrame
<1>5. \A t \in Supervised : t \in ToSet(rxq) => t \in ToSet(rxq')
  BY <1>1, <1>2, PartsApart
<1>6. EvidenceCounted'
  BY <1>2, <1>5 DEF IInv, EvidenceCounted, DispatchSdo, TakeFrame
<1>7. QED
  BY <1>4, <1>6 DEF IInv

\* What handling a frame of peer h does, if its slot or watch is there.
LEMMA PeerHandled ==
  ASSUME IInv, TakeFrame, NEW h \in Supervised, h = Head(rxq),
         UNCHANGED <<nmt, tsdo, heard>>,
         \/ age' = [age EXCEPT ![h] = 0] /\ expired' = expired \ {h}
         \/ /\ UNCHANGED <<age, expired>>
            /\ h \notin active \/ (h \in Rpdos /\ nmt # "operational")
  PROVE  IInv'
<1>1. TypeOK /\ h \in Timers /\ 0 \in Ages
  BY PartsApart, Bounds DEF IInv
<1>2. /\ rxq' \in Seq(Frames) /\ Len(rxq') <= RxCapacity
      /\ ToSet(rxq) \subseteq ToSet(rxq') \cup {h}
      /\ pc = "drain" /\ pc' = "drain"
  BY <1>1, TakeFrameTypes
<1>3. age' \in [Timers -> Ages] /\ expired' \in SUBSET Supervised
  BY <1>1 DEF TypeOK
<1>4. TypeOK'
  BY <1>1, <1>2, <1>3 DEF TypeOK, TakeFrame
<1>5. \A t \in Supervised \ {h} : age'[t] = age[t]
  BY <1>1, PartsApart DEF TypeOK
<1>6. \/ age'[h] = 0
      \/ h \notin active \/ (h \in Rpdos /\ nmt # "operational")
  BY <1>1 DEF TypeOK
<1>7. heard[h] \in Ages
  BY <1>1 DEF TypeOK
<1>8. ASSUME NEW t \in Supervised \cap active, t \in Rpdos => nmt = "operational"
      PROVE  age'[t] <= heard[t] \/ t \in ToSet(rxq')
  <2>1. CASE t = h
    BY <1>6, <1>7, <1>8, <2>1, Bounds DEF Ages
  <2>2. CASE t # h
    BY <1>2, <1>5, <1>8, <2>2 DEF IInv, EvidenceCounted
  <2>3. QED
    BY <2>1, <2>2
<1>9. EvidenceCounted'
  BY <1>2, <1>8 DEF EvidenceCounted, TakeFrame
<1>10. QED
  BY <1>4, <1>9 DEF IInv

LEMMA DispatchRpdoKeeps == IInv /\ DispatchRpdo => IInv'
BY PeerHandled, PartsApart DEF DispatchRpdo

LEMMA DispatchHeartbeatKeeps == IInv /\ DispatchHeartbeat => IInv'
BY PeerHandled, PartsApart DEF DispatchHeartbeat

LEMMA DispatchIgnoredKeeps == IInv /\ DispatchIgnored => IInv'
<1> SUFFICES ASSUME IInv, DispatchIgnored PROVE IInv'
  OBVIOUS
<1>1. TypeOK /\ TakeFrame /\ Head(rxq) \in {"sdo_abort", "other"}
  BY DEF IInv, DispatchIgnored
<1>2. /\ rxq' \in Seq(Frames) /\ Len(rxq') <= RxCapacity
      /\ ToSet(rxq) \subseteq ToSet(rxq') \cup {Head(rxq)}
      /\ pc = "drain" /\ pc' = "drain"
  BY <1>1, TakeFrameTypes
<1>3. TypeOK'
  BY <1>2 DEF IInv, TypeOK, DispatchIgnored, TakeFrame
<1>4. \A t \in Supervised : t \in ToSet(rxq) => t \in ToSet(rxq')
  BY <1>1, <1>2, PartsApart
<1>5. EvidenceCounted'
  BY <1>2, <1>4 DEF IInv, EvidenceCounted, DispatchIgnored, TakeFrame
<1>6. QED
  BY <1>3, <1>5 DEF IInv

\* The queue is empty: nothing waits that is not counted.
LEMMA DrainDoneKeeps == IInv /\ DrainDone => IInv'
<1> SUFFICES ASSUME IInv, DrainDone PROVE IInv'
  OBVIOUS
<1>1. TypeOK'
  BY DEF IInv, TypeOK, DrainDone, timerVars
<1>2. ToSet(rxq) = {}
  BY NothingQueued DEF DrainDone
<1>3. EvidenceCounted'
  BY <1>2 DEF IInv, EvidenceCounted, DrainDone, timerVars
<1>4. QED
  BY <1>1, <1>3 DEF IInv

\* The ticks of rpdo and watch, and the SDO server's drain.
LEMMA TickKeeps == IInv /\ (TickRpdo \/ TickWatch \/ DrainSdo) => IInv'
<1> SUFFICES ASSUME IInv, TickRpdo \/ TickWatch \/ DrainSdo PROVE IInv'
  OBVIOUS
<1>1. expired' \in SUBSET Supervised
  BY PartsApart DEF IInv, TypeOK, TickRpdo, TickWatch, DrainSdo, timerVars
<1>2. lag' \in 0 .. MaxLag
  BY Bounds DEF IInv, TypeOK, TickRpdo, TickWatch, DrainSdo
<1>3. tsdo' \in 0 .. TsdoCapacity
  BY ServerAssumption DEF IInv, TypeOK, TickRpdo, TickWatch, DrainSdo
<1>4. TypeOK'
  BY <1>1, <1>2, <1>3 DEF IInv, TypeOK, TickRpdo, TickWatch, DrainSdo, timerVars
<1>5. EvidenceCounted'
  BY QuietStep DEF IInv, TickRpdo, TickWatch, DrainSdo, timerVars
<1>6. QED
  BY <1>4, <1>5 DEF IInv

\* What is sent restarts the timers of its own service.
LEMMA SendKeeps ==
  ASSUME IInv, NEW service, NEW ok, service \cap Supervised = {}, SendDue(service, ok)
  PROVE  /\ age' \in [Timers -> Ages]
         /\ \A t \in Supervised : age'[t] = age[t]
<1>1. lag \in Ages /\ age \in [Timers -> Ages]
  BY Bounds DEF IInv, TypeOK, MaxAge, Ages
<1>2. QED
  BY <1>1, PartsApart DEF SendDue

LEMMA ProducerKeeps ==
  ASSUME IInv, age' \in [Timers -> Ages], \A t \in Supervised : age'[t] = age[t],
         pc # "drain", pc' \in {"sdo", "sync", "watch"},
         UNCHANGED <<nmt, rxq, tsdo, active, period, expired, heard, lag, burst>>
  PROVE  IInv'
<1>1. TypeOK'
  BY DEF IInv, TypeOK
<1>2. EvidenceCounted'
  BY DEF IInv, EvidenceCounted
<1>3. QED
  BY <1>1, <1>2 DEF IInv

LEMMA TickTpdoKeeps == IInv /\ TickTpdo => IInv'
<1> SUFFICES ASSUME IInv, TickTpdo PROVE IInv'
  OBVIOUS
<1>1. age' \in [Timers -> Ages] /\ \A t \in Supervised : age'[t] = age[t]
  BY SendKeeps, PartsApart DEF TickTpdo, IInv, TypeOK
<1>2. QED
  BY <1>1, ProducerKeeps DEF TickTpdo

LEMMA TickHeartbeatKeeps == ASSUME IInv, NEW ok, TickHeartbeat(ok) PROVE IInv'
<1>1. age' \in [Timers -> Ages] /\ \A t \in Supervised : age'[t] = age[t]
  BY SendKeeps, PartsApart DEF TickHeartbeat
<1>2. QED
  BY <1>1, ProducerKeeps DEF TickHeartbeat

LEMMA TickSyncKeeps == ASSUME IInv, NEW ok, TickSync(ok) PROVE IInv'
<1>1. age' \in [Timers -> Ages] /\ \A t \in Supervised : age'[t] = age[t]
  BY SendKeeps, PartsApart DEF TickSync
<1>2. QED
  BY <1>1, ProducerKeeps DEF TickSync

LEMMA StartStopKeeps == IInv /\ (Start \/ Stop) => IInv'
<1> SUFFICES ASSUME IInv, NEW s \in {"stopped", "operational", "pre_operational"},
                    ApplyNmtState(s), UNCHANGED <<rxq, tsdo, active, period, pc, lag, burst>>
             PROVE  IInv'
  BY DEF Start, Stop
<1>1. /\ nmt' \in {"stopped", "operational", "pre_operational"}
      /\ age' \in [Timers -> Ages] /\ heard' \in [Supervised -> Ages]
      /\ expired' \in SUBSET Supervised
      /\ \A t \in Supervised :
           \/ age'[t] = age[t] /\ heard'[t] = heard[t]
                /\ (t \in Rpdos /\ nmt' = "operational" => nmt = "operational")
           \/ age'[t] = 0 /\ heard'[t] = 0
  BY ApplyKeeps DEF IInv
<1>2. TypeOK'
  BY <1>1 DEF IInv, TypeOK
<1>3. EvidenceCounted'
  BY <1>1 DEF IInv, EvidenceCounted
<1>4. QED
  BY <1>2, <1>3 DEF IInv

\* A timer that is set up starts anew, and so does the silence of its peer.
LEMMA RestartKeeps ==
  ASSUME IInv, NEW t \in Timers, NEW p \in 0 .. MaxPeriod, Restart(t, p)
  PROVE  IInv'
<1>1. /\ active' \in SUBSET Timers /\ period' \in [Timers -> 0 .. MaxPeriod]
      /\ age' \in [Timers -> Ages] /\ heard' \in [Supervised -> Ages]
      /\ expired' \in SUBSET Supervised
  BY Bounds DEF IInv, TypeOK, Restart
<1>2. TypeOK'
  BY <1>1 DEF IInv, TypeOK, Restart
<1>3. \A u \in Supervised : \/ u = t /\ age'[u] = 0 /\ heard'[u] = 0
                            \/ u # t /\ age'[u] = age[u] /\ heard'[u] = heard[u]
  BY PartsApart DEF IInv, TypeOK, Restart
<1>4. EvidenceCounted'
  BY <1>3 DEF IInv, EvidenceCounted, Restart
<1>5. QED
  BY <1>2, <1>4 DEF IInv

LEMMA CallKeeps == IInv /\ Call => IInv'
<1> SUFFICES ASSUME IInv, Call PROVE IInv'
  OBVIOUS
<1>1. \A t \in Timers : Periods[t] \subseteq 0 .. MaxPeriod
  BY ServerAssumption
<1>2. \/ Start \/ Stop
      \/ \E t \in Timers : \E p \in Periods[t] : Restart(t, p)
  BY DEF Call, SetupRpdo, SetupTpdo, SetHeartbeatPeriod, SetSyncPeriod, WatchHeartbeat, Timers
<1>3. QED
  BY <1>1, <1>2, StartStopKeeps, RestartKeeps

LEMMA StutterKeeps == IInv /\ UNCHANGED vars => IInv'
BY DEF IInv, vars, TypeOK, EvidenceCounted

LEMMA Inductive == IInv /\ [Next]_vars => IInv'
<1> SUFFICES ASSUME IInv, [Next]_vars PROVE IInv'
  OBVIOUS
<1>1. CASE ClockTick
  BY <1>1, ClockTickKeeps
<1>2. ASSUME NEW f \in Arrivals, EnqueueRx(f) PROVE IInv'
  BY <1>2, EnqueueKeeps
<1>3. CASE RunStep
  BY <1>3, RunBeginKeeps, DispatchNmtKeeps, DispatchSdoKeeps, DispatchRpdoKeeps,
     DispatchHeartbeatKeeps, DispatchIgnoredKeeps, DrainDoneKeeps, TickKeeps,
     TickTpdoKeeps, TickHeartbeatKeeps, TickSyncKeeps DEF RunStep
<1>4. CASE Call
  BY <1>4, CallKeeps
<1>5. CASE UNCHANGED vars
  BY <1>5, StutterKeeps
<1>6. QED
  BY <1>1, <1>2, <1>3, <1>4, <1>5 DEF Next

\* The time stamps of the server count every sign of life (dispatch_rx,
\* apply_nmt_state).
THEOREM Invariance == Spec => []IInv
<1>1. Init => IInv
  BY Initially
<1>2. IInv /\ [Next]_vars => IInv'
  BY Inductive
<1>3. QED
  BY <1>1, <1>2, PTL DEF Spec

-----------------------------------------------------------------------------
\* Only the ticks of the RPDO consumer and the heartbeat consumer declare a peer lost.
LEMMA WhoExpires ==
  ASSUME IInv, [Next]_vars, NEW t \in expired' \ expired
  PROVE  /\ t \in Supervised /\ Due(t) /\ pc # "drain"
         /\ t \in Rpdos => nmt = "operational"
<1>1. TickRpdo \/ TickWatch
  BY DEF Next, vars, RunStep, Call, ClockTick, EnqueueRx, timerVars, RunBegin, DispatchNmt,
         ApplyNmtState, DispatchSdo, DispatchRpdo, DispatchHeartbeat, DispatchIgnored,
         DrainDone, TickTpdo, DrainSdo, TickHeartbeat, TickSync, Start, Stop, SetupRpdo,
         SetupTpdo, SetHeartbeatPeriod, SetSyncPeriod, WatchHeartbeat, Restart
<1>2. CASE TickRpdo
  BY <1>2, PartsApart DEF TickRpdo
<1>3. CASE TickWatch
  BY <1>3, PartsApart DEF TickWatch
<1>4. QED
  BY <1>1, <1>2, <1>3

\* A peer is declared lost only when it was silent for its timeout (run).
THEOREM LostOnlyWhenSilent == Spec => NoFalseTimeout
<1>1. IInv /\ [Next]_vars => [\A t \in expired' \ expired : heard[t] >= period[t] + lag]_vars
  <2> SUFFICES ASSUME IInv, [Next]_vars, NEW t \in expired' \ expired
               PROVE  heard[t] >= period[t] + lag
    OBVIOUS
  <2>1. /\ t \in Supervised /\ t \in active /\ pc # "drain" /\ age[t] >= period[t] + lag
        /\ t \in Rpdos => nmt = "operational"
    BY WhoExpires DEF Due
  <2>2. age[t] <= heard[t]
    BY <2>1 DEF IInv, EvidenceCounted
  <2>3. age[t] \in Nat /\ heard[t] \in Nat /\ period[t] \in Nat /\ lag \in Nat
    BY <2>1, PartsApart, Bounds DEF IInv, TypeOK, Ages
  <2>4. QED
    BY <2>1, <2>2, <2>3
<1>2. QED
  BY <1>1, Invariance, PTL DEF IInv, Spec, NoFalseTimeout

\* No PDO leaves a node that is not operational (tpdo_producer::tick).
THEOREM PdosOnlyWhenOperational == Spec => NoStrayPdo
<1>1. [Next]_vars => [\A t \in Tpdos : pc = "tpdo" /\ pc' = "sdo" /\ age'[t] # age[t]
                        => nmt = "operational"]_vars
  BY DEF Next, vars, RunStep, Call, ClockTick, EnqueueRx, timerVars, RunBegin, DispatchNmt,
         TakeFrame, DispatchSdo, DispatchRpdo, DispatchHeartbeat, DispatchIgnored,
         DrainDone, TickRpdo, TickTpdo, DrainSdo, TickHeartbeat, TickSync, TickWatch, Start,
         Stop, SetupRpdo, SetupTpdo, SetHeartbeatPeriod, SetSyncPeriod, WatchHeartbeat, Restart
<1>2. QED
  BY <1>1, PTL DEF Spec, NoStrayPdo

-----------------------------------------------------------------------------
(* The dictionary of the SDO server.                                       *)

KeyPairs == Nat \X Nat
Entries == Range(Dictionary)

DictInv ==
  /\ dictionary \in [DOMAIN Dictionary -> Entries]
  /\ Sdo!Sorted(dictionary) /\ Sdo!Range(dictionary) = Entries

LEMMA SameRange == ASSUME NEW f PROVE Sdo!Range(f) = Range(f)
  BY DEF Sdo!Range, Range

LEMMA Ordered ==
  /\ \A k, m, n \in KeyPairs : Sdo!Before(k, m) /\ Sdo!Before(m, n) => Sdo!Before(k, n)
  /\ \A k \in KeyPairs : ~ Sdo!Before(k, k)
  /\ \A k, m \in KeyPairs : ~ Sdo!Before(k, m) /\ ~ Sdo!Before(m, k) => k = m
<1>1. ASSUME NEW k \in KeyPairs, NEW m \in KeyPairs, NEW n \in KeyPairs,
             Sdo!Before(k, m), Sdo!Before(m, n)
      PROVE  Sdo!Before(k, n)
  <2>1. k[1] \in Nat /\ k[2] \in Nat /\ m[1] \in Nat /\ m[2] \in Nat /\ n[1] \in Nat /\ n[2] \in Nat
    BY DEF KeyPairs
  <2>2. QED
    BY <1>1, <2>1 DEF Sdo!Before
<1>2. ASSUME NEW k \in KeyPairs PROVE ~ Sdo!Before(k, k)
  <2>1. k[1] \in Nat /\ k[2] \in Nat
    BY DEF KeyPairs
  <2>2. QED
    BY <2>1 DEF Sdo!Before
<1>3. ASSUME NEW k \in KeyPairs, NEW m \in KeyPairs, ~ Sdo!Before(k, m), ~ Sdo!Before(m, k)
      PROVE  k = m
  <2>1. k[1] \in Nat /\ k[2] \in Nat /\ m[1] \in Nat /\ m[2] \in Nat
    BY DEF KeyPairs
  <2>2. k[1] = m[1] /\ k[2] = m[2]
    BY <1>3, <2>1 DEF Sdo!Before
  <2>3. QED
    BY <2>2 DEF KeyPairs
<1>4. QED
  BY <1>1, <1>2, <1>3

\* The place lower_bound finds is the first that is not before the key: the search has
\* one fixed point, which every halving of what is left agrees with.
LEMMA FirstNotBefore ==
  ASSUME NEW n \in Nat, NEW d, DOMAIN d = 1 .. n, Len(d) = n, Sdo!Sorted(d),
         \A i \in 1 .. n : d[i].key \in KeyPairs, NEW key \in KeyPairs
  PROVE  LET p == Sdo!LowerBound(key, d) IN
         /\ p \in 1 .. n + 1
         /\ \A i \in 1 .. p - 1 : Sdo!Before(d[i].key, key)
         /\ p <= n => ~ Sdo!Before(d[p].key, key)
<1> DEFINE Places == 1 .. n + 1
           Left == [lo : Places, hi : Places]
           H(r) == Sdo!Halved(r, key, d)
           B(i) == Sdo!Before(d[i].key, key)
           Some(r) == {i \in r.lo .. r.hi : i = r.hi \/ ~B(i)}
           First(r) == CHOOSE i \in Some(r) : \A j \in Some(r) : i <= j
           G == [r \in Left |-> IF r.lo >= r.hi THEN r.lo ELSE First(r)]
           Body(f) == [r \in Left |-> IF r.lo >= r.hi THEN r.lo ELSE f[H(r)]]
           F == CHOOSE f : f = Body(f)
           all == [lo |-> 1, hi |-> n + 1]
<1>1. ASSUME NEW i \in 1 .. n, NEW j \in 1 .. n, i < j, B(j) PROVE B(i)
  BY <1>1, Ordered DEF Sdo!Sorted
<1>2. ASSUME NEW r \in Left, r.lo < r.hi
      PROVE  /\ First(r) \in Some(r)
             /\ \A j \in Some(r) : First(r) <= j
  <2>1. r.lo \in Nat /\ r.hi \in Nat /\ r.hi \in Some(r)
    BY <1>2
  <2>2. Some(r) \in SUBSET Nat /\ Some(r) # {}
    BY <2>1
  <2> HIDE DEF Some
  <2>3. PICK m \in Some(r) : \A j \in Some(r) : m <= j
    BY <2>2, Least
  <2>4. QED
    BY <2>3, Zenon
<1>3. ASSUME NEW r \in Left, r.lo < r.hi
      PROVE  LET mid == r.lo + (r.hi - r.lo) \div 2 IN
             /\ mid \in r.lo .. r.hi - 1 /\ mid \in 1 .. n
             /\ H(r) = IF B(mid) THEN [lo |-> mid + 1, hi |-> r.hi]
                                 ELSE [lo |-> r.lo, hi |-> mid]
             /\ H(r) \in Left
             /\ H(r).lo <= H(r).hi
             /\ H(r).hi - H(r).lo \in Nat
             /\ H(r).hi - H(r).lo < r.hi - r.lo
  <2> DEFINE mid == r.lo + (r.hi - r.lo) \div 2
  <2>1. r.lo \in 1 .. n + 1 /\ r.hi \in 1 .. n + 1
    OBVIOUS
  <2>2. mid \in r.lo .. r.hi - 1
    BY <1>3, <2>1
  <2>3. mid \in 1 .. n
    BY <2>1, <2>2
  <2>4. H(r) = IF B(mid) THEN [lo |-> mid + 1, hi |-> r.hi] ELSE [lo |-> r.lo, hi |-> mid]
    BY DEF Sdo!Halved
  <2> HIDE DEF mid, H, B
  <2>5. /\ H(r) \in Left /\ H(r).lo <= H(r).hi
        /\ H(r).hi - H(r).lo \in Nat /\ H(r).hi - H(r).lo < r.hi - r.lo
    <3>1. CASE B(mid)
      BY <2>1, <2>2, <2>3, <2>4, <3>1
    <3>2. CASE ~B(mid)
      BY <2>1, <2>2, <2>3, <2>4, <3>2
    <3>3. QED
      BY <3>1, <3>2
  <2>6. QED
    BY <2>2, <2>3, <2>4, <2>5 DEF mid
<1>4. ASSUME NEW r \in Left, r.lo < r.hi PROVE First(r) = G[H(r)]
  <2> DEFINE mid == r.lo + (r.hi - r.lo) \div 2
             q == H(r)
  <2>1. /\ mid \in r.lo .. r.hi - 1 /\ mid \in 1 .. n
        /\ q = IF B(mid) THEN [lo |-> mid + 1, hi |-> r.hi] ELSE [lo |-> r.lo, hi |-> mid]
        /\ q \in Left /\ q.lo <= q.hi
    BY <1>3, <1>4
  <2>2. r.lo \in Nat /\ r.hi \in Nat /\ r.lo >= 1 /\ r.hi <= n + 1
    OBVIOUS
  <2>3. First(r) \in Some(r) /\ \A j \in Some(r) : First(r) <= j
    BY <1>2, <1>4
  <2>4. \A i \in r.lo .. mid : i \in 1 .. n /\ (B(mid) => B(i))
    BY <1>1, <2>1, <2>2
  <2> DEFINE c == First(r)
  <2>5. c \in r.lo .. r.hi /\ (c = r.hi \/ ~B(c))
    BY <2>3
  <2>6. \A j \in r.lo .. r.hi : (j = r.hi \/ ~B(j)) => c <= j
    BY <2>3
  <2> HIDE DEF mid, q, B, c
  <2>7. c \in q.lo .. q.hi /\ (c = q.hi \/ ~B(c))
    <3>1. CASE B(mid)
      <4>1. q.lo = mid + 1 /\ q.hi = r.hi
        BY <2>1, <3>1
      <4>2. ~(c \in r.lo .. mid)
        <5>1. SUFFICES ASSUME c \in r.lo .. mid PROVE FALSE
          OBVIOUS
        <5>2. B(c)
          BY <2>4, <3>1, <5>1
        <5>3. c # r.hi
          BY <2>1, <2>2, <5>1
        <5>4. QED
          BY <2>5, <5>2, <5>3
      <4>3. QED
        <5>1. c \in Int /\ c \in q.lo .. q.hi
          BY <2>1, <2>2, <2>5, <4>1, <4>2
        <5>2. QED
          BY <2>5, <4>1, <5>1
    <3>2. CASE ~B(mid)
      <4>1. q.lo = r.lo /\ q.hi = mid
        BY <2>1, <3>2
      <4>2. c <= mid
        BY <2>1, <2>2, <2>6, <3>2
      <4>3. QED
        BY <2>1, <2>2, <2>5, <3>2, <4>1, <4>2
    <3>3. QED
      BY <3>1, <3>2
  <2>8. \A j \in q.lo .. q.hi : (j = q.hi \/ ~B(j)) => c <= j
    <3>1. CASE B(mid)
      BY <2>1, <2>2, <2>6, <3>1
    <3>2. CASE ~B(mid)
      BY <2>1, <2>2, <2>6, <3>2
    <3>3. QED
      BY <3>1, <3>2
  <2>9. G[q] = IF q.lo >= q.hi THEN q.lo ELSE First(q)
    BY <2>1
  <2> HIDE DEF G
  <2>10. q.lo \in Nat /\ q.hi \in Nat
    BY <2>1
  <2>11. CASE q.lo >= q.hi
    <3>1. c = q.lo
      BY <2>1, <2>7, <2>10, <2>11
    <3>2. QED
      BY <2>9, <2>11, <3>1 DEF c, q
  <2>12. CASE q.lo < q.hi
    <3>1. First(q) \in Some(q) /\ \A j \in Some(q) : First(q) <= j
      BY <1>2, <2>1, <2>12
    <3> DEFINE e == First(q)
    <3>2. e \in q.lo .. q.hi /\ (e = q.hi \/ ~B(e))
      BY <3>1 DEF B
    <3>3. c \in Some(q)
      BY <2>7 DEF B
    <3>4. e <= c
      BY <3>1, <3>3
    <3> HIDE DEF e
    <3>5. c <= e
      BY <2>8, <3>2
    <3>6. e = c
      BY <2>7, <2>10, <3>2, <3>4, <3>5
    <3>7. QED
      BY <2>9, <2>10, <2>12, <3>6 DEF c, e, q
  <2>13. QED
    BY <2>10, <2>11, <2>12 DEF c, q
<1>5. G = Body(G)
  <2>1. ASSUME NEW r \in Left
        PROVE  (IF r.lo >= r.hi THEN r.lo ELSE First(r)) = IF r.lo >= r.hi THEN r.lo ELSE G[H(r)]
    <3>1. r.lo \in Nat /\ r.hi \in Nat
      OBVIOUS
    <3> HIDE DEF First, G, H, Left
    <3>2. CASE r.lo >= r.hi
      BY <3>2
    <3>3. CASE r.lo < r.hi
      BY <1>4, <3>1, <3>3
    <3>4. QED
      BY <3>1, <3>2, <3>3
  <2> DEFINE g(r) == IF r.lo >= r.hi THEN r.lo ELSE First(r)
             h(r) == IF r.lo >= r.hi THEN r.lo ELSE G[H(r)]
  <2>2. \A r \in Left : g(r) = h(r)
    BY <2>1
  <2>3. G = [r \in Left |-> g(r)] /\ Body(G) = [r \in Left |-> h(r)]
    BY Zenon
  <2> HIDE DEF g, h, G, Left, Body
  <2>4. QED
    BY <2>2, <2>3
<1>6. F = Body(F)
  <2> HIDE DEF Body, G
  <2>1. \E f : f = Body(f)
    BY <1>5
  <2>2. QED
    BY <2>1, Zenon
<1>7. ASSUME NEW r \in Left, r.lo <= r.hi PROVE F[r] = G[r]
  <2> DEFINE Bad == {m \in Nat : \E q \in Left : q.hi - q.lo = m /\ F[q] # G[q]}
  <2>1. \A f, q : q \in Left /\ f = Body(f) => f[q] = IF q.lo >= q.hi THEN q.lo ELSE f[H(q)]
    BY Zenon
  <2> HIDE DEF F, G, Body, H
  <2>2. \A q \in Left : /\ F[q] = IF q.lo >= q.hi THEN q.lo ELSE F[H(q)]
                        /\ G[q] = IF q.lo >= q.hi THEN q.lo ELSE G[H(q)]
    BY <1>5, <1>6, <2>1
  <2>3. SUFFICES ASSUME F[r] # G[r] PROVE FALSE
    OBVIOUS
  <2>4. r.hi - r.lo \in Bad
    <3>1. r.hi - r.lo \in Nat
      BY <1>7
    <3>2. QED
      BY <2>3, <3>1
  <2>5. Bad \in SUBSET Nat /\ Bad # {}
    BY <2>4
  <2>6. PICK m \in Bad : \A k \in Bad : m <= k
    <3> HIDE DEF Bad
    <3> QED BY <2>5, Least
  <2>7. PICK q \in Left : q.hi - q.lo = m /\ F[q] # G[q]
    BY <2>6
  <2>8. q.lo \in Int /\ q.hi \in Int
    OBVIOUS
  <2>9. q.lo < q.hi
    BY <2>2, <2>7, <2>8
  <2>10. H(q) \in Left /\ H(q).hi - H(q).lo \in Nat /\ H(q).hi - H(q).lo < m
    BY <1>3, <2>7, <2>9
  <2>11. F[H(q)] # G[H(q)]
    BY <2>2, <2>7, <2>8, <2>9
  <2>12. H(q).hi - H(q).lo \in Bad
    BY <2>10, <2>11
  <2>13. m \in Nat /\ m <= H(q).hi - H(q).lo
    BY <2>5, <2>6, <2>12
  <2>14. QED
    BY <2>10, <2>13
<1>8. Sdo!LowerBound(key, d) = F[all]
  BY DEF Sdo!LowerBound
<1>9. all \in Left /\ all.lo <= all.hi /\ all.lo = 1 /\ all.hi = n + 1
  OBVIOUS
<1>10. Sdo!LowerBound(key, d) = G[all]
  BY <1>7, <1>8, <1>9
<1> DEFINE p == Sdo!LowerBound(key, d)
<1>11. CASE n = 0
  <2>1. p = 1
    BY <1>9, <1>10, <1>11
  <2> HIDE DEF p
  <2>2. QED
    BY <1>11, <2>1 DEF p
<1>12. CASE n > 0
  <2>1. p = First(all) /\ First(all) \in Some(all) /\ \A j \in Some(all) : First(all) <= j
    <3>1. all.lo < all.hi
      BY <1>9, <1>12
    <3>2. First(all) \in Some(all) /\ \A j \in Some(all) : First(all) <= j
      BY <1>2, <1>9, <3>1
    <3>3. G[all] = IF all.lo >= all.hi THEN all.lo ELSE First(all)
      BY <1>9
    <3> HIDE DEF First, G, all, Some
    <3>4. G[all] = First(all)
      BY <1>9, <3>1, <3>3
    <3>5. QED
      BY <1>10, <3>2, <3>4
  <2>2. p \in 1 .. n + 1 /\ (p = n + 1 \/ ~B(p))
    BY <2>1
  <2>3. \A j \in 1 .. n + 1 : (j = n + 1 \/ ~B(j)) => p <= j
    BY <2>1
  <2> HIDE DEF p, B
  <2>4. \A i \in 1 .. p - 1 : B(i)
    BY <2>2, <2>3
  <2>5. p <= n => ~B(p)
    BY <2>2
  <2>6. QED
    BY <2>2, <2>4, <2>5 DEF B, p
<1>13. QED
  BY <1>11, <1>12

\* What the assumption says of an entry.
LEMMA EntryFacts ==
  ASSUME NEW e \in Entries
  PROVE  /\ e.key \in KeyPairs /\ e.access \in Sdo!AccessRights /\ e.type \in Sdo!Types
         /\ e.default \in Sdo!OdValues \cup {Sdo!None}
  BY SdoAssumption DEF Entries, KeyPairs

\* The search finds every entry by its key.
LEMMA Found ==
  ASSUME DictInv, NEW key \in KeyPairs
  PROVE  /\ \A e \in Entries : e.key = key => Sdo!Find(key) = {e}
         /\ (\A e \in Entries : e.key # key) => Sdo!Find(key) = {}
<1> DEFINE d == dictionary
           n == Len(Dictionary)
           p == Sdo!LowerBound(key, d)
<1>1. n \in Nat /\ DOMAIN Dictionary = 1 .. n
  BY SdoAssumption
<1>2. DOMAIN d = 1 .. n /\ d \in Seq(Entries) /\ Len(d) = n
  BY <1>1 DEF DictInv
<1>3. Range(d) = Entries /\ Sdo!Sorted(d)
  BY SameRange DEF DictInv
<1>4. \A i \in 1 .. n : d[i] \in Entries /\ d[i].key \in KeyPairs
  BY <1>2, EntryFacts
<1> HIDE DEF d, n
<1>5. /\ p \in 1 .. n + 1
      /\ \A i \in 1 .. p - 1 : Sdo!Before(d[i].key, key)
      /\ p <= n => ~ Sdo!Before(d[p].key, key)
  BY <1>1, <1>2, <1>3, <1>4, FirstNotBefore
<1>6. Sdo!Find(key) = IF p \in DOMAIN d /\ d[p].key = key THEN {d[p]} ELSE {}
  BY DEF Sdo!Find, d
<1> HIDE DEF p
<1>7. ASSUME NEW e \in Entries, e.key = key PROVE Sdo!Find(key) = {e}
  <2>1. PICK j \in 1 .. n : d[j] = e
    BY <1>2, <1>3 DEF Range
  <2>2. ~ Sdo!Before(d[j].key, key)
    BY <1>7, <2>1, Ordered
  <2>3. p <= j
    BY <1>1, <1>5, <2>2
  <2>4. p \in 1 .. n
    BY <1>1, <1>5, <2>3
  <2>5. p = j
    <3>1. SUFFICES ASSUME p < j PROVE FALSE
      BY <1>1, <1>5, <2>3
    <3>2. Sdo!Before(d[p].key, key)
      <4>1. p \in DOMAIN d /\ j \in DOMAIN d
        BY <1>2, <2>4
      <4>2. Sdo!Before(d[p].key, d[j].key)
        BY <1>3, <3>1, <4>1 DEF Sdo!Sorted
      <4>3. QED
        BY <1>7, <2>1, <4>2
    <3>3. QED
      BY <1>1, <1>5, <2>4, <3>2
  <2>6. QED
    BY <1>2, <1>6, <1>7, <2>1, <2>4, <2>5
<1>8. ASSUME \A e \in Entries : e.key # key PROVE Sdo!Find(key) = {}
  BY <1>2, <1>4, <1>6, <1>8
<1>9. QED
  BY <1>7, <1>8

LEMMA SameKeySameEntry ==
  ASSUME NEW e \in Entries, NEW f \in Entries, e.key = f.key
  PROVE  e = f
  BY SdoAssumption DEF Entries, Range

-----------------------------------------------------------------------------
(* The requests.                                                           *)

Stores == [DOMAIN Variables -> Sdo!Raw]
Restores(r) == r.cs = "write" /\ r.key = RestoreKey
Target(r) == IF Restores(r) THEN r.data ELSE r.key
ValueOf(r, e) == IF Restores(r) THEN e.default ELSE Sdo!MakeValue(r.data, e.type)

LEMMA RequestFacts ==
  ASSUME NEW r \in Sdo!Requests
  PROVE  /\ r.cs \in {"read", "write", "block"}
         /\ r.key \in KeyPairs
         /\ r.cs = "write" => IF r.key = RestoreKey THEN r.data \in KeyPairs ELSE r.data \in Sdo!Raw
<1>1. Sdo!AllKeys \subseteq KeyPairs /\ Sdo!Keys \subseteq KeyPairs
  <2>1. RestoreKey \in KeyPairs /\ <<RestoreKey[1] + 1, 0>> \in KeyPairs
    BY SdoAssumption DEF KeyPairs
  <2>2. Sdo!Keys \subseteq KeyPairs
    BY EntryFacts DEF Sdo!Keys, Entries, Range
  <2>3. QED
    BY <2>1, <2>2 DEF Sdo!AllKeys
<1> DEFINE Reads == [cs : {"read"}, key : Sdo!AllKeys]
           Blocks == [cs : {"block"}, key : Sdo!Keys]
           Writes == [cs : {"write"}, key : Sdo!AllKeys \ {RestoreKey}, data : Sdo!Raw]
           Restorings == [cs : {"write"}, key : {RestoreKey}, data : Sdo!AllKeys]
<1>2. r \in Reads \/ r \in Blocks \/ r \in Writes \/ r \in Restorings
  BY DEF Sdo!Requests
<1>3. CASE r \in Reads
  <2>1. r.cs = "read" /\ r.key \in Sdo!AllKeys
    BY <1>3
  <2>2. QED
    BY <1>1, <2>1
<1>4. CASE r \in Blocks
  <2>1. r.cs = "block" /\ r.key \in Sdo!Keys
    BY <1>4
  <2>2. QED
    BY <1>1, <2>1
<1>5. CASE r \in Writes
  <2>1. r.cs = "write" /\ r.key \in Sdo!AllKeys /\ r.key # RestoreKey /\ r.data \in Sdo!Raw
    BY <1>5
  <2>2. QED
    BY <1>1, <2>1
<1>6. CASE r \in Restorings
  <2>1. r.cs = "write" /\ r.key = RestoreKey /\ r.data \in Sdo!AllKeys
    BY <1>6
  <2>2. RestoreKey \in KeyPairs
    BY SdoAssumption DEF KeyPairs
  <2>3. QED
    BY <1>1, <2>1, <2>2
<1>7. QED
  BY <1>2, <1>3, <1>4, <1>5, <1>6

LEMMA TargetIsKey ==
  ASSUME NEW r \in Sdo!Requests
  PROVE  Target(r) \in KeyPairs
  BY RequestFacts DEF Target, Restores

\* The values a variable of each type is given.
LEMMA ValuesFit ==
  ASSUME NEW r \in Sdo!Requests, r.cs = "write", NEW e \in Entries,
         Restores(r) => e.default # Sdo!None
  PROVE  LET v == ValueOf(r, e) IN
         /\ v.bytes \in Sdo!Raw
         /\ v.of = "boolean" => v.bytes \in {<<0, 0>>, <<1, 0>>}
         /\ v.of = "uint8" => v.bytes[2] = 0
<1> DEFINE Fits(v) == /\ v.bytes \in Sdo!Raw
                      /\ v.of = "boolean" => v.bytes \in {<<0, 0>>, <<1, 0>>}
                      /\ v.of = "uint8" => v.bytes[2] = 0
<1>1. ASSUME NEW raw \in Sdo!Raw, NEW type \in Sdo!Types
      PROVE  Fits(Sdo!MakeValue(raw, type))
  <2>1. 0 \in Bytes /\ 1 \in Bytes
    BY SdoAssumption
  <2>2. raw[1] \in Bytes /\ raw[2] \in Bytes
    BY DEF Sdo!Raw
  <2>3. type \in {"boolean", "uint8", "uint32", "float32", "exec", "string"}
    BY DEF Sdo!Types
  <2> DEFINE v == Sdo!MakeValue(raw, type)
  <2>4. CASE type = "boolean"
    <3>1. v = [of |-> "boolean", bytes |-> <<IF raw[1] # 0 THEN 1 ELSE 0, 0>>]
      BY <2>4 DEF Sdo!MakeValue
    <3>2. v.bytes \in {<<0, 0>>, <<1, 0>>} /\ v.of = "boolean"
      BY <3>1
    <3>3. <<0, 0>> \in Sdo!Raw /\ <<1, 0>> \in Sdo!Raw
      BY <2>1 DEF Sdo!Raw
    <3>4. QED
      BY <3>2, <3>3
  <2>5. CASE type = "uint8"
    <3>1. v = [of |-> "uint8", bytes |-> <<raw[1], 0>>]
      BY <2>5 DEF Sdo!MakeValue
    <3>2. <<raw[1], 0>> \in Sdo!Raw
      BY <2>1, <2>2 DEF Sdo!Raw
    <3>3. QED
      BY <3>1, <3>2
  <2>6. CASE type \in {"uint32", "exec"}
    <3>1. v = [of |-> "uint32", bytes |-> raw]
      BY <2>6 DEF Sdo!MakeValue
    <3>2. QED
      BY <3>1
  <2>7. CASE type = "float32"
    <3>1. v = [of |-> "float32", bytes |-> raw]
      BY <2>7 DEF Sdo!MakeValue
    <3>2. QED
      BY <3>1
  <2>8. CASE type = "string"
    <3>1. v = [of |-> "uint32", bytes |-> <<0, 0>>]
      BY <2>8 DEF Sdo!MakeValue
    <3>2. <<0, 0>> \in Sdo!Raw
      BY <2>1 DEF Sdo!Raw
    <3>3. QED
      BY <3>1, <3>2
  <2>9. QED
    BY <2>3, <2>4, <2>5, <2>6, <2>7, <2>8
<1>2. \A v \in Sdo!OdValues : Fits(v)
  BY <1>1 DEF Sdo!OdValues
<1> HIDE DEF Fits
<1>3. Fits(ValueOf(r, e))
  <2>1. CASE Restores(r)
    BY <1>2, <2>1, EntryFacts DEF ValueOf
  <2>2. CASE ~ Restores(r)
    <3>1. r.data \in Sdo!Raw /\ e.type \in Sdo!Types
      BY <2>2, RequestFacts, EntryFacts DEF Restores
    <3>2. QED
      BY <1>1, <2>2, <3>1 DEF ValueOf
  <2>3. QED
    BY <2>1, <2>2
<1>4. QED
  BY <1>3 DEF Fits

\* Whether a request writes through entry e: it does so whatever the variables hold.
Accepted(r, e) ==
  /\ r.cs = "write" /\ e.key = Target(r)
  /\ Sdo!Writable(e) /\ e.var \in DOMAIN Variables
  /\ Restores(r) => e.default # Sdo!None
  /\ Variables[e.var] = ValueOf(r, e).of

\* The entry that a request with an entry is handled by.
LEMMA HandledBy ==
  ASSUME DictInv, NEW r \in Sdo!Requests, NEW held, NEW e \in Entries, e.key = Target(r)
  PROVE  Sdo!Handled(r, held) =
           IF Restores(r) THEN
             IF ~Sdo!Writable(e) THEN Sdo!Refused(r, "write_to_read_only", held)
             ELSE IF e.default = Sdo!None THEN Sdo!Refused(r, "no_data_available", held)
             ELSE Sdo!Write(r, e, e.default, held)
           ELSE IF r.cs = "read" THEN Sdo!ReadExpedited(r, e, held)
           ELSE IF r.cs = "write" THEN Sdo!WriteExpedited(r, e, held)
           ELSE Sdo!Refused(r, "invalid_cs", held)
<1>1. Sdo!Find(Target(r)) = {e} /\ {e} # {} /\ (CHOOSE x \in {e} : TRUE) = e
  BY Found, TargetIsKey
<1>2. CASE Restores(r)
  <2>1. Sdo!Handled(r, held) = Sdo!WriteRestoreDefault(r, held) /\ Target(r) = r.data
    BY <1>2 DEF Sdo!Handled, Restores, Target
  <2>2. QED
    BY <1>1, <1>2, <2>1 DEF Sdo!WriteRestoreDefault
<1>3. CASE ~Restores(r)
  <2>1. Target(r) = r.key
    BY <1>3 DEF Target
  <2>2. QED
    BY <1>1, <1>3, <2>1 DEF Sdo!Handled, Restores
<1>4. QED
  BY <1>2, <1>3

LEMMA AcceptedDone ==
  ASSUME DictInv, NEW r \in Sdo!Requests, NEW held \in Stores, NEW e \in Entries, Accepted(r, e)
  PROVE  Sdo!Handled(r, held) = Sdo!Done(r, [held EXCEPT ![e.var] = ValueOf(r, e).bytes])
<1>1. DOMAIN held = DOMAIN Variables
  BY DEF Stores
<1>2. Sdo!Handled(r, held) = Sdo!Write(r, e, ValueOf(r, e), held)
  BY HandledBy DEF Accepted, ValueOf, Restores, Sdo!WriteExpedited
<1>3. QED
  BY <1>1, <1>2 DEF Accepted, Sdo!Write

LEMMA RefusedKeeps ==
  ASSUME DictInv, NEW r \in Sdo!Requests, NEW held \in Stores,
         \A e \in Entries : ~Accepted(r, e)
  PROVE  /\ Sdo!Handled(r, held).store = held
         /\ Sdo!Handled(r, held).response.cs # "write"
<1> USE DEF Sdo!Refused, Sdo!Outcome
<1>1. DOMAIN held = DOMAIN Variables
  BY DEF Stores
<1>2. CASE \E e \in Entries : e.key = Target(r)
  <2>1. PICK e \in Entries : e.key = Target(r)
    BY <1>2
  <2>2. ~Accepted(r, e)
    OBVIOUS
  <2>3. CASE Restores(r)
    <3>1. r.cs = "write" /\ ValueOf(r, e) = e.default
      BY <2>3 DEF Restores, ValueOf
    <3>2. QED
      <4>1. Sdo!Handled(r, held) =
              IF ~Sdo!Writable(e) THEN Sdo!Refused(r, "write_to_read_only", held)
              ELSE IF e.default = Sdo!None THEN Sdo!Refused(r, "no_data_available", held)
              ELSE Sdo!Write(r, e, e.default, held)
        BY <2>1, <2>3, HandledBy
      <4>2. \/ ~Sdo!Writable(e) \/ e.default = Sdo!None \/ e.var \notin DOMAIN held
            \/ Variables[e.var] # e.default.of
        BY <1>1, <2>1, <2>2, <3>1 DEF Accepted
      <4>3. QED
        BY <4>1, <4>2 DEF Sdo!Write
  <2>4. CASE ~Restores(r) /\ r.cs = "write"
    <3>1. ValueOf(r, e) = Sdo!MakeValue(r.data, e.type)
      BY <2>4 DEF ValueOf
    <3>2. Sdo!Handled(r, held) = Sdo!WriteExpedited(r, e, held)
      BY <2>1, <2>4, HandledBy
    <3>3. QED
      BY <1>1, <2>1, <2>2, <2>4, <3>1, <3>2 DEF Accepted, Sdo!Write, Sdo!WriteExpedited
  <2>5. CASE r.cs = "read"
    <3>1. Sdo!Handled(r, held) = Sdo!ReadExpedited(r, e, held)
      BY <2>1, <2>5, HandledBy DEF Restores
    <3>2. QED
      BY <3>1 DEF Sdo!ReadExpedited
  <2>6. CASE r.cs = "block"
    <3>1. Sdo!Handled(r, held) = Sdo!Refused(r, "invalid_cs", held)
      BY <2>1, <2>6, HandledBy DEF Restores
    <3>2. QED
      BY <3>1
  <2>7. QED
    BY <2>3, <2>4, <2>5, <2>6, RequestFacts
<1>3. CASE \A e \in Entries : e.key # Target(r)
  <2>1. Sdo!Find(Target(r)) = {}
    BY <1>3, Found, TargetIsKey
  <2>2. CASE Restores(r)
    <3>1. Sdo!Handled(r, held) = Sdo!WriteRestoreDefault(r, held) /\ Target(r) = r.data
      BY <2>2 DEF Sdo!Handled, Restores, Target
    <3>2. QED
      BY <2>1, <3>1 DEF Sdo!WriteRestoreDefault
  <2>3. CASE ~Restores(r)
    <3>1. Target(r) = r.key
      BY <2>3 DEF Target
    <3>2. QED
      BY <2>1, <2>3, <3>1 DEF Sdo!Handled, Restores
  <2>4. QED
    BY <2>2, <2>3
<1>4. QED
  BY <1>2, <1>3

-----------------------------------------------------------------------------
(* The invariant of the SDO server.                                        *)

Responses == {Sdo!Handled(r, held).response : r \in Sdo!Requests, held \in Stores}

LEMMA SameResponses == UNCHANGED dictionary => Responses' = Responses
  BY DEF Responses, Sdo!Handled, Sdo!WriteRestoreDefault, Sdo!Find

SdoInv ==
  /\ DictInv
  /\ Sdo!TypeOK
  /\ tsdo_queue \in Seq(Responses)
  /\ window \in Nat /\ lost \in Nat
  /\ PatientClientAnswered

\* What a variable holds fits its type.
FitsTypes(held) ==
  \A v \in DOMAIN Variables :
    /\ Variables[v] = "boolean" => held[v] \in {<<0, 0>>, <<1, 0>>}
    /\ Variables[v] = "uint8" => held[v][2] = 0

LEMMA HandledFits ==
  ASSUME DictInv, NEW r \in Sdo!Requests, NEW held \in Stores, FitsTypes(held)
  PROVE  Sdo!Handled(r, held).store \in Stores /\ FitsTypes(Sdo!Handled(r, held).store)
<1>1. CASE \A e \in Entries : ~Accepted(r, e)
  BY <1>1, RefusedKeeps
<1>2. CASE \E e \in Entries : Accepted(r, e)
  <2>1. PICK e \in Entries : Accepted(r, e)
    BY <1>2
  <2> DEFINE b == ValueOf(r, e).bytes
             new == [held EXCEPT ![e.var] = b]
  <2>2. Sdo!Handled(r, held).store = new
    BY <2>1, AcceptedDone DEF Sdo!Done, Sdo!Outcome
  <2>3. /\ b \in Sdo!Raw
        /\ Variables[e.var] = "boolean" => b \in {<<0, 0>>, <<1, 0>>}
        /\ Variables[e.var] = "uint8" => b[2] = 0
    BY <2>1, ValuesFit DEF Accepted
  <2> HIDE DEF b
  <2>4. new \in Stores
    BY <2>3 DEF Stores
  <2>5. \A v \in DOMAIN Variables : new[v] = IF v = e.var THEN b ELSE held[v]
    BY DEF Stores
  <2> HIDE DEF new
  <2>6. FitsTypes(new)
    BY <2>3, <2>5 DEF FitsTypes
  <2>7. QED
    BY <2>2, <2>4, <2>6
<1>3. QED
  BY <1>1, <1>2

LEMMA SdoInitially == Sdo!Init => SdoInv
<1> SUFFICES ASSUME Sdo!Init PROVE SdoInv
  OBVIOUS
<1>1. DictInv
  BY SameRange DEF Sdo!Init, DictInv, Entries
<1>2. <<0, 0>> \in Sdo!Raw /\ store = [v \in DOMAIN Variables |-> <<0, 0>>]
  BY SdoAssumption DEF Sdo!Init, Sdo!Raw
<1>3. /\ store \in [DOMAIN Variables -> Sdo!Raw]
      /\ \A v \in DOMAIN Variables :
           /\ Variables[v] = "boolean" => store[v] \in {<<0, 0>>, <<1, 0>>}
           /\ Variables[v] = "uint8" => store[v][2] = 0
  BY <1>2
<1>4. /\ tsdo_queue = <<>> /\ lost = 0 /\ window \in Windows /\ window \in Nat
      /\ TsdoCapacity \in Nat
  BY SdoAssumption, ServerAssumption DEF Sdo!Init
<1>5. /\ tsdo_queue \in Seq(Responses) /\ Len(tsdo_queue) <= TsdoCapacity /\ lost \in 0 .. window
  BY <1>4
<1>6. QED
  BY <1>1, <1>3, <1>4, <1>5
     DEF SdoInv, Sdo!TypeOK, PatientClientAnswered, Sdo!PatientClientAnswered

LEMMA HandleKeeps == ASSUME SdoInv, NEW r \in Sdo!Requests, Sdo!Handle(r) PROVE SdoInv'
<1> DEFINE q == tsdo_queue
           o == Sdo!Handled(r, store)
<1>1. /\ DictInv /\ store \in Stores /\ FitsTypes(store)
      /\ Len(q) <= TsdoCapacity /\ TsdoCapacity \in Nat
      /\ window \in Windows /\ window \in Nat /\ lost \in Nat
      /\ q \in Seq(Responses)
      /\ window <= TsdoCapacity => lost = 0
  BY ServerAssumption DEF SdoInv, Sdo!TypeOK, Stores, FitsTypes, PatientClientAnswered,
                          Sdo!PatientClientAnswered
<1>2. o.response \in Responses
  BY <1>1 DEF Responses
<1>3. store' \in Stores /\ FitsTypes(store')
  BY <1>1, HandledFits DEF Sdo!Handle
<1>4. /\ UNCHANGED <<dictionary, window>>
      /\ Len(q) + lost < window
      /\ \/ Len(q) < TsdoCapacity /\ tsdo_queue' = Append(q, o.response) /\ lost' = lost
         \/ ~(Len(q) < TsdoCapacity) /\ tsdo_queue' = q /\ lost' = lost + 1
  BY DEF Sdo!Handle
<1> HIDE DEF o
<1>5. /\ tsdo_queue' \in Seq(Responses) /\ Len(tsdo_queue') <= TsdoCapacity
      /\ lost' \in Nat /\ lost' \in 0 .. window'
      /\ window <= TsdoCapacity => lost' = 0
  <2> HIDE DEF Responses
  <2>1. Len(q) \in Nat
    BY <1>1
  <2>2. QED
    <3>1. CASE Len(q) < TsdoCapacity
      <4>1. tsdo_queue' = Append(q, o.response) /\ lost' = lost /\ window' = window
        BY <1>4, <3>1
      <4>2. tsdo_queue' \in Seq(Responses) /\ Len(tsdo_queue') = Len(q) + 1
        BY <1>1, <1>2, <4>1
      <4>3. QED
        BY <1>1, <1>4, <2>1, <3>1, <4>1, <4>2
    <3>2. CASE ~(Len(q) < TsdoCapacity)
      <4>1. tsdo_queue' = q /\ lost' = lost + 1 /\ window' = window
        BY <1>4, <3>2
      <4>2. QED
        BY <1>1, <1>4, <2>1, <3>2, <4>1
    <3>3. QED
      BY <3>1, <3>2
<1>6. DictInv'
  BY <1>1, <1>4 DEF DictInv, Sdo!Sorted, Sdo!Range
<1>7. Sdo!TypeOK'
  <2>1. store' \in [DOMAIN Variables -> Sdo!Raw] /\ window' \in Windows
    BY <1>1, <1>3, <1>4 DEF Stores
  <2>2. \A v \in DOMAIN Variables :
          /\ Variables[v] = "boolean" => store'[v] \in {<<0, 0>>, <<1, 0>>}
          /\ Variables[v] = "uint8" => store'[v][2] = 0
    BY <1>3 DEF FitsTypes
  <2>3. QED
    BY <1>5, <2>1, <2>2 DEF Sdo!TypeOK, Sdo!Raw
<1>8. PatientClientAnswered' /\ window' \in Nat
  BY <1>1, <1>4, <1>5 DEF PatientClientAnswered, Sdo!PatientClientAnswered
<1>9. tsdo_queue' \in Seq(Responses')
  BY <1>4, <1>5, SameResponses
<1>10. QED
  BY <1>5, <1>6, <1>7, <1>8, <1>9 DEF SdoInv

LEMMA SdoInductive == SdoInv /\ [Sdo!Next]_(Sdo!vars) => SdoInv'
<1> SUFFICES ASSUME SdoInv, [Sdo!Next]_(Sdo!vars) PROVE SdoInv'
  OBVIOUS
<1>1. CASE \E r \in Sdo!Requests : Sdo!Handle(r)
  BY <1>1, HandleKeeps
<1>2. CASE UNCHANGED <<dictionary, store, window>> /\ (Sdo!Drain \/ Sdo!GiveUp \/ UNCHANGED Sdo!vars)
  <2>1. /\ TsdoCapacity \in Nat /\ tsdo_queue \in Seq(Responses) /\ lost \in Nat /\ window \in Nat
        /\ Len(tsdo_queue) <= TsdoCapacity /\ lost \in 0 .. window
        /\ window <= TsdoCapacity => lost = 0
    BY ServerAssumption DEF SdoInv, Sdo!TypeOK, PatientClientAnswered, Sdo!PatientClientAnswered
  <2>2. \/ tsdo_queue # <<>> /\ tsdo_queue' = Tail(tsdo_queue) /\ lost' = lost
        \/ tsdo_queue' = tsdo_queue /\ lost' = 0
        \/ tsdo_queue' = tsdo_queue /\ lost' = lost
    BY <1>2 DEF Sdo!Drain, Sdo!GiveUp, Sdo!vars
  <2>3. /\ tsdo_queue' \in Seq(Responses) /\ Len(tsdo_queue') <= TsdoCapacity
        /\ lost' \in Nat /\ lost' \in 0 .. window
        /\ window <= TsdoCapacity => lost' = 0
    <3> HIDE DEF Responses
    <3> QED BY <2>1, <2>2
  <2>4. DictInv'
    BY <1>2 DEF SdoInv, DictInv, Sdo!Sorted, Sdo!Range
  <2>5. Sdo!TypeOK'
    BY <1>2, <2>3 DEF SdoInv, Sdo!TypeOK
  <2>6. PatientClientAnswered'
    BY <1>2, <2>3 DEF PatientClientAnswered, Sdo!PatientClientAnswered
  <2>7. window' \in Nat /\ lost' \in Nat
    BY <1>2, <2>1, <2>3
  <2>8. tsdo_queue' \in Seq(Responses')
    BY <1>2, <2>3, SameResponses
  <2>9. QED
    BY <2>4, <2>5, <2>6, <2>7, <2>8 DEF SdoInv
<1>3. QED
  BY <1>1, <1>2 DEF Sdo!Next, Sdo!Drain, Sdo!GiveUp, Sdo!vars

\* What the server holds is of the types of its variables, and its queue within its
\* capacity; a client that awaits no more responses than there is room for has all of
\* them (try_handle, drain).
THEOREM SdoInvariance == Sdo!Spec => []SdoInv
  BY SdoInitially, SdoInductive, PTL DEF Sdo!Spec

\* No response that a patient client awaits is dropped (try_handle, drain).
THEOREM Answered == Sdo!Spec => []PatientClientAnswered
<1>1. SdoInv => PatientClientAnswered
  BY DEF SdoInv
<1>2. QED
  BY <1>1, SdoInvariance, PTL

-----------------------------------------------------------------------------
\* A write that is acknowledged is seen by the next read, of a value or of a default
\* (try_handle).
THEOREM WritesReadBack == Sdo!Spec => []AcknowledgedWriteReadsBack
<1>1. SdoInv => AcknowledgedWriteReadsBack
  <2> SUFFICES ASSUME SdoInv, NEW r \in Sdo!Requests,
                      Sdo!Handled(r, store).response.cs = "write"
               PROVE  LET key == IF r.key = RestoreKey THEN r.data ELSE r.key
                          e == CHOOSE x \in Sdo!Range(Dictionary) : x.key = key
                          value == IF r.key = RestoreKey THEN e.default
                                   ELSE Sdo!MakeValue(r.data, e.type)
                          answer == Sdo!Handled([cs |-> "read", key |-> key],
                                                Sdo!Handled(r, store).store).response
                      IN  Sdo!Readable(e) => answer.cs = "read" /\ answer.data = value.bytes
    BY DEF SdoInv, AcknowledgedWriteReadsBack, Sdo!AcknowledgedWriteReadsBack
  <2>1. DictInv /\ store \in Stores
    BY DEF SdoInv, Sdo!TypeOK, Stores
  <2>2. PICK e \in Entries : Accepted(r, e)
    BY <2>1, RefusedKeeps
  <2> DEFINE key == IF r.key = RestoreKey THEN r.data ELSE r.key
             x == CHOOSE y \in Sdo!Range(Dictionary) : y.key = key
             value == IF r.key = RestoreKey THEN x.default ELSE Sdo!MakeValue(r.data, x.type)
             new == Sdo!Handled(r, store).store
             again == [cs |-> "read", key |-> key]
  <2>3. key = Target(r) /\ r.cs = "write"
    BY <2>2 DEF Accepted, Target, Restores
  <2>4. x = e
    <3>1. e \in Sdo!Range(Dictionary) /\ e.key = key
      BY <2>2, <2>3, SameRange DEF Accepted, Entries
    <3>2. \A y \in Sdo!Range(Dictionary) : y.key = key => y = e
      BY <3>1, SameRange, SameKeySameEntry DEF Entries
    <3>3. QED
      BY <3>1, <3>2
  <2>5. value = ValueOf(r, e)
    <3> HIDE DEF x
    <3> QED BY <2>3, <2>4 DEF ValueOf, Restores
  <2>6. new = [store EXCEPT ![e.var] = ValueOf(r, e).bytes] /\ e.var \in DOMAIN Variables
    BY <2>1, <2>2, AcceptedDone DEF Sdo!Done, Sdo!Outcome, Accepted
  <2>7. e.var \in DOMAIN new /\ new[e.var] = ValueOf(r, e).bytes
    BY <2>1, <2>6 DEF Stores
  <2> HIDE DEF key, x, value, new
  <2>8. ASSUME Sdo!Readable(e)
        PROVE  /\ Sdo!Handled(again, new).response.cs = "read"
               /\ Sdo!Handled(again, new).response.data = new[e.var]
    <3>1. Sdo!Find(key) = {e} /\ {e} # {} /\ (CHOOSE y \in {e} : TRUE) = e
      BY <2>1, <2>2, <2>3, Found, TargetIsKey DEF Accepted
    <3>2. again.cs = "read" /\ again.key = key
      OBVIOUS
    <3> HIDE DEF again
    <3>3. Sdo!Handled(again, new) = Sdo!ReadExpedited(again, e, new)
      BY <3>1, <3>2 DEF Sdo!Handled
    <3>4. QED
      BY <2>7, <2>8, <3>2, <3>3 DEF Sdo!ReadExpedited, Sdo!Outcome
  <2>9. QED
    BY <2>4, <2>5, <2>7, <2>8 DEF key, x, value, new
<1>2. QED
  BY <1>1, SdoInvariance, PTL

\* A request that is sent again changes nothing more and is answered alike (try_handle).
THEOREM RetriesHarmless == Sdo!Spec => []RetryChangesNothing
<1>1. SdoInv => RetryChangesNothing
  <2> SUFFICES ASSUME SdoInv, NEW r \in Sdo!Requests
               PROVE  Sdo!Handled(r, Sdo!Handled(r, store).store) = Sdo!Handled(r, store)
    BY DEF RetryChangesNothing, Sdo!RetryChangesNothing
  <2>1. DictInv /\ store \in Stores /\ FitsTypes(store)
    BY DEF SdoInv, Sdo!TypeOK, Stores, FitsTypes
  <2>2. CASE \A e \in Entries : ~Accepted(r, e)
    BY <2>1, <2>2, RefusedKeeps
  <2>3. CASE \E e \in Entries : Accepted(r, e)
    <3>1. PICK e \in Entries : Accepted(r, e)
      BY <2>3
    <3> DEFINE b == ValueOf(r, e).bytes
               new == [store EXCEPT ![e.var] = b]
    <3>2. Sdo!Handled(r, store) = Sdo!Done(r, new)
      BY <2>1, <3>1, AcceptedDone
    <3>3. Sdo!Handled(r, store).store = new /\ new \in Stores
      <4>1. Sdo!Done(r, new).store = new
        BY DEF Sdo!Done, Sdo!Outcome
      <4>2. Sdo!Handled(r, store).store \in Stores
        BY <2>1, HandledFits
      <4> HIDE DEF new
      <4>3. QED
        BY <3>2, <4>1, <4>2
    <3>4. Sdo!Handled(r, new) = Sdo!Done(r, [new EXCEPT ![e.var] = b])
      BY <2>1, <3>1, <3>3, AcceptedDone
    <3>5. [new EXCEPT ![e.var] = b] = new
      <4> HIDE DEF b
      <4> QED BY <2>1 DEF Stores
    <3>6. QED
      BY <3>2, <3>3, <3>4, <3>5
  <2>4. QED
    BY <2>2, <2>3
<1>2. QED
  BY <1>1, SdoInvariance, PTL

\* A variable changes only through an entry that may be written and has the key of the
\* request; every entry is found, by its key only (has_write_permission, find).
THEOREM WritesPermitted == Sdo!Spec => []OnlyPermittedWrites
<1>1. SdoInv => OnlyPermittedWrites
  <2> SUFFICES ASSUME SdoInv PROVE OnlyPermittedWrites
    OBVIOUS
  <2>1. DictInv /\ store \in Stores
    BY DEF SdoInv, Sdo!TypeOK, Stores
  <2>2. Sdo!EveryEntryFound
    <3>1. SUFFICES ASSUME NEW k \in Sdo!AllKeys
                   PROVE  Sdo!Find(k) = {e \in Entries : e.key = k}
      BY SameRange DEF Sdo!EveryEntryFound, Entries
    <3>2. k \in KeyPairs
      <4>1. [cs |-> "read", key |-> k] \in Sdo!Requests
        BY DEF Sdo!Requests
      <4>2. [cs |-> "read", key |-> k].key \in KeyPairs
        BY <4>1, RequestFacts
      <4>3. QED
        BY <4>2
    <3>3. CASE \E e \in Entries : e.key = k
      BY <2>1, <3>2, <3>3, Found, SameKeySameEntry
    <3>4. CASE \A e \in Entries : e.key # k
      BY <2>1, <3>2, <3>4, Found
    <3>5. QED
      BY <3>3, <3>4
  <2>3. ASSUME NEW r \in Sdo!Requests, NEW v \in DOMAIN Variables,
               Sdo!Handled(r, store).store[v] # store[v]
        PROVE  /\ Sdo!Handled(r, store).response.cs = "write"
               /\ \E e \in Sdo!Range(Dictionary) :
                    /\ e.var = v /\ e.access \in {"rw", "wo"}
                    /\ e.key = IF r.key = RestoreKey THEN r.data ELSE r.key
    <3>1. PICK e \in Entries : Accepted(r, e)
      BY <2>1, <2>3, RefusedKeeps
    <3>2. Sdo!Handled(r, store) = Sdo!Done(r, [store EXCEPT ![e.var] = ValueOf(r, e).bytes])
      BY <2>1, <3>1, AcceptedDone
    <3>3. e.var = v
      BY <2>1, <2>3, <3>2 DEF Sdo!Done, Sdo!Outcome, Stores
    <3>4. e.access \in {"rw", "wo"} /\ e.key = IF r.key = RestoreKey THEN r.data ELSE r.key
      BY <3>1 DEF Accepted, Sdo!Writable, Target, Restores
    <3>5. QED
      BY <3>2, <3>3, <3>4, SameRange DEF Sdo!Done, Sdo!Outcome, Entries
  <2>4. QED
    BY <2>2, <2>3 DEF OnlyPermittedWrites, Sdo!OnlyPermittedWrites
<1>2. QED
  BY <1>1, SdoInvariance, PTL

-----------------------------------------------------------------------------
(* The raw node.  A frame counts as heard when it is queued, and restarts  *)
(* the time-out when it is dispatched; between the two at most one run     *)
(* begins, so the node's reckoning is late by no more than that.           *)

Slots == DOMAIN RxSlots

\* Between the runs, the node's reckoning grows by the time since now_.
Reckoned(s) == Raw!Aged(lastRx[s], gap)
Tracked ==
  \A s \in 1 .. added :
    Raw!Waiting(s) \/ dropped[s] \/ Raw!Aged(heardOf[s], MaxGap) >= Reckoned(s)

RawInv ==
  /\ Raw!TypeOK
  /\ at \in Nat
  /\ IF ran THEN gap <= MaxGap ELSE gap <= MaxBoot /\ step = "idle"
  /\ Tracked

\* The numbers of the slots up to n have a bound.
LEMMA Bounded ==
  ASSUME NEW n \in Nat, NEW f, \A s \in 1 .. n : f[s] \in Nat
  PROVE  \E b \in Nat : \A s \in 1 .. n : f[s] <= b
<1> DEFINE S == {m \in Nat : m <= n => \E b \in Nat : \A s \in 1 .. m : f[s] <= b}
<1>1. 0 \in S
  OBVIOUS
<1>2. ASSUME NEW m \in Nat, m \in S PROVE m + 1 \in S
  <2>1. SUFFICES ASSUME m + 1 <= n PROVE \E b \in Nat : \A s \in 1 .. m + 1 : f[s] <= b
    OBVIOUS
  <2>2. PICK b \in Nat : \A s \in 1 .. m : f[s] <= b
    BY <1>2, <2>1
  <2>3. f[m + 1] \in Nat
    BY <2>1
  <2>4. CASE f[m + 1] <= b
    BY <2>2, <2>4
  <2>5. CASE ~(f[m + 1] <= b)
    <3>1. \A s \in 1 .. m + 1 : s \in 1 .. m \/ s = m + 1
      OBVIOUS
    <3>2. \A s \in 1 .. m : f[s] \in Nat
      BY <2>1
    <3>3. \A s \in 1 .. m + 1 : f[s] <= f[m + 1]
      BY <2>2, <2>3, <2>5, <3>1, <3>2
    <3>4. QED
      BY <2>3, <3>3
  <2>6. QED
    BY <2>4, <2>5
<1>3. n \in S
  <2> HIDE DEF S
  <2> QED BY <1>1, <1>2, Induction
<1>4. QED
  BY <1>3

LEMMA RawConstants ==
  /\ Slots = 1 .. Len(RxSlots) /\ Len(RxSlots) \in Nat
  /\ \A s \in Slots : RxSlots[s].timeout \in Nat
  /\ DOMAIN TxPeriods = 1 .. Len(TxPeriods) /\ Len(TxPeriods) \in Nat
  /\ \A s \in DOMAIN TxPeriods : TxPeriods[s] \in Nat
  /\ MaxGap \in Nat /\ MaxBoot \in Nat /\ MaxQueued \in Nat /\ RxCapacity \in Nat
  BY RawNodeAssumption, ServerAssumption DEF Slots

LEMMA MaxAgeIsNat == Raw!MaxAge \in Nat
<1> DEFINE T == {RxSlots[s].timeout : s \in Slots} \cup {TxPeriods[s] : s \in DOMAIN TxPeriods} \cup {1}
           n == Len(RxSlots)
           f == [s \in 1 .. n |-> RxSlots[s].timeout]
<1>1. PICK b \in Nat : \A s \in 1 .. n : f[s] <= b
  <2>1. n \in Nat /\ \A s \in 1 .. n : f[s] \in Nat
    BY RawConstants
  <2> HIDE DEF f, n
  <2>2. QED
    BY <2>1, Bounded
<1>2. PICK c \in Nat : \A s \in 1 .. Len(TxPeriods) : TxPeriods[s] <= c
  BY RawConstants, Bounded
<1>3. T \in SUBSET Int /\ T # {}
  BY RawConstants
<1>4. \A x \in T : x <= b + c + 1
  <2>1. \A s \in Slots : RxSlots[s].timeout \in Nat /\ RxSlots[s].timeout <= b
    BY <1>1, RawConstants
  <2>2. \A s \in DOMAIN TxPeriods : TxPeriods[s] \in Nat /\ TxPeriods[s] <= c
    BY <1>2, RawConstants
  <2>3. QED
    BY <2>1, <2>2
<1>5. \A x \in T : x \in Nat
  BY RawConstants
<1>6. Raw!MaxAge = CHOOSE x \in T : \A y \in T : x >= y
  BY Zenon DEF Raw!MaxAge, Raw!Max, Raw!Rx, Raw!Tx, Slots
<1> HIDE DEF T
<1>7. PICK m \in T : \A x \in T : x <= m
  <2>1. \E d \in Int : \A x \in T : x <= d
    BY <1>4
  <2>2. QED
    BY <1>3, <2>1, Extremes
<1>8. Raw!MaxAge \in T
  <2>1. m \in T /\ \A y \in T : m >= y
    BY <1>3, <1>7
  <2>2. QED
    BY <1>6, <2>1, Zenon
<1>9. QED
  BY <1>5, <1>8

\* What ageing does.
LEMMA Ageing ==
  ASSUME NEW a \in 0 .. Raw!MaxAge, NEW n \in Nat
  PROVE  /\ Raw!Aged(a, n) \in 0 .. Raw!MaxAge
         /\ a <= Raw!Aged(a, n) /\ Raw!Aged(a, n) <= a + n
         /\ Raw!Aged(a, 0) = a
         /\ \A m \in Nat : Raw!Aged(Raw!Aged(a, m), n) = Raw!Aged(a, m + n)
         /\ \A m \in Nat : m <= n => Raw!Aged(a, m) <= Raw!Aged(a, n)
         /\ \A b \in 0 .. Raw!MaxAge : a <= b => Raw!Aged(a, n) <= Raw!Aged(b, n)
  BY MaxAgeIsNat DEF Raw!Aged

\* The owner of a frame, of the first n slots.
OwnerAmong(id, n) ==
  LET M == {s \in 1 .. n : id \in RxSlots[s].accepts} IN IF M = {} THEN 0 ELSE Raw!Min(M)

LEMMA OwnerIsFirst ==
  ASSUME NEW n \in Nat, NEW id
  PROVE  LET o == OwnerAmong(id, n) IN
         /\ o \in 0 .. n
         /\ o # 0 => id \in RxSlots[o].accepts
         /\ \A s \in 1 .. n : id \in RxSlots[s].accepts => o # 0 /\ o <= s
<1> DEFINE M == {s \in 1 .. n : id \in RxSlots[s].accepts}
           o == OwnerAmong(id, n)
<1>1. o = IF M = {} THEN 0 ELSE CHOOSE x \in M : \A y \in M : x =< y
  BY Zenon DEF OwnerAmong, Raw!Min
<1>2. M \in SUBSET Nat
  OBVIOUS
<1>3. CASE M = {}
  <2>1. o = 0
    BY <1>1, <1>3
  <2> HIDE DEF o
  <2>2. QED
    BY <1>3, <2>1 DEF o
<1>4. CASE M # {}
  <2> HIDE DEF M, o
  <2>1. PICK m \in M : \A y \in M : m <= y
    BY <1>2, <1>4, Least
  <2>2. o = CHOOSE x \in M : \A y \in M : x =< y
    BY <1>1, <1>4
  <2>3. o \in M /\ \A y \in M : o <= y
    BY <2>1, <2>2, Zenon
  <2>4. QED
    BY <2>3 DEF M, o
<1>5. QED
  BY <1>3, <1>4

\* A slot that is added takes no frame away from the others.
LEMMA OwnerStays ==
  ASSUME NEW n \in Nat, NEW id, OwnerAmong(id, n) # 0
  PROVE  OwnerAmong(id, n + 1) = OwnerAmong(id, n)
<1> DEFINE o == OwnerAmong(id, n)
           p == OwnerAmong(id, n + 1)
<1>1. o \in 0 .. n /\ o # 0 /\ id \in RxSlots[o].accepts
      /\ \A s \in 1 .. n : id \in RxSlots[s].accepts => o # 0 /\ o <= s
  BY OwnerIsFirst
<1>2. n + 1 \in Nat
  OBVIOUS
<1>3. p \in 0 .. n + 1 /\ (p # 0 => id \in RxSlots[p].accepts)
      /\ \A s \in 1 .. n + 1 : id \in RxSlots[s].accepts => p # 0 /\ p <= s
  BY <1>2, OwnerIsFirst
<1> HIDE DEF o, p
<1>4. o \in 1 .. n + 1 /\ o \in 1 .. n
  BY <1>1
<1>5. p # 0 /\ p <= o
  BY <1>1, <1>3, <1>4
<1>6. p \in 1 .. n
  BY <1>3, <1>4, <1>5
<1>7. o <= p
  BY <1>1, <1>3, <1>5, <1>6
<1>8. QED
  BY <1>3, <1>4, <1>5, <1>7 DEF o, p

\* A frame for slot s, of the first n, waits in the queue q.
Waits(q, n, s) == \E i \in DOMAIN q : OwnerAmong(q[i], n) = s

LEMMA WaitingHere ==
  /\ \A id : Raw!Owner(id) = OwnerAmong(id, added) /\ Raw!Owner(id)' = OwnerAmong(id, added')
  /\ \A s : (Raw!Waiting(s) <=> Waits(rx_queue, added, s))
            /\ (Raw!Waiting(s)' <=> Waits(rx_queue', added', s))
<1>1. \A id : Raw!Owner(id) = OwnerAmong(id, added) /\ Raw!Owner(id)' = OwnerAmong(id, added')
  BY Zenon DEF Raw!Owner, Raw!Matching, OwnerAmong
<1>2. \A s : (Raw!Waiting(s) <=> Waits(rx_queue, added, s))
             /\ (Raw!Waiting(s)' <=> Waits(rx_queue', added', s))
  BY <1>1, Zenon DEF Raw!Waiting, Waits
<1>3. QED
  BY <1>1, <1>2

LEMMA WaitsOn ==
  ASSUME NEW q \in Seq(Ids), NEW n \in Nat, NEW s \in 1 .. n
  PROVE  /\ \A id \in Ids : Waits(q, n, s) \/ OwnerAmong(id, n) = s => Waits(Append(q, id), n, s)
         /\ q # <<>> /\ Waits(q, n, s) /\ OwnerAmong(Head(q), n) # s => Waits(Tail(q), n, s)
         /\ Waits(q, n, s) => Waits(q, n + 1, s)
<1>1. ASSUME NEW id \in Ids, Waits(q, n, s) \/ OwnerAmong(id, n) = s PROVE Waits(Append(q, id), n, s)
  <2>1. CASE Waits(q, n, s)
    <3>1. PICK i \in DOMAIN q : OwnerAmong(q[i], n) = s
      BY <2>1 DEF Waits
    <3>2. i \in DOMAIN Append(q, id) /\ Append(q, id)[i] = q[i]
      OBVIOUS
    <3>3. QED
      BY <3>1, <3>2 DEF Waits
  <2>2. CASE OwnerAmong(id, n) = s
    <3>1. Len(q) + 1 \in DOMAIN Append(q, id) /\ Append(q, id)[Len(q) + 1] = id
      OBVIOUS
    <3>2. QED
      BY <2>2, <3>1 DEF Waits
  <2>3. QED
    BY <1>1, <2>1, <2>2
<1>2. ASSUME q # <<>>, Waits(q, n, s), OwnerAmong(Head(q), n) # s PROVE Waits(Tail(q), n, s)
  <2>1. PICK i \in DOMAIN q : OwnerAmong(q[i], n) = s
    BY <1>2 DEF Waits
  <2>2. i # 1
    BY <1>2, <2>1
  <2>3. i - 1 \in DOMAIN Tail(q) /\ Tail(q)[i - 1] = q[i]
    BY <1>2, <2>2
  <2>4. QED
    BY <2>1, <2>3 DEF Waits
<1>3. ASSUME Waits(q, n, s) PROVE Waits(q, n + 1, s)
  <2>1. PICK i \in DOMAIN q : OwnerAmong(q[i], n) = s
    BY <1>3 DEF Waits
  <2>2. OwnerAmong(q[i], n) # 0
    BY <2>1
  <2>3. OwnerAmong(q[i], n + 1) = s
    BY <2>1, <2>2, OwnerStays
  <2>4. QED
    BY <2>1, <2>3 DEF Waits
<1>4. QED
  BY <1>1, <1>2, <1>3

LEMMA GapFits ==
  ASSUME NEW g \in Nat, NEW r, IF r THEN g <= MaxGap ELSE g <= MaxBoot
  PROVE  g \in 0 .. Raw!Max({MaxBoot, MaxGap})
<1> DEFINE m == Raw!Max({MaxBoot, MaxGap})
<1>1. m = CHOOSE x \in {MaxBoot, MaxGap} : \A y \in {MaxBoot, MaxGap} : x >= y
  BY Zenon DEF Raw!Max
<1>2. \E x \in {MaxBoot, MaxGap} : \A y \in {MaxBoot, MaxGap} : x >= y
  BY RawConstants
<1>3. m \in {MaxBoot, MaxGap} /\ \A y \in {MaxBoot, MaxGap} : m >= y
  BY <1>1, <1>2, Zenon
<1> HIDE DEF m
<1>4. m \in Nat /\ MaxBoot <= m /\ MaxGap <= m
  BY <1>3, RawConstants
<1>5. QED
  BY <1>4, RawConstants DEF m

\* The types that the steps below go by.
RawTypes ==
  /\ added \in 0 .. Len(RxSlots) /\ addedTx \in 0 .. Len(TxPeriods)
  /\ lastRx \in [Slots -> 0 .. Raw!MaxAge] /\ lastTx \in [DOMAIN TxPeriods -> 0 .. Raw!MaxAge]
  /\ timedOut \in [Slots -> BOOLEAN]
  /\ rx_queue \in Seq(Ids) /\ Len(rx_queue) <= RxCapacity /\ queued \in 0 .. MaxQueued
  /\ heardOf \in [Slots -> 0 .. Raw!MaxAge] /\ dropped \in [Slots -> BOOLEAN]
  /\ ran \in BOOLEAN /\ step \in {"idle", "dispatch", "timeouts", "send"}
  /\ gap \in Nat /\ at \in Nat
  /\ IF ran THEN gap <= MaxGap ELSE gap <= MaxBoot /\ step = "idle"

LEMMA RawInvParts ==
  /\ RawInv <=> RawTypes /\ Tracked
  /\ RawInv' <=> RawTypes' /\ Tracked'
<1>1. \A g \in Nat : \A r : (IF r THEN g <= MaxGap ELSE g <= MaxBoot)
        => g \in 0 .. Raw!Max({MaxBoot, MaxGap})
  BY GapFits
<1> DEFINE top == Raw!Max({MaxBoot, MaxGap})
<1>2. \A g : g \in 0 .. top => g \in Int /\ 0 <= g
  OBVIOUS
<1>3. \A g : g \in 0 .. top => g \in Nat
  BY <1>2
<1> HIDE DEF top
<1>4. RawInv <=> RawTypes /\ Tracked
  BY <1>1, <1>3, Zenon DEF RawInv, RawTypes, Raw!TypeOK, Raw!Rx, Raw!Tx, Slots, top
<1>5. RawInv' <=> RawTypes' /\ Tracked'
  BY <1>1, <1>3, Zenon DEF RawInv, RawTypes, Raw!TypeOK, Raw!Rx, Raw!Tx, Slots, top
<1>6. QED
  BY <1>4, <1>5

LEMMA AgedTwice ==
  ASSUME NEW a \in 0 .. Raw!MaxAge, NEW m \in Nat, NEW n \in Nat
  PROVE  /\ Raw!Aged(Raw!Aged(a, m), n) = Raw!Aged(a, m + n)
         /\ Raw!Aged(Raw!Aged(a, m), n) = Raw!Aged(Raw!Aged(a, n), m)
<1>1. /\ Raw!Aged(Raw!Aged(a, m), n) = Raw!Aged(a, m + n)
      /\ Raw!Aged(Raw!Aged(a, n), m) = Raw!Aged(a, n + m)
  BY Ageing
<1>2. m + n = n + m
  OBVIOUS
<1>3. QED
  BY <1>1, <1>2

LEMMA RawInitially == Raw!Init => RawInv
<1> SUFFICES ASSUME Raw!Init PROVE RawTypes /\ Tracked
  BY RawInvParts
<1> DEFINE top == Raw!MaxAge
<1>1. top \in Nat
  BY MaxAgeIsNat
<1> HIDE DEF top
<1>2. /\ added = 0 /\ addedTx = 0 /\ gap = 0 /\ at = 0 /\ queued = 0 /\ rx_queue = <<>>
      /\ ran = FALSE /\ step = "idle"
      /\ lastRx = [s \in Slots |-> 0] /\ lastTx = [s \in DOMAIN TxPeriods |-> 0]
      /\ timedOut = [s \in Slots |-> FALSE]
      /\ heardOf = [s \in Slots |-> 0] /\ dropped = [s \in Slots |-> FALSE]
  BY DEF Raw!Init, Raw!Rx, Raw!Tx, Slots
<1>3. RawTypes
  <2>1. added \in 0 .. Len(RxSlots) /\ addedTx \in 0 .. Len(TxPeriods) /\ queued \in 0 .. MaxQueued
    BY <1>2, RawConstants
  <2>2. /\ lastRx \in [Slots -> 0 .. top] /\ lastTx \in [DOMAIN TxPeriods -> 0 .. top]
        /\ heardOf \in [Slots -> 0 .. top]
    BY <1>1, <1>2
  <2>3. timedOut \in [Slots -> BOOLEAN] /\ dropped \in [Slots -> BOOLEAN] /\ ran \in BOOLEAN
    BY <1>2
  <2>4. rx_queue \in Seq(Ids) /\ Len(rx_queue) <= RxCapacity
    BY <1>2, RawConstants
  <2>5. /\ step \in {"idle", "dispatch", "timeouts", "send"} /\ gap \in Nat /\ at \in Nat
        /\ IF ran THEN gap <= MaxGap ELSE gap <= MaxBoot /\ step = "idle"
    BY <1>2, RawConstants
  <2>6. QED
    BY <2>1, <2>2, <2>3, <2>4, <2>5 DEF RawTypes, top
<1>4. Tracked
  BY <1>2 DEF Tracked
<1>5. QED
  BY <1>3, <1>4

\* The clock ages what was heard as it ages the reckoning.
LEMMA RawTickKeeps == RawInv /\ Raw!Tick => RawInv'
<1> SUFFICES ASSUME RawTypes, Tracked, Raw!Tick PROVE RawTypes' /\ Tracked'
  BY RawInvParts
<1> DEFINE top == Raw!MaxAge
<1>1. /\ gap' = gap + 1 /\ gap < IF ran THEN MaxGap ELSE MaxBoot
      /\ heardOf' = [s \in Slots |-> Raw!Aged(heardOf[s], 1)]
      /\ UNCHANGED <<ran, added, addedTx, lastRx, timedOut, lastTx, step, at, rx_queue, queued, dropped>>
  BY DEF Raw!Tick, Raw!slotVars, Raw!runVars, Raw!Rx, Slots
<1>2. \A s \in Slots : /\ heardOf[s] \in 0 .. top /\ lastRx[s] \in 0 .. top
                       /\ Raw!Aged(heardOf[s], 1) \in 0 .. top
  BY Ageing DEF RawTypes
<1>3. gap \in Nat /\ MaxGap \in Nat /\ MaxBoot \in Nat
  BY RawConstants DEF RawTypes
<1>4. RawTypes'
  <2> HIDE DEF top
  <2>1. heardOf' \in [Slots -> 0 .. top]
    BY <1>1, <1>2
  <2>2. gap' \in Nat /\ (IF ran THEN gap' <= MaxGap ELSE gap' <= MaxBoot)
    BY <1>1, <1>3
  <2>3. QED
    BY <1>1, <2>1, <2>2 DEF RawTypes, top
<1>5. Tracked'
  <2>1. SUFFICES ASSUME NEW s \in 1 .. added
                 PROVE  \/ Waits(rx_queue, added, s) \/ dropped[s]
                        \/ Raw!Aged(heardOf'[s], MaxGap) >= Raw!Aged(lastRx[s], gap + 1)
    BY <1>1, WaitingHere DEF Tracked, Reckoned, Raw!Aged, Raw!MaxAge, Raw!Max, Raw!Rx, Raw!Tx
  <2>2. s \in Slots
    BY RawConstants DEF RawTypes
  <2>3. Waits(rx_queue, added, s) \/ dropped[s] \/ Raw!Aged(heardOf[s], MaxGap) >= Raw!Aged(lastRx[s], gap)
    BY WaitingHere DEF Tracked, Reckoned
  <2>4. Raw!Aged(heardOf'[s], MaxGap) = Raw!Aged(Raw!Aged(heardOf[s], MaxGap), 1)
    <3>1. heardOf'[s] = Raw!Aged(heardOf[s], 1)
      BY <1>1, <2>2
    <3>2. heardOf[s] \in 0 .. Raw!MaxAge /\ 1 \in Nat /\ MaxGap \in Nat
      BY <1>2, <1>3, <2>2
    <3>3. Raw!Aged(Raw!Aged(heardOf[s], 1), MaxGap) = Raw!Aged(Raw!Aged(heardOf[s], MaxGap), 1)
      BY <3>2, AgedTwice, Zenon
    <3>4. QED
      BY <3>1, <3>3
  <2>5. Raw!Aged(lastRx[s], gap + 1) = Raw!Aged(Raw!Aged(lastRx[s], gap), 1)
    <3>1. lastRx[s] \in 0 .. Raw!MaxAge /\ 1 \in Nat /\ gap \in Nat
      BY <1>2, <1>3, <2>2
    <3>2. QED
      BY <3>1, AgedTwice, Zenon
  <2>6. Raw!Aged(heardOf[s], MaxGap) \in 0 .. top /\ Raw!Aged(lastRx[s], gap) \in 0 .. top
    BY <1>2, <1>3, <2>2, Ageing
  <2> DEFINE h == Raw!Aged(heardOf[s], MaxGap)
             r == Raw!Aged(lastRx[s], gap)
  <2>7. ASSUME h >= r PROVE Raw!Aged(h, 1) >= Raw!Aged(r, 1)
    <3>1. Raw!Aged(h, 1) \in 0 .. top /\ Raw!Aged(r, 1) \in 0 .. top
      BY <2>6, Ageing
    <3>2. h \in 0 .. top /\ r \in 0 .. top
      BY <2>6
    <3> HIDE DEF h, r
    <3>3. r <= h
      BY <2>7, <3>2
    <3>4. Raw!Aged(r, 1) <= Raw!Aged(h, 1)
      BY <3>2, <3>3, Ageing
    <3> HIDE DEF top
    <3>5. QED
      BY <3>1, <3>4
  <2>8. QED
    BY <2>3, <2>4, <2>5, <2>7
<1>6. QED
  BY <1>4, <1>5

\* A reckoning that began anew is no longer than a gap, nor than what was heard ages.
LEMMA Anew ==
  ASSUME NEW h \in 0 .. Raw!MaxAge, NEW g \in Nat, g <= MaxGap
  PROVE  Raw!Aged(h, MaxGap) >= Raw!Aged(0, g)
<1> DEFINE x == Raw!Aged(0, g)
           y == Raw!Aged(0, MaxGap)
           z == Raw!Aged(h, MaxGap)
<1>1. 0 \in 0 .. Raw!MaxAge /\ 0 <= h /\ MaxGap \in Nat
  BY MaxAgeIsNat, RawConstants
<1>2. x \in 0 .. Raw!MaxAge /\ y \in 0 .. Raw!MaxAge /\ z \in 0 .. Raw!MaxAge
  BY <1>1, Ageing
<1>3. x <= y
  BY <1>1, Ageing
<1>4. y <= z
  BY <1>1, Ageing
<1> HIDE DEF x, y, z
<1>5. QED
  BY <1>2, <1>3, <1>4, MaxAgeIsNat DEF x, z

LEMMA TrackedNext ==
  ASSUME \A s \in 1 .. added' :
           \/ Waits(rx_queue', added', s) \/ dropped'[s]
           \/ Raw!Aged(heardOf'[s], MaxGap) >= Raw!Aged(lastRx'[s], gap')
  PROVE  Tracked'
  BY WaitingHere DEF Tracked, Reckoned, Raw!Aged, Raw!MaxAge, Raw!Max, Raw!Rx, Raw!Tx

LEMMA RawEnqueueKeeps == ASSUME RawInv, NEW id \in Ids, Raw!Enqueue(id) PROVE RawInv'
<1> DEFINE o == Raw!Owner(id)
           q == rx_queue
<1> USE DEF Slots
<1>1. RawTypes /\ Tracked
  BY RawInvParts
<1>2. /\ UNCHANGED <<ran, added, addedTx, gap, lastRx, timedOut, lastTx, step, at>>
      /\ queued < MaxQueued /\ queued' = queued + 1
  BY DEF Raw!Enqueue, Raw!slotVars, Raw!runVars
<1>3. o = OwnerAmong(id, added) /\ added \in Nat /\ \A s \in 1 .. added : s \in Slots
  BY <1>1, WaitingHere, RawConstants DEF RawTypes
<1>4. \A s \in 1 .. added :
        \/ Waits(q, added, s) \/ dropped[s]
        \/ Raw!Aged(heardOf[s], MaxGap) >= Raw!Aged(lastRx[s], gap)
  BY <1>1, WaitingHere DEF Tracked, Reckoned
<1>5. queued' \in 0 .. MaxQueued
  BY <1>1, <1>2, RawConstants DEF RawTypes
<1>6. CASE Len(q) < RxCapacity
  <2>1. /\ rx_queue' = Append(q, id)
        /\ heardOf' = [s \in Slots |-> IF s = o THEN 0 ELSE heardOf[s]]
        /\ dropped' = [s \in Slots |-> s # o /\ dropped[s]]
    BY <1>6 DEF Raw!Enqueue, Raw!Rx
  <2> HIDE DEF o
  <2>2. rx_queue' \in Seq(Ids) /\ Len(rx_queue') <= RxCapacity
    BY <1>1, <1>6, <2>1, RawConstants DEF RawTypes
  <2>3. heardOf' \in [Slots -> 0 .. Raw!MaxAge]
    <3> DEFINE top == Raw!MaxAge
    <3>1. top \in Nat /\ heardOf \in [Slots -> 0 .. top]
      BY <1>1, MaxAgeIsNat DEF RawTypes
    <3> HIDE DEF top
    <3>2. heardOf' \in [Slots -> 0 .. top]
      BY <2>1, <3>1
    <3>3. QED
      BY <3>2 DEF top
  <2>4. dropped' \in [Slots -> BOOLEAN]
    BY <2>1
  <2>5. RawTypes'
    BY <1>1, <1>2, <1>5, <2>2, <2>3, <2>4
       DEF RawTypes, Raw!MaxAge, Raw!Max, Raw!Rx, Raw!Tx
  <2>6. ASSUME NEW s \in 1 .. added
        PROVE  \/ Waits(rx_queue', added, s) \/ dropped'[s]
               \/ Raw!Aged(heardOf'[s], MaxGap) >= Raw!Aged(lastRx[s], gap)
    <3>1. q \in Seq(Ids)
      BY <1>1 DEF RawTypes
    <3>2. Waits(q, added, s) \/ o = s => Waits(rx_queue', added, s)
      BY <1>3, <2>1, <3>1, WaitsOn
    <3>3. o # s => heardOf'[s] = heardOf[s] /\ (dropped'[s] <=> dropped[s])
      BY <1>3, <2>1
    <3>4. QED
      BY <1>4, <3>2, <3>3
  <2>7. Tracked'
    BY <1>2, <2>6, TrackedNext
  <2>8. QED
    BY <2>5, <2>7, RawInvParts
<1>7. CASE ~(Len(q) < RxCapacity)
  <2>1. /\ rx_queue' = q /\ heardOf' = heardOf
        /\ dropped' = [s \in Slots |-> s = o \/ dropped[s]]
    BY <1>7 DEF Raw!Enqueue, Raw!Rx
  <2> HIDE DEF o
  <2>2. dropped' \in [Slots -> BOOLEAN]
    BY <2>1
  <2>3. RawTypes'
    BY <1>1, <1>2, <1>5, <2>1, <2>2 DEF RawTypes, Raw!MaxAge, Raw!Max, Raw!Rx, Raw!Tx
  <2>4. \A s \in 1 .. added : dropped[s] => dropped'[s]
    BY <1>3, <2>1
  <2>5. Tracked'
    BY <1>2, <1>4, <2>1, <2>4, TrackedNext
  <2>6. QED
    BY <2>3, <2>5, RawInvParts
<1>8. QED
  BY <1>6, <1>7

\* A slot is taken to be heard when it is added, or at the zero of the clock.
LEMMA RawAddRxKeeps == RawInv /\ Raw!AddRx => RawInv'
<1> SUFFICES ASSUME RawTypes, Tracked, Raw!AddRx PROVE RawTypes' /\ Tracked'
  BY RawInvParts
<1> DEFINE n == added + 1
           h == IF ran THEN 0 ELSE Raw!Aged(gap, 0)
           top == Raw!MaxAge
<1> USE DEF Slots
<1>1. /\ UNCHANGED <<ran, addedTx, gap, timedOut, lastTx, step, at, rx_queue, queued>>
      /\ n \in Slots /\ added' = n
      /\ lastRx' = [lastRx EXCEPT ![n] = 0]
      /\ heardOf' = [heardOf EXCEPT ![n] = h]
      /\ dropped' = [dropped EXCEPT ![n] = FALSE]
  BY DEF Raw!AddRx, Raw!runVars, Raw!Rx
<1>2. /\ top \in Nat /\ gap \in Nat /\ MaxGap \in Nat /\ added \in Nat
      /\ 0 \in 0 .. top
      /\ lastRx \in [Slots -> 0 .. top] /\ heardOf \in [Slots -> 0 .. top]
      /\ dropped \in [Slots -> BOOLEAN]
  BY MaxAgeIsNat, RawConstants DEF RawTypes
<1>3. Raw!Aged(gap, 0) = (IF gap < top THEN gap ELSE top) /\ Raw!Aged(0, gap) = (IF gap < top THEN gap ELSE top)
  <2> HIDE DEF top
  <2>1. Raw!Aged(gap, 0) = (IF gap + 0 < top THEN gap + 0 ELSE top)
    BY Zenon DEF Raw!Aged, top
  <2>2. Raw!Aged(0, gap) = (IF 0 + gap < top THEN 0 + gap ELSE top)
    BY Zenon DEF Raw!Aged, top
  <2>3. gap + 0 = gap /\ 0 + gap = gap
    BY <1>2
  <2>4. QED
    BY <2>1, <2>2, <2>3
<1>4. h \in 0 .. top
  <2> HIDE DEF top
  <2> QED BY <1>2, <1>3
<1>5. Raw!Aged(h, MaxGap) >= Raw!Aged(0, gap)
  <2>1. CASE ran
    <3>1. gap <= MaxGap /\ h = 0
      BY <2>1 DEF RawTypes
    <3>2. QED
      BY <1>2, <3>1, Anew
  <2>2. CASE ~ran
    <3>1. h = Raw!Aged(0, gap)
      BY <1>3, <2>2
    <3>2. h <= Raw!Aged(h, MaxGap) /\ Raw!Aged(h, MaxGap) \in 0 .. top
      BY <1>2, <1>4, Ageing
    <3> DEFINE z == Raw!Aged(h, MaxGap)
    <3>3. z >= h
      <4>1. h \in 0 .. top /\ z \in 0 .. top /\ h <= z /\ top \in Nat
        BY <1>2, <1>4, <3>2
      <4> HIDE DEF h, z, top
      <4>2. QED
        BY <4>1
    <3>4. QED
      BY <3>1, <3>3
  <2>3. QED
    BY <2>1, <2>2
<1>6. \A s \in 1 .. n : s \in Slots /\ (s = n \/ s \in 1 .. added)
  BY <1>1, <1>2, RawConstants
<1> HIDE DEF h
<1>7. RawTypes'
  <2> HIDE DEF top
  <2>1. lastRx' \in [Slots -> 0 .. top] /\ heardOf' \in [Slots -> 0 .. top] /\ dropped' \in [Slots -> BOOLEAN]
    BY <1>1, <1>2, <1>4
  <2>2. added' \in 0 .. Len(RxSlots)
    BY <1>1, <1>2, RawConstants
  <2>3. QED
    BY <1>1, <2>1, <2>2 DEF RawTypes, top, Raw!MaxAge, Raw!Max, Raw!Rx, Raw!Tx
<1>8. ASSUME NEW s \in 1 .. n
      PROVE  \/ Waits(rx_queue, n, s) \/ dropped'[s]
             \/ Raw!Aged(heardOf'[s], MaxGap) >= Raw!Aged(lastRx'[s], gap)
  <2>1. CASE s = n
    <3>1. heardOf'[s] = h /\ lastRx'[s] = 0
      BY <1>1, <1>2, <1>6, <2>1
    <3>2. QED
      BY <1>5, <3>1
  <2>2. CASE s # n
    <3>1. s \in 1 .. added /\ s \in Slots
      BY <1>6, <2>2
    <3>2. heardOf'[s] = heardOf[s] /\ lastRx'[s] = lastRx[s] /\ dropped'[s] = dropped[s]
      BY <1>1, <1>2, <2>2, <3>1
    <3>3. rx_queue \in Seq(Ids)
      BY DEF RawTypes
    <3>4. Waits(rx_queue, added, s) => Waits(rx_queue, n, s)
      BY <1>2, <3>1, <3>3, WaitsOn
    <3>5. \/ Waits(rx_queue, added, s) \/ dropped[s]
          \/ Raw!Aged(heardOf[s], MaxGap) >= Raw!Aged(lastRx[s], gap)
      BY <3>1, WaitingHere DEF Tracked, Reckoned
    <3>6. QED
      BY <3>2, <3>4, <3>5
  <2>3. QED
    BY <2>1, <2>2
<1>9. Tracked'
  BY <1>1, <1>8, TrackedNext
<1>10. QED
  BY <1>7, <1>9

\* The begin of a run adds the gap to the reckoning, and begins another gap.
LEMMA RawBeginKeeps == RawInv /\ Raw!Begin => RawInv'
<1> SUFFICES ASSUME RawTypes, Tracked, Raw!Begin PROVE RawTypes' /\ Tracked'
  BY RawInvParts
<1> DEFINE top == Raw!MaxAge
<1> USE DEF Slots
<1>1. /\ UNCHANGED <<added, addedTx, timedOut, at, rx_queue, heardOf, dropped>>
      /\ ran' = TRUE /\ gap' = 0 /\ step' = "dispatch" /\ queued' = 0
      /\ lastRx' = [s \in Slots |-> IF s <= added THEN Raw!Aged(lastRx[s], gap) ELSE 0]
      /\ lastTx' = [s \in DOMAIN TxPeriods |-> IF s <= addedTx THEN Raw!Aged(lastTx[s], gap) ELSE 0]
  BY DEF Raw!Begin, Raw!Rx, Raw!Tx
<1>2. /\ top \in Nat /\ gap \in Nat /\ MaxGap \in Nat /\ MaxQueued \in Nat
      /\ lastRx \in [Slots -> 0 .. top] /\ lastTx \in [DOMAIN TxPeriods -> 0 .. top]
      /\ added \in Nat /\ \A s \in 1 .. added : s \in Slots
  BY MaxAgeIsNat, RawConstants DEF RawTypes
<1>3. /\ \A s \in Slots : Raw!Aged(lastRx[s], gap) \in 0 .. top
      /\ \A s \in DOMAIN TxPeriods : Raw!Aged(lastTx[s], gap) \in 0 .. top
  BY <1>2, Ageing
<1>4. RawTypes'
  <2> HIDE DEF top
  <2>1. lastRx' \in [Slots -> 0 .. top]
    BY <1>1, <1>2, <1>3
  <2>2. lastTx' \in [DOMAIN TxPeriods -> 0 .. top]
    BY <1>1, <1>2, <1>3
  <2>3. queued' \in 0 .. MaxQueued /\ gap' \in Nat /\ gap' <= MaxGap
    BY <1>1, <1>2
  <2>4. QED
    BY <1>1, <2>1, <2>2, <2>3 DEF RawTypes, top, Raw!MaxAge, Raw!Max, Raw!Rx, Raw!Tx
<1>5. ASSUME NEW s \in 1 .. added
      PROVE  \/ Waits(rx_queue, added, s) \/ dropped[s]
             \/ Raw!Aged(heardOf[s], MaxGap) >= Raw!Aged(lastRx'[s], 0)
  <2>1. s \in Slots /\ s <= added
    BY <1>2
  <2>2. lastRx'[s] = Raw!Aged(lastRx[s], gap)
    BY <1>1, <2>1
  <2>3. Raw!Aged(lastRx'[s], 0) = Raw!Aged(lastRx[s], gap)
    BY <1>3, <2>1, <2>2, Ageing
  <2>4. QED
    BY <2>3, WaitingHere DEF Tracked, Reckoned
<1>6. Tracked'
  BY <1>1, <1>5, TrackedNext
<1>7. QED
  BY <1>4, <1>6

LEMMA RawDispatchKeeps == RawInv /\ Raw!Dispatch => RawInv'
<1> SUFFICES ASSUME RawTypes, Tracked, Raw!Dispatch PROVE RawTypes' /\ Tracked'
  BY RawInvParts
<1> DEFINE top == Raw!MaxAge
           q == rx_queue
           o == Raw!Owner(Head(q))
<1> USE DEF Slots
<1>1. /\ UNCHANGED <<ran, added, addedTx, gap, lastTx, step, at, queued, heardOf, dropped>>
      /\ step = "dispatch" /\ q # <<>> /\ rx_queue' = Tail(q)
      /\ lastRx' = [s \in Slots |-> IF s = o THEN 0 ELSE lastRx[s]]
      /\ timedOut' = [s \in Slots |-> s # o /\ timedOut[s]]
  BY DEF Raw!Dispatch, Raw!Rx, Raw!runVars
<1>2. /\ top \in Nat /\ MaxGap \in Nat /\ gap \in Nat /\ gap <= MaxGap
      /\ lastRx \in [Slots -> 0 .. top] /\ heardOf \in [Slots -> 0 .. top]
      /\ added \in Nat /\ \A s \in 1 .. added : s \in Slots
      /\ q \in Seq(Ids) /\ Len(q) <= RxCapacity
  BY <1>1, MaxAgeIsNat, RawConstants DEF RawTypes
<1>3. o = OwnerAmong(Head(q), added)
  BY WaitingHere
<1> HIDE DEF o
<1>4. RawTypes'
  <2> HIDE DEF top
  <2>1. lastRx' \in [Slots -> 0 .. top] /\ timedOut' \in [Slots -> BOOLEAN]
    BY <1>1, <1>2
  <2>2. rx_queue' \in Seq(Ids) /\ Len(rx_queue') <= RxCapacity
    BY <1>1, <1>2, RawConstants
  <2>3. QED
    BY <1>1, <2>1, <2>2 DEF RawTypes, top, Raw!MaxAge, Raw!Max, Raw!Rx, Raw!Tx
<1>5. ASSUME NEW s \in 1 .. added
      PROVE  \/ Waits(rx_queue', added, s) \/ dropped[s]
             \/ Raw!Aged(heardOf[s], MaxGap) >= Raw!Aged(lastRx'[s], gap)
  <2>1. s \in Slots /\ heardOf[s] \in 0 .. top
    BY <1>2
  <2>2. CASE s = o
    <3>1. lastRx'[s] = 0
      BY <1>1, <2>1, <2>2
    <3>2. QED
      BY <1>2, <2>1, <3>1, Anew
  <2>3. CASE s # o
    <3>1. lastRx'[s] = lastRx[s]
      BY <1>1, <2>1, <2>3
    <3>2. Waits(q, added, s) => Waits(rx_queue', added, s)
      BY <1>1, <1>2, <1>3, <2>3, WaitsOn
    <3>3. QED
      BY <3>1, <3>2, WaitingHere DEF Tracked, Reckoned
  <2>4. QED
    BY <2>2, <2>3
<1>6. Tracked'
  BY <1>1, <1>5, TrackedNext
<1>7. QED
  BY <1>4, <1>6

LEMMA RawCheckKeeps == RawInv /\ Raw!CheckTimeout => RawTypes'
<1> SUFFICES ASSUME RawTypes, Raw!CheckTimeout PROVE RawTypes'
  BY RawInvParts
<1>1. at' = at + 1 /\ at' \in Nat
  BY DEF Raw!CheckTimeout, RawTypes
<1>2. timedOut' \in [Slots -> BOOLEAN]
  BY Zenon DEF Raw!CheckTimeout, RawTypes
<1>3. QED
  BY <1>1, <1>2 DEF Raw!CheckTimeout, RawTypes, Raw!queueVars, Raw!MaxAge, Raw!Max, Raw!Rx, Raw!Tx

\* The steps that change neither the clock, nor what was heard, nor the reckoning.
LEMMA RawOthersKeep ==
  /\ RawInv
  /\ \/ Raw!AddPeriodicTx \/ Raw!Dispatched \/ Raw!CheckTimeout \/ Raw!Checked
     \/ Raw!Send \/ Raw!Return \/ UNCHANGED Raw!vars
  => RawInv'
<1> DEFINE top == Raw!MaxAge
<1> SUFFICES ASSUME RawInv, RawTypes, Tracked,
                    \/ Raw!AddPeriodicTx \/ Raw!Dispatched \/ Raw!CheckTimeout \/ Raw!Checked
                    \/ Raw!Send \/ Raw!Return \/ UNCHANGED Raw!vars
             PROVE  RawTypes' /\ Tracked'
  BY RawInvParts
<1>1. UNCHANGED <<ran, added, gap, lastRx, rx_queue, heardOf, dropped>>
  BY DEF Raw!AddPeriodicTx, Raw!Dispatched, Raw!CheckTimeout, Raw!Checked, Raw!Send, Raw!Return,
         Raw!vars, Raw!runVars, Raw!queueVars, Raw!slotVars
<1>2. Tracked'
  <2>1. \A s \in 1 .. added :
          \/ Waits(rx_queue, added, s) \/ dropped[s]
          \/ Raw!Aged(heardOf[s], MaxGap) >= Raw!Aged(lastRx[s], gap)
    BY WaitingHere DEF Tracked, Reckoned
  <2>2. QED
    BY <1>1, <2>1, TrackedNext
<1>3. top \in Nat /\ at + 1 \in Nat /\ addedTx \in Nat
      /\ lastTx \in [DOMAIN TxPeriods -> 0 .. top]
  BY MaxAgeIsNat, RawConstants DEF RawTypes
<1>4. CASE Raw!AddPeriodicTx
  <2> HIDE DEF top
  <2>1. addedTx' = addedTx + 1 /\ addedTx' \in DOMAIN TxPeriods
        /\ lastTx' = [lastTx EXCEPT ![addedTx + 1] = 0]
        /\ UNCHANGED <<timedOut, step, at, queued>>
    BY <1>4 DEF Raw!AddPeriodicTx, Raw!Tx, Raw!runVars, Raw!queueVars
  <2>2. addedTx' \in 0 .. Len(TxPeriods) /\ lastTx' \in [DOMAIN TxPeriods -> 0 .. top]
    BY <1>3, <2>1, RawConstants
  <2>3. RawTypes'
    BY <1>1, <2>1, <2>2 DEF RawTypes, top, Raw!MaxAge, Raw!Max, Raw!Rx, Raw!Tx
  <2>4. QED
    BY <1>2, <2>3
<1>5. CASE Raw!CheckTimeout
  BY <1>2, <1>5, RawCheckKeeps
<1>6. CASE Raw!Send
  <2> HIDE DEF top
  <2>1. at' = at + 1 /\ UNCHANGED <<addedTx, timedOut, step, queued>>
        /\ (lastTx' = [lastTx EXCEPT ![at] = 0] \/ lastTx' = lastTx)
    BY <1>6 DEF Raw!Send, Raw!queueVars
  <2>2. lastTx' \in [DOMAIN TxPeriods -> 0 .. top]
    BY <1>3, <2>1
  <2>3. step = "send"
    BY <1>6 DEF Raw!Send
  <2>4. RawTypes'
    BY <1>1, <1>3, <2>1, <2>2, <2>3 DEF RawTypes, top, Raw!MaxAge, Raw!Max, Raw!Rx, Raw!Tx
  <2>5. QED
    BY <1>2, <2>4
<1>7. CASE Raw!Dispatched \/ Raw!Checked \/ Raw!Return \/ UNCHANGED Raw!vars
  <2>1. /\ UNCHANGED <<addedTx, timedOut, lastTx, queued>>
        /\ \/ ran /\ step' \in {"timeouts", "send", "idle"} /\ at' \in {0, 1}
           \/ UNCHANGED <<step, at>>
    BY <1>7 DEF RawTypes, Raw!Dispatched, Raw!Checked, Raw!Return, Raw!vars, Raw!runVars,
                Raw!queueVars, Raw!slotVars
  <2>2. /\ step' \in {"idle", "dispatch", "timeouts", "send"} /\ at' \in Nat
        /\ ran' \in BOOLEAN /\ gap' \in Nat
        /\ IF ran' THEN gap' <= MaxGap ELSE gap' <= MaxBoot /\ step' = "idle"
    BY <1>1, <2>1 DEF RawTypes
  <2>3. RawTypes'
    BY <1>1, <2>1, <2>2 DEF RawTypes, Raw!MaxAge, Raw!Max, Raw!Rx, Raw!Tx
  <2>4. QED
    BY <1>2, <2>3
<1>8. QED
  BY <1>4, <1>5, <1>6, <1>7

LEMMA RawInductive == RawInv /\ [Raw!Next]_(Raw!vars) => RawInv'
<1>1. RawInv /\ (\E id \in Ids : Raw!Enqueue(id)) => RawInv'
  BY RawEnqueueKeeps
<1>2. QED
  BY <1>1, RawTickKeeps, RawAddRxKeeps, RawBeginKeeps, RawDispatchKeeps, RawOthersKeep
     DEF Raw!Next, Raw!Run

\* The reckoning is no shorter than the age of last_rx.
LEMMA RawInvTracks == RawInv => Raw!SilenceTracked
<1> SUFFICES ASSUME RawTypes, Tracked, NEW s \in 1 .. added
             PROVE  \/ Raw!Waiting(s) \/ dropped[s]
                    \/ Raw!Aged(heardOf[s], MaxGap) >= lastRx[s]
  BY RawInvParts DEF Raw!SilenceTracked
<1> DEFINE top == Raw!MaxAge
           h == Raw!Aged(heardOf[s], MaxGap)
           r == Raw!Aged(lastRx[s], gap)
<1>1. s \in Slots /\ gap \in Nat /\ MaxGap \in Nat /\ top \in Nat
  BY RawConstants, MaxAgeIsNat DEF RawTypes
<1>2. lastRx[s] \in 0 .. top /\ heardOf[s] \in 0 .. top
  BY <1>1 DEF RawTypes
<1>3. lastRx[s] <= r /\ r \in 0 .. top /\ h \in 0 .. top
  BY <1>1, <1>2, Ageing
<1>4. Raw!Waiting(s) \/ dropped[s] \/ h >= r
  BY DEF Tracked, Reckoned
<1> HIDE DEF h, r, top
<1>5. h >= r => h >= lastRx[s]
  BY <1>1, <1>2, <1>3
<1>6. QED
  BY <1>4, <1>5 DEF h

\* No slot times out but one whose frames are late, were dropped, or did not come for
\* its timeout, but for the time of one run (run, enqueue_rx).
LEMMA TimesOutSilent ==
  ASSUME RawInv, [Raw!Next]_(Raw!vars), NEW s \in Slots, timedOut'[s], ~timedOut[s]
  PROVE  Raw!Waiting(s) \/ dropped[s] \/ heardOf[s] + MaxGap >= RxSlots[s].timeout
<1> DEFINE top == Raw!MaxAge
           limit == RxSlots[s].timeout
<1>1. RawTypes /\ Raw!SilenceTracked
  BY RawInvParts, RawInvTracks
<1>2. timedOut \in [Slots -> BOOLEAN]
  BY <1>1 DEF RawTypes
<1>3. timedOut' # timedOut
  OBVIOUS
<1>4. ~Raw!Dispatch
  <2>1. SUFFICES ASSUME Raw!Dispatch PROVE FALSE
    OBVIOUS
  <2>2. timedOut'[s] => timedOut[s]
    BY <2>1 DEF Raw!Dispatch, Raw!Rx, Slots
  <2>3. QED
    BY <2>2
<1>5. Raw!CheckTimeout
  BY <1>3, <1>4 DEF Raw!Next, Raw!Run, Raw!Tick, Raw!Enqueue, Raw!AddRx, Raw!AddPeriodicTx,
        Raw!Begin, Raw!Dispatched, Raw!Checked, Raw!Send, Raw!Return, Raw!vars, Raw!slotVars
<1>6. s = at
  BY <1>2, <1>5 DEF Raw!CheckTimeout
<1>7. s \in 1 .. added /\ lastRx[s] >= limit
  <2>1. at <= added /\ lastRx[at] >= RxSlots[at].timeout
    BY <1>2, <1>5, <1>6, Zenon DEF Raw!CheckTimeout
  <2>2. at \in Nat /\ added \in Nat /\ s \in 1 .. Len(RxSlots)
    BY <1>1, RawConstants DEF RawTypes
  <2>3. QED
    BY <1>6, <2>1, <2>2
<1>8. CASE Raw!Aged(heardOf[s], MaxGap) >= lastRx[s]
  <2>1. /\ lastRx[s] \in 0 .. top /\ heardOf[s] \in 0 .. top /\ MaxGap \in Nat /\ top \in Nat
        /\ limit \in Nat
    BY <1>1, RawConstants, MaxAgeIsNat DEF RawTypes
  <2> DEFINE h == Raw!Aged(heardOf[s], MaxGap)
  <2>2. h <= heardOf[s] + MaxGap /\ h \in 0 .. top
    BY <2>1, Ageing
  <2>3. h >= lastRx[s]
    BY <1>8
  <2> HIDE DEF h, top, limit
  <2>4. heardOf[s] + MaxGap >= limit
    BY <1>7, <2>1, <2>2, <2>3
  <2>5. QED
    BY <2>4 DEF limit
<1>9. QED
  BY <1>1, <1>7, <1>8 DEF Raw!SilenceTracked

\* A slot times out only when no frame that it is given was queued for its timeout,
\* but for the time of one run, unless the queue was full (run, add_rx, enqueue_rx).
THEOREM TimesOutOnlyWhenSilent == Raw!Spec => NoFalseRxTimeout
<1> DEFINE Loud(s) == Raw!Waiting(s) \/ dropped[s] \/ heardOf[s] + MaxGap >= RxSlots[s].timeout
<1>1. RawInv => Raw!TypeOK /\ Raw!SilenceTracked
  BY RawInvTracks DEF RawInv
<1>2. RawInv /\ [Raw!Next]_(Raw!vars)
        => [\A s \in Raw!Rx : timedOut'[s] /\ ~timedOut[s] => Loud(s)]_(Raw!vars)
  BY TimesOutSilent DEF Slots, Raw!Rx
<1>3. QED
  BY <1>1, <1>2, RawInitially, RawInductive, PTL DEF Raw!Spec, NoFalseRxTimeout, Raw!NoFalseTimeout
=============================================================================
