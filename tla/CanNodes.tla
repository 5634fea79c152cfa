------------------------------ MODULE CanNodes ------------------------------
(***************************************************************************)
(* The nodes of a CAN bus: a CANopen server, the SDO server that is one of *)
(* its services, looked at by itself, and a raw node.  The CANopen server  *)
(* knows only how many responses wait in the SDO server's queue.           *)
(***************************************************************************)
EXTENDS CanopenServer

CONSTANTS
  Dictionary, Variables, RestoreKey, Bytes, Windows,
  Ids, RxSlots, TxPeriods, MaxBoot, MaxGap, MaxQueued

VARIABLES
  dictionary, store, tsdo_queue, window, lost,
  ran, added, addedTx, gap, lastRx, timedOut, lastTx, rx_queue, step, at, queued,
  heardOf, dropped

Sdo == INSTANCE SdoServer WITH Capacity <- TsdoCapacity, tsdo <- tsdo_queue
Raw == INSTANCE RawNode WITH Capacity <- RxCapacity, rxq <- rx_queue, pc <- step,
                             heard <- heardOf

-----------------------------------------------------------------------------
\* The assertions of init_dictionary: no two entries have the same key.
ASSUME SdoAssumption ==
  /\ 0 \in Bytes /\ 1 \in Bytes /\ Bytes \subseteq Nat
  /\ Windows \subseteq Nat
  /\ RestoreKey \in Nat \X Nat
  /\ Dictionary \in Seq(Range(Dictionary))
  /\ \A e \in Range(Dictionary) :
       /\ e.key \in Nat \X Nat /\ e.access \in Sdo!AccessRights /\ e.type \in Sdo!Types
       /\ e.default \in Sdo!OdValues \cup {Sdo!None}
  /\ \A i, j \in DOMAIN Dictionary : Dictionary[i].key = Dictionary[j].key => i = j

ASSUME RawNodeAssumption ==
  /\ RxSlots \in Seq(Range(RxSlots)) /\ TxPeriods \in Seq(Nat)
  /\ \A s \in DOMAIN RxSlots : RxSlots[s].accepts \subseteq Ids /\ RxSlots[s].timeout \in Nat
  /\ MaxGap \in Nat \ {0} /\ {MaxBoot, MaxQueued} \subseteq Nat

-----------------------------------------------------------------------------
\* Properties of the instances, stated there: of the SDO server (try_handle, find,
\* drain) and of the raw node (run, enqueue_rx).
PatientClientAnswered == Sdo!PatientClientAnswered
AcknowledgedWriteReadsBack == Sdo!AcknowledgedWriteReadsBack
RetryChangesNothing == Sdo!RetryChangesNothing
OnlyPermittedWrites == Sdo!OnlyPermittedWrites
NoFalseRxTimeout == Raw!NoFalseTimeout
SilenceReported == Raw!SilenceReported
=============================================================================
