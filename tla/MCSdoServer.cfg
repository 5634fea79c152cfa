SPECIFICATION SdoSpec
CONSTANTS
  Rpdos = {}
  Tpdos = {}
  Remotes = {}
  Heartbeat = Heartbeat
  Sync = Sync
  WatchCapacity = 1
  RxCapacity = 2
  TsdoCapacity = 1
  MaxPeriod = 0
  MaxLag = 0
  Burst = 0
  Periods <- MCPeriods
  Arrivals = {}
  Dictionary <- MCDictionary
  Variables <- MCVariables
  RestoreKey <- MCRestoreKey
  Bytes = {0, 1}
  Windows = {1, 2}
  Ids = {"a", "b"}
  RxSlots <- MCRxSlots
  TxPeriods <- MCTxPeriods
  MaxBoot = 3
  MaxGap = 2
  MaxQueued = 3
INVARIANTS
  PatientClientAnswered
  AcknowledgedWriteReadsBack
  
  OnlyPermittedWrites
