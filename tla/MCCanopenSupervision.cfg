SPECIFICATION Spec
CONSTANTS
  Rpdos = {rpdo1}
  Tpdos = {}
  Remotes = {node1}
  Heartbeat = Heartbeat
  Sync = Sync
  WatchCapacity = 1
  RxCapacity = 2
  TsdoCapacity = 1
  MaxPeriod = 2
  MaxLag = 1
  Burst = 1
  Periods <- MCPeriods
  Arrivals <- MCArrivals
PROPERTIES
  NoFalseTimeout
  StopObeyed
  SilenceDetected
