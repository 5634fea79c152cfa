SPECIFICATION Spec
CONSTANTS
  Rpdos = {}
  Tpdos = {tpdo1}
  Remotes = {}
  Heartbeat = Heartbeat
  Sync = Sync
  WatchCapacity = 1
  RxCapacity = 2
  TsdoCapacity = 2
  MaxPeriod = 2
  MaxLag = 1
  Burst = 1
  Periods <- MCProducerPeriods
  Arrivals <- MCProducerArrivals
PROPERTIES
  
  HeartbeatKeepsGoing
