SPECIFICATION LiveSpec
CONSTANTS
  Links <- MCLinks
  NextLink <- MCNextLink
  ConnIdOf <- MCConnIdOf
  NoConn <- MCNoConn
  Tables <- MCTables
  ClockPeriod = 3
  DiscoveryTimeout = 2
  OperationTimeout = 1
  HapticTimeout = 1
  MaxEvents = 2
  MaxHaptics = 2
INVARIANTS
  TypeOK
  ReadyIsEarned
  WatchdogsOnTime
  HapticGate
PROPERTIES
  ImplementsSession
  SetupResolves
  LossIsReported
