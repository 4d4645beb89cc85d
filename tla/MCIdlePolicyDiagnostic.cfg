SPECIFICATION Spec
VIEW RelativeState
CONSTANTS
  IdleTimeout = 4
  SleepConfirm = 8
  MaxSuppression = 20
  SlowRate = 5
  WakeRate = 3
  RateSampleCount = 4
  BurstMinSpacing = 1
  ClockPeriod = 21
  FastInterval = 2
  SlowInterval = 6
  ReleaseDelay = 2
  MaxMissed = 0
PROPERTIES
  SilenceArms
