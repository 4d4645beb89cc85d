SPECIFICATION LiveSpec
CONSTANTS
  IdleTimeout = 1
  SleepConfirm = 6
  MaxSuppression = 0
  SlowRate = 4
  WakeRate = 2
  RateSampleCount = 3
  BurstMinSpacing = 1
  ClockPeriod = 7
  FastInterval = 2
  SlowInterval = 5
  ReleaseDelay = 1
  MaxMissed = 0
PROPERTIES
  WakeIsRecognised
