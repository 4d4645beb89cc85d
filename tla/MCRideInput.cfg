SPECIFICATION Spec
CONSTANTS
  PressThreshold = 35
  ReleaseThreshold = 20
  Decode <- DecodeRideNotification
  Means <- Meaning
  Frames <- MCFrames
  OddFrames <- MCOddFrames
  OtherMaps <- MCOtherMaps
INVARIANTS
  LeversFollow
  ReportShowsHeld
  HeldAsFrameMeans
PROPERTIES
  NoChatter
