SPECIFICATION LiveSpec
CONSTANTS
  Images = {k1, k2}
  Up = Up
  RestartsWhileSuppressed = FALSE
  LinksDuringUpdate = FALSE
INVARIANTS
  TypeOK
  KeysOnlyInSession
  GateFollowsSession
  ReportIsCurrent
  SessionIsFresh
  HandshakeCounts
  DisabledOnlyWhileSuppressed
  PulseInSession
PROPERTIES
  HonoursSession
  ComesBack
  UpdateStopsScanning
  KeysReachHost
