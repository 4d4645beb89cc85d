\* The stack may be restarted while reconnection is suppressed.
SPECIFICATION Spec
CONSTANTS
  Images = {k1}
  Up = Up
  RestartsWhileSuppressed = TRUE
  LinksDuringUpdate = FALSE
INVARIANTS
  DisabledOnlyWhileSuppressed
