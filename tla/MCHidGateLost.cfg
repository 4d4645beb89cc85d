\* Closing the gate when one answer of the stack is lost.
SPECIFICATION LiveSpec
CONSTANTS
  Hosts = {h1}
  NoHost = NoHost
  Images = {}
  Up = Up
  OwnerCalls <- MCGateAndQuiesce
  HostActs <- MCNoActs
  FaultKinds <- MCLostFaults
  MaxFaults = 1
  MaxEvents = 2
  MaxCommands = 2
  MaxRestarts = 0
  SharedAdvertiser = FALSE
  PromptStack = TRUE
PROPERTIES
  GateCloses
