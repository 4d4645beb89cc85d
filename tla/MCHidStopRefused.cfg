\* Offering the keyboard when the stack refuses one stop.
SPECIFICATION LiveSpec
CONSTANTS
  Hosts = {h1}
  NoHost = NoHost
  Images = {}
  Up = Up
  OwnerCalls <- MCGateAndQuiesce
  HostActs <- MCNoActs
  FaultKinds <- MCRefusedStops
  MaxFaults = 1
  MaxEvents = 2
  MaxCommands = 2
  MaxRestarts = 0
  SharedAdvertiser = FALSE
  PromptStack = TRUE
PROPERTIES
  Discoverable
