\* Building the database and advertising it: lost, late, refused and rejected steps,
\* and a restart of the stack, while another feature may advertise.
SPECIFICATION LiveSpec
CONSTANTS
  Hosts = {h1}
  NoHost = NoHost
  Images = {}
  Up = Up
  OwnerCalls <- MCGateAndQuiesce
  HostActs <- MCNoActs
  FaultKinds <- MCLossFaults
  MaxFaults = 1
  MaxEvents = 1
  MaxCommands = 2
  MaxRestarts = 1
  SharedAdvertiser = TRUE
  PromptStack = FALSE
INVARIANTS
  TypeOK
  HostSeesWholeDatabase
PROPERTIES
  ConstructionEnds
  Discoverable
