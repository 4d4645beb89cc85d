\* Two hosts, reports, congestion, quiesce and resume, rejected calls,
\* and a restart of the stack.
SPECIFICATION Spec
CONSTANTS
  Hosts = {h1, h2}
  NoHost = NoHost
  Images = {k}
  Up = Up
  OwnerCalls <- MCAllCalls
  HostActs <- MCHostActs
  FaultKinds <- MCSyncFaults
  MaxFaults = 1
  MaxEvents = 1
  MaxCommands = 2
  MaxRestarts = 1
  SharedAdvertiser = TRUE
  PromptStack = TRUE
SYMMETRY MCSymmetry
INVARIANTS
  EveryLinkAccountedFor
  ReadsAreCurrent
PROPERTIES
  NoImageAcrossHosts
  ImplementsPort
