\* One host that subscribes, is suspended or congested, and may be hard to reach,
\* while the gate opens and closes and commands are refused.
SPECIFICATION LiveSpec
CONSTANTS
  Hosts = {h1}
  NoHost = NoHost
  Images = {k}
  Up = Up
  OwnerCalls <- MCAllCalls
  HostActs <- MCReportActs
  FaultKinds <- MCAnswers
  MaxFaults = 1
  MaxEvents = 1
  MaxCommands = 2
  MaxRestarts = 0
  SharedAdvertiser = FALSE
  PromptStack = TRUE
PROPERTIES
  HostCatchesUp
  QuiesceReleasesKeys
  GateCloses
