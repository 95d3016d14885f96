CONSTANTS
  discovery = discovery
  configuration = configuration
  Threads = {discovery, configuration}
  Looping = {discovery}
  Controllers = {main, other}
  Main = main
  NoOne = NoOne
  InitRank <- MCInitRank
  Budget <- OrderedBudget
  Client = "awaiting"
SPECIFICATION FairSpec
INVARIANTS StopHandshake
PROPERTIES ImplementsFairService ExitWaitsOnlyForSilent
CHECK_DEADLOCK FALSE
