CONSTANTS
  discovery = discovery
  configuration = configuration
  Threads = {discovery, configuration}
  Looping = {discovery}
  Controllers = {main, other}
  Main = main
  NoOne = NoOne
  InitRank <- MCInitRank
  Budget <- OrderedBudget
  Client = "ordered"
SPECIFICATION FairSpec
PROPERTIES StopThreadsReturns
CHECK_DEADLOCK FALSE
