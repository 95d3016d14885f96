CONSTANTS
  discovery = discovery
  configuration = configuration
  Threads = {discovery, configuration}
  Looping = {discovery}
  Controllers = {main, other}
  Main = main
  NoOne = NoOne
  Ten = 2
  Minute = 4
  CounterSize = 5
  InitRank <- MCInitRank
  Budget <- OrderedBudget
  Client = "ordered"
SPECIFICATION DSpec
INVARIANTS DTypeOK NoFault NothingLeftAfterStop HeartbeatInTime
PROPERTIES ImplementsService
CHECK_DEADLOCK FALSE
