CONSTANTS
  discovery = discovery
  configuration = configuration
  Threads = {discovery, configuration}
  Looping = {discovery}
  Controllers = {main, other}
  Main = main
  NoOne = NoOne
  InitRank <- MCInitRank
  Budget <- AnyBudget
  Client = "any"
SPECIFICATION Spec
INVARIANTS StoppedMeansQuiet HandlesFollowNames
PROPERTIES StopNotOverwritten
CHECK_DEADLOCK FALSE
