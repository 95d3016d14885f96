CONSTANTS
  Processes = {p, q}
  NodePrefixes = {"node", "mynode"}
  Endings <- OwnEndings
  Ranges <- FewRanges
  Lists <- FewLists
  ByteSize = 256
  InitialHosts <- OldHosts
  IoErrors = TRUE
  MaxCalls = 3
  MaxList = 3
SPECIFICATION Spec
INVARIANTS TypeOK OneMappingEach InventoryAgrees ForeignLinesStay UpdatesAddUp SplitAdvances
CHECK_DEADLOCK FALSE
