CONSTANTS
  Handlers = {g, h}
  Askers = {t}
  Others = {x}
  Self = self
  Unset = unset
  Descriptors = {0, 1}
  MaxAsks = 1
SYMMETRY Alike
SPECIFICATION Spec
INVARIANTS TypeOK DescriptorsOwned ReadyIsComplete HeardOthers AnnouncedMeansWaiting WholeReplyIsTold
CHECK_DEADLOCK FALSE
