CONSTANTS
  Processes = {p, q}
  Names = {"a", "b"}
  MaxDepth = 2
  Called = {"CreateIfDoesNotExist", "CreatePath", "SafeDelete", "DeleteFile", "DeleteFolder"}
  Start <- Mixed
  MaxCalls = 4
SPECIFICATION Spec
INVARIANTS TrueMeansFolder SafeDeleteTells
CHECK_DEADLOCK FALSE
