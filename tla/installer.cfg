CONSTANTS
  Machines <- FewMachines
  MaxFaults = 3
  MaxRuns = 3
SPECIFICATION Spec
INVARIANTS FreshRunInstalls BlockerNeedsFailure AcceptedIsServed
CHECK_DEADLOCK FALSE
