CONSTANTS
  common = common
  discovery = discovery
  other = other
  Logs = {common, discovery, other}
  Names = {"Common", "Discovery"}
  component <- MCComponent
  NoLog = NoLog
  Printers = {main, worker}
  MaxPrints = 1
SYMMETRY Threads
SPECIFICATION Spec
INVARIANTS LinesReachSteadyTargets
PROPERTIES ImplementsRegistry
