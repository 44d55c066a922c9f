SPECIFICATION Spec
CONSTANTS
  Command <- MCCommand
  Store <- MCStore
  InitStore = 0
  ApplyCommand <- MCApply
  N = 3
  Leader = 0
  Workload <- OneCommand
  None = None
INVARIANT TimedOutRunConverged
