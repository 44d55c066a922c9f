SPECIFICATION Spec
CONSTANTS
  Command <- MCCommand
  Store <- MCStore
  InitStore = 0
  ApplyCommand <- MCApply
  N = 4
  Leader = 0
  Faults <- FaultyLeader
  Networks = {FALSE}
  Byzantine = TRUE
  Issued <- MCIssued
  MaxSlots = 1
  None = None
INVARIANT ByzantineQuorumAgrees
