SPECIFICATION NetSpec
CONSTANTS
  Command <- MCCommand
  Store <- MCStore
  InitStore = 0
  ApplyCommand <- MCApply
  N = 3
  Leader = 0
  Faults <- NoFault
  Networks = {FALSE}
  Byzantine = TRUE
  Issued <- MCCommand
  MaxSlots = 3
  None = None
  Workloads <- MCWorkloads
  Payload <- MCPayload
  Canonical <- MCCanonical
  Capability <- MCCapability
  NoCap = NoCap
  EncodeProp <- MCEncodeProp
INVARIANTS OwnCommitsVerify FramesCarrySentMessages RefusalStrandsTheRest
PROPERTY LicensedPrefixCommits
