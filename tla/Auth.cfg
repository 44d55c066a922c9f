SPECIFICATION FairSpec
CONSTANTS
  Command <- MCCommand
  Store <- MCStore
  InitStore = 0
  ApplyCommand <- MCApply
  N = 3
  Leader = 0
  Faults <- AtMostOneFault
  Networks = {TRUE, FALSE}
  Byzantine = FALSE
  Issued <- MCIssued
  MaxSlots = 2
  None = None
INVARIANTS CommitsAreCertified CommittedWasLicensed ConflictsTakeARogueProposal AgreementUnderCorrectLeader LeaderCommitsFirst
PROPERTY ProposedIsCommitted
CHECK_DEADLOCK FALSE
