SPECIFICATION FairSpec
CONSTANTS
  Command <- MCCommand
  Store <- MCStore
  InitStore = 0
  ApplyCommand <- MCApply
  N = 3
  Leader = 1
  Workload <- Mixed
  None = None
INVARIANTS TypeOK LogsFollowLeader StoresAgree QuorumBacked
  NextSlotIsUnderWay OverBudgetCommitsNothing
  SettledMeansReplicated StalledMeansConverged ClusterInv
PROPERTIES ImplementsReplicatedLog WithinBudgetCompletes CommittedReachesAll
