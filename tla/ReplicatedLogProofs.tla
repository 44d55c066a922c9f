------------------------ MODULE ReplicatedLogProofs ------------------------
(***************************************************************************)
(* The replicated log keeps its promises for every command set, store,     *)
(* replica set and log length.  The run MCReplicatedLog checks the same    *)
(* formulas on a small instance.                                           *)
(***************************************************************************)
EXTENDS ReplicatedLog, RsmProofs, TLAPS

\* h[k] is the store after k slots of the log.
IsHistory(h) ==
  /\ h \in [0..Len(log) -> Store]
  /\ h[0] = InitStore
  /\ \A i \in 1..Len(log) : h[i] = ApplyCommand[log[i]][h[i - 1]]

\* StoresAgree is not inductive: a replica that is behind must be known to pass
\* through the very stores the others went through.  The strengthening names
\* that one sequence of stores.
HistoryInv ==
  /\ TypeOK
  /\ \E h : IsHistory(h) /\ \A r \in Id : replicas[r].store = h[replicas[r].applied]

\* The type invariant, field by field.
LEMMA ConfigType ==
  TypeOK <=> /\ log \in Seq(Command) /\ replicas \in [Id -> Replica]
             /\ \A r \in Id : replicas[r].applied <= Len(log)
  BY DEF TypeOK, config, GlobalConfig

\* deliver moves a replica that is within the log to the next store of the
\* log's history, or leaves it where it is.
LEMMA DeliverFollowsHistory ==
  ASSUME NEW r \in Replica, NEW h, log \in Seq(Command), IsHistory(h),
         r.applied <= Len(log), r.store = h[r.applied]
  PROVE  /\ Deliver(log, r) \in Replica
         /\ Deliver(log, r).applied <= Len(log)
         /\ Deliver(log, r).applied >= r.applied
         /\ Deliver(log, r).store = h[Deliver(log, r).applied]
<1>1. r.applied \in Nat /\ r.store \in Store
  BY DEF Replica
<1>2. CASE r.applied < Len(log)
  <2>1. r.applied + 1 \in 1..Len(log) /\ log[r.applied + 1] \in Command
    BY <1>1, <1>2
  <2>2. ApplyCommand[log[r.applied + 1]][r.store] \in Store
    BY <2>1, <1>1, RsmAssumption
  <2>3. h[r.applied + 1] = ApplyCommand[log[r.applied + 1]][h[r.applied]]
    BY <2>1, <1>1 DEF IsHistory
  <2> QED BY <1>1, <1>2, <2>1, <2>2, <2>3 DEF Deliver, Replica
<1>3. CASE ~(r.applied < Len(log))
  BY <1>1, <1>3 DEF Deliver
<1> QED BY <1>2, <1>3

\* The history of stores is an inductive invariant of the replicated log (rsm.rs,
\* commit, deliver and world_step).
THEOREM HistoryInductive ==
  /\ Init => HistoryInv
  /\ HistoryInv /\ [Next]_vars => HistoryInv'
<1>1. Init => HistoryInv
  <2> SUFFICES ASSUME Init PROVE HistoryInv
    OBVIOUS
  <2>1. log \in Seq(Command) /\ Len(log) = 0 /\ replicas \in [Id -> Replica]
    BY RsmAssumption DEF Init, FreshReplica, Replica
  <2>2. IsHistory([i \in 0..Len(log) |-> InitStore])
    BY <2>1, RsmAssumption DEF IsHistory
  <2>3. \A r \in Id : /\ replicas[r].applied = 0
                      /\ replicas[r].store = [i \in 0..Len(log) |-> InitStore][0]
    BY <2>1 DEF Init, FreshReplica
  <2> QED BY <2>1, <2>2, <2>3, ConfigType DEF HistoryInv
<1>2. HistoryInv /\ [Next]_vars => HistoryInv'
  <2> SUFFICES ASSUME HistoryInv, [Next]_vars PROVE HistoryInv'
    OBVIOUS
  <2>1. /\ log \in Seq(Command) /\ replicas \in [Id -> Replica]
        /\ \A r \in Id : replicas[r].applied <= Len(log)
    BY ConfigType DEF HistoryInv
  <2>2. PICK h : IsHistory(h) /\ \A r \in Id : replicas[r].store = h[replicas[r].applied]
    BY DEF HistoryInv
  <2>3. ASSUME NEW c \in Command, log' = Append(log, c), UNCHANGED replicas
        PROVE  HistoryInv'
    <3>k. PICK k \in Nat : k = Len(log)
      BY <2>1
    <3>g. PICK g : g = [i \in 0..(k + 1) |-> IF i <= k THEN h[i]
                                            ELSE ApplyCommand[c][h[k]]]
      OBVIOUS
    <3>1. k \in Nat /\ log' \in Seq(Command) /\ Len(log') = k + 1
      BY <2>1, <2>3, <3>k
    <3>2. \A i \in 1..k : log'[i] = log[i]
      BY <2>1, <2>3, <3>k
    <3>3. log'[k + 1] = c
      BY <2>1, <2>3, <3>k
    <3>4. h \in [0..k -> Store] /\ h[k] \in Store
      BY <2>2, <3>k DEF IsHistory
    <3>5. ApplyCommand[c][h[k]] \in Store
      BY <3>4, <2>3, RsmAssumption
    <3>6. g \in [0..(k + 1) -> Store] /\ g[0] = InitStore
      BY <3>4, <3>5, <3>g, <2>2 DEF IsHistory
    <3>7. ASSUME NEW i \in 1..(k + 1) PROVE g[i] = ApplyCommand[log'[i]][g[i - 1]]
      <4>1. CASE i <= k
        BY <4>1, <3>2, <3>k, <3>g, <2>2 DEF IsHistory
      <4>2. CASE i = k + 1
        BY <4>2, <3>3, <3>g
      <4> QED BY <4>1, <4>2, <3>1
    <3>8. IsHistory(g)'
      BY <3>1, <3>6, <3>7 DEF IsHistory
    <3>9. \A r \in Id : /\ replicas'[r].applied <= Len(log')
                        /\ replicas'[r].store = g[replicas'[r].applied]
      BY <2>1, <2>2, <2>3, <3>1, <3>k, <3>g DEF Replica
    <3>10. TypeOK'
      BY <3>1, <3>9, <2>1, <2>3 DEF TypeOK, config, GlobalConfig
    <3> QED BY <3>8, <3>9, <3>10 DEF HistoryInv
  <2>4. ASSUME log' = log, NEW S \in SUBSET Id,
               replicas' = [r \in Id |-> IF r \in S THEN Deliver(log, replicas[r])
                                                    ELSE replicas[r]]
        PROVE  HistoryInv'
    <3>1. \A r \in Id : /\ replicas'[r] \in Replica
                        /\ replicas'[r].applied <= Len(log)
                        /\ replicas'[r].store = h[replicas'[r].applied]
      BY <2>1, <2>2, <2>4, DeliverFollowsHistory
    <3>2. replicas' \in [Id -> Replica]
      BY <3>1, <2>4
    <3>3. TypeOK'
      BY <3>1, <3>2, <2>1, <2>4 DEF TypeOK, config, GlobalConfig
    <3> QED BY <3>1, <3>3, <2>2, <2>4 DEF HistoryInv, IsHistory
  <2>5. CASE CommitSlot
    BY <2>5, <2>3 DEF CommitSlot, Commit, config
  <2>6. ASSUME NEW r \in Id, DeliverTo(r) PROVE HistoryInv'
    <3>1. replicas' = [s \in Id |-> IF s \in {r} THEN Deliver(log, replicas[s])
                                                 ELSE replicas[s]]
      BY <2>1, <2>6 DEF DeliverTo
    <3> QED BY <3>1, <2>4, <2>6 DEF DeliverTo
  <2>7. CASE DeliverToAll
    <3>1. replicas' = [s \in Id |-> IF s \in Id THEN Deliver(log, replicas[s])
                                                ELSE replicas[s]]
      BY <2>1, <2>7 DEF DeliverToAll, WorldStep, config
    <3> QED BY <3>1, <2>4, <2>7 DEF DeliverToAll
  <2>8. CASE UNCHANGED vars
    BY <2>8 DEF vars, HistoryInv, TypeOK, config, IsHistory
  <2> QED BY <2>5, <2>6, <2>7, <2>8 DEF Next
<1> QED BY <1>1, <1>2

\* rsm.rs: equal progress means equal stores, whatever the schedule.
THEOREM Convergence == Spec => []StoresAgree
<1>1. HistoryInv => StoresAgree
  BY DEF HistoryInv, StoresAgree
<1> QED BY <1>1, HistoryInductive, PTL DEF Spec

\* rsm.rs apply_prefix: what a replica reached slot by slot is what it would get
\* by applying the prefix of the log from scratch.
THEOREM IncrementalIsFold == Spec => []StoreIsPrefixFold
<1>1. HistoryInv => StoreIsPrefixFold
  <2> SUFFICES ASSUME HistoryInv, NEW r \in Id
               PROVE  replicas[r].store = ApplyPrefix(log)[replicas[r].applied]
    BY DEF StoreIsPrefixFold
  <2>1. /\ log \in Seq(Command) /\ replicas \in [Id -> Replica]
        /\ \A s \in Id : replicas[s].applied <= Len(log)
    BY ConfigType DEF HistoryInv
  <2>2. PICK h : IsHistory(h) /\ \A s \in Id : replicas[s].store = h[replicas[s].applied]
    BY DEF HistoryInv
  <2>3. replicas[r].applied \in 0..Len(log)
    BY <2>1 DEF Replica
  <2>4. PICK cmds : cmds = log
    OBVIOUS
  <2>5. ApplyPrefix(cmds)[replicas[r].applied] = h[replicas[r].applied]
    BY <2>1, <2>2, <2>3, <2>4, PrefixFold DEF IsHistory
  <2> QED BY <2>2, <2>4, <2>5
<1> QED BY <1>1, HistoryInductive, PTL DEF Spec

\* rsm.rs commit and deliver: no committed slot changes and no replica moves back.
THEOREM LogAppendOnly == Spec => AppendOnly
<1>1. ASSUME HistoryInv, [Next]_vars
      PROVE  [/\ \A i \in DOMAIN log : i \in DOMAIN log' /\ log'[i] = log[i]
              /\ \A r \in Id : replicas'[r].applied >= replicas[r].applied]_vars
  <2> DEFINE Kept == \A i \in DOMAIN log : i \in DOMAIN log' /\ log'[i] = log[i]
             Forward == \A r \in Id : replicas'[r].applied >= replicas[r].applied
  <2>1. log \in Seq(Command) /\ replicas \in [Id -> Replica]
    BY <1>1, ConfigType DEF HistoryInv
  <2>2. \A r \in Id : replicas[r].applied \in Nat
                      /\ Deliver(log, replicas[r]).applied >= replicas[r].applied
    BY <2>1 DEF Deliver, Replica
  <2>3. CASE CommitSlot
    <3>1. Kept
      BY <2>1, <2>3 DEF CommitSlot, Commit, config
    <3>2. Forward
      BY <2>2, <2>3 DEF CommitSlot
    <3> QED BY <3>1, <3>2
  <2>4. CASE DeliverToAll \/ \E r \in Id : DeliverTo(r)
    <3>1. Kept
      BY <2>1, <2>4 DEF DeliverToAll, DeliverTo
    <3>2. Forward
      BY <2>1, <2>2, <2>4 DEF DeliverToAll, DeliverTo, WorldStep, config
    <3> QED BY <3>1, <3>2
  <2> QED BY <1>1, <2>3, <2>4 DEF Next
<1> QED BY <1>1, HistoryInductive, PTL DEF Spec, AppendOnly
=============================================================================
