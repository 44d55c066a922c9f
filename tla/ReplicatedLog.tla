--------------------------- MODULE ReplicatedLog ---------------------------
(***************************************************************************)
(* What the replication layer promises: ONE append-only log and a set of   *)
(* replicas, each applying that log in order, each at its own pace.  It is *)
(* dlc-core/src/rsm.rs read as a transition system: `commit` appends,      *)
(* `deliver` advances one replica and `world_step` advances all of them.   *)
(* NetCluster, the message-passing implementation, is checked and proved   *)
(* to implement it.                                                        *)
(***************************************************************************)
EXTENDS Rsm

CONSTANTS Id,       \* the replicas
          MaxSlots  \* bound on the length of the log, for model checking

ASSUME SlotsAssumption == MaxSlots \in Nat

VARIABLES log, replicas

vars == <<log, replicas>>

config == [replicas |-> replicas, log |-> log]

\* A GlobalConfig, in which no replica has applied more than was committed.
TypeOK ==
  /\ config \in GlobalConfig(Id)
  /\ \A r \in Id : replicas[r].applied <= Len(log)

Init ==
  /\ log = << >>
  /\ replicas = [r \in Id |-> FreshReplica]

CommitSlot ==
  /\ Len(log) < MaxSlots
  /\ \E c \in Command : log' = Commit(config, c).log
  /\ UNCHANGED replicas

DeliverTo(r) ==
  /\ replicas[r].applied < Len(log)
  /\ replicas' = [replicas EXCEPT ![r] = Deliver(log, @)]
  /\ UNCHANGED log

DeliverToAll ==
  /\ replicas' = WorldStep(config).replicas
  /\ UNCHANGED log

Next == CommitSlot \/ (\E r \in Id : DeliverTo(r)) \/ DeliverToAll

Spec == Init /\ [][Next]_vars

-----------------------------------------------------------------------------
\* Replicas that have applied the same number of slots hold the same store,
\* however `deliver` and `world_step` were interleaved with the commits
\* (rsm.rs, "convergence": the RSM property the cluster exists to provide).
StoresAgree ==
  \A r, s \in Id :
    replicas[r].applied = replicas[s].applied
      => replicas[r].store = replicas[s].store

\* Incremental delivery computes what apply_prefix computes from scratch: a
\* replica's store is the fold of the log prefix it has applied.
StoreIsPrefixFold ==
  \A r \in Id : replicas[r].store = ApplyPrefix(log)[replicas[r].applied]

\* A committed slot is never rewritten or removed, and no replica ever moves
\* back to an earlier slot.
AppendOnly ==
  [][/\ \A i \in DOMAIN log : i \in DOMAIN log' /\ log'[i] = log[i]
     /\ \A r \in Id : replicas'[r].applied >= replicas[r].applied]_vars
=============================================================================
