-------------------------------- MODULE Rsm --------------------------------
(***************************************************************************)
(* The deterministic replicated state machine of dlc-core/src/rsm.rs: the  *)
(* pure transitions every deployed node is allowed to use.                 *)
(*                                                                         *)
(* A term is abstracted to a member of Store, a command (payload and       *)
(* capability) to a member of Command, and apply_command, the fuel-bounded *)
(* reduction of `payload store`, to the total function ApplyCommand: the   *)
(* code needs only that it is deterministic.  The failure budget, which no *)
(* transition reads or writes, is the subject of module Budgets.           *)
(***************************************************************************)
EXTENDS Naturals, Sequences

CONSTANTS Command, Store, InitStore, ApplyCommand

ASSUME RsmAssumption ==
  /\ InitStore \in Store
  /\ ApplyCommand \in [Command -> [Store -> Store]]

Replica == [store : Store, applied : Nat]

\* GlobalConfig with the replicas keyed by their id, ids ranging over R.
GlobalConfig(R) == [replicas : [R -> Replica], log : Seq(Command)]

FreshReplica == [store |-> InitStore, applied |-> 0]

\* A mistake the checks must notice: delivering the newest slot, not the next.
DeliverNewest(log, r) ==
  IF r.applied < Len(log)
  THEN [store   |-> ApplyCommand[log[Len(log)]][r.store],
        applied |-> r.applied + 1]
  ELSE r

\* One committed slot to one replica; a replica that has them all is unchanged.
Deliver(log, r) ==
  IF r.applied < Len(log)
  THEN [store   |-> ApplyCommand[log[r.applied + 1]][r.store],
        applied |-> r.applied + 1]
  ELSE r

WorldStep(g) ==
  [g EXCEPT !.replicas = [id \in DOMAIN g.replicas |-> Deliver(g.log, g.replicas[id])]]

\* A mistake the checks must notice: the new entry at the wrong end.
CommitInFront(g, c) == [g EXCEPT !.log = <<c>> \o @]

\* Append-only: no entry is rewritten, no replica and no budget touched.
Commit(g, c) == [g EXCEPT !.log = Append(@, c)]

\* The store after the first k commands of cmds.
ApplyPrefix(cmds) ==
  [k \in 0..Len(cmds) |->
     LET after[i \in 0..k] ==
           IF i = 0 THEN InitStore ELSE ApplyCommand[cmds[i]][after[i - 1]]
     IN  after[k]]
=============================================================================
