-------------------------- MODULE MCReplicatedLog --------------------------
(***************************************************************************)
(* A bounded instance of ReplicatedLog.  The store is a number in 0..6 and *)
(* the commands are the affine maps s -> 2s + c: they do not commute, so   *)
(* an order or a repetition that differs between replicas shows.           *)
(***************************************************************************)
EXTENDS ReplicatedLog

MCStore == 0..6
MCCommand == {1, 3}
MCApply == [c \in Command |-> [s \in Store |-> (2 * s + c) % 7]]
=============================================================================
