---------------------------- MODULE MCNetCluster ----------------------------
(***************************************************************************)
(* Bounded instances of NetCluster.  Stores are numbers, commands affine   *)
(* maps that do not commute.  The workloads repeat a command, so that a    *)
(* vote for one slot could be mistaken for a vote for the next.            *)
(***************************************************************************)
EXTENDS NetCluster

MCStore == 0..6
MCCommand == {1, 3}
MCApply == [c \in Command |-> [s \in Store |-> (2 * s + c) % 7]]

OneCommand == <<3>>
Mixed == <<3, 1, 1>>
=============================================================================
