------------------------- MODULE MCAuthReplication -------------------------
(***************************************************************************)
(* Bounded instances of AuthReplication: three commands, of which a        *)
(* capability was issued for two.                                          *)
(***************************************************************************)
EXTENDS AuthReplication

MCStore == 0..6
MCCommand == {1, 3, 4}
MCIssued == {1, 3}
MCApply == [c \in Command |-> [s \in Store |-> (2 * s + c) % 7]]

\* The leader's key is misused; nobody's, the leader's or a follower's is.
FaultyLeader == {{0}}
AtMostOneFault == {{}, {0}, {2}}
=============================================================================
