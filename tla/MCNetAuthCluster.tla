-------------------------- MODULE MCNetAuthCluster --------------------------
(***************************************************************************)
(* Bounded instances of NetAuthCluster on a Byzantine roster of three,     *)
(* where a majority is not a quorum: three slots, commands that do not     *)
(* commute, and workloads with and without a refused command.              *)
(***************************************************************************)
EXTENDS NetAuthCluster, Signing

MCStore == 0..6
MCCommand == {1, 3}
MCApply == [c \in Command |-> [s \in Store |-> (2 * s + c) % 7]]
NoFault == {{}}

Presented(c, cap) == [cmd |-> c, cap |-> cap]
MCWorkloads ==
  {<<Presented(3, 3), Presented(1, 1)>>,
   <<Presented(3, 3), Presented(3, 3)>>,
   <<Presented(3, 3), Presented(1, 3), Presented(3, 3)>>,
   <<Presented(1, 3), Presented(3, 3)>>}

\* Encodings on which the assumption of Signing is evaluated: CBOR arrays.
MCPayload == {"var", "now"}
MCCanonical == [var |-> <<130, 0, 3>>, now |-> <<130, 10, 24, 200>>]
MCCapability == {"top", "atom"}
MCEncodeProp == [top |-> <<129, 0>>, atom |-> <<130, 2, 5>>]
=============================================================================
