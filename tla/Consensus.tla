----------------------------- MODULE Consensus -----------------------------
(***************************************************************************)
(* The quorum predicates of dlc-d-rsm/src/consensus.rs.  A ballot is a     *)
(* function from replica ids to the command voted for, or None.            *)
(***************************************************************************)
EXTENDS Naturals, FiniteSets

IsQuorum(card, n) == 2 * card > n

IsByzQuorum(card, n) == 3 * card > 2 * n

Supporters(votes, v) == {i \in DOMAIN votes : votes[i] = v}

\* A mistake the checks must notice: "at least half", rounded down.
DecidedByHalf(votes, v) ==
  Cardinality(Supporters(votes, v)) >= Cardinality(DOMAIN votes) \div 2

Decided(votes, v) ==
  IsQuorum(Cardinality(Supporters(votes, v)), Cardinality(DOMAIN votes))

ByzDecided(votes, v) ==
  IsByzQuorum(Cardinality(Supporters(votes, v)), Cardinality(DOMAIN votes))
=============================================================================
