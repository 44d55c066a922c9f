----------------------- MODULE AuthReplicationProofs -----------------------
(***************************************************************************)
(* Theorems about AuthReplication for every roster, threshold, set of      *)
(* misused keys and set of licensed commands, under a network that loses,  *)
(* repeats and reorders at will, whether or not votes can be read under    *)
(* way.  The run auth checks the same formulas on a roster of three.       *)
(***************************************************************************)
EXTENDS AuthReplication, RsmProofs, FiniteSetTheorems, Integers, TLAPS

-----------------------------------------------------------------------------
(* Quorums. *)

\* A roster is finite, and so is every set of its seats.
LEMMA SeatsAreFinite ==
  /\ IsFiniteSet(Seat) /\ Cardinality(Seat) = N
  /\ \A S \in SUBSET Seat : IsFiniteSet(S) /\ Cardinality(S) \in Nat
<1>1. N - 1 \in Int /\ N \in Nat
  BY AuthAssumption
<1>2. IsFiniteSet(Seat)
  BY <1>1, FS_Interval DEF Seat
<1>3. Cardinality(Seat) = N
  <2>1. N # 0
    BY AuthAssumption DEF Seat
  <2> QED BY <1>1, <2>1, FS_Interval DEF Seat
<1>4. ASSUME NEW S \in SUBSET Seat
      PROVE  IsFiniteSet(S) /\ Cardinality(S) \in Nat
  BY <1>2, FS_Subset, FS_CardinalityType
<1> QED BY <1>2, <1>3, <1>4

\* More signers never undo a quorum (proto.rs Quorum::reached).
LEMMA ReachedIsMonotone ==
  ASSUME NEW T \in SUBSET Seat, NEW S \in SUBSET T, Reached(Cardinality(S))
  PROVE  Reached(Cardinality(T))
<1>1. /\ Cardinality(S) \in Nat /\ Cardinality(T) \in Nat /\ N \in Nat
      /\ Cardinality(S) <= Cardinality(T)
  BY SeatsAreFinite, FS_Subset, AuthAssumption
<1> QED BY <1>1 DEF Reached, IsQuorum, IsByzQuorum

\* The leader's decision and the certificate check use one threshold: a ballot on
\* which every entry is p decides p exactly when its voters are a quorum.
LEMMA DecisionIsQuorum ==
  ASSUME NEW p, NEW b, DOMAIN b = Seat,
         \A i \in Seat : b[i] # None => b[i] = p, p # None
  PROVE  DecidedBy(b, p) <=> Reached(Cardinality({i \in Seat : b[i] # None}))
<1>1. Supporters(b, p) = {i \in Seat : b[i] # None}
  BY DEF Supporters
<1> QED BY <1>1, SeatsAreFinite DEF DecidedBy, Decided, ByzDecided, Reached

\* Two sets of seats have as many members in common as their sizes exceed the roster.
LEMMA SeatsInCommon ==
  ASSUME NEW S \in SUBSET Seat, NEW T \in SUBSET Seat
  PROVE  Cardinality(S \cap T) >= Cardinality(S) + Cardinality(T) - N
<1>1. /\ IsFiniteSet(S) /\ IsFiniteSet(T)
      /\ Cardinality(S) \in Nat /\ Cardinality(T) \in Nat /\ N \in Nat
      /\ Cardinality(S \cap T) \in Nat
  BY SeatsAreFinite, AuthAssumption
<1>2. Cardinality(S \cup T) = Cardinality(S) + Cardinality(T) - Cardinality(S \cap T)
  BY <1>1, FS_Union
<1>3. PICK U \in SUBSET Seat : U = S \cup T
  OBVIOUS
<1>4. Cardinality(U) <= N /\ Cardinality(U) \in Nat
  BY SeatsAreFinite, FS_Subset
<1> QED BY <1>1, <1>2, <1>3, <1>4

\* byz_quorum_honest_intersect and quorum_intersect (consensus.rs): two quorums share
\* a seat whose key is safe, while less than a third of the seats of a Byzantine
\* roster have lost theirs, or none of any roster.
LEMMA QuorumsMeetInACorrectSeat ==
  ASSUME NEW F \in SUBSET Seat, F = {} \/ (Byzantine /\ 3 * Cardinality(F) < N),
         NEW S \in SUBSET Seat, NEW T \in SUBSET Seat,
         Reached(Cardinality(S)), Reached(Cardinality(T))
  PROVE  \E k \in Seat \ F : k \in S /\ k \in T
<1>1. /\ Cardinality(S) \in Nat /\ Cardinality(T) \in Nat /\ Cardinality(F) \in Nat
      /\ N \in Nat /\ Cardinality(S \cap T) \in Nat
      /\ Cardinality(S \cap T) >= Cardinality(S) + Cardinality(T) - N
  BY SeatsAreFinite, SeatsInCommon, AuthAssumption
<1>2. Cardinality(S \cap T) > Cardinality(F)
  <2>1. CASE F = {}
    <3>1. Cardinality(F) = 0
      BY <2>1, FS_EmptySet
    <3> QED BY <1>1, <3>1 DEF Reached, IsQuorum, IsByzQuorum
  <2>2. CASE Byzantine /\ 3 * Cardinality(F) < N
    BY <1>1, <2>2 DEF Reached, IsByzQuorum
  <2> QED BY <2>1, <2>2
<1>3. ~(S \cap T \subseteq F)
  <2>1. PICK U \in SUBSET Seat : U = S \cap T
    OBVIOUS
  <2>2. U \subseteq F => Cardinality(U) <= Cardinality(F)
    BY SeatsAreFinite, FS_Subset
  <2> QED BY <1>1, <1>2, <2>1, <2>2
<1> QED BY <1>3

\* agreement (consensus.rs): one ballot decides at most one command, by either
\* threshold.
THEOREM BallotDecidesOnce ==
  ASSUME NEW b, DOMAIN b = Seat, NEW p, NEW q, DecidedBy(b, p), DecidedBy(b, q)
  PROVE  p = q
<1>1. PICK S \in SUBSET Seat : S = Supporters(b, p)
  BY DEF Supporters
<1>2. PICK T \in SUBSET Seat : T = Supporters(b, q)
  BY DEF Supporters
<1>3. Reached(Cardinality(S)) /\ Reached(Cardinality(T))
  BY <1>1, <1>2, SeatsAreFinite DEF DecidedBy, Decided, ByzDecided, Reached
<1>4. PICK k \in Seat : k \in S /\ k \in T
  BY <1>3, QuorumsMeetInACorrectSeat, {} \in SUBSET Seat
<1> QED BY <1>1, <1>2, <1>4 DEF Supporters

-----------------------------------------------------------------------------
(* What a node does with a vote. *)

\* record_vote (auth.rs): the vote is put on the ballot b2 and among the votes V2,
\* unless its seat already voted; then a quorum commits, and anything else waits.
Recorded(p, b, V, v, b2, V2) ==
  \/ b[v.voter] = None /\ b2 = [b EXCEPT ![v.voter] = p] /\ V2 = V \cup {v}
  \/ b[v.voter] # None /\ b2 = b /\ V2 = V

Decides(p, b, V, v, out) ==
  \E b2, V2 :
    /\ Recorded(p, b, V, v, b2, V2)
    /\ p # None /\ VerifyVote(v, NextSlot(Leader), p) /\ DecidedBy(b2, p)
    /\ proposing' = None /\ votes' = {} /\ ballot' = EmptyBallot
    /\ view' = [view EXCEPT ![Leader] = ApplyCommit(@, p)]
    /\ sent' = sent \cup out \cup {CommitMsg(NextSlot(Leader), p, QuorumCert(V2, Cardinality(V2)))}

Waits(p, b, V, v, out) ==
  \E b2, V2 :
    /\ \/ /\ p # None /\ VerifyVote(v, NextSlot(Leader), p)
          /\ Recorded(p, b, V, v, b2, V2)
       \/ b2 = b /\ V2 = V
    /\ proposing' = p /\ votes' = V2 /\ ballot' = b2
    /\ view' = view
    /\ sent' = sent \cup out

\* record_vote (auth.rs) decides or waits.
LEMMA RecordVoteCases ==
  ASSUME NEW p, NEW b, NEW V, NEW v, NEW out, RecordVote(p, b, V, v, out)
  PROVE  Decides(p, b, V, v, out) \/ Waits(p, b, V, v, out)
<1> DEFINE fresh == b[v.voter] = None
           b2 == IF fresh THEN [b EXCEPT ![v.voter] = p] ELSE b
           V2 == IF fresh THEN V \cup {v} ELSE V
<1>1. Recorded(p, b, V, v, b2, V2)
  BY DEF Recorded
<1>2. CASE p # None /\ VerifyVote(v, NextSlot(Leader), p) /\ DecidedBy(b2, p)
  <2>1. /\ proposing' = None /\ votes' = {} /\ ballot' = EmptyBallot
        /\ view' = [view EXCEPT ![Leader] = ApplyCommit(@, p)]
        /\ sent' = sent \cup out \cup {CommitMsg(NextSlot(Leader), p, QuorumCert(V2, Cardinality(V2)))}
    BY <1>2 DEF RecordVote
  <2> HIDE DEF b2, V2
  <2> QED BY <1>1, <1>2, <2>1 DEF Decides
<1>3. CASE p # None /\ VerifyVote(v, NextSlot(Leader), p) /\ ~DecidedBy(b2, p)
  <2>1. /\ proposing' = p /\ votes' = V2 /\ ballot' = b2
        /\ view' = view /\ sent' = sent \cup out
    BY <1>3 DEF RecordVote
  <2> HIDE DEF b2, V2
  <2> QED BY <1>1, <1>3, <2>1 DEF Waits
<1>4. CASE ~(p # None /\ VerifyVote(v, NextSlot(Leader), p))
  BY <1>4 DEF RecordVote, Waits
<1> QED BY <1>2, <1>3, <1>4

\* What recording does to the ballot and the votes.
LEMMA RecordedInFlight ==
  ASSUME NEW p \in Command \cup {None}, NEW b \in [Seat -> Command \cup {None}],
         NEW V \in SUBSET VoteType, NEW v \in VoteType, NEW slot, NEW b2, NEW V2,
         Recorded(p, b, V, v, b2, V2)
  PROVE  /\ b2 \in [Seat -> Command \cup {None}] /\ V2 \in SUBSET VoteType
         /\ V2 \subseteq V \cup {v}
         /\ InFlight(p, b, V, slot) /\ p # None /\ VerifyVote(v, slot, p)
              => InFlight(p, b2, V2, slot)
<1>1. v.voter \in Seat
  BY DEF VoteType
<1>2. CASE b[v.voter] = None /\ b2 = [b EXCEPT ![v.voter] = p] /\ V2 = V \cup {v}
  <2>1. ASSUME InFlight(p, b, V, slot), p # None, VerifyVote(v, slot, p)
        PROVE  InFlight(p, b2, V2, slot)
    <3>1. \A w \in V2 : VerifyVote(w, slot, p)
      BY <1>2, <2>1 DEF InFlight
    <3>2. {w.voter : w \in V2} = {w.voter : w \in V} \cup {v.voter}
      BY <1>2
    <3>3. {i \in Seat : b2[i] # None} = {i \in Seat : b[i] # None} \cup {v.voter}
      BY <1>1, <1>2, <2>1
    <3>4. \A i \in Seat : b2[i] # None => b2[i] = p
      BY <1>1, <1>2, <2>1 DEF InFlight
    <3> QED BY <3>1, <3>2, <3>3, <3>4, <2>1 DEF InFlight
  <2> QED BY <1>1, <1>2, <2>1
<1>3. CASE b[v.voter] # None /\ b2 = b /\ V2 = V
  BY <1>3
<1> QED BY <1>2, <1>3 DEF Recorded

-----------------------------------------------------------------------------
(* Messages and types. *)

\* The fields of a well-typed view.
LEMMA ViewFields ==
  ASSUME TypeOK, NEW n \in Seat
  PROVE  /\ view[n] \in View(n)
         /\ Log(n) \in Seq(Command) /\ NextSlot(n) \in Nat
  BY DEF TypeOK, View, GlobalConfig, Log, NextSlot

\* Whatever may be delivered is a message, sent by a node or made up.
LEMMA DeliverableIsMessage ==
  ASSUME TypeOK, NEW m \in Deliverable
  PROVE  /\ m.type = "propose" => m.slot \in Nat /\ m.cmd \in Command /\ m.cap \in Issued
         /\ m.type = "vote" => m.vote \in VoteType
         /\ m.type = "commit" => m.slot \in Nat /\ m.cmd \in Command /\ m.qc.votes \subseteq VoteType
<1>1. CASE m \in sent
  BY <1>1 DEF TypeOK, IsMessage
<1>2. CASE m \in FaultyMsgs
  <2>1. faulty \subseteq Seat /\ Slot \subseteq Nat
    BY AuthAssumption DEF TypeOK, Slot
  <2>2. ASSUME NEW s \in Slot, NEW c \in Command
        PROVE  /\ \A f \in faulty : Vote(f, s, c) \in VoteType
               /\ Held(s, c) \subseteq VoteType
    BY <2>1 DEF Held, Vote, VoteType, TypeOK
  <2>3. CASE \E f \in faulty, s \in Slot, c \in Command, cap \in Issued :
                m = ProposeMsg(f, s, c, cap)
    <3>1. PICK s \in Slot, c \in Command, cap \in Issued :
            m.type = "propose" /\ m.slot = s /\ m.cmd = c /\ m.cap = cap
      BY <2>3 DEF ProposeMsg
    <3> QED BY <2>1, <3>1
  <2>4. CASE \E f \in faulty, s \in Slot, c \in Command : m = VoteMsg(Vote(f, s, c))
    BY <2>2, <2>4 DEF VoteMsg
  <2>5. CASE \E s \in Slot, c \in Command, s2 \in Slot, c2 \in Command :
                m = CommitMsg(s, c, QuorumCert(Held(s2, c2), N))
    BY <2>1, <2>2, <2>5 DEF CommitMsg, QuorumCert
  <2> QED BY <1>2, <2>3, <2>4, <2>5 DEF FaultyMsgs
<1> QED BY <1>1, <1>2 DEF Deliverable

\* What apply_commit leaves in a node that was drained.
LEMMA ApplyCommitKeepsView ==
  ASSUME TypeOK, Drained, NEW n \in Seat, NEW c \in Command,
         view' = [view EXCEPT ![n] = ApplyCommit(@, c)]
  PROVE  /\ DOMAIN view' = Seat /\ \A k \in Seat : view'[k] \in View(k)
         /\ Drained'
         /\ Log(n)' = Append(Log(n), c)
         /\ \A k \in Seat \ {n} : Log(k)' = Log(k)
<1>1. /\ view[n] \in GlobalConfig({n})
      /\ view[n].replicas[n].applied = Len(view[n].log)
  BY DEF TypeOK, View, Drained, NextSlot, Log
<1>2. /\ ApplyCommit(view[n], c) \in GlobalConfig({n})
      /\ ApplyCommit(view[n], c).log = Append(view[n].log, c)
      /\ ApplyCommit(view[n], c).replicas[n].applied = Len(ApplyCommit(view[n], c).log)
  BY <1>1, CommitThenStep DEF ApplyCommit
<1>3. /\ DOMAIN view' = Seat /\ view'[n] = ApplyCommit(view[n], c)
      /\ \A k \in Seat \ {n} : view'[k] = view[k]
  BY DEF TypeOK
<1> QED BY <1>2, <1>3 DEF TypeOK, View, Drained, NextSlot, Log

\* Handling a vote keeps the types and leaves every log drained (record_vote).
LEMMA RecordKeepsTypes ==
  ASSUME TypeOK, Drained, Leader \in Seat,
         NEW p \in Command \cup {None}, NEW b \in [Seat -> Command \cup {None}],
         NEW V \in SUBSET VoteType, NEW v \in VoteType,
         NEW out, \A m \in out : IsMessage(m),
         RecordVote(p, b, V, v, out)
  PROVE  /\ DOMAIN view' = Seat /\ \A k \in Seat : view'[k] \in View(k)
         /\ proposing' \in Command \cup {None}
         /\ votes' \subseteq VoteType
         /\ ballot' \in [Seat -> Command \cup {None}]
         /\ \A m \in sent' : IsMessage(m)
         /\ Drained'
<1>1. CASE Decides(p, b, V, v, out)
  <2>1. PICK b2, V2 :
          /\ Recorded(p, b, V, v, b2, V2)
          /\ p # None
          /\ proposing' = None /\ votes' = {} /\ ballot' = EmptyBallot
          /\ view' = [view EXCEPT ![Leader] = ApplyCommit(@, p)]
          /\ sent' = sent \cup out \cup {CommitMsg(NextSlot(Leader), p, QuorumCert(V2, Cardinality(V2)))}
    BY <1>1 DEF Decides
  <2>2. V2 \subseteq VoteType
    BY <2>1, RecordedInFlight
  <2>3. IsMessage(CommitMsg(NextSlot(Leader), p, QuorumCert(V2, Cardinality(V2))))
    BY <2>1, <2>2, ViewFields DEF IsMessage, CommitMsg, QuorumCert
  <2>4. \A m \in sent' : IsMessage(m)
    BY <2>1, <2>3 DEF TypeOK
  <2>5. /\ DOMAIN view' = Seat /\ \A k \in Seat : view'[k] \in View(k)
        /\ Drained'
    BY <2>1, ApplyCommitKeepsView
  <2> QED BY <2>1, <2>4, <2>5 DEF EmptyBallot
<1>2. CASE Waits(p, b, V, v, out)
  <2>1. PICK b2, V2 :
          /\ \/ p # None /\ Recorded(p, b, V, v, b2, V2)
             \/ b2 = b /\ V2 = V
          /\ proposing' = p /\ votes' = V2 /\ ballot' = b2
          /\ view' = view /\ sent' = sent \cup out
    BY <1>2 DEF Waits
  <2>2. b2 \in [Seat -> Command \cup {None}] /\ V2 \subseteq VoteType
    BY <2>1, RecordedInFlight
  <2> QED BY <2>1, <2>2 DEF TypeOK, Drained, NextSlot, Log
<1> QED BY <1>1, <1>2, RecordVoteCases

\* The state is well typed and every log applied between two handlers.
THEOREM TypesInductive ==
  /\ Init => TypeOK /\ Drained
  /\ TypeOK /\ Drained /\ [Next]_vars => TypeOK' /\ Drained'
<1>1. ASSUME Init
      PROVE  TypeOK /\ Drained
  <2>1. \A n \in Seat : /\ view[n] \in View(n)
                        /\ view[n].replicas[n].applied = 0 /\ view[n].log = << >>
    BY <1>1, RsmAssumption DEF Init, View, GlobalConfig, FreshReplica, Replica
  <2> QED BY <1>1, <2>1 DEF Init, TypeOK, Drained, NextSlot, Log, EmptyBallot
<1>2. ASSUME TypeOK, Drained, [Next]_vars
      PROVE  TypeOK' /\ Drained'
  <2> USE <1>2
  <2>1. ASSUME NEW c \in Command, NEW cap \in Issued, Submit(c, cap)
        PROVE  TypeOK' /\ Drained'
    <3> DEFINE own == Vote(Leader, NextSlot(Leader), c)
               out == {ProposeMsg(Leader, NextSlot(Leader), c, cap)}
    <3>1. /\ Leader \in Seat /\ RecordVote(c, EmptyBallot, {}, own, out)
          /\ signed' = signed \cup {own} /\ faulty' = faulty /\ observed' = observed
      BY <2>1, AuthAssumption DEF Submit
    <3>2. own \in VoteType /\ \A m \in out : IsMessage(m)
      BY <3>1, ViewFields DEF Vote, VoteType, ProposeMsg, IsMessage
    <3>3. EmptyBallot \in [Seat -> Command \cup {None}]
      BY DEF EmptyBallot
    <3> HIDE DEF own, out
    <3> QED BY <3>1, <3>2, <3>3, RecordKeepsTypes DEF TypeOK
  <2>2. ASSUME NEW n \in Correct, NEW m \in Deliverable, HandlePropose(n, m)
        PROVE  TypeOK' /\ Drained'
    <3>1. Vote(n, m.slot, m.cmd) \in VoteType
      BY <2>2, DeliverableIsMessage DEF HandlePropose, Vote, VoteType, Correct
    <3>2. IsMessage(VoteMsg(Vote(n, m.slot, m.cmd)))
      BY <3>1 DEF IsMessage, VoteMsg
    <3> QED BY <2>2, <3>1, <3>2 DEF HandlePropose, TypeOK, Drained, NextSlot, Log, leaderVars
  <2>3. ASSUME NEW n \in Correct, NEW m \in Deliverable, HandleVote(n, m)
        PROVE  TypeOK' /\ Drained'
    <3> DEFINE v == m.vote
               out == {}
    <3>1. /\ Leader \in Seat /\ v \in VoteType
          /\ RecordVote(proposing, ballot, votes, v, out)
          /\ \A msg \in out : IsMessage(msg)
          /\ signed' = signed /\ faulty' = faulty /\ observed' = observed
      BY <2>3, DeliverableIsMessage, AuthAssumption DEF HandleVote
    <3>2. /\ proposing \in Command \cup {None} /\ votes \in SUBSET VoteType
          /\ ballot \in [Seat -> Command \cup {None}]
      BY DEF TypeOK
    <3> HIDE DEF v, out
    <3>3. /\ DOMAIN view' = Seat /\ \A k \in Seat : view'[k] \in View(k)
          /\ proposing' \in Command \cup {None}
          /\ votes' \subseteq VoteType
          /\ ballot' \in [Seat -> Command \cup {None}]
          /\ \A msg \in sent' : IsMessage(msg)
          /\ Drained'
      BY <3>1, <3>2, RecordKeepsTypes
    <3> QED BY <3>1, <3>3 DEF TypeOK
  <2>4. ASSUME NEW n \in Correct, NEW m \in Deliverable, HandleCommit(n, m)
        PROVE  TypeOK' /\ Drained'
    <3>1. n \in Seat /\ m.cmd \in Command
      BY <2>4, DeliverableIsMessage DEF HandleCommit, Correct
    <3> QED BY <2>4, <3>1, ApplyCommitKeepsView DEF HandleCommit, TypeOK, leaderVars
  <2>5. CASE UNCHANGED vars
    BY <2>5 DEF vars, leaderVars, TypeOK, Drained, NextSlot, Log
  <2> QED BY <2>1, <2>2, <2>3, <2>4, <2>5 DEF Next, Handle
<1> QED BY <1>1, <1>2

\* Between two handlers no node of any roster holds a committed slot it has not
\* applied (auth.rs apply_commit).
THEOREM AlwaysDrained == Spec => [](TypeOK /\ Drained)
BY TypesInductive, PTL DEF Spec

-----------------------------------------------------------------------------
(* Evidence: whose signatures stand behind a message. *)

SignersOf(F, G, s, c) == F \cup {n \in Seat \ F : Vote(n, s, c) \in G}

\* A certificate that verifies and whose votes are backed comes from a quorum of
\* signers: a repeated vote adds none, a vote for another slot or command spoils
\* it (proto.rs verify_qc).
LEMMA CertificateHasSigners ==
  ASSUME NEW F \in SUBSET Seat, NEW G, NEW V \in SUBSET VoteType, NEW s, NEW c,
         \A v \in V : VerifyVote(v, s, c) /\ (v \in G \/ v.voter \in F),
         Reached(Cardinality({v.voter : v \in V}))
  PROVE  Reached(Cardinality(SignersOf(F, G, s, c)))
<1>1. ASSUME NEW v \in V
      PROVE  v.voter \in SignersOf(F, G, s, c)
  <2>1. v = Vote(v.voter, s, c) /\ v.voter \in Seat
    BY DEF VoteType, Vote, VerifyVote
  <2> QED BY <2>1 DEF SignersOf
<1>2. {v.voter : v \in V} \subseteq SignersOf(F, G, s, c) /\ SignersOf(F, G, s, c) \subseteq Seat
  BY <1>1 DEF SignersOf
<1> QED BY <1>2, ReachedIsMonotone

\* Signing more, with the same keys lost, keeps every quorum of signers.
LEMMA SignersGrow ==
  ASSUME NEW F \in SUBSET Seat, NEW G, NEW H, G \subseteq H, NEW s, NEW c,
         Reached(Cardinality(SignersOf(F, G, s, c)))
  PROVE  Reached(Cardinality(SignersOf(F, H, s, c)))
<1>1. SignersOf(F, G, s, c) \subseteq SignersOf(F, H, s, c) /\ SignersOf(F, H, s, c) \subseteq Seat
  BY DEF SignersOf
<1> QED BY <1>1, ReachedIsMonotone

\* When the misused keys are a quorum everything is certified.
LEMMA FaultyQuorumCertifies ==
  ASSUME NEW F \in SUBSET Seat, NEW G, NEW s, NEW c, Reached(Cardinality(F))
  PROVE  Reached(Cardinality(SignersOf(F, G, s, c)))
<1>1. F \subseteq SignersOf(F, G, s, c) /\ SignersOf(F, G, s, c) \subseteq Seat
  BY DEF SignersOf
<1> QED BY <1>1, ReachedIsMonotone

\* Whatever may be delivered carries votes that are backed: the seats that misuse
\* their keys hold only their own and correct ones.
LEMMA DeliverableIsBacked ==
  ASSUME TypeOK, Evidence, NEW m \in Deliverable
  PROVE  /\ m.type = "vote" => Backed(m.vote)
         /\ m.type = "commit" => \A v \in m.qc.votes : Backed(v)
<1>1. CASE m \in sent
  BY <1>1 DEF Evidence
<1>2. CASE m \in FaultyMsgs
  <2>1. CASE \E f \in faulty, s \in Slot, c \in Command, cap \in Issued :
                m = ProposeMsg(f, s, c, cap)
    BY <2>1 DEF ProposeMsg
  <2>2. CASE \E f \in faulty, s \in Slot, c \in Command : m = VoteMsg(Vote(f, s, c))
    BY <2>2 DEF VoteMsg, Vote, Backed
  <2>3. CASE \E s \in Slot, c \in Command, s2 \in Slot, c2 \in Command :
                m = CommitMsg(s, c, QuorumCert(Held(s2, c2), N))
    <3>1. PICK s \in Slot, c \in Command, s2 \in Slot, c2 \in Command :
                m = CommitMsg(s, c, QuorumCert(Held(s2, c2), N))
      BY <2>3
    <3>2. \A v \in Held(s2, c2) : Backed(v)
      BY DEF Held, Vote, Backed
    <3> QED BY <3>1, <3>2 DEF CommitMsg, QuorumCert
  <2> QED BY <1>2, <2>1, <2>2, <2>3 DEF FaultyMsgs
<1> QED BY <1>1, <1>2 DEF Deliverable

\* Handling a vote that is backed publishes only backed votes (record_vote).
LEMMA RecordKeepsEvidence ==
  ASSUME Evidence, Leader \in Correct, faulty' = faulty, observed' = observed, signed \subseteq signed',
         NEW p, NEW b, NEW V, \A w \in V : Backed(w)',
         NEW v, Backed(v)',
         NEW out, \A m \in out : m.type = "propose",
         RecordVote(p, b, V, v, out)
  PROVE  /\ \A w \in votes' : Backed(w)'
         /\ \A m \in sent' :
              /\ m.type = "vote" => Backed(m.vote)'
              /\ m.type = "commit" => Leader \in Correct' /\ \A w \in m.qc.votes : Backed(w)'
<1>1. \A m \in sent \cup out :
        /\ m.type = "vote" => Backed(m.vote)'
        /\ m.type = "commit" => Leader \in Correct' /\ \A w \in m.qc.votes : Backed(w)'
  BY DEF Evidence, Backed, Correct
<1>2. CASE Decides(p, b, V, v, out)
  <2>1. PICK b2, V2 :
          /\ Recorded(p, b, V, v, b2, V2)
          /\ votes' = {}
          /\ sent' = sent \cup out \cup {CommitMsg(NextSlot(Leader), p, QuorumCert(V2, Cardinality(V2)))}
    BY <1>2 DEF Decides
  <2>2. \A w \in V2 : Backed(w)'
    BY <2>1 DEF Recorded
  <2> DEFINE new == CommitMsg(NextSlot(Leader), p, QuorumCert(V2, Cardinality(V2)))
  <2>3. new.type = "commit" /\ new.qc.votes = V2
    BY DEF CommitMsg, QuorumCert
  <2>4. Leader \in Correct'
    BY DEF Correct
  <2> HIDE DEF new
  <2> QED BY <1>1, <2>1, <2>2, <2>3, <2>4 DEF new
<1>3. CASE Waits(p, b, V, v, out)
  <2>1. PICK b2, V2 :
          /\ Recorded(p, b, V, v, b2, V2) \/ V2 = V
          /\ votes' = V2 /\ sent' = sent \cup out
    BY <1>3 DEF Waits
  <2> QED BY <1>1, <2>1 DEF Recorded
<1> QED BY <1>2, <1>3, RecordVoteCases

-----------------------------------------------------------------------------
(* What the leader decides. *)

CertifiedBy(F, G, s, c) == Reached(Cardinality(SignersOf(F, G, s, c)))

\* CommitsAreCertified, with the misused keys and the signatures as parameters.
LEMMA CertifiedIsCertifiedBy ==
  CommitsAreCertified
    <=> \A n \in Correct : n # Leader \/ Trusted =>
          \A i \in DOMAIN Log(n) : CertifiedBy(faulty, signed, i - 1, Log(n)[i])
BY DEF CommitsAreCertified, CertifiedBy, Signers, SignersOf, Correct

\* A decision taken on the ballot of the slot in flight is a quorum of votes for
\* that slot and command, and the certificate made of them verifies
\* (record_vote, and its debug_assert).
LEMMA DecisionMakesCertificate ==
  ASSUME NEW p, p # None, NEW b, DOMAIN b = Seat, NEW V, NEW slot,
         InFlight(p, b, V, slot), DecidedBy(b, p)
  PROVE  /\ \A v \in V : VerifyVote(v, slot, p)
         /\ Reached(Cardinality({v.voter : v \in V}))
BY DecisionIsQuorum DEF InFlight

\* The command a correct leader decides is certified while its ballot is for the slot
\* in flight, and once the misused keys are a quorum everything is.
LEMMA DecisionIsCertified ==
  ASSUME TypeOK, Leader \in Correct,
         NEW p \in Command, NEW b \in [Seat -> Command \cup {None}],
         NEW V \in SUBSET VoteType, NEW v \in VoteType,
         NEW G, \A w \in V \cup {v} : w \in G \/ w.voter \in faulty,
         NEW b2, NEW V2, Recorded(p, b, V, v, b2, V2),
         VerifyVote(v, NextSlot(Leader), p), DecidedBy(b2, p),
         InFlight(p, b, V, NextSlot(Leader)) \/ Reached(Cardinality(faulty))
  PROVE  CertifiedBy(faulty, G, NextSlot(Leader), p)
<1>1. faulty \in SUBSET Seat /\ p # None
  BY AuthAssumption DEF TypeOK
<1>2. CASE InFlight(p, b, V, NextSlot(Leader))
  <2>1. /\ InFlight(p, b2, V2, NextSlot(Leader)) /\ V2 \in SUBSET VoteType
        /\ DOMAIN b2 = Seat /\ V2 \subseteq V \cup {v}
    BY <1>1, <1>2, RecordedInFlight
  <2>2. /\ \A w \in V2 : VerifyVote(w, NextSlot(Leader), p)
        /\ Reached(Cardinality({w.voter : w \in V2}))
    BY <1>1, <2>1, DecisionMakesCertificate
  <2> QED BY <1>1, <2>1, <2>2, CertificateHasSigners DEF CertifiedBy
<1>3. CASE Reached(Cardinality(faulty))
  BY <1>1, <1>3, FaultyQuorumCertifies DEF CertifiedBy
<1> QED BY <1>2, <1>3

\* Appending a certified command to one log keeps every commit certified; what a
\* leader appends need be only when it can be trusted.
LEMMA AppendKeepsCertified ==
  ASSUME TypeOK, Drained, CommitsAreCertified, NEW n \in Correct, NEW c \in Command,
         view' = [view EXCEPT ![n] = ApplyCommit(@, c)],
         faulty' = faulty, observed' = observed, signed \subseteq signed',
         n # Leader \/ Trusted => CertifiedBy(faulty, signed', NextSlot(n), c)
  PROVE  CommitsAreCertified'
<1>1. /\ n \in Seat /\ faulty \in SUBSET Seat /\ Correct' = Correct
      /\ Correct \subseteq Seat /\ (Trusted' <=> Trusted)
  BY AuthAssumption DEF Correct, TypeOK, Trusted
<1>2. /\ Log(n)' = Append(Log(n), c)
      /\ \A k \in Seat \ {n} : Log(k)' = Log(k)
  BY <1>1, ApplyCommitKeepsView
<1>3. Log(n) \in Seq(Command) /\ NextSlot(n) = Len(Log(n))
  BY <1>1, ViewFields DEF NextSlot
<1>4. ASSUME NEW k \in Correct, k # Leader \/ Trusted, NEW i \in DOMAIN Log(k)
      PROVE  CertifiedBy(faulty, signed', i - 1, Log(k)[i])
  BY <1>1, <1>4, CertifiedIsCertifiedBy, SignersGrow DEF CertifiedBy
<1>5. ASSUME NEW k \in Correct, k # Leader \/ Trusted, NEW i \in DOMAIN (Log(k)')
      PROVE  CertifiedBy(faulty, signed', i - 1, Log(k)'[i])
  <2>1. CASE k # n
    BY <2>1, <1>1, <1>2, <1>4, <1>5
  <2>2. CASE k = n /\ i \in DOMAIN Log(n)
    BY <2>2, <1>2, <1>3, <1>4, <1>5
  <2>3. CASE k = n /\ i \notin DOMAIN Log(n)
    <3>1. i = Len(Log(n)) + 1 /\ Log(n)'[i] = c
      BY <2>3, <1>2, <1>3
    <3> QED BY <2>3, <3>1, <1>3, <1>5
  <2> QED BY <2>1, <2>2, <2>3
<1>6. CommitsAreCertified'
        <=> \A k \in Correct : k # Leader \/ Trusted =>
              \A i \in DOMAIN (Log(k)') : CertifiedBy(faulty, signed', i - 1, Log(k)'[i])
  BY <1>1 DEF CommitsAreCertified, CertifiedBy, Signers, SignersOf, Correct
<1> QED BY <1>5, <1>6

\* With the logs as they are, more signatures keep every commit certified.
LEMMA SigningKeepsCertified ==
  ASSUME TypeOK, CommitsAreCertified, faulty' = faulty, observed' = observed, signed \subseteq signed',
         \A n \in Seat : Log(n)' = Log(n)
  PROVE  CommitsAreCertified'
<1>1. /\ faulty \in SUBSET Seat /\ Correct \subseteq Seat /\ (Trusted' <=> Trusted)
  BY AuthAssumption DEF Correct, TypeOK, Trusted
<1>2. ASSUME NEW k \in Correct, k # Leader \/ Trusted, NEW i \in DOMAIN Log(k)
      PROVE  CertifiedBy(faulty, signed', i - 1, Log(k)[i])
  BY <1>1, <1>2, CertifiedIsCertifiedBy, SignersGrow DEF CertifiedBy
<1>3. CommitsAreCertified'
        <=> \A k \in Correct : k # Leader \/ Trusted =>
              \A i \in DOMAIN Log(k) : CertifiedBy(faulty, signed', i - 1, Log(k)[i])
  BY <1>1 DEF CommitsAreCertified, CertifiedBy, Signers, SignersOf, Correct
<1> QED BY <1>2, <1>3

\* A leader's log keeps its shape if it grows by a command that is certified, or
\* licensed and in a slot nothing is proposed for, and no proposal is added for a
\* slot it has passed.
LEMMA LeaderCommitsKept ==
  ASSUME TypeOK, LeaderCommits, faulty' = faulty, observed' = observed, signed \subseteq signed',
         NEW slot, slot = NextSlot(Leader),
         \A s \in Int : \A c : s < slot /\ Proposed(s, c)' => Proposed(s, c),
         \/ Log(Leader)' = Log(Leader)
         \/ \E c \in Command :
              /\ Log(Leader)' = Append(Log(Leader), c)
              /\ \/ CertifiedBy(faulty, signed', slot, c)
                 \/ c \in Issued /\ \A d \in Command : ~Proposed(slot, d)'
  PROVE  LeaderCommits'
<1>1. /\ Leader \in Seat /\ faulty \in SUBSET Seat /\ Correct' = Correct
  BY AuthAssumption DEF Correct, TypeOK
<1>2. Log(Leader) \in Seq(Command) /\ NextSlot(Leader) = Len(Log(Leader))
  BY <1>1, ViewFields DEF NextSlot
<1>3. SUFFICES ASSUME Leader \in Correct, NEW i \in DOMAIN (Log(Leader)')
               PROVE  \/ CertifiedBy(faulty, signed', i - 1, Log(Leader)'[i])
                      \/ Log(Leader)'[i] \in Issued /\ \A d \in Command : ~Proposed(i - 1, d)'
  BY <1>1 DEF LeaderCommits, CertifiedBy, Signers, SignersOf, Correct
<1>4. CASE i \in DOMAIN Log(Leader)
  <2>1. Log(Leader)'[i] = Log(Leader)[i] /\ i - 1 \in Int /\ i - 1 < slot
    BY <1>2, <1>4
  <2>2. \/ CertifiedBy(faulty, signed, i - 1, Log(Leader)[i])
        \/ Log(Leader)[i] \in Issued /\ \A d \in Command : ~Proposed(i - 1, d)
    BY <1>3, <1>4 DEF LeaderCommits, CertifiedBy, Signers, SignersOf, Correct
  <2>3. CASE CertifiedBy(faulty, signed, i - 1, Log(Leader)[i])
    BY <1>1, <2>1, <2>3, SignersGrow DEF CertifiedBy
  <2>4. CASE Log(Leader)[i] \in Issued /\ \A d \in Command : ~Proposed(i - 1, d)
    BY <2>1, <2>4
  <2> QED BY <2>2, <2>3, <2>4
<1>5. CASE i \notin DOMAIN Log(Leader)
  <2>1. PICK c \in Command :
          /\ Log(Leader)' = Append(Log(Leader), c)
          /\ \/ CertifiedBy(faulty, signed', slot, c)
             \/ c \in Issued /\ \A d \in Command : ~Proposed(slot, d)'
    BY <1>3, <1>5
  <2>2. i - 1 = slot /\ Log(Leader)'[i] = c
    BY <1>2, <1>3, <1>5, <2>1
  <2> QED BY <2>1, <2>2
<1> QED BY <1>4, <1>5

-----------------------------------------------------------------------------
(* What the leader proposed. *)

\* Only a misused key makes a proposal up.
LEMMA ProposalsAreTheLeaders ==
  ASSUME faulty = {}, NEW m \in Deliverable, m.type = "propose"
  PROVE  Proposed(m.slot, m.cmd)
BY DEF Deliverable, FaultyMsgs, VoteMsg, CommitMsg, Proposed

\* One command per slot outlives every step that proposes nothing and leaves the slot
\* in flight alone or passes it.
LEMMA OneProposalKept ==
  ASSUME NEW M, NEW p, NEW b, NEW V, NEW slot \in Nat,
         \A q \in M : q.type = "propose" => q.slot \in Nat,
         OneProposal(M, p, b, V, slot),
         NEW M2, \A q \in M2 : q.type = "propose" => q \in M
  PROVE  /\ OneProposal(M2, p, b, V, slot)
         /\ \A p2, b2, V2 : OneProposal(M2, p2, b2, V2, slot + 1)
         /\ \A b2, V2 : (InFlight(p, b, V, slot) => InFlight(p, b2, V2, slot))
                          => OneProposal(M2, p, b2, V2, slot)
BY DEF OneProposal

\* Handling a vote proposes nothing: record_vote waits on the slot in flight or moves
\* past it.
LEMMA RecordKeepsProposals ==
  ASSUME TypeOK, Drained,
         NEW p \in Command \cup {None}, NEW b \in [Seat -> Command \cup {None}],
         NEW V \in SUBSET VoteType, NEW v \in VoteType,
         NEW out, \A m \in out : m.type = "propose" /\ m.slot \in Nat,
         OneProposal(sent \cup out, p, b, V, NextSlot(Leader)),
         RecordVote(p, b, V, v, out)
  PROVE  /\ OneProposal(sent', proposing', ballot', votes', NextSlot(Leader)')
         /\ \A s, c : Proposed(s, c)' <=> \E m \in sent \cup out :
                                            m.type = "propose" /\ m.slot = s /\ m.cmd = c
<1>1. /\ Leader \in Seat /\ NextSlot(Leader) \in Nat
      /\ Log(Leader) \in Seq(Command) /\ NextSlot(Leader) = Len(Log(Leader))
  BY AuthAssumption, ViewFields DEF NextSlot
<1>2. \A m \in sent \cup out : m.type = "propose" => m.slot \in Nat
  BY DEF TypeOK, IsMessage
<1>3. CASE Decides(p, b, V, v, out)
  <2>1. PICK V2 :
          /\ p # None
          /\ view' = [view EXCEPT ![Leader] = ApplyCommit(@, p)]
          /\ sent' = sent \cup out \cup {CommitMsg(NextSlot(Leader), p, QuorumCert(V2, Cardinality(V2)))}
    BY <1>3 DEF Decides
  <2>2. Log(Leader)' = Append(Log(Leader), p)
    BY <1>1, <2>1, ApplyCommitKeepsView
  <2>3. NextSlot(Leader)' = NextSlot(Leader) + 1
    BY <1>1, <2>1, <2>2 DEF NextSlot
  <2>4. \A m \in sent' : m.type = "propose" => m \in sent \cup out
    BY <2>1 DEF CommitMsg
  <2>5. \A p2, b2, W : OneProposal(sent', p2, b2, W, NextSlot(Leader) + 1)
    BY <1>1, <1>2, <2>4, OneProposalKept
  <2>6. sent \cup out \subseteq sent'
    BY <2>1
  <2> QED BY <2>3, <2>4, <2>5, <2>6 DEF Proposed
<1>4. CASE Waits(p, b, V, v, out)
  <2>1. PICK b2, V2 :
          /\ \/ /\ p # None /\ VerifyVote(v, NextSlot(Leader), p)
                /\ Recorded(p, b, V, v, b2, V2)
             \/ b2 = b /\ V2 = V
          /\ proposing' = p /\ votes' = V2 /\ ballot' = b2
          /\ view' = view /\ sent' = sent \cup out
    BY <1>4 DEF Waits
  <2>2. NextSlot(Leader)' = NextSlot(Leader)
    BY <2>1 DEF NextSlot, Log
  <2>3. InFlight(p, b, V, NextSlot(Leader)) => InFlight(p, b2, V2, NextSlot(Leader))
    BY <2>1, RecordedInFlight
  <2>4. OneProposal(sent', p, b2, V2, NextSlot(Leader))
    BY <1>1, <1>2, <2>1, <2>3, OneProposalKept
  <2> QED BY <2>1, <2>2, <2>4 DEF Proposed
<1> QED BY <1>3, <1>4, RecordVoteCases

-----------------------------------------------------------------------------
(* Behind a safe leader. *)

\* A commit that verifies repeats an entry of a safe leader's log: the misused
\* keys are no quorum, so its certificate holds a vote of a correct node, which
\* only the leader received and only a certificate of the leader's published.
LEMMA CommitRepeatsLeader ==
  ASSUME TypeOK, Evidence, Safe, LeaderIsAhead,
         NEW m \in Deliverable, m.type = "commit", VerifyCommit(m)
  PROVE  InLeaderLog(m.slot, m.cmd)
<1>1. CASE m \in sent
  BY <1>1 DEF LeaderIsAhead
<1>2. CASE m \in FaultyMsgs
  <2>1. PICK s \in Slot, c \in Command, s2 \in Slot, c2 \in Command :
               m = CommitMsg(s, c, QuorumCert(Held(s2, c2), N))
    BY <1>2 DEF FaultyMsgs, ProposeMsg, VoteMsg
  <2>2. /\ m.slot = s /\ m.cmd = c /\ m.qc.votes = Held(s2, c2)
    BY <2>1 DEF CommitMsg, QuorumCert
  <2>3. /\ \A v \in Held(s2, c2) : v.slot = s /\ v.cmd = c
        /\ Reached(Cardinality({v.voter : v \in Held(s2, c2)}))
    BY <2>2 DEF VerifyCommit, VerifyQC, VerifyVote
  <2>4. PICK v \in Held(s2, c2) : v.voter \notin faulty
    <3>1. SUFFICES ASSUME \A v \in Held(s2, c2) : v.voter \in faulty
                   PROVE  FALSE
      OBVIOUS
    <3>2. {v.voter : v \in Held(s2, c2)} \subseteq faulty /\ faulty \in SUBSET Seat
      BY <3>1, AuthAssumption DEF TypeOK
    <3> QED BY <3>2, <2>3, ReachedIsMonotone DEF Safe
  <2>5. PICK k \in sent : k.type = "commit" /\ v \in k.qc.votes
    BY <2>4 DEF Held, Seen, Vote, Safe, Correct
  <2>6. VerifyCommit(k) /\ InLeaderLog(k.slot, k.cmd)
    BY <2>5 DEF LeaderIsAhead
  <2>7. v.slot = k.slot /\ v.cmd = k.cmd
    BY <2>5, <2>6 DEF VerifyCommit, VerifyQC, VerifyVote
  <2> QED BY <2>2, <2>3, <2>6, <2>7
<1> QED BY <1>1, <1>2 DEF Deliverable

\* The leader's log only grows at its end.
LEMMA LeaderLogGrows ==
  ASSUME Log(Leader) \in Seq(Command), NEW c \in Command,
         Log(Leader)' = Append(Log(Leader), c),
         NEW s \in Int, NEW d, InLeaderLog(s, d)
  PROVE  InLeaderLog(s, d)'
BY DEF InLeaderLog

\* Handling a vote keeps a safe leader ahead (record_vote).
LEMMA RecordKeepsLead ==
  ASSUME TypeOK, Drained, Safe, LeaderIsAhead, faulty' = faulty, observed' = observed,
         NEW p \in Command \cup {None}, NEW b \in [Seat -> Command \cup {None}],
         NEW V \in SUBSET VoteType, NEW v \in VoteType,
         InFlight(p, b, V, NextSlot(Leader)),
         NEW out, \A m \in out : m.type = "propose",
         RecordVote(p, b, V, v, out)
  PROVE  LeaderIsAhead'
<1>1. /\ Leader \in Seat /\ Correct' = Correct /\ Correct \subseteq Seat
  BY AuthAssumption DEF Correct
<1>2. Log(Leader) \in Seq(Command) /\ NextSlot(Leader) = Len(Log(Leader))
  BY <1>1, ViewFields DEF NextSlot
<1>3. CASE Decides(p, b, V, v, out)
  <2>1. PICK b2, V2 :
          /\ Recorded(p, b, V, v, b2, V2)
          /\ p # None /\ VerifyVote(v, NextSlot(Leader), p) /\ DecidedBy(b2, p)
          /\ proposing' = None /\ votes' = {} /\ ballot' = EmptyBallot
          /\ view' = [view EXCEPT ![Leader] = ApplyCommit(@, p)]
          /\ sent' = sent \cup out \cup {CommitMsg(NextSlot(Leader), p, QuorumCert(V2, Cardinality(V2)))}
    BY <1>3 DEF Decides
  <2>2. /\ Log(Leader)' = Append(Log(Leader), p)
        /\ \A k \in Seat \ {Leader} : Log(k)' = Log(k)
    BY <1>1, <2>1, ApplyCommitKeepsView
  <2>3. InFlight(proposing, ballot, votes, NextSlot(Leader))'
    BY <2>1 DEF InFlight, EmptyBallot
  <2>4. PICK slot : slot = NextSlot(Leader)
    OBVIOUS
  <2>5. InFlight(p, b2, V2, slot) /\ DOMAIN b2 = Seat
    <3>1. InFlight(p, b, V, slot) /\ VerifyVote(v, slot, p)
      BY <2>1, <2>4
    <3>2. b2 \in [Seat -> Command \cup {None}] /\ InFlight(p, b2, V2, slot)
      BY <2>1, <3>1, RecordedInFlight
    <3> QED BY <3>2
  <2>6. PICK new : new = CommitMsg(slot, p, QuorumCert(V2, Cardinality(V2)))
    OBVIOUS
  <2>7. /\ VerifyCommit(new) /\ InLeaderLog(new.slot, new.cmd)'
        /\ sent' = sent \cup out \cup {new}
    <3>1. new.slot = slot /\ new.cmd = p /\ new.qc.votes = V2
      BY <2>6 DEF CommitMsg, QuorumCert
    <3>2. VerifyCommit(new)
      BY <2>1, <2>5, <3>1, DecisionMakesCertificate DEF VerifyCommit, VerifyQC
    <3>3. slot + 1 \in DOMAIN (Log(Leader)') /\ Log(Leader)'[slot + 1] = p
      BY <1>2, <2>1, <2>2, <2>4
    <3> QED BY <2>1, <2>4, <2>6, <3>1, <3>2, <3>3 DEF InLeaderLog
  <2>8. ASSUME NEW m \in sent, m.type = "commit"
        PROVE  VerifyCommit(m) /\ InLeaderLog(m.slot, m.cmd)'
    <3>1. VerifyCommit(m) /\ InLeaderLog(m.slot, m.cmd) /\ m.slot \in Int
      BY <2>8 DEF LeaderIsAhead, TypeOK, IsMessage
    <3> QED BY <1>2, <2>1, <2>2, <3>1, LeaderLogGrows
  <2>9. \A m \in sent' : m.type = "commit" => VerifyCommit(m) /\ InLeaderLog(m.slot, m.cmd)'
    BY <2>7, <2>8
  <2>10. ASSUME NEW n \in Correct, NEW i \in DOMAIN (Log(n)')
         PROVE  InLeaderLog(i - 1, Log(n)[i])'
    <3>1. CASE n = Leader
      BY <3>1, <1>2, <2>1, <2>2 DEF InLeaderLog
    <3>2. CASE n # Leader
      <4>1. Log(n)' = Log(n) /\ i \in DOMAIN Log(n) /\ i - 1 \in Int
        BY <3>2, <1>1, <2>2, ViewFields
      <4>2. PICK d : d = Log(n)[i] /\ InLeaderLog(i - 1, d)
        BY <4>1 DEF LeaderIsAhead
      <4>3. InLeaderLog(i - 1, d)'
        BY <4>1, <4>2, <1>2, <2>1, <2>2, LeaderLogGrows
      <4> QED BY <4>1, <4>2, <4>3 DEF InLeaderLog
    <3> QED BY <3>1, <3>2
  <2> QED BY <1>1, <2>3, <2>9, <2>10 DEF LeaderIsAhead
<1>4. CASE Waits(p, b, V, v, out)
  <2>1. PICK b2, V2 :
          /\ \/ /\ p # None /\ VerifyVote(v, NextSlot(Leader), p)
                /\ Recorded(p, b, V, v, b2, V2)
             \/ b2 = b /\ V2 = V
          /\ proposing' = p /\ votes' = V2 /\ ballot' = b2
          /\ view' = view /\ sent' = sent \cup out
    BY <1>4 DEF Waits
  <2>2. InFlight(p, b2, V2, NextSlot(Leader))
    BY <2>1, RecordedInFlight
  <2>3. NextSlot(Leader)' = NextSlot(Leader) /\ \A n \in Seat : Log(n)' = Log(n)
    BY <1>1, <2>1 DEF NextSlot, Log
  <2>4. InFlight(proposing, ballot, votes, NextSlot(Leader))'
    BY <2>1, <2>2, <2>3 DEF InFlight
  <2> QED BY <1>1, <2>1, <2>3, <2>4 DEF LeaderIsAhead, InLeaderLog
<1> QED BY <1>3, <1>4, RecordVoteCases

\* Taking a certified next command keeps a safe leader ahead, and it is never the
\* leader that does: what verifies is in its log already (handle, Commit).
LEMMA FollowKeepsLead ==
  ASSUME TypeOK, Drained, Evidence, Safe, LeaderIsAhead,
         NEW n \in Correct, NEW m \in Deliverable, HandleCommit(n, m)
  PROVE  LeaderIsAhead'
<1>1. /\ n \in Seat /\ Leader \in Seat /\ m.cmd \in Command /\ m.slot \in Nat
      /\ Correct' = Correct /\ Correct \subseteq Seat
      /\ view' = [view EXCEPT ![n] = ApplyCommit(@, m.cmd)]
      /\ m.type = "commit" /\ m.slot = NextSlot(n) /\ VerifyCommit(m)
      /\ proposing' = proposing /\ votes' = votes /\ ballot' = ballot /\ sent' = sent
  BY AuthAssumption, DeliverableIsMessage DEF HandleCommit, Correct, leaderVars
<1>2. InLeaderLog(m.slot, m.cmd)
  BY <1>1, CommitRepeatsLeader
<1>3. /\ Log(n) \in Seq(Command) /\ NextSlot(n) = Len(Log(n))
      /\ Log(Leader) \in Seq(Command) /\ NextSlot(Leader) = Len(Log(Leader))
  BY <1>1, ViewFields DEF NextSlot
<1>4. n # Leader
  BY <1>1, <1>2, <1>3 DEF InLeaderLog
<1>5. /\ Log(n)' = Append(Log(n), m.cmd)
      /\ \A k \in Seat \ {n} : Log(k)' = Log(k)
  BY <1>1, ApplyCommitKeepsView
<1>6. Log(Leader)' = Log(Leader) /\ NextSlot(Leader)' = NextSlot(Leader)
  BY <1>1, <1>4, <1>5 DEF NextSlot
<1>7. InFlight(proposing, ballot, votes, NextSlot(Leader))'
  BY <1>1, <1>6 DEF LeaderIsAhead, InFlight
<1>8. \A c \in sent' : c.type = "commit" => VerifyCommit(c) /\ InLeaderLog(c.slot, c.cmd)'
  BY <1>1, <1>6 DEF LeaderIsAhead, InLeaderLog
<1>9. ASSUME NEW k \in Correct, NEW i \in DOMAIN (Log(k)')
      PROVE  InLeaderLog(i - 1, Log(k)[i])'
  <2>1. CASE k # n
    BY <2>1, <1>1, <1>5, <1>6 DEF LeaderIsAhead, InLeaderLog
  <2>2. CASE k = n /\ i \in DOMAIN Log(n)
    BY <2>2, <1>3, <1>5, <1>6 DEF LeaderIsAhead, InLeaderLog
  <2>3. CASE k = n /\ i \notin DOMAIN Log(n)
    <3>1. i - 1 = m.slot /\ Log(n)'[i] = m.cmd
      BY <2>3, <1>1, <1>3, <1>5
    <3> QED BY <2>3, <3>1, <1>2, <1>6 DEF InLeaderLog
  <2> QED BY <2>1, <2>2, <2>3
<1> QED BY <1>1, <1>7, <1>8, <1>9 DEF LeaderIsAhead

-----------------------------------------------------------------------------
(* The inductive invariant. *)

\* The invariant at the start: nothing sent, signed or committed.
LEMMA InitAuthInv == Init => AuthInv
<1> SUFFICES ASSUME Init PROVE AuthInv
  OBVIOUS
<1>1. TypeOK /\ Drained
  BY TypesInductive
<1>2. /\ \A n \in Seat : Log(n) = << >>
      /\ proposing = None /\ votes = {} /\ ballot = EmptyBallot
      /\ sent = {} /\ signed = {} /\ Correct \subseteq Seat
  BY DEF Init, Log, Correct
<1>3. Evidence
  BY <1>2 DEF Evidence
<1>4. CommitsAreCertified
  BY <1>2 DEF CommitsAreCertified
<1>5. LeaderIsAhead
  BY <1>2 DEF LeaderIsAhead, InFlight, EmptyBallot
<1>6. LeaderCommits /\ Proposals /\ OwnCommitsVerify
  BY <1>2 DEF LeaderCommits, Proposals, OneProposal, OwnCommitsVerify, Correct
<1> QED BY <1>1, <1>3, <1>4, <1>5, <1>6 DEF AuthInv

\* record_vote, from submit or from a vote received, keeps everything at once.
LEMMA RecordKeepsInv ==
  ASSUME AuthInv, Leader \in Correct, faulty' = faulty, observed' = observed, signed \subseteq signed',
         \A w \in signed' : w.voter \in Correct /\ w.cmd \in Issued,
         NEW p \in Issued \cup {None}, NEW b \in [Seat -> Command \cup {None}],
         NEW V \in SUBSET VoteType, NEW v \in VoteType,
         \A w \in V \cup {v} : w \in signed' \/ w.voter \in faulty,
         NEW out, \A m \in out : m.type = "propose" /\ m.slot = NextSlot(Leader),
         OneProposal(sent \cup out, p, b, V, NextSlot(Leader)),
         faulty = {} => \A w \in signed' : \E m \in sent \cup out :
                          m.type = "propose" /\ m.slot = w.slot /\ m.cmd = w.cmd,
         Safe => InFlight(p, b, V, NextSlot(Leader)),
         Trusted /\ p # None /\ VerifyVote(v, NextSlot(Leader), p)
           => InFlight(p, b, V, NextSlot(Leader)) \/ Reached(Cardinality(faulty)),
         RecordVote(p, b, V, v, out)
  PROVE  /\ Evidence' /\ CommitsAreCertified' /\ LeaderCommits' /\ Proposals'
         /\ (Trusted /\ ~Reached(Cardinality(faulty)) => OwnCommitsVerify)'
         /\ (Safe => LeaderIsAhead)'
<1> USE DEF AuthInv
<1>1. /\ Leader \in Seat /\ Correct' = Correct /\ Correct \subseteq Seat
      /\ (Safe' <=> Safe) /\ (Trusted' <=> Trusted)
      /\ p \in Command \cup {None}
  BY AuthAssumption DEF Correct, Safe, Trusted
<1>2. PICK slot \in Nat : slot = NextSlot(Leader)
  BY <1>1, ViewFields
<1>3. Evidence'
  <2>1. (\A w \in V : Backed(w)') /\ Backed(v)'
    BY DEF Backed
  <2>2. /\ \A w \in votes' : Backed(w)'
        /\ \A m \in sent' :
             /\ m.type = "vote" => Backed(m.vote)'
             /\ m.type = "commit" => Leader \in Correct' /\ \A w \in m.qc.votes : Backed(w)'
    BY <2>1, RecordKeepsEvidence
  <2> QED BY <1>1, <2>2 DEF Evidence
<1>4. /\ OneProposal(sent', proposing', ballot', votes', NextSlot(Leader)')
      /\ \A s, c : Proposed(s, c)' <=> \E m \in sent \cup out :
                                         m.type = "propose" /\ m.slot = s /\ m.cmd = c
  <2>1. \A m \in out : m.type = "propose" /\ m.slot \in Nat
    BY <1>2
  <2> QED BY <1>1, <2>1, RecordKeepsProposals
<1>5. \A s \in Int : \A c : s < slot /\ Proposed(s, c)' => Proposed(s, c)
  BY <1>2, <1>4 DEF Proposed
<1>6. (Safe => LeaderIsAhead)'
  BY <1>1, RecordKeepsLead
<1>7. CASE Decides(p, b, V, v, out)
  <2>1. PICK b2, V2 :
          /\ Recorded(p, b, V, v, b2, V2)
          /\ p # None /\ VerifyVote(v, NextSlot(Leader), p) /\ DecidedBy(b2, p)
          /\ proposing' = None
          /\ view' = [view EXCEPT ![Leader] = ApplyCommit(@, p)]
          /\ sent' = sent \cup out \cup {CommitMsg(NextSlot(Leader), p, QuorumCert(V2, Cardinality(V2)))}
    BY <1>7 DEF Decides
  <2>2. p \in Command
    BY <1>1, <2>1
  <2>3. InFlight(p, b, V, NextSlot(Leader)) \/ Reached(Cardinality(faulty))
          => CertifiedBy(faulty, signed', NextSlot(Leader), p)
    BY <2>1, <2>2, DecisionIsCertified
  <2>4. CommitsAreCertified'
    BY <2>1, <2>2, <2>3, AppendKeepsCertified
  <2>5. LeaderCommits'
    <3>1. Log(Leader)' = Append(Log(Leader), p)
      BY <1>1, <2>1, <2>2, ApplyCommitKeepsView
    <3>2. InFlight(p, b, V, slot) \/ \A d \in Command : ~Proposed(slot, d)'
      BY <1>2, <1>4 DEF OneProposal
    <3>3. \/ CertifiedBy(faulty, signed', slot, p)
          \/ p \in Issued /\ \A d \in Command : ~Proposed(slot, d)'
      BY <1>2, <2>1, <2>3, <3>2
    <3> QED BY <1>2, <1>5, <2>2, <3>1, <3>3, LeaderCommitsKept
  <2>6. Proposals'
    BY <1>4, <2>1 DEF Proposals
  <2>7. ASSUME Trusted, ~Reached(Cardinality(faulty))
        PROVE  OwnCommitsVerify'
    <3>1. InFlight(p, b, V, slot) /\ VerifyVote(v, slot, p)
      BY <1>2, <2>1, <2>7
    <3>2. b2 \in [Seat -> Command \cup {None}] /\ InFlight(p, b2, V2, slot)
      BY <1>1, <2>1, <3>1, RecordedInFlight
    <3>3. PICK new : new = CommitMsg(slot, p, QuorumCert(V2, Cardinality(V2)))
      OBVIOUS
    <3>4. new.slot = slot /\ new.cmd = p /\ new.qc.votes = V2
      BY <3>3 DEF CommitMsg, QuorumCert
    <3>5. VerifyCommit(new)
      BY <2>1, <3>2, <3>4, DecisionMakesCertificate DEF VerifyCommit, VerifyQC
    <3>6. sent' = sent \cup out \cup {new}
      BY <1>2, <2>1, <3>3
    <3>7. \A m \in sent' : m.type = "commit" => m \in sent \/ m = new
      BY <3>6
    <3> QED BY <2>7, <3>5, <3>7 DEF OwnCommitsVerify, VerifyCommit
  <2> QED BY <1>1, <1>3, <1>6, <2>4, <2>5, <2>6, <2>7
<1>8. CASE Waits(p, b, V, v, out)
  <2>1. /\ \A n \in Seat : Log(n)' = Log(n)
        /\ proposing' = p /\ sent' = sent \cup out
    BY <1>8 DEF Waits, Log
  <2>2. CommitsAreCertified'
    BY <2>1, SigningKeepsCertified
  <2>3. LeaderCommits'
    BY <1>1, <1>2, <1>5, <2>1, LeaderCommitsKept
  <2>4. Proposals'
    BY <1>4, <2>1 DEF Proposals
  <2>5. OwnCommitsVerify => OwnCommitsVerify'
    BY <2>1 DEF OwnCommitsVerify, VerifyCommit
  <2> QED BY <1>1, <1>3, <1>6, <2>2, <2>3, <2>4, <2>5
<1> QED BY <1>7, <1>8, RecordVoteCases

\* submit keeps everything: the slot has no proposal yet, for one would be for the
\* command in flight.
LEMMA SubmitKeepsInv ==
  ASSUME AuthInv, NEW c \in Command, NEW cap \in Issued, Submit(c, cap)
  PROVE  /\ Evidence' /\ CommitsAreCertified' /\ LeaderCommits' /\ Proposals'
         /\ (Trusted /\ ~Reached(Cardinality(faulty)) => OwnCommitsVerify)'
         /\ (Safe => LeaderIsAhead)'
<1> USE DEF AuthInv
<1>1. PICK own, out, b, V :
        /\ own = Vote(Leader, NextSlot(Leader), c)
        /\ out = {ProposeMsg(Leader, NextSlot(Leader), c, cap)}
        /\ b = EmptyBallot /\ V = {}
  OBVIOUS
<1>2. /\ RecordVote(c, b, V, own, out)
      /\ signed' = signed \cup {own} /\ faulty' = faulty /\ observed' = observed
      /\ Leader \in Correct /\ cap = c /\ proposing = None
  BY <1>1 DEF Submit, VerifyCapability, MaySubmit
<1>3. Leader \in Seat /\ NextSlot(Leader) \in Nat /\ c # None
  BY AuthAssumption, ViewFields
<1>4. /\ own \in VoteType /\ own.voter = Leader /\ own.cmd = c /\ own.slot = NextSlot(Leader)
      /\ \A m \in out : m.type = "propose" /\ m.slot = NextSlot(Leader) /\ m.cmd = c
      /\ out # {}
  BY <1>1, <1>3 DEF Vote, VoteType, ProposeMsg
<1>5. /\ b \in [Seat -> Command \cup {None}] /\ V \in SUBSET VoteType
      /\ InFlight(c, b, V, NextSlot(Leader))
  BY <1>1 DEF EmptyBallot, InFlight
<1>6. /\ \A w \in signed' : w.voter \in Correct /\ w.cmd \in Issued
      /\ \A w \in V \cup {own} : w \in signed' \/ w.voter \in faulty
  BY <1>1, <1>2, <1>4 DEF Evidence
<1>7. OneProposal(sent \cup out, c, b, V, NextSlot(Leader))
  <2>1. ASSUME NEW q \in sent, q.type = "propose"
        PROVE  q.slot <= NextSlot(Leader) /\ q.slot # NextSlot(Leader)
    <3>1. /\ q.slot <= NextSlot(Leader) /\ q.cmd \in Command
          /\ q.slot = NextSlot(Leader) => q.cmd = None
      BY <1>2, <2>1 DEF Proposals, OneProposal, TypeOK, IsMessage
    <3> QED BY <3>1, AuthAssumption
  <2>2. \A q, r \in sent : q.type = "propose" /\ r.type = "propose" /\ q.slot = r.slot => q.cmd = r.cmd
    BY DEF Proposals, OneProposal
  <2> QED BY <1>3, <1>4, <1>5, <2>1, <2>2 DEF OneProposal
<1>8. faulty = {} => \A w \in signed' : \E m \in sent \cup out :
                       m.type = "propose" /\ m.slot = w.slot /\ m.cmd = w.cmd
  BY <1>2, <1>4 DEF Proposals, Proposed
<1>9. c \in Issued \cup {None} /\ signed \subseteq signed'
  BY <1>2
<1> QED BY <1>2, <1>4, <1>5, <1>6, <1>7, <1>8, <1>9, RecordKeepsInv

\* A vote handled by the leader keeps everything: where the leader can be trusted, a
\* vote for the slot in flight means that its ballot is for that slot too.
LEMMA HandleVoteKeepsInv ==
  ASSUME AuthInv, NEW n \in Correct, NEW m \in Deliverable, HandleVote(n, m)
  PROVE  /\ Evidence' /\ CommitsAreCertified' /\ LeaderCommits' /\ Proposals'
         /\ (Trusted /\ ~Reached(Cardinality(faulty)) => OwnCommitsVerify)'
         /\ (Safe => LeaderIsAhead)'
<1> USE DEF AuthInv
<1>1. PICK v, out : v = m.vote /\ out = {}
  OBVIOUS
<1>2. /\ RecordVote(proposing, ballot, votes, v, out)
      /\ signed' = signed /\ faulty' = faulty /\ observed' = observed /\ Leader \in Correct
      /\ v \in VoteType /\ Backed(v)
  BY <1>1, DeliverableIsMessage, DeliverableIsBacked DEF HandleVote
<1>3. /\ \A w \in signed' : w.voter \in Correct /\ w.cmd \in Issued
      /\ \A w \in votes \cup {v} : w \in signed' \/ w.voter \in faulty
      /\ \A k \in out : k.type = "propose" /\ k.slot = NextSlot(Leader)
      /\ sent \cup out = sent
  BY <1>1, <1>2 DEF Evidence, Backed
<1>4. /\ proposing \in Issued \cup {None} /\ votes \in SUBSET VoteType
      /\ ballot \in [Seat -> Command \cup {None}]
      /\ Safe => InFlight(proposing, ballot, votes, NextSlot(Leader))
  BY DEF TypeOK, LeaderIsAhead, Proposals
<1>5. /\ OneProposal(sent \cup out, proposing, ballot, votes, NextSlot(Leader))
      /\ faulty = {} => \A w \in signed' : \E k \in sent \cup out :
                          k.type = "propose" /\ k.slot = w.slot /\ k.cmd = w.cmd
  BY <1>2, <1>3 DEF Proposals, Proposed
<1>6. ASSUME Trusted, VerifyVote(v, NextSlot(Leader), proposing)
      PROVE  \/ InFlight(proposing, ballot, votes, NextSlot(Leader))
             \/ Reached(Cardinality(faulty))
  <2>1. CASE faulty = {}
    <3>1. PICK q \in sent : q.type = "propose" /\ q.slot = v.slot
      BY <1>2, <2>1 DEF Backed, Proposals, Proposed
    <3> QED BY <1>6, <3>1 DEF Proposals, OneProposal, VerifyVote
  <2>2. CASE ~observed
    BY <1>2, <1>4, <2>2 DEF Safe
  <2> QED BY <1>6, <2>1, <2>2 DEF Trusted
<1> QED BY <1>2, <1>3, <1>4, <1>5, <1>6, RecordKeepsInv

\* A proposal handled keeps everything: a vote is signed and sent, nothing else moves.
LEMMA HandleProposeKeepsInv ==
  ASSUME AuthInv, NEW n \in Correct, NEW m \in Deliverable, HandlePropose(n, m)
  PROVE  /\ Evidence' /\ CommitsAreCertified' /\ LeaderCommits' /\ Proposals'
         /\ (Trusted /\ ~Reached(Cardinality(faulty)) => OwnCommitsVerify)'
         /\ (Safe => LeaderIsAhead)'
<1> USE DEF AuthInv
<1>1. PICK v : v = Vote(n, m.slot, m.cmd)
  OBVIOUS
<1>2. /\ signed' = signed \cup {v} /\ sent' = sent \cup {VoteMsg(v)}
      /\ view' = view /\ faulty' = faulty /\ observed' = observed
      /\ proposing' = proposing /\ votes' = votes /\ ballot' = ballot
      /\ m.type = "propose" /\ m.cap = m.cmd
  BY <1>1 DEF HandlePropose, VerifyProposal, VerifyCapability, leaderVars
<1>3. v.voter = n /\ v.slot = m.slot /\ v.cmd = m.cmd /\ v.cmd \in Issued
  BY <1>1, <1>2, DeliverableIsMessage DEF Vote
<1>4. /\ Leader \in Seat /\ Correct \subseteq Seat
      /\ Correct' = Correct /\ (Safe' <=> Safe) /\ (Trusted' <=> Trusted)
  BY <1>2, AuthAssumption DEF Correct, Safe, Trusted
<1>5. Evidence'
  BY <1>2, <1>3, <1>4 DEF Evidence, Backed, VoteMsg
<1>6. /\ \A k \in Seat : Log(k)' = Log(k)
      /\ NextSlot(Leader)' = NextSlot(Leader) /\ NextSlot(Leader) \in Nat
  BY <1>2, <1>4, ViewFields DEF Log, NextSlot
<1>7. CommitsAreCertified'
  BY <1>2, <1>6, SigningKeepsCertified
<1>8. /\ \A k \in sent' : k.type # "vote" => k \in sent
      /\ \A s, c : Proposed(s, c)' <=> Proposed(s, c)
  BY <1>2 DEF VoteMsg, Proposed
<1>9. LeaderCommits'
  BY <1>2, <1>4, <1>6, <1>8, LeaderCommitsKept
<1>10. Proposals'
  <2>1. OneProposal(sent', proposing, ballot, votes, NextSlot(Leader))
    <3>1. \A q \in sent : q.type = "propose" => q.slot \in Nat
      BY DEF TypeOK, IsMessage
    <3> QED BY <1>6, <1>8, <3>1, OneProposalKept DEF Proposals
  <2>2. faulty = {} => \A w \in signed' : Proposed(w.slot, w.cmd)
    BY <1>2, <1>3, ProposalsAreTheLeaders DEF Proposals
  <2>3. proposing \in Issued \cup {None}
    BY DEF Proposals
  <2> QED BY <1>2, <1>6, <1>8, <2>1, <2>2, <2>3 DEF Proposals
<1>11. OwnCommitsVerify => OwnCommitsVerify'
  BY <1>8 DEF OwnCommitsVerify, VerifyCommit
<1>12. ASSUME Safe
       PROVE  LeaderIsAhead'
  <2>1. InFlight(proposing, ballot, votes, NextSlot(Leader))'
    BY <1>2, <1>6, <1>12 DEF LeaderIsAhead, InFlight
  <2>2. \A k \in sent' : k.type = "commit" => VerifyCommit(k) /\ InLeaderLog(k.slot, k.cmd)'
    BY <1>4, <1>6, <1>8, <1>12 DEF LeaderIsAhead, InLeaderLog
  <2>3. \A k \in Correct' : \A i \in DOMAIN (Log(k)') : InLeaderLog(i - 1, Log(k)[i])'
    BY <1>4, <1>6, <1>12 DEF LeaderIsAhead, InLeaderLog
  <2> QED BY <2>1, <2>2, <2>3 DEF LeaderIsAhead
<1> QED BY <1>2, <1>4, <1>5, <1>7, <1>9, <1>10, <1>11, <1>12

\* A commit handled keeps everything.  The leader itself may take one that others put
\* together from votes it has yet to count: its log moves on, and with it the slot
\* its ballot was for.
LEMMA HandleCommitKeepsInv ==
  ASSUME AuthInv, NEW n \in Correct, NEW m \in Deliverable, HandleCommit(n, m)
  PROVE  /\ Evidence' /\ CommitsAreCertified' /\ LeaderCommits' /\ Proposals'
         /\ (Trusted /\ ~Reached(Cardinality(faulty)) => OwnCommitsVerify)'
         /\ (Safe => LeaderIsAhead)'
<1> USE DEF AuthInv
<1>1. /\ view' = [view EXCEPT ![n] = ApplyCommit(@, m.cmd)]
      /\ m.type = "commit" /\ m.slot = NextSlot(n) /\ VerifyCommit(m)
      /\ sent' = sent /\ signed' = signed /\ faulty' = faulty /\ observed' = observed
      /\ proposing' = proposing /\ ballot' = ballot /\ votes' = votes
  BY DEF HandleCommit, leaderVars
<1>2. /\ m.cmd \in Command /\ m.qc.votes \in SUBSET VoteType
      /\ \A v \in m.qc.votes : v \in signed \/ v.voter \in faulty
      /\ faulty \in SUBSET Seat
  BY <1>1, DeliverableIsMessage, DeliverableIsBacked, AuthAssumption DEF Backed, TypeOK
<1>3. /\ \A v \in m.qc.votes : VerifyVote(v, m.slot, m.cmd)
      /\ Reached(Cardinality({v.voter : v \in m.qc.votes}))
  BY <1>1 DEF VerifyCommit, VerifyQC
<1>4. CertifiedBy(faulty, signed', NextSlot(n), m.cmd)
  BY <1>1, <1>2, <1>3, CertificateHasSigners DEF CertifiedBy
<1>5. CommitsAreCertified'
  BY <1>1, <1>2, <1>4, AppendKeepsCertified
<1>6. Evidence'
  BY <1>1 DEF Evidence, Backed, Correct
<1>7. /\ n \in Seat /\ Leader \in Seat
      /\ Log(n)' = Append(Log(n), m.cmd)
      /\ \A k \in Seat \ {n} : Log(k)' = Log(k)
      /\ Log(Leader) \in Seq(Command) /\ NextSlot(Leader) = Len(Log(Leader))
      /\ NextSlot(Leader) \in Nat
  BY <1>1, <1>2, AuthAssumption, ApplyCommitKeepsView, ViewFields DEF Correct, NextSlot
<1>8. \A s, c : Proposed(s, c)' <=> Proposed(s, c)
  BY <1>1 DEF Proposed
<1>9. LeaderCommits'
  <2>1. CASE n = Leader
    BY <1>1, <1>2, <1>4, <1>7, <1>8, <2>1, LeaderCommitsKept
  <2>2. CASE n # Leader
    BY <1>1, <1>7, <1>8, <2>2, LeaderCommitsKept
  <2> QED BY <2>1, <2>2
<1>10. Proposals'
  <2>1. NextSlot(Leader)' \in {NextSlot(Leader), NextSlot(Leader) + 1}
    BY <1>2, <1>7 DEF NextSlot
  <2>2. /\ OneProposal(sent, proposing, ballot, votes, NextSlot(Leader))
        /\ OneProposal(sent, proposing, ballot, votes, NextSlot(Leader) + 1)
    <3>1. \A q \in sent : q.type = "propose" => q.slot \in Nat
      BY DEF TypeOK, IsMessage
    <3> QED BY <1>7, <3>1, OneProposalKept DEF Proposals
  <2>3. OneProposal(sent, proposing, ballot, votes, NextSlot(Leader)')
    BY <2>1, <2>2
  <2> QED BY <1>1, <1>8, <2>3 DEF Proposals
<1>11. OwnCommitsVerify => OwnCommitsVerify'
  BY <1>1 DEF OwnCommitsVerify, VerifyCommit
<1>12. (Safe => LeaderIsAhead)'
  BY <1>1, FollowKeepsLead DEF Safe, Correct
<1>13. Trusted' <=> Trusted
  BY <1>1 DEF Trusted
<1> QED BY <1>1, <1>5, <1>6, <1>9, <1>10, <1>11, <1>12, <1>13

\* Every handler, on any message that is replayed, put together from votes somebody
\* reads, or made up with a misused key, keeps the invariant.
THEOREM AuthInductive == Spec => []AuthInv
<1>1. ASSUME AuthInv, [Next]_vars
      PROVE  AuthInv'
  <2> USE <1>1
  <2>1. TypeOK' /\ Drained'
    BY TypesInductive DEF AuthInv
  <2>2. ASSUME NEW c \in Command, NEW cap \in Issued, Submit(c, cap)
        PROVE  AuthInv'
    BY <2>1, <2>2, SubmitKeepsInv DEF AuthInv
  <2>3. ASSUME NEW n \in Correct, NEW m \in Deliverable, HandlePropose(n, m)
        PROVE  AuthInv'
    BY <2>1, <2>3, HandleProposeKeepsInv DEF AuthInv
  <2>4. ASSUME NEW n \in Correct, NEW m \in Deliverable, HandleVote(n, m)
        PROVE  AuthInv'
    BY <2>1, <2>4, HandleVoteKeepsInv DEF AuthInv
  <2>5. ASSUME NEW n \in Correct, NEW m \in Deliverable, HandleCommit(n, m)
        PROVE  AuthInv'
    BY <2>1, <2>5, HandleCommitKeepsInv DEF AuthInv
  <2>6. CASE UNCHANGED vars
    <3>1. Evidence' /\ CommitsAreCertified' /\ LeaderCommits'
      BY <2>6 DEF AuthInv, vars, leaderVars, Evidence, Backed, Correct, CommitsAreCertified,
                  LeaderCommits, Trusted, Proposed, Signers, Log
    <3>2. (Safe => LeaderIsAhead)'
      BY <2>6 DEF AuthInv, vars, leaderVars, Safe, Correct, LeaderIsAhead, InFlight,
                  InLeaderLog, Log, NextSlot
    <3>3. Proposals' /\ (Trusted /\ ~Reached(Cardinality(faulty)) => OwnCommitsVerify)'
      BY <2>6 DEF AuthInv, vars, leaderVars, Proposals, OneProposal, InFlight, Proposed, Trusted,
                  OwnCommitsVerify, Log, NextSlot
    <3> QED BY <2>1, <3>1, <3>2, <3>3 DEF AuthInv
  <2> QED BY <2>2, <2>3, <2>4, <2>5, <2>6 DEF Next, Handle
<1> QED BY <1>1, InitAuthInv, PTL DEF Spec

-----------------------------------------------------------------------------
(* The theorems. *)

\* Forgery resistance for every roster and network: a correct follower commits a
\* command to a slot only if a quorum of seats signed that command for that slot
\* (proto.rs verify_commit), and so does the leader, unless a misused key meets an
\* observed network.
THEOREM ForgeryResistance == Spec => []CommitsAreCertified
BY AuthInductive, PTL DEF AuthInv

\* Behind a certified command there is a correct node that signed it, unless the
\* misused keys are a quorum by themselves.
LEMMA CertifiedBySomeCorrect ==
  ASSUME TypeOK, ~Reached(Cardinality(faulty)), NEW s, NEW c, Reached(Cardinality(Signers(s, c)))
  PROVE  \E k \in Correct : Vote(k, s, c) \in signed
<1>1. faulty \in SUBSET Seat
  BY AuthAssumption DEF TypeOK
<1> QED BY <1>1 DEF Signers

\* Unless the misused keys are a quorum by themselves, every committed command
\* had its own capability (proto.rs verify_proposal), although votes can be read and
\* replayed and the leader can be made to complete an old ballot.
THEOREM OnlyLicensedCommands == Spec => []CommittedWasLicensed
<1>1. AuthInv => CommittedWasLicensed
  <2> SUFFICES ASSUME AuthInv, ~Reached(Cardinality(faulty)),
                      NEW n \in Correct, NEW i \in DOMAIN Log(n)
               PROVE  Log(n)[i] \in Issued
    BY DEF CommittedWasLicensed
  <2>1. \/ Reached(Cardinality(Signers(i - 1, Log(n)[i])))
        \/ Log(n)[i] \in Issued
    BY DEF AuthInv, CommitsAreCertified, LeaderCommits
  <2>2. ASSUME Reached(Cardinality(Signers(i - 1, Log(n)[i])))
        PROVE  Log(n)[i] \in Issued
    <3>1. PICK k \in Correct : Vote(k, i - 1, Log(n)[i]) \in signed
      BY <2>2, CertifiedBySomeCorrect DEF AuthInv
    <3> QED BY <3>1 DEF AuthInv, Evidence, Vote
  <2> QED BY <2>1, <2>2
<1> QED BY <1>1, AuthInductive, PTL

\* Correct nodes disagree only where one of them signed a command that the leader never
\* proposed in that slot.
LEMMA ConflictsAreRogue == AuthInv => ConflictsTakeARogueProposal
<1> SUFFICES ASSUME AuthInv, ~Reached(Cardinality(faulty)),
                    NEW m \in Correct, NEW n \in Correct,
                    NEW i \in DOMAIN Log(m) \cap DOMAIN Log(n), Log(m)[i] # Log(n)[i]
             PROVE  \E k \in Correct, c \in {Log(m)[i], Log(n)[i]} :
                      Vote(k, i - 1, c) \in signed /\ ~Proposed(i - 1, c)
  BY DEF ConflictsTakeARogueProposal
<1> DEFINE Certified(k) == Reached(Cardinality(Signers(i - 1, Log(k)[i])))
           SignedBySome(k) == \E j \in Correct : Vote(j, i - 1, Log(k)[i]) \in signed
<1>1. /\ Certified(m) => SignedBySome(m)
      /\ Certified(n) => SignedBySome(n)
  BY CertifiedBySomeCorrect DEF AuthInv
<1>2. \A k \in {m, n} : \/ Certified(k)
                        \/ k = Leader /\ \A c \in Command : ~Proposed(i - 1, c)
  BY DEF AuthInv, CommitsAreCertified, LeaderCommits
<1>3. Log(m)[i] \in Command /\ Log(n)[i] \in Command
  BY ViewFields DEF AuthInv, Correct
<1>4. CASE Certified(m) /\ Certified(n)
  <2>1. ~(Proposed(i - 1, Log(m)[i]) /\ Proposed(i - 1, Log(n)[i]))
    BY DEF AuthInv, Proposals, OneProposal, Proposed
  <2> QED BY <1>1, <1>4, <2>1
<1>5. CASE ~Certified(m)
  BY <1>1, <1>2, <1>3, <1>5
<1>6. CASE ~Certified(n)
  BY <1>1, <1>2, <1>3, <1>6
<1> QED BY <1>4, <1>5, <1>6

\* Disagreement needs a proposal the leader never made: on an observed network, with
\* any misused keys short of a quorum, whoever replays, relays or completes what.
THEOREM DisagreementTakesARogueProposal == Spec => []ConflictsTakeARogueProposal
BY ConflictsAreRogue, AuthInductive, PTL

\* While no key is misused every signed command is the leader's proposal; while votes
\* are read by their addressee alone the leader is ahead.
LEMMA InvGivesAgreement == AuthInv => AgreementUnderCorrectLeader
<1> SUFFICES ASSUME AuthInv, Trusted, Leader \in Correct, ~Reached(Cardinality(faulty)),
                    NEW m \in Correct, NEW n \in Correct,
                    NEW i \in DOMAIN Log(m) \cap DOMAIN Log(n)
             PROVE  Log(m)[i] = Log(n)[i]
  BY DEF AgreementUnderCorrectLeader
<1>1. CASE ~observed
  BY <1>1 DEF AuthInv, Safe, LeaderIsAhead, InLeaderLog
<1>2. CASE faulty = {}
  <2>1. SUFFICES ASSUME Log(m)[i] # Log(n)[i] PROVE FALSE
    OBVIOUS
  <2>2. PICK k \in Correct, c \in {Log(m)[i], Log(n)[i]} : Vote(k, i - 1, c) \in signed /\ ~Proposed(i - 1, c)
    BY <2>1, ConflictsAreRogue DEF ConflictsTakeARogueProposal
  <2> QED BY <1>2, <2>2 DEF AuthInv, Proposals, Vote
<1> QED BY <1>1, <1>2 DEF Trusted

\* While the leader's key is safe and the misused keys are no quorum, correct nodes
\* agree on every slot they share: on an observed network if no key is misused, and
\* on private channels whatever is replayed, relayed or made up.
THEOREM AgreementBehindSafeLeader == Spec => []AgreementUnderCorrectLeader
BY InvGivesAgreement, AuthInductive, PTL

\* Where votes are read by their addressee alone no follower overtakes a leader whose
\* key is safe, unless the misused keys are a quorum.
THEOREM LeaderIsNeverBehind == Spec => []LeaderCommitsFirst
<1>1. AuthInv => LeaderCommitsFirst
  <2> SUFFICES ASSUME AuthInv, Safe, NEW n \in Correct
               PROVE  NextSlot(n) <= NextSlot(Leader)
    BY DEF LeaderCommitsFirst, Safe
  <2>1. /\ n \in Seat /\ Leader \in Seat /\ TypeOK
    BY AuthAssumption DEF Correct, AuthInv
  <2>2. /\ Log(n) \in Seq(Command) /\ NextSlot(n) = Len(Log(n)) /\ Len(Log(n)) \in Nat
        /\ Log(Leader) \in Seq(Command) /\ NextSlot(Leader) = Len(Log(Leader))
        /\ Len(Log(Leader)) \in Nat
    BY <2>1, ViewFields DEF NextSlot
  <2>3. CASE Len(Log(n)) = 0
    BY <2>2, <2>3
  <2>4. CASE Len(Log(n)) # 0
    <3>1. Len(Log(n)) \in DOMAIN Log(n)
      BY <2>2, <2>4
    <3>2. Len(Log(n)) - 1 + 1 \in DOMAIN Log(Leader)
      BY <3>1 DEF AuthInv, LeaderIsAhead, InLeaderLog
    <3> QED BY <2>2, <3>2
  <2> QED BY <2>3, <2>4
<1> QED BY <1>1, AuthInductive, PTL

\* Unless the misused keys are a quorum, every certificate a leader broadcasts
\* passes the check its followers run, for both kinds of roster (the debug_assert
\* of record_vote), as long as nobody can complete an old ballot of its: no key is
\* misused, or votes are read by their addressee alone.
THEOREM CertificatesVerify ==
  Spec => [](Trusted /\ ~Reached(Cardinality(faulty)) => OwnCommitsVerify)
BY AuthInductive, PTL DEF AuthInv

\* Agreement among followers fails only by a correct node's double vote: if less than
\* a third of a Byzantine roster misuses its keys, or nobody does, two commands
\* committed to one slot were both signed by one correct node.  That is what proto.rs Quorum::Byzantine
\* asks of the nodes in return for agreement.
THEOREM DisagreementTakesADoubleVote == Spec => []ConflictsShowADoubleVote
<1>1. AuthInv => ConflictsShowADoubleVote
  <2> SUFFICES ASSUME AuthInv, faulty = {} \/ (Byzantine /\ 3 * Cardinality(faulty) < N),
                      NEW m \in {k \in Correct : k # Leader \/ Trusted},
                      NEW n \in {k \in Correct : k # Leader \/ Trusted},
                      NEW i \in DOMAIN Log(m) \cap DOMAIN Log(n)
               PROVE  \E k \in Correct :
                        {Vote(k, i - 1, Log(m)[i]), Vote(k, i - 1, Log(n)[i])} \subseteq signed
    BY DEF ConflictsShowADoubleVote
  <2>1. faulty \in SUBSET Seat
    BY AuthAssumption DEF AuthInv, TypeOK
  <2>2. PICK S \in SUBSET Seat : S = Signers(i - 1, Log(m)[i])
    BY <2>1 DEF Signers, Correct
  <2>3. PICK T \in SUBSET Seat : T = Signers(i - 1, Log(n)[i])
    BY <2>1 DEF Signers, Correct
  <2>4. Reached(Cardinality(S)) /\ Reached(Cardinality(T))
    BY <2>2, <2>3 DEF AuthInv, CommitsAreCertified
  <2>5. PICK k \in Seat \ faulty : k \in S /\ k \in T
    BY <2>1, <2>4, QuorumsMeetInACorrectSeat
  <2>6. k \in Correct /\ Vote(k, i - 1, Log(m)[i]) \in signed /\ Vote(k, i - 1, Log(n)[i]) \in signed
    BY <2>2, <2>3, <2>5 DEF Signers, Correct
  <2> QED BY <2>6
<1> QED BY <1>1, AuthInductive, PTL

-----------------------------------------------------------------------------
(* Stores. *)

\* A handler moves a node's configuration by one apply_commit or not at all.
LEMMA ViewStep ==
  ASSUME TypeOK, [Next]_vars, NEW n \in Seat
  PROVE  view'[n] = view[n] \/ \E c \in Command : view'[n] = ApplyCommit(view[n], c)
<1>1. DOMAIN view = Seat /\ Leader \in Seat
  BY AuthAssumption DEF TypeOK
<1>2. ASSUME NEW p \in Command \cup {None}, NEW b, NEW V, NEW v, NEW out, RecordVote(p, b, V, v, out)
      PROVE  view'[n] = view[n] \/ \E c \in Command : view'[n] = ApplyCommit(view[n], c)
  <2>1. CASE Decides(p, b, V, v, out)
    <3>1. p \in Command /\ view' = [view EXCEPT ![Leader] = ApplyCommit(@, p)]
      BY <2>1 DEF Decides
    <3> QED BY <1>1, <3>1
  <2>2. CASE Waits(p, b, V, v, out)
    BY <2>2 DEF Waits
  <2> QED BY <1>2, <2>1, <2>2, RecordVoteCases
<1>3. ASSUME NEW c \in Command, NEW cap \in Issued, Submit(c, cap)
      PROVE  view'[n] = view[n] \/ \E d \in Command : view'[n] = ApplyCommit(view[n], d)
  BY <1>2, <1>3 DEF Submit
<1>4. ASSUME NEW k \in Correct, NEW m \in Deliverable, HandleVote(k, m)
      PROVE  view'[n] = view[n] \/ \E c \in Command : view'[n] = ApplyCommit(view[n], c)
  <2>1. proposing \in Command \cup {None} /\ RecordVote(proposing, ballot, votes, m.vote, {})
    BY <1>4 DEF TypeOK, HandleVote
  <2> QED BY <1>2, <2>1
<1>5. ASSUME NEW k \in Correct, NEW m \in Deliverable, HandleCommit(k, m)
      PROVE  view'[n] = view[n] \/ \E c \in Command : view'[n] = ApplyCommit(view[n], c)
  <2>1. m.cmd \in Command
    BY <1>5, DeliverableIsMessage DEF HandleCommit
  <2>2. view' = [view EXCEPT ![k] = ApplyCommit(@, m.cmd)]
    BY <1>5 DEF HandleCommit
  <2> QED BY <1>1, <2>1, <2>2
<1>6. ASSUME NEW k \in Correct, NEW m \in Deliverable, HandlePropose(k, m)
      PROVE  view'[n] = view[n]
  BY <1>6 DEF HandlePropose
<1>7. CASE UNCHANGED vars
  BY <1>7 DEF vars
<1> QED BY <1>3, <1>4, <1>5, <1>6, <1>7 DEF Next, Handle

\* rsm.rs convergence, for every roster, network and set of misused keys: a store is
\* the fold of its node's log, and where correct nodes agree equal progress means
\* equal stores.
THEOREM AuthStoresConverge == Spec => []StoresConverge
<1> DEFINE Histories == \A n \in Seat : StoreHistory(view[n], n)
<1>1. Init => Histories
  <2> SUFFICES ASSUME Init, NEW n \in Seat
               PROVE  StoreHistory(view[n], n)
    OBVIOUS
  <2>1. view[n].log = << >> /\ view[n].replicas[n].store = InitStore
    BY DEF Init, FreshReplica
  <2>2. PICK h : h = [i \in 0..0 |-> InitStore]
    OBVIOUS
  <2>3. h \in [0..0 -> Store] /\ h[0] = InitStore
    BY <2>2, RsmAssumption
  <2> QED BY <2>1, <2>3 DEF StoreHistory
<1>2. AuthInv /\ Histories /\ [Next]_vars => Histories'
  <2> SUFFICES ASSUME AuthInv, Histories, [Next]_vars, NEW n \in Seat
               PROVE  StoreHistory(view'[n], n)
    OBVIOUS
  <2>1. PICK g \in GlobalConfig({n}) : g = view[n]
    BY DEF AuthInv, TypeOK, View
  <2>2. g.replicas[n].applied = Len(g.log) /\ StoreHistory(g, n)
    BY <2>1 DEF AuthInv, Drained, NextSlot, Log
  <2>3. \A c \in Command : StoreHistory(ApplyCommit(g, c), n)
    BY <2>2, HistoryStep DEF ApplyCommit
  <2>4. view'[n] = g \/ \E c \in Command : view'[n] = ApplyCommit(g, c)
    BY <2>1, ViewStep DEF AuthInv
  <2> QED BY <2>2, <2>3, <2>4
<1>3. AuthInv /\ Histories => StoresConverge
  <2> SUFFICES ASSUME AuthInv, Histories
               PROVE  StoresConverge
    OBVIOUS
  <2>1. StoresFollowLogs
    <3> SUFFICES ASSUME NEW n \in Seat
                 PROVE  view[n].replicas[n].store = ApplyPrefix(Log(n))[NextSlot(n)]
      BY DEF StoresFollowLogs
    <3>1. PICK g \in GlobalConfig({n}) : g = view[n]
      BY DEF AuthInv, TypeOK, View
    <3> QED BY <3>1, HistoryIsFold DEF Log, NextSlot
  <2>2. ASSUME Trusted, Leader \in Correct, ~Reached(Cardinality(faulty)),
               NEW m \in Correct, NEW n \in Correct, NextSlot(m) = NextSlot(n)
        PROVE  view[m].replicas[m].store = view[n].replicas[n].store
    <3>1. m \in Seat /\ n \in Seat
      BY DEF Correct
    <3>2. Log(m) \in Seq(Command) /\ Log(n) \in Seq(Command) /\ Len(Log(m)) = Len(Log(n))
      BY <2>2, <3>1, ViewFields DEF AuthInv, NextSlot
    <3>3. \A i \in DOMAIN Log(m) : Log(m)[i] = Log(n)[i]
      BY <2>2, <3>2, InvGivesAgreement DEF AgreementUnderCorrectLeader
    <3>4. Log(m) = Log(n)
      BY <3>2, <3>3
    <3> QED BY <2>1, <2>2, <3>1, <3>4 DEF StoresFollowLogs
  <2> QED BY <2>1, <2>2 DEF StoresConverge
<1> QED BY <1>1, <1>2, <1>3, AuthInductive, PTL DEF Spec
=============================================================================
