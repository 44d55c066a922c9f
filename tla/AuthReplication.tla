-------------------------- MODULE AuthReplication --------------------------
(***************************************************************************)
(* The authenticated replica of crates/dlc-d-node: src/auth.rs (AuthNode)  *)
(* with the credentials and certificates of src/proto.rs, under any        *)
(* point-to-point network.                                                 *)
(*                                                                         *)
(* Signatures are symbolic: a vote IS the record of who signed what, and   *)
(* nobody can produce the vote of a seat whose key they do not hold.  The  *)
(* network is the set of messages ever sent, so messages may be lost,      *)
(* repeated, delayed and reordered at will; a vote goes to the leader's    *)
(* seat alone, proposals and commits go to everybody.                      *)
(*                                                                         *)
(* The seats in faulty have lost their key and run no AuthNode: at any time*)
(* they may sign anything with their own keys.  Anybody may send a         *)
(* certificate put together from the votes that can be read: every vote    *)
(* ever sent on an observed network (spec/threat-model.md and the          *)
(* dlcd-replication.spthy model), and on private channels those addressed  *)
(* to a leader's seat in faulty, and those published in a certificate.     *)
(***************************************************************************)
EXTENDS Rsm, Consensus

CONSTANTS N,          \* seats of the roster
          Leader,     \* leader_idx, the same at every node
          Faults,     \* the sets of seats whose keys may be misused
          Networks,   \* the networks: TRUE if everybody reads what is under way
          Byzantine,  \* TRUE: Roster::new_byzantine, FALSE: Roster::new
          Issued,     \* commands somebody issued a capability for
          MaxSlots,   \* bound on the slots of the log, for model checking
          None        \* Option::None

Seat == 0..(N - 1)
Slot == 0..(MaxSlots - 1)

ASSUME AuthAssumption ==
  /\ N \in Nat /\ Leader \in Seat
  /\ Faults \subseteq SUBSET Seat
  /\ Networks \subseteq BOOLEAN /\ Byzantine \in BOOLEAN
  /\ Issued \subseteq Command
  /\ MaxSlots \in Nat
  /\ None \notin Command

VARIABLES
  faulty,     \* the seats whose keys are misused
  observed,   \* whether everybody reads what is under way, or its addressee alone
  view,       \* view[n]: the GlobalConfig of the node in seat n
  proposing,  \* the leader's command in flight, or None
  votes,      \* the votes collected for it
  ballot,     \* the leader's ballot for the slot in flight
  sent,       \* messages sent by correct nodes
  signed      \* history: every vote signed by a correct node

leaderVars == <<proposing, votes, ballot>>
vars == <<faulty, observed, view, proposing, votes, ballot, sent, signed>>

Correct == Seat \ faulty
Log(n) == view[n].log
NextSlot(n) == Len(Log(n))
EmptyBallot == [i \in Seat |-> None]

-----------------------------------------------------------------------------
(* Credentials, proto.rs. *)

\* A vote's signature binds its slot and command; a capability is the command
\* it was issued for.
Vote(n, s, c) == [voter |-> n, slot |-> s, cmd |-> c]
VoteType == [voter : Seat, slot : Nat, cmd : Command]

\* A certificate is a vector of votes, possibly with repetitions: the set of
\* votes in it and its length.
QuorumCert(V, len) == [votes |-> V, len |-> len]

ProposeMsg(n, s, c, cap) == [type |-> "propose", leader |-> n, slot |-> s, cmd |-> c, cap |-> cap]
VoteMsg(v) == [type |-> "vote", vote |-> v]
CommitMsg(s, c, qc) == [type |-> "commit", slot |-> s, cmd |-> c, qc |-> qc]

\* Roster::is_quorum, over distinct signers.
Reached(distinct) == IF Byzantine THEN IsByzQuorum(distinct, N) ELSE IsQuorum(distinct, N)

\* Mistakes the checks must notice: a credential not compared with what it is
\* presented for.
AnyCapability(cap, c) == TRUE
VerifyVoteAnySlot(v, s, c) == v.voter \in Seat /\ v.cmd = c
VerifyVoteAnyCommand(v, s, c) == v.slot = s /\ v.voter \in Seat

VerifyCapability(cap, c) == cap = c

\* The proposer may be ANY member of the roster.
VerifyProposal(p) == p.leader \in Seat /\ VerifyCapability(p.cap, p.cmd)

VerifyVote(v, s, c) == v.slot = s /\ v.voter \in Seat /\ v.cmd = c

\* A mistake the checks must notice: a certificate counted by its length.
VerifyQCByLength(qc, s, c) ==
  /\ \A v \in qc.votes : VerifyVote(v, s, c)
  /\ Reached(qc.len)

\* One vote that does not verify spoils the certificate; repeated signers count
\* once.
VerifyQC(qc, s, c) ==
  /\ \A v \in qc.votes : VerifyVote(v, s, c)
  /\ Reached(Cardinality({v.voter : v \in qc.votes}))

VerifyCommit(m) == VerifyQC(m.qc, m.slot, m.cmd)

-----------------------------------------------------------------------------
(* What the network and the seats in faulty can send. *)

\* A correct node's vote that somebody else can read: it was published in a
\* certificate, or it was sent, and the network is observed or the leader's seat,
\* where votes go, is in faulty.  The leader's own vote is never sent.
Seen(v) ==
  \/ \E m \in sent : m.type = "commit" /\ v \in m.qc.votes
  \/ VoteMsg(v) \in sent /\ (observed \/ Leader \in faulty)

\* The votes a certificate for c in slot s can be put together from.
Held(s, c) ==
  {Vote(f, s, c) : f \in faulty}
    \cup {v \in signed : v.slot = s /\ v.cmd = c /\ Seen(v)}

\* A proposal may borrow a capability issued for another command, a commit the
\* certificate of another slot or command, padded to any length.  A certificate
\* takes no key to put together.
FaultyMsgs ==
  {ProposeMsg(f, s, c, cap) : f \in faulty, s \in Slot, c \in Command, cap \in Issued}
    \cup {VoteMsg(Vote(f, s, c)) : f \in faulty, s \in Slot, c \in Command}
    \cup {CommitMsg(s, c, QuorumCert(Held(s2, c2), N)) :
            s \in Slot, c \in Command, s2 \in Slot, c2 \in Command}

Deliverable == sent \cup FaultyMsgs

-----------------------------------------------------------------------------
(* The node, auth.rs. *)

\* apply_commit.  Its loop runs world_step until the log is drained: exactly
\* once, for the log was drained before (Drained).
ApplyCommit(g, c) == WorldStep(Commit(g, c))

\* Mistakes the checks must notice: one threshold for both kinds of roster.
AlwaysDecided(b, c) == Decided(b, c)
AlwaysByzDecided(b, c) == ByzDecided(b, c)

DecidedBy(b, c) == IF Byzantine THEN ByzDecided(b, c) ELSE Decided(b, c)

\* record_vote of v when p is in flight, b is the ballot, V the votes collected
\* and out what the caller is about to send.
RecordVote(p, b, V, v, out) ==
  LET fresh == b[v.voter] = None
      b2 == IF fresh THEN [b EXCEPT ![v.voter] = p] ELSE b
      V2 == IF fresh THEN V \cup {v} ELSE V
      slot == NextSlot(Leader)
  IN  IF p # None /\ VerifyVote(v, slot, p)
      THEN IF DecidedBy(b2, p)
           THEN /\ proposing' = None /\ votes' = {} /\ ballot' = EmptyBallot
                /\ view' = [view EXCEPT ![Leader] = ApplyCommit(@, p)]
                /\ sent' = sent \cup out
                             \cup {CommitMsg(slot, p, QuorumCert(V2, Cardinality(V2)))}
           ELSE /\ proposing' = p /\ votes' = V2 /\ ballot' = b2
                /\ sent' = sent \cup out
                /\ UNCHANGED view
      ELSE /\ proposing' = p /\ votes' = V /\ ballot' = b
           /\ sent' = sent \cup out
           /\ UNCHANGED view

\* A mistake the checks must notice: submitting over a command still in flight.
MaySubmitAgain == TRUE

MaySubmit == proposing = None

\* AuthNode::submit of c with the capability cap.
Submit(c, cap) ==
  /\ Leader \in Correct
  /\ NextSlot(Leader) < MaxSlots
  /\ MaySubmit
  /\ VerifyCapability(cap, c)
  /\ LET own == Vote(Leader, NextSlot(Leader), c)
     IN  /\ RecordVote(c, EmptyBallot, {}, own,
                       {ProposeMsg(Leader, NextSlot(Leader), c, cap)})
         /\ signed' = signed \cup {own}
  /\ UNCHANGED <<faulty, observed>>

\* A follower votes for every proposal for its next slot that verifies.
HandlePropose(n, m) ==
  /\ m.type = "propose"
  /\ m.slot = NextSlot(n) /\ VerifyProposal(m)
  /\ LET v == Vote(n, m.slot, m.cmd)
     IN  /\ sent' = sent \cup {VoteMsg(v)}
         /\ signed' = signed \cup {v}
  /\ UNCHANGED <<faulty, observed, view, leaderVars>>

HandleVote(n, m) ==
  /\ m.type = "vote"
  /\ n = Leader
  /\ RecordVote(proposing, ballot, votes, m.vote, {})
  /\ UNCHANGED <<faulty, observed, signed>>

HandleCommit(n, m) ==
  /\ m.type = "commit"
  /\ m.slot = NextSlot(n) /\ VerifyCommit(m)
  /\ view' = [view EXCEPT ![n] = ApplyCommit(@, m.cmd)]
  /\ UNCHANGED <<faulty, observed, leaderVars, sent, signed>>

Handle(n, m) == HandlePropose(n, m) \/ HandleVote(n, m) \/ HandleCommit(n, m)

Init ==
  /\ faulty \in Faults /\ observed \in Networks
  /\ view = [n \in Seat |-> [replicas |-> [i \in {n} |-> FreshReplica], log |-> << >>]]
  /\ proposing = None
  /\ votes = {}
  /\ ballot = EmptyBallot
  /\ sent = {}
  /\ signed = {}

\* submit is called with any command and any capability in circulation.
Next ==
  \/ \E c \in Command, cap \in Issued : Submit(c, cap)
  \/ \E n \in Correct : \E m \in Deliverable : Handle(n, m)

Spec == Init /\ [][Next]_vars

\* Reliable delivery among correct nodes, as the harness's channels give it: each
\* node keeps handling what correct nodes sent it.  Nothing is assumed of the
\* faulty seats.
FairSpec ==
  /\ Spec
  /\ \A n \in Seat :
       /\ WF_vars(n \in Correct /\ \E m \in sent : HandlePropose(n, m))
       /\ WF_vars(n \in Correct /\ \E m \in sent : HandleVote(n, m))
       /\ WF_vars(n \in Correct /\ \E m \in sent : HandleCommit(n, m))

-----------------------------------------------------------------------------
View(n) == GlobalConfig({n})

IsMessage(m) ==
  \/ m.type = "propose" /\ m.slot \in Nat /\ m.cmd \in Command /\ m.cap \in Issued
  \/ m.type = "vote" /\ m.vote \in VoteType
  \/ m.type = "commit" /\ m.slot \in Nat /\ m.cmd \in Command /\ m.qc.votes \subseteq VoteType

\* Well-typed state; ballots and votes only ever belong to members, and a proposal
\* shows a capability somebody issued.
TypeOK ==
  /\ faulty \in Faults /\ observed \in Networks
  /\ DOMAIN view = Seat /\ \A n \in Seat : view[n] \in View(n)
  /\ proposing \in Command \cup {None}
  /\ votes \subseteq VoteType
  /\ ballot \in [Seat -> Command \cup {None}]
  /\ signed \subseteq VoteType
  /\ \A m \in sent : IsMessage(m)

\* Between two handlers no committed slot is left unapplied, although each
\* handler applies only what it committed itself.
Drained == \A n \in Seat : view[n].replicas[n].applied = NextSlot(n)

Signers(s, c) == faulty \cup {n \in Correct : Vote(n, s, c) \in signed}

\* The leader proposed c in slot s: a correct leader, for sent holds the messages of
\* correct nodes.
Proposed(s, c) == \E m \in sent : m.type = "propose" /\ m.slot = s /\ m.cmd = c

\* Nobody can turn what is under way against the leader: no key is misused, or votes
\* are read by their addressee alone.
Trusted == faulty = {} \/ ~observed

\* Forgery resistance (proto.rs verify_commit): a correct follower commits a command
\* to a slot only if a quorum of seats signed THAT command for THAT slot.  No relay,
\* no replayed or padded certificate and no faulty leader changes this.  Of the
\* leader it holds when Trusted: a certificate relayed to it moves it to the next
\* slot with its ballot uncleared, and a misused key can then complete the ballot.
CommitsAreCertified ==
  \A n \in Correct : n # Leader \/ Trusted =>
    \A i \in DOMAIN Log(n) : Reached(Cardinality(Signers(i - 1, Log(n)[i])))

\* Every command a correct node commits had a capability issued for that very
\* command, as long as the seats that misuse their keys are not a quorum: the
\* capability is checked when voting, and not again when committing.
CommittedWasLicensed ==
  ~Reached(Cardinality(faulty)) =>
    \A n \in Correct : \A i \in DOMAIN Log(n) : Log(n)[i] \in Issued

\* Unless the misused keys are a quorum, correct nodes disagree on a slot only if one
\* of them signed for it a command its leader did not propose there: verify_proposal
\* takes the proposal of ANY member of the roster (auth.rs handle, Propose).  The
\* leader's own proposals never conflict, whatever the network replays or completes.
ConflictsTakeARogueProposal ==
  ~Reached(Cardinality(faulty)) =>
    \A m, n \in Correct : \A i \in DOMAIN Log(m) \cap DOMAIN Log(n) :
      Log(m)[i] # Log(n)[i] =>
        \E k \in Correct, c \in {Log(m)[i], Log(n)[i]} :
          Vote(k, i - 1, c) \in signed /\ ~Proposed(i - 1, c)

\* Correct nodes agree on every slot they share while the leader's key is safe: on
\* any network while no key is misused (slot_agreement of dlcd-replication.spthy),
\* and whatever the other faulty seats propose, vote and relay while they cannot
\* read the votes on their way to the leader.
AgreementUnderCorrectLeader ==
  Trusted /\ Leader \in Correct /\ ~Reached(Cardinality(faulty)) =>
    \A m, n \in Correct : \A i \in DOMAIN Log(m) \cap DOMAIN Log(n) : Log(m)[i] = Log(n)[i]

\* Where votes are read by their addressee alone the leader never falls behind: what
\* a follower commits, the leader committed first.  Otherwise its proposal in flight
\* would outlive its slot.
LeaderCommitsFirst ==
  ~observed /\ Leader \in Correct /\ ~Reached(Cardinality(faulty)) =>
    \A n \in Correct : NextSlot(n) <= NextSlot(Leader)

\* The certificate a leader broadcasts is accepted by the check its followers
\* run, for either kind of roster (auth.rs, the debug_assert in record_vote).  It holds
\* when Trusted: otherwise a stale ballot can be completed in a slot that is not its own.
OwnCommitsVerify == \A m \in sent : m.type = "commit" => VerifyCommit(m)

\* The promise of the replicated state machine, under this network and these faults:
\* the store of every node is what apply_prefix computes from its log, so correct
\* nodes that agree (AgreementUnderCorrectLeader) and have come equally far hold
\* equal stores.
StoresFollowLogs ==
  \A n \in Seat : view[n].replicas[n].store = ApplyPrefix(Log(n))[NextSlot(n)]
StoresConverge ==
  /\ StoresFollowLogs
  /\ Trusted /\ Leader \in Correct /\ ~Reached(Cardinality(faulty)) =>
       \A m, n \in Correct :
         NextSlot(m) = NextSlot(n) => view[m].replicas[m].store = view[n].replicas[n].store

\* NOT a property of the code: with fewer than a third of the seats faulty, a
\* Byzantine roster keeps correct nodes from committing different commands to one
\* slot, even under an equivocating leader (proto.rs, Quorum::Byzantine).  That
\* rests on a correct node voting once per slot; a follower keeps no record of
\* its votes and signs every proposal that verifies.
ByzantineQuorumAgrees ==
  Byzantine /\ 3 * Cardinality(faulty) < N =>
    \A m, n \in Correct : \A i \in DOMAIN Log(m) \cap DOMAIN Log(n) : Log(m)[i] = Log(n)[i]

\* What the threshold does give: if the misused keys are less than a third of a
\* Byzantine roster, or none of any roster, then behind two different commands that
\* correct nodes committed to one slot there is a correct node that signed both.
\* Agreement among followers fails by that double vote and by nothing else.
ConflictsShowADoubleVote ==
  faulty = {} \/ (Byzantine /\ 3 * Cardinality(faulty) < N) =>
    \A m, n \in {k \in Correct : k # Leader \/ Trusted} : \A i \in DOMAIN Log(m) \cap DOMAIN Log(n) :
      Log(m)[i] # Log(n)[i] =>
        \E k \in Correct : {Vote(k, i - 1, Log(m)[i]), Vote(k, i - 1, Log(n)[i])} \subseteq signed

-----------------------------------------------------------------------------
(* The inductive invariant behind the safety properties. *)

\* A vote that its signer really signed, or that somebody could have forged.
Backed(v) == v \in signed \/ v.voter \in faulty

\* Correct nodes sign under their own seat and only licensed commands; every vote
\* collected, sent or published in a certificate is backed; only a correct leader
\* publishes certificates of its own.
Evidence ==
  /\ \A v \in signed : v.voter \in Correct /\ v.cmd \in Issued
  /\ \A v \in votes : Backed(v)
  /\ \A m \in sent :
       /\ m.type = "vote" => Backed(m.vote)
       /\ m.type = "commit" => Leader \in Correct /\ \A v \in m.qc.votes : Backed(v)

\* The votes V on the ballot b are for the command p at this slot, one for each
\* seat that the ballot lists.
InFlight(p, b, V, slot) ==
  /\ \A v \in V : VerifyVote(v, slot, p)
  /\ {v.voter : v \in V} = {i \in Seat : b[i] # None}
  /\ \A i \in Seat : b[i] # None => b[i] = p

\* The proposals in the messages M: none is for a slot after the leader's own, one for
\* that slot is for the command in flight, on a ballot of that slot, and no two
\* differ on a slot.
OneProposal(M, p, b, V, slot) ==
  /\ \A q \in M : q.type = "propose" =>
       /\ q.slot <= slot
       /\ q.slot = slot => q.cmd = p /\ InFlight(p, b, V, slot)
  /\ \A q, r \in M : q.type = "propose" /\ r.type = "propose" /\ q.slot = r.slot => q.cmd = r.cmd

\* While no key is misused, everything signed is the leader's proposal.
Proposals ==
  /\ OneProposal(sent, proposing, ballot, votes, NextSlot(Leader))
  /\ proposing \in Issued \cup {None}
  /\ faulty = {} => \A v \in signed : Proposed(v.slot, v.cmd)

\* What a correct leader commits without a quorum is licensed, and is in a slot it
\* never proposed anything for.
LeaderCommits ==
  Leader \in Correct => \A i \in DOMAIN Log(Leader) :
    \/ Reached(Cardinality(Signers(i - 1, Log(Leader)[i])))
    \/ Log(Leader)[i] \in Issued /\ \A c \in Command : ~Proposed(i - 1, c)

Safe == ~observed /\ Leader \in Correct /\ ~Reached(Cardinality(faulty))

InLeaderLog(s, c) == s + 1 \in DOMAIN Log(Leader) /\ Log(Leader)[s + 1] = c

\* Behind a safe leader the ballot belongs to the slot in flight, and whatever a
\* certificate or a correct node's log holds, the leader's log held first.
LeaderIsAhead ==
  /\ InFlight(proposing, ballot, votes, NextSlot(Leader))
  /\ \A m \in sent : m.type = "commit" => VerifyCommit(m) /\ InLeaderLog(m.slot, m.cmd)
  /\ \A n \in Correct : \A i \in DOMAIN Log(n) : InLeaderLog(i - 1, Log(n)[i])

AuthInv ==
  /\ TypeOK /\ Drained /\ Evidence
  /\ CommitsAreCertified /\ LeaderCommits /\ Proposals
  /\ Trusted /\ ~Reached(Cardinality(faulty)) => OwnCommitsVerify
  /\ Safe => LeaderIsAhead

-----------------------------------------------------------------------------
ProposedBySafeQuorum(s) ==
  /\ ~observed
  /\ Leader \in Correct /\ Reached(Cardinality(Correct))
  /\ proposing # None /\ NextSlot(Leader) = s
CommittedByCorrect(s) == \A n \in Correct : NextSlot(n) > s

\* What correct seats that form a quorum propose, they all commit, whatever the
\* faulty seats send in between, where votes are read by their addressee alone.
\* Otherwise a faulty seat can have a follower commit the slot first, and the leader
\* waits for its vote forever.
ProposedIsCommitted == \A s \in Slot : ProposedBySafeQuorum(s) ~> CommittedByCorrect(s)
=============================================================================
