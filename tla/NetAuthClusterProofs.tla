------------------------ MODULE NetAuthClusterProofs ------------------------
(***************************************************************************)
(* Theorems about NetAuthCluster for every roster, threshold, workload and *)
(* choice of crashed replicas, under every interleaving of the tasks and   *)
(* of single sends: what crosses the channels as frames decodes to what    *)
(* was sent, the harness implements the node's specification under any     *)
(* network, and a refused command strands the rest of the workload.  The   *)
(* run net_auth checks the same formulas on a roster of three.  Last, the  *)
(* byte strings that are signed have one reading each.                     *)
(***************************************************************************)
EXTENDS NetAuthCluster, Signing, AuthReplicationProofs

-----------------------------------------------------------------------------
(* The codec: decoding inverts encoding. *)

\* A finite set has an enumeration, and SetToSeq is one: it lists every member,
\* and nothing else.
LEMMA EnumerationIsOnto ==
  ASSUME NEW S, IsFiniteSet(S)
  PROVE  /\ Cardinality(S) \in Nat
         /\ SetToSeq(S) \in [1..Cardinality(S) -> S]
         /\ \A x \in S : \E i \in 1..Cardinality(S) : SetToSeq(S)[i] = x
<1>1. Cardinality(S) \in Nat
  BY FS_CardinalityType
<1>2. PICK k : k = Cardinality(S)
  OBVIOUS
<1>3. \E f \in [1..k -> S] : IsInjective(f)
  <2>1. \E f : f \in Bijection(1..k, S)
    BY <1>2, FS_CardinalityType DEF ExistsBijection
  <2> QED BY <2>1 DEF Bijection, Injection, IsInjective
<1>4. SetToSeq(S) \in [1..k -> S] /\ IsInjective(SetToSeq(S))
  BY <1>2, <1>3 DEF SetToSeq
<1>5. SetToSeq(S) \in Injection(1..k, S)
  BY <1>4 DEF Injection, IsInjective
<1>6. IsFiniteSet(1..k) /\ Cardinality(1..k) = k
  BY <1>1, <1>2, FS_Interval
<1>7. SetToSeq(S) \in Surjection(1..k, S)
  BY <1>2, <1>5, <1>6, FS_Injection
<1> QED BY <1>1, <1>2, <1>4, <1>7 DEF Surjection

\* A vote's frame keeps all of the vote: seat and slot are fields, the command is
\* what the signature covers (codec.rs enc_vote, dec_vote).
LEMMA VoteSurvives ==
  ASSUME NEW v \in VoteType
  PROVE  /\ Len(EncVote(v)) = 3
         /\ DecVote(EncVote(v)) = v
BY DEF VoteType, EncVote, DecVote, Vote, Covered, Sig

\* So does a proposal's, whose capability travels beside its command
\* (enc_proposal, dec_proposal).
LEMMA ProposalSurvives ==
  ASSUME NEW n \in Seat, NEW s \in Nat, NEW c \in Command, NEW cap \in Issued
  PROVE  /\ Len(EncProposal(ProposeMsg(n, s, c, cap))) = 5
         /\ DecProposal(EncProposal(ProposeMsg(n, s, c, cap))) = ProposeMsg(n, s, c, cap)
BY DEF EncProposal, DecProposal, ProposeMsg, EncCommand, DecCommand, EncCap, DecCap,
       Covered, Sig

\* A certificate comes back with the same votes and the same length, although its
\* votes travel in an order of their own (enc_commit, dec_commit).
LEMMA CommitSurvives ==
  ASSUME NEW s \in Nat, NEW c \in Command, NEW V \in SUBSET VoteType, IsFiniteSet(V),
         NEW m, m = CommitMsg(s, c, QuorumCert(V, Cardinality(V)))
  PROVE  /\ Len(EncCommit(m)) = 3
         /\ DecCommit(EncCommit(m)) = m
<1> DEFINE k == Cardinality(V)
           a == [i \in 1..k |-> EncVote(SetToSeq(V)[i])]
<1>1. /\ k \in Nat /\ SetToSeq(V) \in [1..k -> V]
      /\ \A x \in V : \E i \in 1..k : SetToSeq(V)[i] = x
  BY EnumerationIsOnto
<1>2. /\ m.slot = s /\ m.cmd = c /\ m.qc.votes = V /\ m.qc.len = k
  BY DEF CommitMsg, QuorumCert
<1>3. EncCommit(m) = <<s, EncCommand(c), a>>
  BY <1>2 DEF EncCommit
<1>4. DOMAIN a = 1..k /\ Len(a) = k
  BY <1>1
<1>5. \A i \in 1..k : DecVote(a[i]) = SetToSeq(V)[i]
  BY <1>1, VoteSurvives
<1>6. {DecVote(a[i]) : i \in DOMAIN a} = V
  BY <1>1, <1>4, <1>5
<1>7. DecCommand(EncCommand(c)) = c
  BY DEF DecCommand, EncCommand
<1>8. DecCommit(<<s, EncCommand(c), a>>)
        = CommitMsg(s, c, QuorumCert({DecVote(a[i]) : i \in DOMAIN a}, Len(a)))
  <2> HIDE DEF a
  <2> QED BY <1>7 DEF DecCommit
<1> QED BY <1>3, <1>4, <1>6, <1>8

\* decode_msg inverts encode_msg: the one property of codec.rs that must hold for
\* signatures to verify at the other end.
LEMMA FrameSurvives ==
  ASSUME NEW m, Encodable(m)
  PROVE  DecodeMsg(EncodeMsg(m)) = m /\ m # Malformed
<1>1. CASE \E n \in Seat, s \in Nat, c \in Command, cap \in Issued : m = ProposeMsg(n, s, c, cap)
  <2>1. PICK n \in Seat, s \in Nat, c \in Command, cap \in Issued : m = ProposeMsg(n, s, c, cap)
    BY <1>1
  <2>2. m.type = "propose"
    BY <2>1 DEF ProposeMsg
  <2>3. EncodeMsg(m) = <<0, EncProposal(m)>>
    BY <2>2 DEF EncodeMsg
  <2>4. Len(EncProposal(m)) = 5 /\ DecProposal(EncProposal(m)) = m
    BY <2>1, ProposalSurvives
  <2>5. DecodeMsg(<<0, EncProposal(m)>>) = DecProposal(EncProposal(m))
    BY <2>4 DEF DecodeMsg
  <2> QED BY <2>2, <2>3, <2>4, <2>5 DEF Malformed
<1>2. CASE \E v \in VoteType : m = VoteMsg(v)
  <2>1. PICK v \in VoteType : m = VoteMsg(v)
    BY <1>2
  <2>2. m.type = "vote" /\ m.vote = v
    BY <2>1 DEF VoteMsg
  <2>3. EncodeMsg(m) = <<1, EncVote(v)>>
    BY <2>2 DEF EncodeMsg
  <2>4. Len(EncVote(v)) = 3 /\ DecVote(EncVote(v)) = v
    BY VoteSurvives
  <2>5. DecodeMsg(<<1, EncVote(v)>>) = VoteMsg(DecVote(EncVote(v)))
    BY <2>4 DEF DecodeMsg
  <2> QED BY <2>1, <2>2, <2>3, <2>4, <2>5 DEF Malformed
<1>3. CASE \E s \in Nat, c \in Command, V \in SUBSET VoteType :
             IsFiniteSet(V) /\ m = CommitMsg(s, c, QuorumCert(V, Cardinality(V)))
  <2>1. m.type = "commit"
    BY <1>3 DEF CommitMsg
  <2>2. EncodeMsg(m) = <<2, EncCommit(m)>>
    BY <2>1 DEF EncodeMsg
  <2>3. Len(EncCommit(m)) = 3 /\ DecCommit(EncCommit(m)) = m
    BY <1>3, CommitSurvives
  <2>4. DecodeMsg(<<2, EncCommit(m)>>) = DecCommit(EncCommit(m))
    BY <2>3 DEF DecodeMsg
  <2> QED BY <2>1, <2>2, <2>3, <2>4 DEF Malformed
<1> QED BY <1>1, <1>2, <1>3 DEF Encodable
-----------------------------------------------------------------------------
(* What the tasks keep: types, frames and the node's own invariant. *)

\* No key is misused, and what nodes sent can be delivered.
LEMMA EverybodyIsCorrect ==
  ASSUME TypeOK
  PROVE  faulty = {} /\ Correct = Seat /\ sent \subseteq Deliverable /\ Leader \in Seat
BY EverySeatIsHonest, AuthAssumption DEF TypeOK, Correct, Deliverable

\* A workload's commands are licensed or not, and each shows a capability that
\* somebody issued.
LEMMA WorkloadTypes ==
  ASSUME workload \in Workloads
  PROVE  /\ workload \in Seq([cmd : Command, cap : Issued])
         /\ Expected \in Nat /\ Expected <= MaxSlots /\ MaxSlots \in Nat
         /\ \A i \in 1..Expected : workload[i].cmd \in Command /\ workload[i].cap \in Issued
<1>1. workload \in Seq([cmd : Command, cap : Issued]) /\ Len(workload) <= MaxSlots
  BY WorkloadAssumption
<1>2. Expected \in Nat /\ Expected <= MaxSlots
  BY <1>1 DEF Expected
<1>3. ASSUME NEW i \in 1..Expected
      PROVE  workload[i] \in [cmd : Command, cap : Issued]
  <2>1. PICK T : T = [cmd : Command, cap : Issued]
    OBVIOUS
  <2>2. workload \in Seq(T) /\ i \in 1..Len(workload)
    BY <1>1, <2>1 DEF Expected
  <2>3. workload[i] \in T
    BY <2>2
  <2> QED BY <2>1, <2>3
<1> QED BY <1>1, <1>2, <1>3, AuthAssumption

\* Messages survive the codec as soon as their fields are well typed.
LEMMA EncodableMessages ==
  /\ \A s \in Nat, c \in Command, cap \in Issued : Encodable(ProposeMsg(Leader, s, c, cap))
  /\ \A v \in VoteType : Encodable(VoteMsg(v))
  /\ \A s \in Nat, c \in Command, V \in SUBSET VoteType :
       IsFiniteSet(V) => Encodable(CommitMsg(s, c, QuorumCert(V, Cardinality(V))))
<1>1. Leader \in Seat
  BY AuthAssumption
<1> QED BY <1>1 DEF Encodable

\* Recording a vote keeps the collection finite, and the certificate made of it
\* survives the codec (record_vote).
LEMMA RecordKeepsEncodable ==
  ASSUME TypeOK, \A m \in sent : Encodable(m),
         NEW p \in Command \cup {None}, NEW b, NEW V \in SUBSET VoteType, IsFiniteSet(V),
         NEW v \in VoteType, NEW msgs, \A m \in msgs : Encodable(m),
         RecordVote(p, b, V, v, msgs)
  PROVE  /\ IsFiniteSet(votes') /\ sent \subseteq sent'
         /\ \A m \in sent' : Encodable(m)
<1>1. NextSlot(Leader) \in Nat
  <2>1. Leader \in Seat
    BY AuthAssumption
  <2> QED BY <2>1, ViewFields
<1>2. CASE Decides(p, b, V, v, msgs)
  <2>1. PICK b2, V2 :
          /\ Recorded(p, b, V, v, b2, V2) /\ p # None /\ votes' = {}
          /\ sent' = sent \cup msgs
                      \cup {CommitMsg(NextSlot(Leader), p, QuorumCert(V2, Cardinality(V2)))}
    BY <1>2 DEF Decides
  <2>2. V2 \in SUBSET VoteType /\ IsFiniteSet(V2)
    BY <2>1, FS_AddElement DEF Recorded
  <2>3. Encodable(CommitMsg(NextSlot(Leader), p, QuorumCert(V2, Cardinality(V2))))
    BY <1>1, <2>1, <2>2, EncodableMessages
  <2> QED BY <2>1, <2>3, FS_EmptySet
<1>3. CASE Waits(p, b, V, v, msgs)
  <2>1. sent' = sent \cup msgs /\ (votes' = V \/ votes' = V \cup {v})
    BY <1>3 DEF Waits, Recorded
  <2> QED BY <2>1, FS_AddElement
<1> QED BY <1>2, <1>3, RecordVoteCases

\* A step of the nodes that delivers only what was sent.
NodeStep ==
  \/ \E c \in Command, cap \in Issued : Submit(c, cap)
  \/ \E n \in Seat : \E m \in sent : Handle(n, m)
  \/ UNCHANGED vars

\* Whatever the nodes do, every message sent survives the codec.
LEMMA NodesKeepEncodable ==
  ASSUME TypeOK, IsFiniteSet(votes), \A m \in sent : Encodable(m), NodeStep
  PROVE  /\ IsFiniteSet(votes') /\ sent \subseteq sent'
         /\ \A m \in sent' : Encodable(m)
<1>1. Leader \in Seat /\ votes \in SUBSET VoteType /\ proposing \in Command \cup {None}
  BY EverybodyIsCorrect DEF TypeOK
<1>2. NextSlot(Leader) \in Nat
  BY <1>1, ViewFields
<1>3. ASSUME NEW c \in Command, NEW cap \in Issued, Submit(c, cap)
      PROVE  IsFiniteSet(votes') /\ sent \subseteq sent' /\ \A m \in sent' : Encodable(m)
  <2>1. PICK own, msgs : /\ own = Vote(Leader, NextSlot(Leader), c)
                         /\ msgs = {ProposeMsg(Leader, NextSlot(Leader), c, cap)}
    OBVIOUS
  <2>2. RecordVote(c, EmptyBallot, {}, own, msgs)
    BY <1>3, <2>1 DEF Submit
  <2>3. own \in VoteType
    BY <1>1, <1>2, <2>1 DEF Vote, VoteType
  <2>4. \A m \in msgs : Encodable(m)
    BY <1>2, <2>1, EncodableMessages
  <2> QED BY <2>2, <2>3, <2>4, FS_EmptySet, RecordKeepsEncodable
<1>4. ASSUME NEW n \in Seat, NEW m \in sent, Handle(n, m)
      PROVE  IsFiniteSet(votes') /\ sent \subseteq sent' /\ \A x \in sent' : Encodable(x)
  <2>1. CASE HandlePropose(n, m)
    <3>1. m.slot \in Nat /\ m.cmd \in Command
      BY <2>1, DeliverableIsMessage DEF HandlePropose, Deliverable
    <3>2. Vote(n, m.slot, m.cmd) \in VoteType
      BY <3>1 DEF Vote, VoteType
    <3>3. sent' = sent \cup {VoteMsg(Vote(n, m.slot, m.cmd))} /\ votes' = votes
      BY <2>1 DEF HandlePropose, leaderVars
    <3>4. Encodable(VoteMsg(Vote(n, m.slot, m.cmd)))
      BY <3>2, EncodableMessages
    <3> QED BY <3>3, <3>4
  <2>2. CASE HandleVote(n, m)
    <3>1. m.vote \in VoteType
      BY <2>2, DeliverableIsMessage DEF HandleVote, Deliverable
    <3>2. RecordVote(proposing, ballot, votes, m.vote, {})
      BY <2>2 DEF HandleVote
    <3>3. PICK none : none = {}
      OBVIOUS
    <3>4. RecordVote(proposing, ballot, votes, m.vote, none) /\ \A x \in none : Encodable(x)
      BY <3>2, <3>3
    <3> QED BY <1>1, <3>1, <3>4, RecordKeepsEncodable
  <2>3. CASE HandleCommit(n, m)
    BY <2>3 DEF HandleCommit, leaderVars
  <2> QED BY <1>4, <2>1, <2>2, <2>3 DEF Handle
<1>5. CASE UNCHANGED vars
  BY <1>5 DEF vars
<1> QED BY <1>3, <1>4, <1>5 DEF NodeStep

\* A step of the nodes is a step of the node's specification under any network.
LEMMA NodeStepIsNext ==
  ASSUME TypeOK, NodeStep
  PROVE  [Next]_vars
BY EverybodyIsCorrect DEF NodeStep, Next

\* The head of a channel is the frame of a sent message; handling what it decodes
\* to delivers a sent message.
LEMMA HeadDecodes ==
  ASSUME WireInv, NEW n \in Seat, chan[n] # << >>
  PROVE  /\ DecodeMsg(Head(chan[n])) \in sent /\ DecodeMsg(Head(chan[n])) # Malformed
         /\ Tail(chan[n]) \in Seq(Frame)
<1>1. chan[n] \in Seq(Frame)
  BY DEF WireInv
<1>2. Head(chan[n]) \in Frame /\ Tail(chan[n]) \in Seq(Frame)
  BY <1>1
<1>3. PICK m \in sent : Head(chan[n]) = EncodeMsg(m)
  BY <1>2 DEF Frame
<1>4. Encodable(m)
  BY DEF WireInv
<1> QED BY <1>2, <1>3, <1>4, FrameSurvives

\* What each step of the harness does to the nodes: drive submits a command of the
\* workload, a receiving task handles one sent message, and nothing else does
\* anything.
LEMMA HarnessStepIsNodeStep ==
  ASSUME HarnessTypes, [NetNext]_netVars
  PROVE  NodeStep
<1> USE DEF HarnessTypes
<1>1. ASSUME NEW n \in Seat, Drive(n)
      PROVE  NodeStep
  <2>1. nextCmd < Expected /\ nextCmd \in Nat
    BY <1>1 DEF Drive, MayDrive
  <2>2. nextCmd + 1 \in 1..Expected
    BY <2>1, WorkloadTypes
  <2>3. workload[nextCmd + 1].cmd \in Command /\ workload[nextCmd + 1].cap \in Issued
    BY <2>2, WorkloadTypes
  <2>4. \/ Submit(workload[nextCmd + 1].cmd, workload[nextCmd + 1].cap)
        \/ UNCHANGED vars
    BY <1>1 DEF Drive
  <2> QED BY <2>3, <2>4 DEF NodeStep
<1>2. ASSUME NEW n \in Seat, Receive(n)
      PROVE  NodeStep
  <2>1. chan[n] # << >>
    BY <1>2 DEF Receive
  <2>2. PICK m : m = DecodeMsg(Head(chan[n]))
    OBVIOUS
  <2>3. m \in sent
    BY <2>1, <2>2, HeadDecodes
  <2>4. Handle(n, m) \/ UNCHANGED vars
    BY <1>2, <2>2 DEF Receive
  <2> QED BY <2>3, <2>4 DEF NodeStep
<1>3. ASSUME NEW n \in Seat, Task(n), ~Drive(n), ~Receive(n)
      PROVE  NodeStep
  BY <1>3 DEF Task, DriveDone, Send, Publish, Exit, NodeStep
<1>4. CASE Join \/ Timeout \/ Returned \/ UNCHANGED netVars
  BY <1>4 DEF Join, Timeout, Returned, netVars, NodeStep
<1> QED BY <1>1, <1>2, <1>3, <1>4 DEF NetNext
\* Frames stay on the channels as more messages are sent.
LEMMA FramesStay ==
  ASSUME sent \subseteq sent'
  PROVE  Frame \subseteq Frame'
BY DEF Frame

\* dispatch encodes what the node just sent, each message to its recipients.
LEMMA EnqueueTypes ==
  ASSUME WireInv, sent \subseteq sent', NEW n \in Seat, Enqueue(n)
  PROVE  out' \in [Seat -> SUBSET [to : Seat, frame : Frame']]
<1> DEFINE new == UNION {{[to |-> r, frame |-> EncodeMsg(m)] : r \in Recipients(n, m)}
                            : m \in sent' \ sent}
<1>1. ASSUME NEW m \in sent', NEW r \in Recipients(n, m)
      PROVE  [to |-> r, frame |-> EncodeMsg(m)] \in [to : Seat, frame : Frame']
  <2>1. r \in Seat
    BY AuthAssumption DEF Recipients
  <2>2. EncodeMsg(m) \in Frame'
    BY DEF Frame
  <2> QED BY <2>1, <2>2
<1>2. new \subseteq [to : Seat, frame : Frame']
  BY <1>1
<1>3. out' = [out EXCEPT ![n] = out[n] \cup new]
  BY DEF Enqueue
<1>4. [to : Seat, frame : Frame] \subseteq [to : Seat, frame : Frame']
  BY FramesStay
<1>5. out \in [Seat -> SUBSET [to : Seat, frame : Frame']]
  BY <1>4 DEF WireInv
<1> HIDE DEF new
<1> QED BY <1>2, <1>3, <1>5

\* What is queued stays a frame as more messages are sent.
LEMMA QueuesStay ==
  ASSUME WireInv, sent \subseteq sent'
  PROVE  /\ out \in [Seat -> SUBSET [to : Seat, frame : Frame']]
         /\ chan \in [Seat -> Seq(Frame')]
<1>1. Frame \subseteq Frame'
  BY FramesStay
<1>2. [to : Seat, frame : Frame] \subseteq [to : Seat, frame : Frame']
  BY <1>1
<1>3. Seq(Frame) \subseteq Seq(Frame')
  BY <1>1
<1> QED BY <1>2, <1>3 DEF WireInv

\* A send moves one frame from the sender to the receiver's queue, or drops it.
LEMMA SendTypes ==
  ASSUME WireInv, NEW n \in Seat, NEW label, Send(n, label)
  PROVE  /\ out' \in [Seat -> SUBSET [to : Seat, frame : Frame]]
         /\ chan' \in [Seat -> Seq(Frame)]
<1>1. PICK o \in out[n] :
         /\ out' = [out EXCEPT ![n] = out[n] \ {o}]
         /\ chan' = IF o.to \in Live /\ pc[o.to] # "done"
                    THEN [chan EXCEPT ![o.to] = Append(chan[o.to], o.frame)]
                    ELSE chan
  BY DEF Send
<1>2. o \in [to : Seat, frame : Frame]
  BY DEF WireInv
<1>3. o.to \in Seat /\ o.frame \in Frame
  BY <1>2
<1>4. out' \in [Seat -> SUBSET [to : Seat, frame : Frame]]
  BY <1>1 DEF WireInv
<1>5. Append(chan[o.to], o.frame) \in Seq(Frame)
  BY <1>3 DEF WireInv
<1>6. chan' \in [Seat -> Seq(Frame)]
  BY <1>1, <1>3, <1>5 DEF WireInv
<1> QED BY <1>4, <1>6

\* Only frames of sent messages are ever on their way.
LEMMA WireInductive ==
  ASSUME HarnessTypes, [NetNext]_netVars
  PROVE  WireInv'
<1> USE DEF HarnessTypes
<1>1. NodeStep
  BY HarnessStepIsNodeStep
<1>2. IsFiniteSet(votes') /\ sent \subseteq sent' /\ \A m \in sent' : Encodable(m)
  BY <1>1, NodesKeepEncodable DEF WireInv
<1>3. /\ out \in [Seat -> SUBSET [to : Seat, frame : Frame']]
      /\ chan \in [Seat -> Seq(Frame')]
  BY <1>2, QueuesStay
<1>4. ASSUME NEW n \in Seat, Drive(n)
      PROVE  WireInv'
  <2>1. Enqueue(n) /\ chan' = chan
    BY <1>4 DEF Drive
  <2>2. out' \in [Seat -> SUBSET [to : Seat, frame : Frame']]
    BY <1>2, <2>1, EnqueueTypes
  <2> QED BY <1>2, <1>3, <2>1, <2>2 DEF WireInv
<1>5. ASSUME NEW n \in Seat, Receive(n)
      PROVE  WireInv'
  <2>1. Enqueue(n) /\ chan[n] # << >> /\ chan' = [chan EXCEPT ![n] = Tail(chan[n])]
    BY <1>5 DEF Receive
  <2>2. out' \in [Seat -> SUBSET [to : Seat, frame : Frame']]
    BY <1>2, <2>1, EnqueueTypes
  <2>3. Tail(chan[n]) \in Seq(Frame')
    BY <1>3, <2>1
  <2>4. chan' \in [Seat -> Seq(Frame')]
    BY <1>3, <2>1, <2>3
  <2> QED BY <1>2, <2>2, <2>4 DEF WireInv
<1>6. ASSUME NEW n \in Seat, NEW label, Send(n, label)
      PROVE  WireInv'
  <2>1. /\ out' \in [Seat -> SUBSET [to : Seat, frame : Frame]]
        /\ chan' \in [Seat -> Seq(Frame)]
    BY <1>6, SendTypes
  <2>2. sent' = sent
    BY <1>6 DEF Send, vars
  <2>3. Frame' = Frame
    BY <2>2 DEF Frame
  <2> QED BY <1>2, <2>1, <2>3 DEF WireInv
<1>7. CASE UNCHANGED <<out, chan>>
  BY <1>2, <1>3, <1>7 DEF WireInv
<1>8. ASSUME NEW n \in Seat, Task(n), ~Drive(n), ~Receive(n),
             ~Send(n, "send_handled"), ~Send(n, "send_driven")
      PROVE  UNCHANGED <<out, chan>>
  BY <1>8 DEF Task, DriveDone, Publish, Exit
<1>9. CASE Join \/ Timeout \/ Returned \/ UNCHANGED netVars
  BY <1>7, <1>9 DEF Join, Timeout, Returned, netVars
<1> QED BY <1>4, <1>5, <1>6, <1>7, <1>8, <1>9 DEF NetNext, Task

\* The harness keeps its types: the node's own, and the tasks'.
LEMMA TasksKeepTypes ==
  ASSUME HarnessTypes, [NetNext]_netVars
  PROVE  /\ workload' \in Workloads /\ crashed' \subseteq Seat
         /\ nextCmd' \in 0..Expected'
         /\ pc' \in [Seat -> PcLabel]
         /\ DOMAIN snapshot' = Seat
<1> USE DEF HarnessTypes
<1>1. workload' = workload /\ crashed' = crashed
  BY DEF NetNext, Task, Drive, DriveDone, Send, Publish, Receive, Exit, Join, Timeout, Returned,
         netVars, runVars
<1>2. nextCmd' \in 0..Expected
  <2>1. CASE \E n \in Seat : Drive(n)
    BY <2>1, WorkloadTypes DEF Drive, MayDrive
  <2>2. CASE nextCmd' = nextCmd
    BY <2>2
  <2> QED BY <2>1, <2>2 DEF NetNext, Task, DriveDone, Send, Publish, Receive, Exit, Join,
                            Timeout, Returned, netVars
<1>3. pc' \in [Seat -> PcLabel]
  <2>1. CASE pc' = pc
    BY <2>1
  <2>2. ASSUME NEW n \in Seat, NEW label \in PcLabel, Goto(n, label)
        PROVE  pc' \in [Seat -> PcLabel]
    BY <2>2 DEF Goto
  <2>3. \A x \in {"send_handled", "drive", "send_driven", "recv", "done"} : x \in PcLabel
    BY DEF PcLabel
  <2> QED BY <2>1, <2>2, <2>3 DEF NetNext, Task, Drive, DriveDone, Send, Publish, Receive, Exit,
                                   Join, Timeout, Returned, netVars
<1>4. DOMAIN snapshot' = Seat
  BY DEF NetNext, Task, Drive, DriveDone, Send, Publish, Receive, Exit, Join, Timeout, Returned,
         netVars
<1>5. Expected' = Expected
  BY <1>1 DEF Expected
<1> QED BY <1>1, <1>2, <1>3, <1>4, <1>5

\* The types of the harness hold throughout.
THEOREM HarnessTypeCorrect == NetSpec => []HarnessTypes
<1>1. NetInit => HarnessTypes
  <2> SUFFICES ASSUME NetInit PROVE HarnessTypes
    OBVIOUS
  <2>1. Init => TypeOK /\ Drained
    BY TypesInductive
  <2>2. TypeOK /\ Drained
    BY <2>1 DEF NetInit
  <2>3. WireInv
    BY FS_EmptySet DEF NetInit, Init, WireInv
  <2>4. Expected \in Nat
    BY WorkloadTypes DEF NetInit
  <2> QED BY <2>2, <2>3, <2>4 DEF NetInit, HarnessTypes, PcLabel
<1>2. HarnessTypes /\ [NetNext]_netVars => HarnessTypes'
  <2> SUFFICES ASSUME HarnessTypes, [NetNext]_netVars
               PROVE  HarnessTypes'
    OBVIOUS
  <2>1. [Next]_vars
    BY HarnessStepIsNodeStep, NodeStepIsNext DEF HarnessTypes
  <2>2. TypeOK /\ Drained /\ [Next]_vars => TypeOK' /\ Drained'
    BY TypesInductive
  <2>3. TypeOK' /\ Drained'
    BY <2>1, <2>2 DEF HarnessTypes
  <2> QED BY <2>3, WireInductive, TasksKeepTypes DEF HarnessTypes
<1> QED BY <1>1, <1>2, PTL DEF NetSpec

\* The cluster harness implements the node's specification under any network:
\* whatever the tasks and channels do, what a node is handed is a message some
\* node sent, so everything proved of the nodes holds of the harness.
THEOREM HarnessImplementsNodes == NetSpec => Spec
<1>1. HarnessTypes /\ [NetNext]_netVars => [Next]_vars
  BY HarnessStepIsNodeStep, NodeStepIsNext DEF HarnessTypes
<1>2. NetInit => Init
  BY DEF NetInit
<1> QED BY <1>1, <1>2, HarnessTypeCorrect, PTL DEF NetSpec, Spec

\* Whatever is queued anywhere decodes to a message some replica sent, field for
\* field (codec.rs, the round trip that keeps every signature verifiable).
THEOREM FramesDecode == NetSpec => []FramesCarrySentMessages
<1>1. HarnessTypes => FramesCarrySentMessages
  <2> SUFFICES ASSUME HarnessTypes, NEW n \in Seat, NEW i \in DOMAIN chan[n]
               PROVE  DecodeMsg(chan[n][i]) \in sent
    BY DEF FramesCarrySentMessages
  <2>1. chan[n] \in Seq(Frame)
    BY DEF HarnessTypes, WireInv
  <2>2. PICK m \in sent : chan[n][i] = EncodeMsg(m)
    <3>1. chan[n][i] \in Frame
      BY <2>1
    <3> QED BY <3>1 DEF Frame
  <2>3. Encodable(m)
    BY DEF HarnessTypes, WireInv
  <2> QED BY <2>2, <2>3, FrameSurvives
<1> QED BY <1>1, HarnessTypeCorrect, PTL
-----------------------------------------------------------------------------
(* The leader's cursor, its log and the workload. *)

\* With every key safe and private channels the leader is safe: no seats at all are a
\* quorum of neither kind of roster.
LEMMA LeaderIsSafe ==
  ASSUME TypeOK
  PROVE  Safe
<1>1. faulty = {} /\ Leader \in Correct
  BY EverybodyIsCorrect
<1>2. Cardinality(faulty) = 0 /\ N \in Nat /\ N # 0
  BY <1>1, FS_EmptySet, AuthAssumption DEF Seat
<1>3. ~observed
  BY EverySeatIsHonest DEF TypeOK
<1> QED BY <1>1, <1>2, <1>3 DEF Safe, Reached, IsQuorum, IsByzQuorum

\* A vote recorded at the leader either decides the command it was recorded for,
\* or leaves the log alone (record_vote); no other view changes.
LEMMA RecordMovesLeader ==
  ASSUME TypeOK, Drained, NEW p \in Command \cup {None}, NEW b, NEW V, NEW v, NEW msgs,
         RecordVote(p, b, V, v, msgs)
  PROVE  /\ \A k \in Seat \ {Leader} : view'[k] = view[k]
         /\ \/ proposing' = p /\ Log(Leader)' = Log(Leader)
            \/ p # None /\ proposing' = None /\ Log(Leader)' = Append(Log(Leader), p)
<1>1. Leader \in Seat
  BY AuthAssumption
<1>2. CASE Decides(p, b, V, v, msgs)
  <2>1. /\ p # None /\ p \in Command /\ proposing' = None
        /\ view' = [view EXCEPT ![Leader] = ApplyCommit(@, p)]
    BY <1>2 DEF Decides
  <2>2. Log(Leader)' = Append(Log(Leader), p)
    BY <1>1, <2>1, ApplyCommitKeepsView
  <2> QED BY <2>1, <2>2 DEF TypeOK
<1>3. CASE Waits(p, b, V, v, msgs)
  BY <1>3 DEF Waits, Log
<1> QED BY <1>2, <1>3, RecordVoteCases

\* submit puts its command in flight or, alone in the cluster, commits it.
LEMMA SubmitMovesLeader ==
  ASSUME TypeOK, Drained, NEW c \in Command, NEW cap \in Issued, Submit(c, cap)
  PROVE  /\ proposing = None
         /\ \A k \in Seat \ {Leader} : view'[k] = view[k]
         /\ \/ proposing' = c /\ Log(Leader)' = Log(Leader)
            \/ proposing' = None /\ Log(Leader)' = Append(Log(Leader), c)
<1>1. PICK own, msgs, b, V : /\ own = Vote(Leader, NextSlot(Leader), c)
                             /\ msgs = {ProposeMsg(Leader, NextSlot(Leader), c, cap)}
                             /\ b = EmptyBallot /\ V = {}
  OBVIOUS
<1>2. RecordVote(c, b, V, own, msgs) /\ proposing = None
  BY <1>1 DEF Submit, MaySubmit
<1> QED BY <1>2, RecordMovesLeader

\* A sent commit is behind the leader, so the leader never applies one: its log
\* grows only by what it proposed itself (handle, MsgCommit).
LEMMA HandleMovesLeader ==
  ASSUME AuthInv, Safe, NEW n \in Seat, NEW m \in sent, Handle(n, m)
  PROVE  /\ \A k \in Seat \ {n} : view'[k] = view[k]
         /\ \/ proposing' = proposing /\ Log(Leader)' = Log(Leader)
            \/ proposing # None /\ proposing' = None
               /\ Log(Leader)' = Append(Log(Leader), proposing)
<1> USE DEF AuthInv
<1>1. Leader \in Seat /\ proposing \in Command \cup {None}
  BY AuthAssumption DEF TypeOK
<1>2. CASE HandlePropose(n, m)
  BY <1>2 DEF HandlePropose, leaderVars, Log
<1>3. CASE HandleVote(n, m)
  <2>1. PICK none : none = {}
    OBVIOUS
  <2>2. n = Leader /\ RecordVote(proposing, ballot, votes, m.vote, none)
    BY <1>3, <2>1 DEF HandleVote
  <2> QED BY <1>1, <2>2, RecordMovesLeader
<1>4. CASE HandleCommit(n, m)
  <2>1. /\ m.type = "commit" /\ m.slot = NextSlot(n) /\ proposing' = proposing
        /\ view' = [view EXCEPT ![n] = ApplyCommit(@, m.cmd)]
    BY <1>4 DEF HandleCommit, leaderVars
  <2>2. InLeaderLog(m.slot, m.cmd)
    BY <2>1 DEF LeaderIsAhead
  <2>3. n # Leader
    <3>1. Log(Leader) \in Seq(Command)
      BY <1>1, ViewFields
    <3> QED BY <2>1, <2>2, <3>1 DEF InLeaderLog, NextSlot
  <2>4. \A k \in Seat \ {n} : view'[k] = view[k]
    BY <2>1 DEF TypeOK
  <2> QED BY <1>1, <2>1, <2>3, <2>4 DEF Log
<1> QED BY <1>2, <1>3, <1>4 DEF Handle

\* When the leader's log and command in flight stay, so does the cursor's bond.
LEMMA CursorStays ==
  ASSUME CursorInv, nextCmd' = nextCmd, workload' = workload,
         proposing' = proposing, Log(Leader)' = Log(Leader)
  PROVE  CursorInv'
<1>1. NextSlot(Leader)' = NextSlot(Leader)
  BY DEF NextSlot
<1> QED BY <1>1 DEF CursorInv, Licensed

\* When the command at the end of the cursor is decided, the log catches up with
\* the cursor.
LEMMA CursorCatchesUp ==
  ASSUME workload' = workload, Log(Leader) \in Seq(Command), NextSlot(Leader) \in Nat,
         \A i \in 1..NextSlot(Leader) : Log(Leader)[i] = workload[i].cmd /\ Licensed(i),
         nextCmd' = NextSlot(Leader) + 1, Licensed(nextCmd'), proposing' = None,
         NEW c \in Command, c = workload[nextCmd'].cmd,
         Log(Leader)' = Append(Log(Leader), c)
  PROVE  CursorInv'
<1>1. NextSlot(Leader) = Len(Log(Leader)) /\ NextSlot(Leader)' = Len(Log(Leader)')
  BY DEF NextSlot
<1>2. NextSlot(Leader)' = NextSlot(Leader) + 1
  BY <1>1
<1>3. ASSUME NEW i \in 1..NextSlot(Leader)'
      PROVE  Log(Leader)'[i] = workload[i].cmd /\ Licensed(i)
  <2>1. CASE i = NextSlot(Leader) + 1
    BY <1>1, <2>1
  <2>2. CASE i # NextSlot(Leader) + 1
    <3>1. i \in 1..NextSlot(Leader)
      BY <1>2, <2>2
    <3> QED BY <1>1, <3>1
  <2> QED BY <2>1, <2>2
<1>4. \A i \in 1..NextSlot(Leader)' : Licensed(i)'
  BY <1>3 DEF Licensed
<1> QED BY <1>2, <1>3, <1>4 DEF CursorInv

\* drive passes the command at the leader's next slot: refused, in flight, or
\* committed at once.
LEMMA DriveKeepsCursor ==
  ASSUME HarnessTypes, CursorInv, NEW n \in Seat, Drive(n)
  PROVE  CursorInv'
<1> USE DEF HarnessTypes
<1>1. /\ n = Leader /\ NextSlot(Leader) = nextCmd /\ nextCmd' = nextCmd + 1
      /\ nextCmd < Expected /\ workload' = workload /\ nextCmd \in Nat
  BY DEF Drive, MayDrive, runVars
<1>2. proposing = None
  BY <1>1 DEF CursorInv
<1>3. PICK k, w : k = nextCmd + 1 /\ w = workload[k]
  OBVIOUS
<1>4. w.cmd \in Command /\ w.cap \in Issued
  <2>1. k \in 1..Expected
    BY <1>1, <1>3, WorkloadTypes
  <2> QED BY <1>3, <2>1, WorkloadTypes
<1>5. CASE VerifyCapability(w.cap, w.cmd)
  <2>1. Submit(w.cmd, w.cap) /\ Licensed(k)
    BY <1>1, <1>3, <1>5 DEF Drive, Licensed
  <2>2. Log(Leader) \in Seq(Command)
    BY AuthAssumption, ViewFields
  <2>3. CASE proposing' = w.cmd /\ Log(Leader)' = Log(Leader)
    <3>1. NextSlot(Leader)' = nextCmd /\ Licensed(k)'
      BY <1>1, <2>1, <2>3 DEF NextSlot, Licensed
    <3>2. \A i \in 1..NextSlot(Leader)' : /\ Log(Leader)'[i] = workload'[i].cmd
                                          /\ Licensed(i)'
      BY <1>1, <2>3, <3>1 DEF CursorInv, Licensed
    <3> QED BY <1>1, <1>3, <2>3, <3>1, <3>2 DEF CursorInv
  <2>4. CASE proposing' = None /\ Log(Leader)' = Append(Log(Leader), w.cmd)
    BY <1>1, <1>3, <1>4, <2>1, <2>2, <2>4, CursorCatchesUp DEF CursorInv
  <2> QED BY <1>4, <2>1, <2>3, <2>4, SubmitMovesLeader
<1>6. CASE ~VerifyCapability(w.cap, w.cmd)
  <2>1. UNCHANGED vars
    BY <1>1, <1>3, <1>6 DEF Drive
  <2>2. proposing' = None /\ Log(Leader)' = Log(Leader) /\ NextSlot(Leader)' = nextCmd
    BY <1>1, <1>2, <2>1 DEF vars, Log, NextSlot
  <2> QED BY <1>1, <2>2 DEF CursorInv, Licensed
<1> QED BY <1>5, <1>6

\* The cursor stays with the leader's log throughout.
LEMMA CursorInductive ==
  ASSUME HarnessTypes, AuthInv, CursorInv, [NetNext]_netVars
  PROVE  CursorInv'
<1> USE DEF HarnessTypes
<1>1. Safe /\ Leader \in Seat
  BY LeaderIsSafe, AuthAssumption
<1>2. ASSUME NEW n \in Seat, Receive(n)
      PROVE  CursorInv'
  <2>1. chan[n] # << >> /\ nextCmd' = nextCmd /\ workload' = workload
    BY <1>2 DEF Receive, runVars
  <2>2. PICK m : m = DecodeMsg(Head(chan[n]))
    OBVIOUS
  <2>3. m \in sent
    BY <2>1, <2>2, HeadDecodes
  <2>4. CASE Handle(n, m)
    <3>1. CASE proposing' = proposing /\ Log(Leader)' = Log(Leader)
      BY <2>1, <3>1, CursorStays
    <3>2. CASE /\ proposing # None /\ proposing' = None
               /\ Log(Leader)' = Append(Log(Leader), proposing)
      <4>1. /\ nextCmd = NextSlot(Leader) + 1 /\ Licensed(nextCmd)
            /\ proposing = workload[nextCmd].cmd /\ proposing \in Command
        BY <3>2 DEF CursorInv, TypeOK
      <4>2. Log(Leader) \in Seq(Command) /\ NextSlot(Leader) \in Nat
        BY <1>1, ViewFields
      <4>3. PICK c \in Command : c = proposing
        BY <4>1
      <4>4. \A i \in 1..NextSlot(Leader) : Log(Leader)[i] = workload[i].cmd /\ Licensed(i)
        BY DEF CursorInv
      <4> QED BY <2>1, <3>2, <4>1, <4>2, <4>3, <4>4, CursorCatchesUp
    <3> QED BY <1>1, <2>3, <2>4, <3>1, <3>2, HandleMovesLeader
  <2>5. CASE UNCHANGED vars
    BY <2>1, <2>5, CursorStays DEF vars, Log
  <2> QED BY <1>2, <2>2, <2>4, <2>5 DEF Receive
<1>3. CASE UNCHANGED <<vars, workload, nextCmd>>
  BY <1>3, CursorStays DEF vars, Log
<1>4. ASSUME NEW n \in Seat, Task(n), ~Drive(n), ~Receive(n)
      PROVE  UNCHANGED <<vars, workload, nextCmd>>
  BY <1>4 DEF Task, DriveDone, Send, Publish, Exit, runVars
<1>5. CASE Join \/ Timeout \/ Returned \/ UNCHANGED netVars
  BY <1>3, <1>5 DEF Join, Timeout, Returned, netVars, runVars
<1> QED BY <1>2, <1>3, <1>4, <1>5, DriveKeepsCursor DEF NetNext
-----------------------------------------------------------------------------
(* How the tasks end. *)

\* A replica applied every slot of its log, and no log is longer than the
\* leader's or than the start of the workload the leader committed.
LEMMA LogsFollowWorkload ==
  ASSUME HarnessTypes, AuthInv, CursorInv, NEW n \in Seat
  PROVE  /\ Applied(n) = NextSlot(n) /\ NextSlot(n) \in Nat
         /\ NextSlot(n) <= NextSlot(Leader) /\ NextSlot(Leader) <= Expected
         /\ NextSlot(Leader) \in Nat
         /\ \A i \in 1..NextSlot(n) : Log(n)[i] = workload[i].cmd /\ Licensed(i)
<1> USE DEF HarnessTypes
<1>1. n \in Correct /\ Leader \in Seat /\ LeaderIsAhead
  BY LeaderIsSafe, EverybodyIsCorrect DEF AuthInv
<1>2. /\ Log(n) \in Seq(Command) /\ NextSlot(n) = Len(Log(n))
      /\ Log(Leader) \in Seq(Command) /\ NextSlot(Leader) = Len(Log(Leader))
  BY <1>1, ViewFields DEF NextSlot
<1>3. NextSlot(n) \in Nat /\ NextSlot(Leader) \in Nat
  BY <1>2
<1>4. ASSUME NEW i \in 1..NextSlot(n)
      PROVE  i \in 1..NextSlot(Leader) /\ Log(Leader)[i] = Log(n)[i]
  <2>1. i \in DOMAIN Log(n) /\ i \in Nat
    BY <1>2
  <2>2. InLeaderLog(i - 1, Log(n)[i])
    BY <1>1, <2>1 DEF LeaderIsAhead
  <2>3. i - 1 + 1 = i
    BY <2>1
  <2> QED BY <1>2, <2>2, <2>3 DEF InLeaderLog
<1>5. NextSlot(n) <= NextSlot(Leader)
  <2>1. CASE NextSlot(n) = 0
    BY <1>3, <2>1
  <2>2. CASE NextSlot(n) # 0
    <3>1. NextSlot(n) \in 1..NextSlot(n)
      BY <1>3, <2>2
    <3> QED BY <1>3, <1>4, <3>1
  <2> QED BY <2>1, <2>2
<1>6. NextSlot(Leader) <= Expected
  BY <1>3, WorkloadTypes DEF CursorInv
<1>7. \A i \in 1..NextSlot(n) : Log(n)[i] = workload[i].cmd /\ Licensed(i)
  BY <1>4 DEF CursorInv
<1>8. Applied(n) = NextSlot(n)
  BY DEF Drained, Applied
<1> QED BY <1>3, <1>5, <1>6, <1>7, <1>8

\* A task touches its own view, place, outbox and snapshot only.
LEMMA TaskIsLocal ==
  ASSUME HarnessTypes, AuthInv, NEW n \in Seat, Task(n), NEW k \in Seat \ {n}
  PROVE  /\ view'[k] = view[k] /\ pc'[k] = pc[k] /\ out'[k] = out[k]
         /\ snapshot'[k] = snapshot[k]
<1> USE DEF HarnessTypes
<1>1. CASE Drive(n)
  <2>1. n = Leader /\ nextCmd < Expected /\ nextCmd \in Nat
    BY <1>1 DEF Drive, MayDrive
  <2>2. PICK w : w = workload[nextCmd + 1]
    OBVIOUS
  <2>3. w.cmd \in Command /\ w.cap \in Issued
    <3>1. nextCmd + 1 \in 1..Expected
      BY <2>1, WorkloadTypes
    <3> QED BY <2>2, <3>1, WorkloadTypes
  <2>4. Submit(w.cmd, w.cap) \/ UNCHANGED vars
    BY <1>1, <2>2 DEF Drive
  <2>5. view'[k] = view[k]
    BY <2>1, <2>3, <2>4, SubmitMovesLeader DEF vars
  <2>6. pc' = pc /\ snapshot' = snapshot /\ out'[k] = out[k]
    BY <1>1 DEF Drive, Enqueue, WireInv
  <2> QED BY <2>5, <2>6
<1>2. CASE Receive(n)
  <2>1. PICK m : m = DecodeMsg(Head(chan[n]))
    OBVIOUS
  <2>2. m \in sent
    BY <1>2, <2>1, HeadDecodes DEF Receive
  <2>3. Handle(n, m) \/ UNCHANGED vars
    BY <1>2, <2>1 DEF Receive
  <2>4. view'[k] = view[k]
    BY <2>2, <2>3, HandleMovesLeader, LeaderIsSafe DEF vars
  <2>5. snapshot' = snapshot /\ out'[k] = out[k] /\ pc'[k] = pc[k]
    BY <1>2 DEF Receive, Enqueue, WireInv, Goto
  <2> QED BY <2>4, <2>5
<1>3. CASE Publish(n, "send_handled", "drive") \/ Publish(n, "send_driven", "recv")
  BY <1>3 DEF Publish, Goto, vars
<1>4. CASE Send(n, "send_handled") \/ Send(n, "send_driven")
  BY <1>4 DEF Send, WireInv, vars
<1>5. CASE DriveDone(n) \/ Exit(n)
  BY <1>5 DEF DriveDone, Exit, Goto, vars
<1> QED BY <1>1, <1>2, <1>3, <1>4, <1>5 DEF Task

\* A task that is about to receive, or has ended, published its view since it last
\* sent: only the second publication and the end of the loop lead there.
LEMMA TaskPublishes ==
  ASSUME HarnessTypes, EndInv, NEW n \in Live, Task(n), pc'[n] \in {"recv", "done"}
  PROVE  /\ out'[n] = {} /\ snapshot'[n] = view'[n]
         /\ pc'[n] = "done" => Applied(n)' >= Expected
<1> USE DEF HarnessTypes
<1>1. n \in Seat
  BY DEF Live
<1>2. CASE Publish(n, "send_driven", "recv")
  BY <1>1, <1>2 DEF Publish, Goto, vars
<1>3. CASE Exit(n)
  <2>1. /\ pc[n] = "recv" /\ Applied(n) >= Expected /\ view' = view
        /\ out' = out /\ snapshot' = snapshot
    BY <1>3 DEF Exit, At, vars
  <2>2. out[n] = {} /\ snapshot[n] = view[n]
    BY <2>1 DEF EndInv
  <2>3. Applied(n)' = Applied(n)
    BY <2>1 DEF Applied
  <2> QED BY <2>1, <2>2, <2>3
<1>4. CASE Receive(n)
  <2>1. chan[n] # << >>
    BY <1>4 DEF Receive
  <2>2. DecodeMsg(Head(chan[n])) # Malformed
    BY <1>1, <2>1, HeadDecodes
  <2>3. pc'[n] = "send_handled"
    BY <1>1, <1>4, <2>2 DEF Receive, Goto
  <2> QED BY <2>3
<1>5. CASE Publish(n, "send_handled", "drive") \/ DriveDone(n)
  BY <1>1, <1>5 DEF Publish, DriveDone, Goto
<1>6. CASE Drive(n) \/ Send(n, "send_handled") \/ Send(n, "send_driven")
  BY <1>6 DEF Drive, Send, At
<1> QED BY <1>2, <1>3, <1>4, <1>5, <1>6 DEF Task

\* run_auth_cluster that joined every task returns a complete outcome: every
\* published view is a live replica's, with the whole workload applied.
LEMMA JoinIsComplete ==
  ASSUME HarnessTypes, AuthInv, CursorInv, EndInv, \A n \in Live : pc[n] = "done"
  PROVE  Outcome(TRUE).settled /\ Outcome(TRUE).complete
<1>1. ASSUME NEW n \in Seat, snapshot[n] # None
      PROVE  snapshot[n].replicas[n].applied = Expected
  <2>1. n \in Live /\ pc[n] = "done"
    BY <1>1 DEF EndInv, Live
  <2>2. snapshot[n] = view[n] /\ Applied(n) >= Expected
    BY <2>1 DEF EndInv
  <2>3. Applied(n) \in Nat /\ Applied(n) <= Expected /\ Expected \in Nat
    <3>1. /\ Applied(n) = NextSlot(n) /\ NextSlot(n) \in Nat /\ NextSlot(Leader) \in Nat
          /\ NextSlot(n) <= NextSlot(Leader) /\ NextSlot(Leader) <= Expected
      BY LogsFollowWorkload
    <3>2. Expected \in Nat
      BY WorkloadTypes DEF HarnessTypes
    <3> QED BY <3>1, <3>2
  <2> QED BY <2>2, <2>3 DEF Applied
<1> QED BY <1>1 DEF Outcome

\* The end of the tasks and of the run.
LEMMA EndInductive ==
  ASSUME HarnessTypes, AuthInv, CursorInv, EndInv, [NetNext]_netVars
  PROVE  EndInv'
<1> USE DEF HarnessTypes
<1>1. workload' = workload /\ crashed' = crashed /\ Live' = Live /\ Expected' = Expected
  BY DEF NetNext, Task, Drive, DriveDone, Send, Publish, Receive, Exit, Join, Timeout, Returned,
         netVars, runVars, Live, Expected
<1>2. ASSUME NEW n \in Seat, Task(n)
      PROVE  EndInv'
  <2>1. outcome = None /\ outcome' = None /\ n \in Live
    BY <1>2 DEF Task, Drive, DriveDone, Send, Publish, Receive, Exit, At
  <2>2. ASSUME NEW k \in Live, pc'[k] \in {"recv", "done"}
        PROVE  /\ out'[k] = {} /\ snapshot'[k] = view'[k]
               /\ pc'[k] = "done" => Applied(k)' >= Expected
    <3>1. CASE k = n
      BY <1>2, <2>1, <2>2, <3>1, TaskPublishes
    <3>2. CASE k # n
      <4>1. /\ view'[k] = view[k] /\ pc'[k] = pc[k] /\ out'[k] = out[k]
            /\ snapshot'[k] = snapshot[k]
        BY <1>2, <3>2, TaskIsLocal DEF Live
      <4>2. Applied(k)' = Applied(k)
        BY <4>1 DEF Applied
      <4> QED BY <2>2, <4>1, <4>2 DEF EndInv
    <3> QED BY <3>1, <3>2
  <2>3. ASSUME NEW k \in crashed
        PROVE  snapshot'[k] = None
    <3>1. k \in Seat \ {n}
      BY <2>1 DEF Live
    <3>2. snapshot'[k] = snapshot[k]
      BY <1>2, <3>1, TaskIsLocal
    <3> QED BY <3>2 DEF EndInv
  <2> QED BY <1>1, <2>1, <2>2, <2>3 DEF EndInv
<1>3. ASSUME UNCHANGED <<view, pc, out, snapshot>>,
             outcome' # None /\ outcome'.settled =>
               outcome'.complete /\ \A n \in Live : pc[n] = "done"
      PROVE  EndInv'
  <2>1. \A n \in Seat : Applied(n)' = Applied(n)
    BY <1>3 DEF Applied
  <2> QED BY <1>1, <1>3, <2>1 DEF EndInv, Live
<1>4. CASE Join
  <2>1. PICK o : o = Outcome(TRUE)
    OBVIOUS
  <2>2. o.settled /\ o.complete
    BY <1>4, <2>1, JoinIsComplete DEF Join
  <2> QED BY <1>3, <1>4, <2>1, <2>2 DEF Join, vars
<1>5. CASE Timeout
  <2>1. PICK o : o = Outcome(FALSE)
    OBVIOUS
  <2>2. ~o.settled
    BY <2>1 DEF Outcome
  <2> QED BY <1>3, <1>5, <2>1, <2>2 DEF Timeout, vars
<1>6. CASE Returned \/ UNCHANGED netVars
  BY <1>3, <1>6 DEF Returned, netVars, vars, EndInv
<1> QED BY <1>2, <1>4, <1>5, <1>6 DEF NetNext

-----------------------------------------------------------------------------
(* What the harness promises. *)

\* The harness keeps its invariant and the nodes'.
THEOREM HarnessCorrect == NetSpec => [](HarnessInv /\ AuthInv)
<1>1. NetInit => CursorInv /\ EndInv
  <2> SUFFICES ASSUME NetInit PROVE CursorInv /\ EndInv
    OBVIOUS
  <2>1. Leader \in Seat /\ Log(Leader) = << >> /\ NextSlot(Leader) = 0 /\ proposing = None
    BY AuthAssumption DEF NetInit, Init, Log, NextSlot
  <2>2. CursorInv
    BY <2>1 DEF CursorInv, NetInit
  <2>3. EndInv
    BY DEF EndInv, NetInit, Live
  <2> QED BY <2>2, <2>3
<1>2. /\ HarnessTypes /\ AuthInv /\ CursorInv /\ EndInv /\ [NetNext]_netVars
      => CursorInv' /\ EndInv'
  BY CursorInductive, EndInductive
<1>3. NetSpec => []AuthInv
  BY HarnessImplementsNodes, AuthInductive, PTL
<1> QED BY <1>1, <1>2, <1>3, HarnessTypeCorrect, PTL DEF NetSpec, HarnessInv

\* The certificates a leader broadcasts verify at the other end of the channels,
\* on either kind of roster (the debug_assert of record_vote).
THEOREM CertificatesVerifyOnTheWire == NetSpec => []OwnCommitsVerify
<1>1. AuthInv => OwnCommitsVerify
  BY LeaderIsSafe DEF AuthInv, LeaderIsAhead, OwnCommitsVerify
<1> QED BY <1>1, HarnessCorrect, PTL

\* run_auth_cluster converges: replicas that have come equally far hold equal stores,
\* whatever was crashed, refused or cut short.
THEOREM WiredStoresConverge ==
  NetSpec => [](\A m, n \in Seat : NextSlot(m) = NextSlot(n) =>
                  view[m].replicas[m].store = view[n].replicas[n].store)
<1>1. AuthInv /\ StoresConverge =>
        \A m, n \in Seat : NextSlot(m) = NextSlot(n) =>
          view[m].replicas[m].store = view[n].replicas[n].store
  BY EverybodyIsCorrect, LeaderIsSafe DEF AuthInv, StoresConverge, Safe, Trusted
<1> QED BY <1>1, HarnessCorrect, HarnessImplementsNodes, AuthStoresConverge, PTL

\* drive only runs when submit can take the command: the cursor never passes a
\* licensed command that the node then ignores because another is in flight.
THEOREM DriveFindsTheLeaderFree == NetSpec => []SubmitIsFree
<1>1. HarnessInv => SubmitIsFree
  <2> SUFFICES ASSUME HarnessInv, MayDrive(Leader)
               PROVE  proposing = None /\ NextSlot(Leader) < MaxSlots
    BY DEF SubmitIsFree
  <2>1. NextSlot(Leader) = nextCmd /\ nextCmd < Expected /\ nextCmd \in Nat
    BY DEF MayDrive, HarnessInv, HarnessTypes
  <2>2. proposing = None
    BY <2>1 DEF HarnessInv, CursorInv
  <2>3. Expected \in Nat /\ Expected <= MaxSlots /\ MaxSlots \in Nat
    BY WorkloadTypes DEF HarnessInv, HarnessTypes
  <2> QED BY <2>1, <2>2, <2>3
<1> QED BY <1>1, HarnessCorrect, PTL

\* The slots a replica committed are licensed, so they are among the commands
\* before the first refused one.
LEMMA LogIsLicensed ==
  ASSUME HarnessInv, AuthInv, NEW n \in Seat
  PROVE  /\ NextSlot(n) <= LicensedLen /\ LicensedLen \in Nat
         /\ LicensedLen <= Expected /\ NextSlot(n) \in Nat /\ Expected \in Nat
<1> DEFINE L == {k \in 1..Expected : \A i \in 1..k : Licensed(i)}
<1> USE DEF HarnessInv, HarnessTypes
<1>1. /\ NextSlot(n) \in Nat /\ NextSlot(Leader) \in Nat /\ NextSlot(n) <= NextSlot(Leader)
      /\ NextSlot(Leader) <= Expected /\ Expected \in Nat
      /\ \A i \in 1..NextSlot(n) : Licensed(i)
  BY LogsFollowWorkload, WorkloadTypes
<1>2. 1..NextSlot(n) \subseteq L /\ L \subseteq 1..Expected
  BY <1>1
<1> HIDE DEF L
<1>3. \A k \in Nat : IsFiniteSet(1..k) /\ Cardinality(1..k) = k
  BY FS_Interval
<1>4. PICK ones, all : ones = 1..NextSlot(n) /\ all = 1..Expected
  OBVIOUS
<1>5. /\ IsFiniteSet(all) /\ Cardinality(all) = Expected
      /\ IsFiniteSet(ones) /\ Cardinality(ones) = NextSlot(n)
      /\ L \in SUBSET all /\ ones \in SUBSET L
  BY <1>1, <1>2, <1>3, <1>4
<1>6. IsFiniteSet(L) /\ Cardinality(L) <= Cardinality(all)
  BY <1>5, FS_Subset
<1>7. Cardinality(ones) <= Cardinality(L) /\ Cardinality(L) \in Nat
  BY <1>5, <1>6, FS_Subset, FS_CardinalityType
<1> QED BY <1>1, <1>5, <1>6, <1>7 DEF LicensedLen, L

\* A refused command strands the rest of the workload: replicas commit nothing but
\* the commands before it, in order, and no run with such a command ever settles
\* (drive and the loop of run_auth_cluster).
THEOREM RefusalStrands == NetSpec => []RefusalStrandsTheRest
<1>1. HarnessInv /\ AuthInv => RefusalStrandsTheRest
  <2> SUFFICES ASSUME HarnessInv, AuthInv
               PROVE  RefusalStrandsTheRest
    OBVIOUS
  <2>1. ASSUME NEW n \in Seat
        PROVE  /\ NextSlot(n) <= LicensedLen
               /\ \A i \in DOMAIN Log(n) : Log(n)[i] = workload[i].cmd
    <3>1. DOMAIN Log(n) = 1..NextSlot(n)
      <4>1. Log(n) \in Seq(Command)
        BY ViewFields DEF HarnessInv, HarnessTypes
      <4> QED BY <4>1 DEF NextSlot
    <3> QED BY <3>1, LogIsLicensed, LogsFollowWorkload DEF HarnessInv
  <2>2. ASSUME outcome # None, LicensedLen < Expected, Live # {}, outcome.settled
        PROVE  FALSE
    <3>1. PICK n \in Live : pc[n] = "done"
      BY <2>2 DEF HarnessInv, EndInv
    <3>2. n \in Seat /\ Applied(n) >= Expected
      BY <3>1 DEF HarnessInv, EndInv, Live
    <3>3. Applied(n) = NextSlot(n)
      BY <3>2, LogsFollowWorkload DEF HarnessInv
    <3> QED BY <2>2, <3>2, <3>3, LogIsLicensed
  <2> QED BY <2>1, <2>2 DEF RefusalStrandsTheRest
<1> QED BY <1>1, HarnessCorrect, PTL

\* A run whose tasks all ended is complete: the whole workload is applied in every
\* view it returns.
THEOREM SettledAuthRunsAreComplete == NetSpec => []SettledMeansComplete
<1>1. HarnessInv => SettledMeansComplete
  BY DEF HarnessInv, EndInv, SettledMeansComplete
<1> QED BY <1>1, HarnessCorrect, PTL

-----------------------------------------------------------------------------
(* Concatenation. *)

\* What a concatenation is, byte by byte.
LEMMA ConcatTypes ==
  ASSUME NEW a \in Bytes, NEW u \in Bytes
  PROVE  /\ a \o u \in Bytes /\ Len(a \o u) = Len(a) + Len(u)
         /\ Len(a) \in Nat /\ Len(u) \in Nat
         /\ \A i \in 1..Len(a) : (a \o u)[i] = a[i]
         /\ \A i \in 1..Len(u) : (a \o u)[Len(a) + i] = u[i]
BY DEF Bytes

\* Of two beginnings of one string one begins with the other.
LEMMA OneIsPrefix ==
  ASSUME NEW a \in Bytes, NEW b \in Bytes, NEW u \in Bytes, NEW v \in Bytes,
         a \o u = b \o v
  PROVE  StartsWith(a, b) \/ StartsWith(b, a)
<1>1. PICK w : w = a \o u /\ w = b \o v
  OBVIOUS
<1>2. Len(a) \in Nat /\ \A i \in 1..Len(a) : w[i] = a[i]
  <2>1. /\ Len(a) \in Nat /\ \A i \in 1..Len(a) : (a \o u)[i] = a[i]
    BY ConcatTypes
  <2> QED BY <1>1, <2>1
<1>3. Len(b) \in Nat /\ \A i \in 1..Len(b) : w[i] = b[i]
  <2>1. /\ Len(b) \in Nat /\ \A i \in 1..Len(b) : (b \o v)[i] = b[i]
    BY ConcatTypes
  <2> QED BY <1>1, <2>1
<1>4. CASE Len(a) <= Len(b)
  BY <1>2, <1>3, <1>4 DEF StartsWith
<1>5. CASE Len(b) <= Len(a)
  BY <1>2, <1>3, <1>5 DEF StartsWith
<1> QED BY <1>2, <1>3, <1>4, <1>5

\* What follows a common beginning is determined.
LEMMA CancelPrefix ==
  ASSUME NEW a \in Bytes, NEW u \in Bytes, NEW v \in Bytes, a \o u = a \o v
  PROVE  u = v
<1>1. /\ Len(a \o u) = Len(a) + Len(u) /\ Len(a) \in Nat /\ Len(u) \in Nat
      /\ \A i \in 1..Len(u) : (a \o u)[Len(a) + i] = u[i]
  BY ConcatTypes
<1>2. /\ Len(a \o v) = Len(a) + Len(v) /\ Len(v) \in Nat
      /\ \A i \in 1..Len(v) : (a \o v)[Len(a) + i] = v[i]
  BY ConcatTypes
<1>3. Len(u) = Len(v) /\ \A i \in 1..Len(u) : u[i] = v[i]
  BY <1>1, <1>2
<1> QED BY <1>3 DEF Bytes

-----------------------------------------------------------------------------
(* The fields. *)

\* A slot is written in four bytes (u32::to_le_bytes).
LEMMA LeBytesType ==
  ASSUME NEW n \in Slot32
  PROVE  LeBytes(n) \in Bytes /\ Len(LeBytes(n)) = 4
<1>1. /\ n % 256 \in Byte /\ (n \div 256) % 256 \in Byte
      /\ (n \div 65536) % 256 \in Byte /\ n \div 16777216 \in Byte
  BY DEF Slot32, Byte
<1> QED BY <1>1 DEF LeBytes, Bytes

\* The four bytes of a slot determine it (to_le_bytes).
LEMMA LeBytesInjective ==
  ASSUME NEW m \in Slot32, NEW n \in Slot32, LeBytes(m) = LeBytes(n)
  PROVE  m = n
<1>1. /\ m % 256 = n % 256 /\ (m \div 256) % 256 = (n \div 256) % 256
      /\ (m \div 65536) % 256 = (n \div 65536) % 256 /\ m \div 16777216 = n \div 16777216
  BY DEF LeBytes
<1>2. m \in Nat /\ n \in Nat
  BY DEF Slot32
<1>3. m \div 65536 = n \div 65536
  BY <1>1, <1>2
<1>4. m \div 256 = n \div 256
  BY <1>1, <1>2, <1>3
<1> QED BY <1>1, <1>2, <1>4

\* The capability slot is a string of bytes.
LEMMA CapFieldType ==
  ASSUME NEW p \in Capability \cup {NoCap}
  PROVE  CapField(p) \in Bytes
<1>1. <<0>> \in Bytes /\ <<1>> \in Bytes
  BY DEF Bytes, Byte
<1>2. CASE p = NoCap
  BY <1>1, <1>2 DEF CapField
<1>3. CASE p # NoCap
  <2>1. EncodeProp[p] \in Bytes
    BY <1>3, SigningAssumption
  <2>2. <<1>> \o EncodeProp[p] \in Bytes
    BY <1>1, <2>1, ConcatTypes
  <2> QED BY <1>3, <2>2 DEF CapField
<1> QED BY <1>2, <1>3

\* So are the bytes of a command.
LEMMA CmdBytesType ==
  ASSUME NEW c \in CommandTerm
  PROVE  CmdBytes(c) \in Bytes
<1>1. Canonical[c.payload] \in Bytes
  BY SigningAssumption DEF CommandTerm
<1>2. CapField(c.cap) \in Bytes
  BY CapFieldType DEF CommandTerm
<1> QED BY <1>1, <1>2, ConcatTypes DEF CmdBytes

\* What follows the payload: the capability's presence, then the capability.
LEMMA CapFieldInjective ==
  ASSUME NEW c \in CommandTerm, NEW d \in CommandTerm,
         CapField(c.cap) = CapField(d.cap)
  PROVE  c.cap = d.cap
<1>1. c.cap \in Capability \cup {NoCap} /\ d.cap \in Capability \cup {NoCap}
  BY DEF CommandTerm
<1>2. \A p \in Capability : /\ EncodeProp[p] \in Bytes /\ p # NoCap
                            /\ CapField(p) = <<1>> \o EncodeProp[p]
  BY SigningAssumption DEF CapField
<1>3. <<1>> \in Bytes /\ Len(<<1>>) = 1 /\ <<1>>[1] = 1
  BY DEF Bytes, Byte
<1>4. \A p \in Capability : CapField(p)[1] = 1
  BY <1>2, <1>3, ConcatTypes
<1>5. CapField(NoCap)[1] = 0
  BY DEF CapField
<1>6. CASE c.cap = NoCap \/ d.cap = NoCap
  BY <1>1, <1>4, <1>5, <1>6
<1>7. CASE c.cap # NoCap /\ d.cap # NoCap
  <2>1. c.cap \in Capability /\ d.cap \in Capability
    BY <1>1, <1>7
  <2>2. <<1>> \o EncodeProp[c.cap] = <<1>> \o EncodeProp[d.cap]
    BY <1>2, <2>1
  <2>3. EncodeProp[c.cap] = EncodeProp[d.cap]
    BY <1>2, <1>3, <2>1, <2>2, CancelPrefix
  <2> QED BY <2>1, <2>3, SigningAssumption
<1> QED BY <1>6, <1>7

\* The bytes of a command determine it (cmd_bytes): the payload is found
\* because no canonical encoding begins another, the capability is the rest.
LEMMA CmdBytesInjective ==
  ASSUME NEW c \in CommandTerm, NEW d \in CommandTerm, CmdBytes(c) = CmdBytes(d)
  PROVE  c = d
<1>1. /\ c.payload \in Payload /\ d.payload \in Payload
      /\ Canonical[c.payload] \in Bytes /\ Canonical[d.payload] \in Bytes
  BY SigningAssumption DEF CommandTerm
<1>2. CapField(c.cap) \in Bytes /\ CapField(d.cap) \in Bytes
  BY CapFieldType DEF CommandTerm
<1>3. Canonical[c.payload] \o CapField(c.cap) = Canonical[d.payload] \o CapField(d.cap)
  BY DEF CmdBytes
<1>4. \/ StartsWith(Canonical[c.payload], Canonical[d.payload])
      \/ StartsWith(Canonical[d.payload], Canonical[c.payload])
  BY <1>1, <1>2, <1>3, OneIsPrefix
<1>5. c.payload = d.payload
  BY <1>1, <1>4, SigningAssumption
<1>6. CapField(c.cap) = CapField(d.cap)
  BY <1>1, <1>2, <1>3, <1>5, CancelPrefix
<1>7. c.cap = d.cap
  BY <1>6, CapFieldInjective
<1> QED BY <1>5, <1>7 DEF CommandTerm

-----------------------------------------------------------------------------
(* The signed strings. *)

\* A domain longer than six bytes gives the seventh byte of what it begins.
LEMMA SeventhByte ==
  ASSUME NEW a \in Bytes, NEW u \in Bytes, Len(a) >= 7
  PROVE  (a \o u)[7] = a[7]
<1>1. Len(a) \in Nat /\ \A i \in 1..Len(a) : (a \o u)[i] = a[i]
  BY ConcatTypes
<1>2. 7 \in 1..Len(a)
  BY <1>1
<1> QED BY <1>1, <1>2

\* The seventh byte of a signed string is c, p or v.
LEMMA DomainByte ==
  ASSUME NEW u \in Bytes
  PROVE  /\ (DOM_CAP \o u)[7] = 99
         /\ (DOM_PROPOSE \o u)[7] = 112
         /\ (DOM_VOTE \o u)[7] = 118
<1>1. (DOM_CAP \o u)[7] = 99
  <2>1. DOM_CAP \in Bytes /\ Len(DOM_CAP) >= 7 /\ DOM_CAP[7] = 99
    BY DEF DOM_CAP, Bytes, Byte
  <2>2. (DOM_CAP \o u)[7] = DOM_CAP[7]
    BY <2>1, SeventhByte
  <2> QED BY <2>1, <2>2
<1>2. (DOM_PROPOSE \o u)[7] = 112
  <2>1. DOM_PROPOSE \in Bytes /\ Len(DOM_PROPOSE) >= 7 /\ DOM_PROPOSE[7] = 112
    BY DEF DOM_PROPOSE, Bytes, Byte
  <2>2. (DOM_PROPOSE \o u)[7] = DOM_PROPOSE[7]
    BY <2>1, SeventhByte
  <2> QED BY <2>1, <2>2
<1>3. (DOM_VOTE \o u)[7] = 118
  <2>1. DOM_VOTE \in Bytes /\ Len(DOM_VOTE) >= 7 /\ DOM_VOTE[7] = 118
    BY DEF DOM_VOTE, Bytes, Byte
  <2>2. (DOM_VOTE \o u)[7] = DOM_VOTE[7]
    BY <2>1, SeventhByte
  <2> QED BY <2>1, <2>2
<1> QED BY <1>1, <1>2, <1>3

\* What follows the domain in a proposal and in a vote.
SlotThenCmd(n, c) == LeBytes(n) \o CmdBytes(c)

\* The four bytes of the slot end where the command begins.
LEMMA SlotFieldSplits ==
  ASSUME NEW s \in Slot32, NEW t \in Slot32, NEW c \in CommandTerm, NEW d \in CommandTerm,
         SlotThenCmd(s, c) = SlotThenCmd(t, d)
  PROVE  s = t /\ c = d
<1>1. /\ LeBytes(s) \in Bytes /\ LeBytes(t) \in Bytes
      /\ CmdBytes(c) \in Bytes /\ CmdBytes(d) \in Bytes
      /\ Len(LeBytes(s)) = 4 /\ Len(LeBytes(t)) = 4
  BY LeBytesType, CmdBytesType
<1>2. \/ StartsWith(LeBytes(s), LeBytes(t)) \/ StartsWith(LeBytes(t), LeBytes(s))
  BY <1>1, OneIsPrefix DEF SlotThenCmd
<1>3. \A i \in 1..4 : LeBytes(s)[i] = LeBytes(t)[i]
  BY <1>1, <1>2 DEF StartsWith
<1>4. LeBytes(s) = LeBytes(t)
  BY <1>3 DEF LeBytes
<1>5. s = t
  BY <1>4, LeBytesInjective
<1>6. CmdBytes(c) = CmdBytes(d)
  BY <1>1, <1>4, CancelPrefix DEF SlotThenCmd
<1> QED BY <1>5, <1>6, CmdBytesInjective

\* A signature given for one purpose can be taken for no other: a capability, a
\* proposal and a vote never sign the same bytes (the domain prefixes).
THEOREM DomainsSeparate ==
  ASSUME NEW c \in CommandTerm, NEW d \in CommandTerm, NEW e \in CommandTerm,
         NEW s \in Slot32, NEW t \in Slot32
  PROVE  /\ CapBytes(c) # ProposeBytes(s, d)
         /\ CapBytes(c) # VoteBytes(t, e)
         /\ ProposeBytes(s, d) # VoteBytes(t, e)
<1>1. CmdBytes(c) \in Bytes
  BY CmdBytesType
<1>2. LeBytes(s) \o CmdBytes(d) \in Bytes
  BY CmdBytesType, LeBytesType, ConcatTypes
<1>3. LeBytes(t) \o CmdBytes(e) \in Bytes
  BY CmdBytesType, LeBytesType, ConcatTypes
<1>4. CapBytes(c)[7] = 99
  BY <1>1, DomainByte DEF CapBytes
<1>5. ProposeBytes(s, d)[7] = 112
  BY <1>2, DomainByte DEF ProposeBytes
<1>6. VoteBytes(t, e)[7] = 118
  BY <1>3, DomainByte DEF VoteBytes
<1> QED BY <1>4, <1>5, <1>6

\* A signed capability is for one command, payload and capability slot alike
\* (cap_msg, "a signature cannot be transplanted").
THEOREM CapabilityBindsCommand ==
  ASSUME NEW c \in CommandTerm, NEW d \in CommandTerm, CapBytes(c) = CapBytes(d)
  PROVE  c = d
<1>1. DOM_CAP \in Bytes
  BY DEF DOM_CAP, Bytes, Byte
<1>2. CmdBytes(c) = CmdBytes(d)
  BY <1>1, CmdBytesType, CancelPrefix DEF CapBytes
<1> QED BY <1>2, CmdBytesInjective

\* A signed proposal is for one slot and one command (propose_msg).
THEOREM ProposalBindsSlotAndCommand ==
  ASSUME NEW s \in Slot32, NEW t \in Slot32, NEW c \in CommandTerm, NEW d \in CommandTerm,
         ProposeBytes(s, c) = ProposeBytes(t, d)
  PROVE  s = t /\ c = d
<1>1. DOM_PROPOSE \in Bytes
  BY DEF DOM_PROPOSE, Bytes, Byte
<1>2. SlotThenCmd(s, c) \in Bytes /\ SlotThenCmd(t, d) \in Bytes
  BY CmdBytesType, LeBytesType, ConcatTypes DEF SlotThenCmd
<1>3. SlotThenCmd(s, c) = SlotThenCmd(t, d)
  <2>1. DOM_PROPOSE \o SlotThenCmd(s, c) = DOM_PROPOSE \o SlotThenCmd(t, d)
    BY DEF ProposeBytes, SlotThenCmd
  <2> QED BY <1>1, <1>2, <2>1, CancelPrefix
<1> QED BY <1>3, SlotFieldSplits

\* A signed vote is for one slot and one command (vote_msg): the record that
\* AuthReplication makes of it says all that was signed, and no more.
THEOREM VoteBindsSlotAndCommand ==
  ASSUME NEW s \in Slot32, NEW t \in Slot32, NEW c \in CommandTerm, NEW d \in CommandTerm,
         VoteBytes(s, c) = VoteBytes(t, d)
  PROVE  s = t /\ c = d
<1>1. DOM_VOTE \in Bytes
  BY DEF DOM_VOTE, Bytes, Byte
<1>2. SlotThenCmd(s, c) \in Bytes /\ SlotThenCmd(t, d) \in Bytes
  BY CmdBytesType, LeBytesType, ConcatTypes DEF SlotThenCmd
<1>3. SlotThenCmd(s, c) = SlotThenCmd(t, d)
  <2>1. DOM_VOTE \o SlotThenCmd(s, c) = DOM_VOTE \o SlotThenCmd(t, d)
    BY DEF VoteBytes, SlotThenCmd
  <2> QED BY <1>1, <1>2, <2>1, CancelPrefix
<1> QED BY <1>3, SlotFieldSplits
=============================================================================
