-------------------------- MODULE NetClusterProofs --------------------------
(***************************************************************************)
(* Theorems about NetCluster for every cluster size, leader, workload,     *)
(* store and command set, every choice of crashed replicas and every       *)
(* schedule.  The runs of MCNetCluster check the same formulas on small    *)
(* instances.                                                              *)
(***************************************************************************)
EXTENDS NetCluster, RsmProofs, FiniteSetTheorems, TLAPS

-----------------------------------------------------------------------------
(* The model transitions on a node's own configuration. *)

\* Committing appends to the node's log and leaves its replica where it was.
LEMMA CommitView ==
  ASSUME NEW n, NEW g \in View(n), NEW c \in Command
  PROVE  /\ Commit(g, c) \in View(n)
         /\ Commit(g, c).log = Append(g.log, c)
         /\ Commit(g, c).replicas = g.replicas
BY CommitConfig DEF View

\* world_step keeps the node's log and delivers at most one slot to its replica.
LEMMA WorldStepView ==
  ASSUME NEW n, NEW g \in View(n)
  PROVE  /\ WorldStep(g) \in View(n)
         /\ WorldStep(g).log = g.log
         /\ WorldStep(g).replicas[n] = Deliver(g.log, g.replicas[n])
BY WorldStepConfig DEF View

-----------------------------------------------------------------------------
(* Type correctness. *)

Deliveries == [to : Id, msg : Msg]

\* Every message the node builds, and the deliveries it is put into, are well
\* typed (net.rs broadcast and send).
LEMMA MsgTypes ==
  ASSUME NEW s \in Nat, NEW c \in Command, NEW n \in Id
  PROVE  /\ Propose(s, c) \in Msg /\ Vote(s, n, c) \in Msg /\ CommitOf(s, c) \in Msg
         /\ \A m \in Msg : ToPeers(n, m) \subseteq Deliveries /\ To(n, m) \subseteq Deliveries
  BY DEF Msg, ProposeMsg, VoteMsg, CommitMsg, Propose, Vote, CommitOf, ToPeers, To,
         Deliveries

\* What the type invariant says of one node's own configuration.
LEMMA ViewFields ==
  ASSUME TypeOK, NEW n \in Id
  PROVE  /\ view[n] \in View(n)
         /\ Log(n) \in Seq(Command) /\ NextSlot(n) \in Nat
         /\ view[n].replicas \in [{n} -> Replica]
         /\ Applied(n) \in Nat /\ StoreOf(n) \in Store
  BY DEF TypeOK, View, GlobalConfig, Log, NextSlot, Applied, StoreOf, Replica

\* What decide_if_quorum leaves, in terms of types.
LEMMA DecideTypes ==
  ASSUME TypeOK, NEW n \in Id, NEW b \in [Id -> Command \cup {None}],
         NEW p \in Command \cup {None}, NEW slot \in Nat, NEW cmd \in Command,
         NEW pending \in SUBSET Deliveries, NEW drain \in Labels, NEW undecided \in Labels,
         DecideIfQuorum(n, b, p, slot, cmd, pending, drain, undecided)
  PROVE  /\ ballot' \in [Id -> Command \cup {None}]
         /\ proposing' \in Command \cup {None}
         /\ DOMAIN view' = Id /\ \A m \in Id : view'[m] \in View(m)
         /\ outbox' \in [Id -> SUBSET Deliveries]
         /\ pc' \in [Id -> Labels]
<1> USE DEF TypeOK
<1>1. CASE Decided(b, cmd)
  <2>1. /\ proposing' = None /\ ballot' = EmptyBallot
        /\ view' = [view EXCEPT ![n] = Commit(@, cmd)]
        /\ outbox' = [outbox EXCEPT ![n] = pending \cup ToPeers(n, CommitOf(slot, cmd))]
        /\ pc' = [pc EXCEPT ![n] = drain]
    BY <1>1 DEF DecideIfQuorum, OnQuorum, Goto
  <2>2. Commit(view[n], cmd) \in View(n)
    BY CommitView
  <2>3. pending \cup ToPeers(n, CommitOf(slot, cmd)) \subseteq Deliveries
    BY MsgTypes
  <2>4. DOMAIN view' = Id /\ \A m \in Id : view'[m] \in View(m)
    BY <2>1, <2>2
  <2>5. outbox' \in [Id -> SUBSET Deliveries]
    BY <2>1, <2>3 DEF Deliveries
  <2> QED BY <2>1, <2>4, <2>5 DEF EmptyBallot
<1>2. CASE ~Decided(b, cmd)
  <2>1. /\ proposing' = p /\ ballot' = b /\ view' = view
        /\ outbox' = [outbox EXCEPT ![n] = pending]
        /\ pc' = [pc EXCEPT ![n] = undecided]
    BY <1>2 DEF DecideIfQuorum, OnQuorum, Goto
  <2> QED BY <2>1 DEF Deliveries
<1> QED BY <1>1, <1>2

\* What a received message is.
LEMMA ReceiveTypes ==
  ASSUME TypeOK, NEW n \in Id, Receive(n)
  PROVE  /\ Head(chan[n]) \in Msg
         /\ chan' \in [Id -> Seq(Msg)]
  BY DEF TypeOK, Receive

\* The fields that every message carries; only a vote names its sender.
LEMMA MsgFields ==
  ASSUME NEW m \in Msg
  PROVE  /\ m.slot \in Nat /\ m.cmd \in Command
         /\ m.type = "vote" => m.from \in Id
  BY DEF Msg, ProposeMsg, VoteMsg, CommitMsg

\* What a node reports when it returns is a well-typed outcome (net.rs
\* NodeOutcome).
LEMMA OutcomeType ==
  ASSUME TypeOK, NEW settled \in BOOLEAN
  PROVE  IsOutcome(Outcome(settled))
  BY DEF TypeOK, IsOutcome, Outcome, Published

\* The type invariant holds initially and every step of a node keeps it.
THEOREM TypeInductive ==
  /\ Init => TypeOK
  /\ TypeOK /\ [Next]_vars => TypeOK'
<1>1. Init => TypeOK
  <2> SUFFICES ASSUME Init PROVE TypeOK
    OBVIOUS
  <2>1. \A n \in Id : view[n] \in View(n)
    BY RsmAssumption DEF Init, View, GlobalConfig, FreshReplica, Replica
  <2>2. nextCmd \in 0..Expected
    BY ClusterAssumption DEF Init, Expected
  <2>3. pc \in [Id -> Labels] /\ ballot \in [Id -> Command \cup {None}]
    BY DEF Init, Labels, EmptyBallot
  <2>4. outbox \in [Id -> SUBSET [to : Id, msg : Msg]] /\ chan \in [Id -> Seq(Msg)]
    BY DEF Init
  <2>5. DOMAIN view = Id /\ DOMAIN snapshot = Id /\ \A n \in Id : snapshot[n] = None
    BY DEF Init
  <2> QED BY <2>1, <2>2, <2>3, <2>4, <2>5 DEF Init, TypeOK
<1>2. TypeOK /\ [Next]_vars => TypeOK'
  <2> SUFFICES ASSUME TypeOK, [Next]_vars PROVE TypeOK'
    OBVIOUS
  <2>1. ASSUME NEW n \in Id, DriveSubmit(n) PROVE TypeOK'
    <3>1. /\ Submit(n, Workload[nextCmd + 1]) /\ MayDrive(n) /\ nextCmd' = nextCmd + 1
          /\ UNCHANGED <<crashed, chan, snapshot, outcome>>
      BY <2>1 DEF DriveSubmit
    <3>2. Workload[nextCmd + 1] \in Command /\ nextCmd' \in 0..Expected
      BY <3>1, ClusterAssumption DEF MayDrive, Expected, TypeOK
    <3>3. NextSlot(n) \in Nat
      BY ViewFields
    <3>4. outbox[n] \cup ToPeers(n, Propose(NextSlot(n), Workload[nextCmd + 1]))
            \in SUBSET Deliveries
      BY <3>2, <3>3, MsgTypes DEF TypeOK, Deliveries
    <3>5. [EmptyBallot EXCEPT ![n] = Workload[nextCmd + 1]] \in [Id -> Command \cup {None}]
      BY <3>2 DEF EmptyBallot
    <3>6. CASE proposing = None
      <4>1. /\ ballot' \in [Id -> Command \cup {None}]
            /\ proposing' \in Command \cup {None}
            /\ DOMAIN view' = Id /\ \A m \in Id : view'[m] \in View(m)
            /\ outbox' \in [Id -> SUBSET Deliveries]
            /\ pc' \in [Id -> Labels]
        BY <3>1, <3>2, <3>3, <3>4, <3>5, <3>6, DecideTypes DEF Submit, Labels
      <4>2. cast' \subseteq Nat \X Id \X Command
        BY <3>1, <3>2, <3>3, <3>6 DEF Submit, TypeOK
      <4> QED BY <3>1, <3>2, <4>1, <4>2 DEF TypeOK, Deliveries, IsOutcome
    <3>7. CASE proposing # None
      BY <3>1, <3>2, <3>7 DEF Submit, TypeOK, IsOutcome
    <3> QED BY <3>6, <3>7
  <2>2. ASSUME NEW n \in Id, DriveDone(n) PROVE TypeOK'
    BY <2>2 DEF DriveDone, Goto, TypeOK, Labels, leaderVars, IsOutcome
  <2>3. ASSUME NEW n \in Id, NEW label, NEW next \in Labels, Drain(n, label, next)
        PROVE  TypeOK'
    <3>1. WorldStep(view[n]) \in View(n)
      BY WorldStepView DEF TypeOK
    <3>2. DOMAIN view' = Id /\ \A m \in Id : view'[m] \in View(m)
      BY <2>3, <3>1 DEF Drain, TypeOK
    <3>3. pc' \in [Id -> Labels]
      BY <2>3 DEF Drain, Goto, TypeOK
    <3> QED BY <2>3, <3>2, <3>3 DEF Drain, TypeOK, leaderVars, IsOutcome
  <2>4. ASSUME NEW n \in Id, NEW label, Send(n, label) PROVE TypeOK'
    <3>1. chan' \in [Id -> Seq(Msg)]
      BY <2>4 DEF Send, TypeOK
    <3>2. outbox' \in [Id -> SUBSET [to : Id, msg : Msg]]
      BY <2>4 DEF Send, TypeOK
    <3> QED BY <2>4, <3>1, <3>2 DEF Send, TypeOK, leaderVars, IsOutcome
  <2>5. ASSUME NEW n \in Id, NEW label, NEW next \in Labels, Publish(n, label, next)
        PROVE  TypeOK'
    BY <2>5 DEF Publish, Goto, TypeOK, leaderVars, IsOutcome
  <2>6. ASSUME NEW n \in Id, HandleIrrelevant(n) PROVE TypeOK'
    BY <2>6, ReceiveTypes DEF HandleIrrelevant, Goto, TypeOK, Labels, leaderVars, IsOutcome
  <2>7. ASSUME NEW n \in Id, HandlePropose(n) PROVE TypeOK'
    <3>1. Head(chan[n]) \in Msg /\ chan' \in [Id -> Seq(Msg)]
      BY <2>7, ReceiveTypes DEF HandlePropose
    <3> DEFINE m == Head(chan[n])
    <3>2. m.slot \in Nat /\ m.cmd \in Command
      BY <3>1, MsgFields
    <3>3. To(Leader, Vote(m.slot, n, m.cmd)) \in SUBSET Deliveries
      BY <3>2, MsgTypes, ClusterAssumption
    <3>4. outbox' \in [Id -> SUBSET [to : Id, msg : Msg]]
      BY <2>7, <3>3 DEF HandlePropose, TypeOK, Deliveries
    <3>5. cast' \subseteq Nat \X Id \X Command
      BY <2>7, <3>2 DEF HandlePropose, TypeOK
    <3> QED BY <2>7, <3>1, <3>4, <3>5
            DEF HandlePropose, Goto, TypeOK, Labels, leaderVars, IsOutcome
  <2>8. ASSUME NEW n \in Id, HandleVote(n) PROVE TypeOK'
    <3>1. Head(chan[n]) \in Msg /\ chan' \in [Id -> Seq(Msg)]
      BY <2>8, ReceiveTypes DEF HandleVote
    <3> DEFINE m == Head(chan[n])
    <3>2. m.slot \in Nat /\ m.cmd \in Command /\ m.from \in Id
      BY <2>8, <3>1, MsgFields DEF HandleVote
    <3>3. [ballot EXCEPT ![m.from] = m.cmd] \in [Id -> Command \cup {None}]
      BY <3>2 DEF TypeOK
    <3>4. /\ ballot' \in [Id -> Command \cup {None}]
          /\ proposing' \in Command \cup {None}
          /\ DOMAIN view' = Id /\ \A i \in Id : view'[i] \in View(i)
          /\ outbox' \in [Id -> SUBSET Deliveries]
          /\ pc' \in [Id -> Labels]
      BY <2>8, <3>2, <3>3, DecideTypes DEF HandleVote, TypeOK, Labels
    <3> QED BY <2>8, <3>1, <3>4 DEF HandleVote, TypeOK, Deliveries, IsOutcome
  <2>9. ASSUME NEW n \in Id, HandleCommit(n) PROVE TypeOK'
    <3>1. Head(chan[n]) \in Msg /\ chan' \in [Id -> Seq(Msg)]
      BY <2>9, ReceiveTypes DEF HandleCommit
    <3>2. Commit(view[n], Head(chan[n]).cmd) \in View(n)
      BY <3>1, MsgFields, CommitView DEF TypeOK
    <3>3. DOMAIN view' = Id /\ \A m \in Id : view'[m] \in View(m)
      BY <2>9, <3>2 DEF HandleCommit, TypeOK
    <3> QED BY <2>9, <3>1, <3>3 DEF HandleCommit, Goto, TypeOK, Labels, leaderVars, IsOutcome
  <2>10. ASSUME NEW n \in Id, Exit(n) PROVE TypeOK'
    BY <2>10 DEF Exit, Goto, TypeOK, Labels, leaderVars, IsOutcome
  <2>11. CASE Join \/ Timeout
    <3>1. \E settled \in BOOLEAN : outcome' = Outcome(settled)
      BY <2>11 DEF Join, Timeout
    <3>2. IsOutcome(outcome')
      BY <3>1, OutcomeType
    <3> QED BY <2>11, <3>2 DEF Join, Timeout, TypeOK, leaderVars, IsOutcome
  <2>12. CASE UNCHANGED vars
    BY <2>12 DEF vars, TypeOK, IsOutcome
  <2>13. ASSUME NEW n \in Id, Task(n) PROVE TypeOK'
    BY <2>13, <2>1, <2>2, <2>3, <2>4, <2>5, <2>6, <2>7, <2>8, <2>9, <2>10
       DEF Task, Labels
  <2> QED BY <2>11, <2>12, <2>13 DEF Next, Returned
<1> QED BY <1>1, <1>2

\* Every reachable state is well typed.
THEOREM TypeCorrect == Spec => []TypeOK
  BY TypeInductive, PTL DEF Spec

-----------------------------------------------------------------------------
(* Quorums. *)

\* The cluster has N nodes, finitely many, the leader among them.
LEMMA IdFinite == IsFiniteSet(Id) /\ Cardinality(Id) = N /\ Leader \in Id
  BY ClusterAssumption, FS_Interval DEF Id

\* Adding replicas to a quorum leaves a quorum (consensus.rs is_quorum).
LEMMA QuorumMonotone ==
  ASSUME NEW S, NEW T \in SUBSET Id, S \subseteq T, IsQuorum(Cardinality(S), N)
  PROVE  IsQuorum(Cardinality(T), N)
<1>1. IsFiniteSet(T) /\ IsFiniteSet(S)
  BY IdFinite, FS_Subset
<1>2. Cardinality(S) <= Cardinality(T) /\ Cardinality(S) \in Nat /\ Cardinality(T) \in Nat
  BY <1>1, FS_Subset, FS_CardinalityType
<1> QED BY <1>2, ClusterAssumption DEF IsQuorum

\* A ballot that decides a command, and holds only votes really cast for the
\* slot in flight, is a quorum of replicas that voted for it there.
LEMMA DecidedIsBacked ==
  ASSUME NEW b \in [Id -> Command \cup {None}], NEW c \in Command, NEW votes,
         BallotIsOfThisSlot(b, votes), Decided(b, c)
  PROVE  IsQuorum(Cardinality({r \in Id : <<NextSlot(Leader), r, c>> \in votes}), N)
<1>1. DOMAIN b = Id /\ IsQuorum(Cardinality(Supporters(b, c)), N)
  BY IdFinite DEF Decided
<1>2. Supporters(b, c) \subseteq {r \in Id : <<NextSlot(Leader), r, c>> \in votes}
  BY <1>1, ClusterAssumption DEF Supporters, BallotIsOfThisSlot
<1> QED BY <1>1, <1>2, QuorumMonotone

-----------------------------------------------------------------------------
(* The three shapes a step can have, as far as ClusterInv can tell. *)

\* No log moves: what is new under way is truthful, and so is the ballot.
LEMMA QuietStep ==
  ASSUME ClusterInv, TypeOK,
         \A n \in Id : Log(n)' = Log(n),
         cast \subseteq cast',
         \A m \in Transit' : m \in Transit \/ Truthful(m)',
         BallotIsOfThisSlot(ballot, cast)'
  PROVE  ClusterInv'
<1> USE DEF ClusterInv
<1>1. LogsFollowLeader' /\ LogIsWorkload'
  BY IdFinite DEF LogsFollowLeader, LogIsWorkload
<1>2. QuorumBacked'
  <2> SUFFICES ASSUME NEW n \in Id, NEW i \in DOMAIN Log(n)
               PROVE  IsQuorum(Cardinality(Voters(i - 1, Log(n)[i])'), N)
    BY DEF QuorumBacked
  <2>1. IsQuorum(Cardinality(Voters(i - 1, Log(n)[i])), N)
    BY DEF QuorumBacked
  <2>2. Voters(i - 1, Log(n)[i]) \subseteq Voters(i - 1, Log(n)[i])'
    BY DEF Voters
  <2> QED BY <2>1, <2>2, QuorumMonotone DEF Voters
<1>3. ASSUME NEW m \in Transit' PROVE Truthful(m)'
  <2>1. CASE m \in Transit
    BY <2>1, IdFinite DEF Truthful
  <2> QED BY <1>3, <2>1
<1> QED BY <1>1, <1>2, <1>3

\* The leader decides the workload's next command on an honest ballot.
LEMMA DecideStep ==
  ASSUME ClusterInv, TypeOK, NEW c, NextSlot(Leader) < Expected,
         c = Workload[NextSlot(Leader) + 1],
         Log(Leader)' = Append(Log(Leader), c),
         \A n \in Id \ {Leader} : Log(n)' = Log(n),
         cast \subseteq cast',
         IsQuorum(Cardinality({r \in Id : <<NextSlot(Leader), r, c>> \in cast'}), N),
         \A m \in Transit' : m \in Transit \/ Truthful(m)',
         ballot' = EmptyBallot
  PROVE  ClusterInv'
<1> USE DEF ClusterInv
<1>L. PICK L : L = Log(Leader)
  OBVIOUS
<1>M. PICK M : M = Log(Leader)'
  OBVIOUS
<1>1. /\ Leader \in Id /\ L \in Seq(Command) /\ Len(L) = NextSlot(Leader)
      /\ \A n \in Id : Log(n) \in Seq(Command)
  BY <1>L, IdFinite, ViewFields DEF NextSlot
<1>2. c \in Command
  BY <1>1, ClusterAssumption DEF Expected
<1>3. /\ DOMAIN M = 1..(Len(L) + 1) /\ Len(M) = Len(L) + 1
      /\ \A i \in DOMAIN L : i \in DOMAIN M /\ M[i] = L[i]
      /\ M[Len(L) + 1] = c
  BY <1>1, <1>2, <1>L, <1>M
<1>4. LogsFollowLeader'
  <2> SUFFICES ASSUME NEW n \in Id, NEW i \in DOMAIN (Log(n)')
               PROVE  i \in DOMAIN (Log(Leader)') /\ Log(n)'[i] = Log(Leader)'[i]
    BY DEF LogsFollowLeader
  <2>1. CASE n = Leader
    BY <2>1
  <2>2. CASE n # Leader
    BY <2>2, <1>3, <1>L, <1>M DEF LogsFollowLeader
  <2> QED BY <2>1, <2>2
<1>5. LogIsWorkload'
  <2>1. Len(M) <= Expected /\ \A i \in DOMAIN M : M[i] = Workload[i]
    <3>1. \A i \in DOMAIN L : L[i] = Workload[i]
      BY <1>1, <1>L DEF LogIsWorkload
    <3>2. Expected \in Nat /\ Len(L) \in Nat /\ DOMAIN L = 1..Len(L)
      BY <1>1, ClusterAssumption DEF Expected
    <3> QED BY <1>1, <1>3, <1>L, <3>1, <3>2
  <2>2. \A n \in Id \ {Leader} : Len(Log(n)') <= Expected
                               /\ \A i \in DOMAIN (Log(n)') : Log(n)'[i] = Workload[i]
    BY DEF LogIsWorkload
  <2> QED BY <2>1, <2>2, <1>M DEF LogIsWorkload, Expected
<1>6. QuorumBacked'
  <2>1. ASSUME NEW i \in DOMAIN M
        PROVE  IsQuorum(Cardinality(Voters(i - 1, M[i])'), N)
    <3>1. CASE i \in DOMAIN L
      <4>1. IsQuorum(Cardinality(Voters(i - 1, L[i])), N)
        BY <3>1, <1>1, <1>L DEF QuorumBacked
      <4>2. M[i] = L[i]
        BY <3>1, <1>3
      <4>3. Voters(i - 1, L[i]) \subseteq {r \in Id : <<i - 1, r, L[i]>> \in cast'}
        BY DEF Voters
      <4> QED BY <4>1, <4>2, <4>3, QuorumMonotone DEF Voters
    <3>2. CASE i = Len(L) + 1
      <4>1. i - 1 = NextSlot(Leader) /\ M[i] = c
        BY <3>2, <1>1, <1>3
      <4> QED BY <4>1 DEF Voters
    <3> QED BY <2>1, <3>1, <3>2, <1>1, <1>3
  <2> SUFFICES ASSUME NEW n \in Id, NEW i \in DOMAIN (Log(n)')
               PROVE  IsQuorum(Cardinality(Voters(i - 1, Log(n)[i])'), N)
    BY DEF QuorumBacked
  <2>2. i \in DOMAIN M /\ Log(n)'[i] = M[i]
    BY <1>4, <1>M DEF LogsFollowLeader
  <2> QED BY <2>1, <2>2 DEF Voters
<1>7. ASSUME NEW m \in Transit' PROVE Truthful(m)'
  <2>1. CASE m \in Transit
    <3>1. Truthful(m)
      BY <2>1
    <3>2. m.type = "commit" => m.slot + 1 \in DOMAIN M /\ m.cmd = M[m.slot + 1]
      BY <3>1, <1>3, <1>L DEF Truthful
    <3> QED BY <3>1, <3>2, <1>M DEF Truthful, Expected
  <2> QED BY <1>7, <2>1
<1>8. BallotIsOfThisSlot(ballot, cast)'
  BY DEF BallotIsOfThisSlot, EmptyBallot
<1> QED BY <1>4, <1>5, <1>6, <1>7, <1>8

\* A follower appends the leader's entry for the slot it waits on.
LEMMA FollowStep ==
  ASSUME ClusterInv, TypeOK, NEW n \in Id \ {Leader}, NEW c,
         NextSlot(n) + 1 \in DOMAIN Log(Leader), c = Log(Leader)[NextSlot(n) + 1],
         Log(n)' = Append(Log(n), c),
         \A k \in Id \ {n} : Log(k)' = Log(k),
         UNCHANGED <<cast, ballot>>,
         Transit' \subseteq Transit
  PROVE  ClusterInv'
<1> USE DEF ClusterInv
<1>1. /\ Leader \in Id /\ Log(n) \in Seq(Command) /\ Log(Leader) \in Seq(Command)
      /\ Len(Log(n)) = NextSlot(n) /\ Log(Leader)' = Log(Leader)
  BY IdFinite, ViewFields DEF NextSlot
<1>2. c \in Command
  BY <1>1
<1>3. \A i \in DOMAIN (Log(n)') : i \in DOMAIN Log(Leader) /\ Log(n)'[i] = Log(Leader)[i]
  BY <1>1, <1>2 DEF LogsFollowLeader
<1>4. LogsFollowLeader'
  BY <1>1, <1>3 DEF LogsFollowLeader
<1>5. LogIsWorkload'
  <2>1. \A i \in DOMAIN Log(Leader) : Log(Leader)[i] = Workload[i]
    BY <1>1 DEF LogIsWorkload
  <2>2. Len(Log(n)') <= Expected
    BY <1>1, <1>2, ClusterAssumption DEF LogIsWorkload, Expected
  <2> QED BY <1>3, <2>1, <2>2 DEF LogIsWorkload, Expected
<1>6. QuorumBacked'
  <2>1. \A i \in DOMAIN Log(Leader) : IsQuorum(Cardinality(Voters(i - 1, Log(Leader)[i])), N)
    BY <1>1 DEF QuorumBacked
  <2>2. \A s, d : Voters(s, d)' = Voters(s, d)
    BY DEF Voters
  <2>3. \A k \in Id : \A i \in DOMAIN (Log(k)') :
          IsQuorum(Cardinality(Voters(i - 1, Log(k)'[i])), N)
    BY <1>3, <2>1 DEF QuorumBacked
  <2> QED BY <2>2, <2>3 DEF QuorumBacked, Voters
<1>7. ASSUME NEW m \in Transit' PROVE Truthful(m)'
  BY <1>7, <1>1 DEF Truthful, Expected
<1>8. BallotIsOfThisSlot(ballot, cast)'
  BY <1>1 DEF BallotIsOfThisSlot, NextSlot
<1> QED BY <1>4, <1>5, <1>6, <1>7, <1>8

-----------------------------------------------------------------------------
(* What is under way after a step. *)

\* A message is under way when it waits in some queue or some outbox.
LEMMA TransitMembers ==
  /\ \A m : m \in Transit <=> \E k \in Id : m \in Queued(k) \/ \E o \in outbox[k] : m = o.msg
  /\ \A m : m \in Transit' <=> \E k \in Id : m \in Queued(k)' \/ \E o \in outbox'[k] : m = o.msg
  BY DEF Transit

\* A step that replaces n's outbox by S and adds nothing to any queue.
LEMMA TransitGrowth ==
  ASSUME TypeOK, NEW n \in Id, NEW S, outbox' = [outbox EXCEPT ![n] = S],
         \A k \in Id : Queued(k)' \subseteq Queued(k)
  PROVE  \A m \in Transit' : m \in Transit \/ \E o \in S : m = o.msg
<1> SUFFICES ASSUME NEW m \in Transit', m \notin Transit
             PROVE  \E o \in S : m = o.msg
  OBVIOUS
<1>1. PICK k \in Id : m \in Queued(k)' \/ \E o \in outbox'[k] : m = o.msg
  BY TransitMembers
<1>2. outbox'[k] = IF k = n THEN S ELSE outbox[k]
  BY DEF TypeOK
<1> QED BY <1>1, <1>2, TransitMembers

\* A node that receives takes the head of its queue and adds to none.
LEMMA ReceiveShrinks ==
  ASSUME TypeOK, NEW n \in Id, Receive(n)
  PROVE  /\ Head(chan[n]) \in Transit
         /\ \A k \in Id : Queued(k)' \subseteq Queued(k)
<1>1. /\ chan[n] \in Seq(Msg) /\ chan[n] # << >>
      /\ chan' = [chan EXCEPT ![n] = Tail(chan[n])]
  BY DEF TypeOK, Receive
<1>2. Head(chan[n]) = chan[n][1] /\ 1 \in DOMAIN chan[n]
  BY <1>1
<1>3. \A i \in DOMAIN Tail(chan[n]) : i + 1 \in DOMAIN chan[n] /\ Tail(chan[n])[i] = chan[n][i + 1]
  BY <1>1
<1>4. Queued(n)' \subseteq Queued(n)
  <2>1. chan'[n] = Tail(chan[n])
    BY <1>1 DEF TypeOK
  <2> QED BY <2>1, <1>3 DEF Queued
<1>5. \A k \in Id \ {n} : Queued(k)' = Queued(k)
  BY <1>1 DEF Queued, TypeOK
<1>6. Head(chan[n]) \in Queued(n)
  BY <1>2 DEF Queued
<1> QED BY <1>4, <1>5, <1>6, TransitMembers

\* Sending moves a delivery from an outbox to a queue, or loses it: nothing new
\* is under way afterwards (net.rs send).
LEMMA SendMoves ==
  ASSUME TypeOK, NEW n \in Id, NEW label, Send(n, label)
  PROVE  Transit' \subseteq Transit
<1>1. PICK o \in outbox[n] :
        /\ outbox' = [outbox EXCEPT ![n] = @ \ {o}]
        /\ chan' = chan \/ chan' = [chan EXCEPT ![o.to] = Append(@, o.msg)]
  BY DEF Send
<1>2. o.to \in Id /\ o.msg \in Msg
  BY DEF TypeOK
<1>3. \A k \in Id : outbox'[k] \subseteq outbox[k]
  BY <1>1 DEF TypeOK
<1>4. ASSUME NEW k \in Id PROVE Queued(k)' \subseteq Queued(k) \cup {o.msg}
  <2>1. CASE chan' = chan \/ k # o.to
    BY <1>1, <2>1 DEF Queued, TypeOK
  <2>2. CASE chan' = [chan EXCEPT ![o.to] = Append(@, o.msg)] /\ k = o.to
    <3>1. chan[k] \in Seq(Msg) /\ chan'[k] = Append(chan[k], o.msg)
      BY <2>2, <1>2 DEF TypeOK
    <3>2. \A i \in DOMAIN Append(chan[k], o.msg) :
            \/ i \in DOMAIN chan[k] /\ Append(chan[k], o.msg)[i] = chan[k][i]
            \/ Append(chan[k], o.msg)[i] = o.msg
      BY <3>1, <1>2
    <3> QED BY <3>1, <3>2 DEF Queued
  <2> QED BY <1>1, <2>1, <2>2
<1>5. o.msg \in Transit
  BY <1>1, TransitMembers
<1> SUFFICES ASSUME NEW m \in Transit' PROVE m \in Transit
  OBVIOUS
<1>6. PICK k \in Id : m \in Queued(k)' \/ \E p \in outbox'[k] : m = p.msg
  BY TransitMembers
<1> QED BY <1>3, <1>4, <1>5, <1>6, TransitMembers

-----------------------------------------------------------------------------
(* decide_if_quorum keeps the invariant, from submit and from a vote alike. *)

\* On an honest ballot that asks about the workload's next command, the leader's
\* decide_if_quorum keeps the invariant whether or not it finds a quorum.
LEMMA DecideInv ==
  ASSUME ClusterInv, TypeOK,
         NEW b \in [Id -> Command \cup {None}], NEW p, NEW c \in Command,
         NEW slot, slot = NextSlot(Leader), slot < Expected, c = Workload[slot + 1],
         cast \subseteq cast', BallotIsOfThisSlot(b, cast'),
         NEW pending, NEW drain, NEW undecided,
         \A o \in pending : \/ o.msg \in Transit
                            \/ o.msg = Propose(slot, c),
         \A k \in Id : Queued(k)' \subseteq Queued(k),
         DecideIfQuorum(Leader, b, p, slot, c, pending, drain, undecided)
  PROVE  ClusterInv'
<1>1. Leader \in Id /\ Log(Leader) \in Seq(Command)
  BY IdFinite, ViewFields
<1>2. Truthful(Propose(slot, c))'
  BY DEF Truthful, Propose, Expected
<1>3. CASE Decided(b, c)
  <2>1. /\ ballot' = EmptyBallot
        /\ view' = [view EXCEPT ![Leader] = Commit(@, c)]
        /\ outbox' = [outbox EXCEPT ![Leader] = pending \cup ToPeers(Leader, CommitOf(slot, c))]
    BY <1>3 DEF DecideIfQuorum, OnQuorum
  <2>2. /\ Log(Leader)' = Append(Log(Leader), c)
        /\ \A n \in Id \ {Leader} : Log(n)' = Log(n)
    BY <2>1, <1>1, CommitView DEF Log, TypeOK
  <2>3. Truthful(CommitOf(slot, c))'
    BY <2>2, <1>1 DEF Truthful, CommitOf, NextSlot, Expected
  <2>4. \A m \in Transit' : m \in Transit \/ Truthful(m)'
    <3>1. \A m \in Transit' : \/ m \in Transit
                              \/ \E o \in pending \cup ToPeers(Leader, CommitOf(slot, c)) : m = o.msg
      BY <2>1, <1>1, TransitGrowth
    <3> QED BY <3>1, <2>3, <1>2 DEF ToPeers
  <2>5. IsQuorum(Cardinality({r \in Id : <<NextSlot(Leader), r, c>> \in cast'}), N)
    BY <1>3, DecidedIsBacked
  <2> QED BY <2>1, <2>2, <2>4, <2>5, DecideStep
<1>4. CASE ~Decided(b, c)
  <2>1. /\ ballot' = b /\ view' = view
        /\ outbox' = [outbox EXCEPT ![Leader] = pending]
    BY <1>4 DEF DecideIfQuorum, OnQuorum
  <2>2. \A n \in Id : Log(n)' = Log(n)
    BY <2>1 DEF Log
  <2>3. \A m \in Transit' : m \in Transit \/ \E o \in pending : m = o.msg
    BY <2>1, <1>1, TransitGrowth
  <2>4. \A m \in Transit' : m \in Transit \/ Truthful(m)'
    BY <2>3, <1>2
  <2>5. BallotIsOfThisSlot(ballot, cast)'
    BY <2>1, <2>2, <1>1 DEF BallotIsOfThisSlot, NextSlot
  <2> QED BY <2>2, <2>4, <2>5, QuietStep
<1> QED BY <1>3, <1>4

-----------------------------------------------------------------------------
(* The invariant is inductive. *)

\* Steps that leave every log, the ballot and the votes alone and put nothing
\* new under way.
LEMMA IdleStep ==
  ASSUME ClusterInv, TypeOK, \A n \in Id : Log(n)' = Log(n),
         UNCHANGED <<ballot, cast>>, Transit' \subseteq Transit
  PROVE  ClusterInv'
<1>1. BallotIsOfThisSlot(ballot, cast)'
  BY IdFinite DEF ClusterInv, BallotIsOfThisSlot, NextSlot
<1> QED BY <1>1, QuietStep

\* Logs follow the leader, logs follow the workload, what is under way is true,
\* every commit has its quorum, and the ballot is of the slot in flight:
\* together these hold initially and every step of a node keeps them.
THEOREM ClusterInductive ==
  /\ Init => ClusterInv
  /\ ClusterInv /\ TypeOK /\ [Next]_vars => ClusterInv'
<1>1. Init => ClusterInv
  <2> SUFFICES ASSUME Init PROVE ClusterInv
    OBVIOUS
  <2>1. \A n \in Id : Log(n) = << >> /\ outbox[n] = {} /\ chan[n] = << >>
    BY DEF Init, Log
  <2>2. Transit = {}
    BY <2>1 DEF Transit, Queued
  <2>3. LogIsWorkload
    BY <2>1, ClusterAssumption DEF LogIsWorkload, Expected
  <2>4. LogsFollowLeader /\ QuorumBacked
    BY <2>1 DEF LogsFollowLeader, QuorumBacked
  <2>5. BallotIsOfThisSlot(ballot, cast)
    BY DEF Init, BallotIsOfThisSlot, EmptyBallot
  <2> QED BY <2>2, <2>3, <2>4, <2>5 DEF ClusterInv
<1>2. ClusterInv /\ TypeOK /\ [Next]_vars => ClusterInv'
  <2> SUFFICES ASSUME ClusterInv, TypeOK, [Next]_vars PROVE ClusterInv'
    OBVIOUS
  <2>1. ASSUME NEW n \in Id, DriveSubmit(n) PROVE ClusterInv'
    <3> DEFINE c == Workload[nextCmd + 1]
    <3>1. /\ n = Leader /\ nextCmd < Expected /\ NextSlot(Leader) = nextCmd
          /\ Submit(n, c) /\ UNCHANGED chan
      BY <2>1 DEF DriveSubmit, MayDrive, NextSlot
    <3>2. c \in Command /\ nextCmd \in Nat
      BY <3>1, ClusterAssumption DEF Expected, TypeOK
    <3>3. CASE proposing = None
      <4> DEFINE b == [EmptyBallot EXCEPT ![Leader] = c]
                 pending == outbox[Leader] \cup ToPeers(Leader, Propose(nextCmd, c))
      <4>1. /\ DecideIfQuorum(Leader, b, c, nextCmd, c, pending, "drain_driven", "drive")
            /\ cast' = cast \cup {<<nextCmd, Leader, c>>}
        BY <3>1, <3>3 DEF Submit
      <4>2. BallotIsOfThisSlot(b, cast')
        BY <4>1, <3>1 DEF BallotIsOfThisSlot, EmptyBallot
      <4>3. b \in [Id -> Command \cup {None}]
        BY <3>2 DEF EmptyBallot
      <4>4. \A o \in pending : o.msg \in Transit \/ o.msg = Propose(nextCmd, c)
        BY IdFinite, TransitMembers DEF ToPeers
      <4>5. \A k \in Id : Queued(k)' \subseteq Queued(k)
        BY <3>1 DEF Queued
      <4>6. c = Workload[nextCmd + 1] /\ cast \subseteq cast'
        BY <4>1
      <4> HIDE DEF c, b, pending
      <4> QED BY <3>1, <3>2, <4>1, <4>2, <4>3, <4>4, <4>5, <4>6, DecideInv
    <3>4. CASE proposing # None
      BY <3>1, <3>4, IdleStep DEF Submit, Log, Transit, Queued
    <3> QED BY <3>3, <3>4
  <2>2. ASSUME NEW n \in Id, DriveDone(n) PROVE ClusterInv'
    BY <2>2, IdleStep DEF DriveDone, leaderVars, Log, Transit, Queued
  <2>3. ASSUME NEW n \in Id, NEW label, NEW next, Drain(n, label, next) PROVE ClusterInv'
    <3>1. \A k \in Id : Log(k)' = Log(k)
      BY <2>3, WorldStepView DEF Drain, Log, TypeOK
    <3>2. Transit' = Transit /\ UNCHANGED <<ballot, cast>>
      BY <2>3 DEF Drain, leaderVars, Transit, Queued
    <3> QED BY <3>1, <3>2, IdleStep
  <2>4. ASSUME NEW n \in Id, NEW label, Send(n, label) PROVE ClusterInv'
    BY <2>4, SendMoves, IdleStep DEF Send, leaderVars, Log
  <2>5. ASSUME NEW n \in Id, NEW label, NEW next, Publish(n, label, next)
        PROVE  ClusterInv'
    BY <2>5, IdleStep DEF Publish, leaderVars, Log, Transit, Queued
  <2>6. ASSUME NEW n \in Id, HandleIrrelevant(n) PROVE ClusterInv'
    <3>1. Transit' \subseteq Transit
      BY <2>6, ReceiveShrinks, TransitMembers DEF HandleIrrelevant
    <3> QED BY <2>6, <3>1, IdleStep DEF HandleIrrelevant, leaderVars, Log
  <2>7. ASSUME NEW n \in Id, HandlePropose(n) PROVE ClusterInv'
    <3>m. PICK m : m = Head(chan[n])
      OBVIOUS
    <3>v. PICK v : v = Vote(m.slot, n, m.cmd)
      OBVIOUS
    <3>1. /\ Receive(n) /\ UNCHANGED <<view, ballot>>
          /\ outbox' = [outbox EXCEPT ![n] = To(Leader, v)]
          /\ cast' = cast \cup {<<m.slot, n, m.cmd>>}
      BY <2>7, <3>m, <3>v DEF HandlePropose, leaderVars
    <3>2. m \in Transit /\ \A k \in Id : Queued(k)' \subseteq Queued(k)
      BY <3>1, <3>m, ReceiveShrinks
    <3>3. Truthful(v)'
      <4>1. Truthful(m)
        BY <3>2 DEF ClusterInv
      <4>2. v.type = "vote" /\ v.slot = m.slot /\ v.from = n /\ v.cmd = m.cmd
        BY <3>v DEF Vote
      <4> QED BY <4>1, <4>2, <3>1 DEF Truthful, Expected
    <3>4. \A x \in Transit' : x \in Transit \/ Truthful(x)'
      <4>1. \A x \in Transit' : x \in Transit \/ \E o \in To(Leader, v) : x = o.msg
        BY <3>1, <3>2, TransitGrowth
      <4> QED BY <4>1, <3>3 DEF To
    <3>5. BallotIsOfThisSlot(ballot, cast)'
      BY <3>1 DEF ClusterInv, BallotIsOfThisSlot, NextSlot, Log
    <3>6. cast \subseteq cast' /\ \A k \in Id : Log(k)' = Log(k)
      BY <3>1 DEF Log
    <3> QED BY <3>4, <3>5, <3>6, QuietStep
  <2>8. ASSUME NEW n \in Id, HandleVote(n) PROVE ClusterInv'
    <3> DEFINE m == Head(chan[n])
               b == [ballot EXCEPT ![m.from] = m.cmd]
    <3>1. /\ Receive(n) /\ n = Leader /\ m.type = "vote" /\ m.slot = NextSlot(Leader)
          /\ UNCHANGED cast
          /\ DecideIfQuorum(Leader, b, proposing, m.slot, m.cmd, {},
                            "drain_handled", "send_handled")
      BY <2>8 DEF HandleVote
    <3>2. m \in Transit /\ \A k \in Id : Queued(k)' \subseteq Queued(k)
      BY <3>1, ReceiveShrinks
    <3>3. m \in Msg
      BY <3>1, ReceiveTypes
    <3>4. m.slot \in Nat /\ m.cmd \in Command /\ m.from \in Id
      BY <3>1, <3>3, MsgFields
    <3>5. /\ m.slot < Expected /\ m.cmd = Workload[m.slot + 1]
          /\ <<m.slot, m.from, m.cmd>> \in cast
      BY <3>1, <3>2 DEF ClusterInv, Truthful
    <3>6. b \in [Id -> Command \cup {None}]
      BY <3>4 DEF TypeOK
    <3>7. BallotIsOfThisSlot(b, cast')
      BY <3>1, <3>4, <3>5 DEF ClusterInv, BallotIsOfThisSlot, TypeOK
    <3> HIDE DEF m, b
    <3> QED BY <3>1, <3>2, <3>4, <3>5, <3>6, <3>7, DecideInv
  <2>9. ASSUME NEW n \in Id, HandleCommit(n) PROVE ClusterInv'
    <3> DEFINE m == Head(chan[n])
    <3>1. /\ Receive(n) /\ m.type = "commit" /\ m.slot = NextSlot(n)
          /\ view' = [view EXCEPT ![n] = Commit(@, m.cmd)]
          /\ UNCHANGED <<ballot, outbox, cast>>
      BY <2>9 DEF HandleCommit, leaderVars
    <3>2. m \in Transit /\ Transit' \subseteq Transit
      BY <3>1, ReceiveShrinks, TransitMembers
    <3>3. m \in Msg
      BY <3>1, ReceiveTypes
    <3>4. m.slot + 1 \in DOMAIN Log(Leader) /\ m.cmd = Log(Leader)[m.slot + 1]
      BY <3>1, <3>2 DEF ClusterInv, Truthful
    <3>5. n # Leader
      BY <3>1, <3>4, IdFinite, ViewFields DEF NextSlot
    <3>6. /\ Log(n)' = Append(Log(n), m.cmd)
          /\ \A k \in Id \ {n} : Log(k)' = Log(k)
      BY <3>1, <3>3, MsgFields, CommitView DEF Log, TypeOK
    <3> HIDE DEF m
    <3> QED BY <3>1, <3>2, <3>4, <3>5, <3>6, FollowStep
  <2>10. ASSUME NEW n \in Id, Exit(n) PROVE ClusterInv'
    BY <2>10, IdleStep DEF Exit, leaderVars, Log, Transit, Queued
  <2>11. CASE Join \/ Timeout
    <3>1. UNCHANGED <<view, ballot, cast, outbox, chan>>
      BY <2>11 DEF Join, Timeout, leaderVars
    <3> QED BY <3>1, IdleStep DEF Log, Transit, Queued
  <2>12. CASE UNCHANGED vars
    BY <2>12, IdleStep DEF vars, Log, Transit, Queued
  <2>13. ASSUME NEW n \in Id, Task(n) PROVE ClusterInv'
    BY <2>13, <2>1, <2>2, <2>3, <2>4, <2>5, <2>6, <2>7, <2>8, <2>9, <2>10 DEF Task
  <2> QED BY <2>11, <2>12, <2>13 DEF Next, Returned
<1> QED BY <1>1, <1>2

\* Every conjunct of ClusterInv holds in every reachable state.
THEOREM ClusterCorrect == Spec => []ClusterInv
  BY ClusterInductive, TypeCorrect, PTL DEF Spec

\* Agreement: no replica holds a committed slot the leader's log does not.
THEOREM Agreement == Spec => []LogsFollowLeader
<1>1. ClusterInv => LogsFollowLeader
  BY DEF ClusterInv
<1> QED BY <1>1, ClusterCorrect, PTL

\* Every log is a prefix of the workload.
THEOREM WorkloadOrder == Spec => []LogIsWorkload
<1>1. ClusterInv => LogIsWorkload
  BY DEF ClusterInv
<1> QED BY <1>1, ClusterCorrect, PTL

\* No slot is committed without a quorum of votes cast at that slot.
THEOREM CommitsAreQuorumBacked == Spec => []QuorumBacked
<1>1. ClusterInv => QuorumBacked
  BY DEF ClusterInv
<1> QED BY <1>1, ClusterCorrect, PTL

-----------------------------------------------------------------------------
(* The cluster implements the replicated log. *)

Registers == [n \in Id |-> view[n].replicas[n]]

\* The abstract deliver of the cluster's log is the node's own world_step.
LEMMA DrainIsDeliver ==
  ASSUME ClusterInv, TypeOK, NEW n \in Id, Applied(n) < Len(Log(n)),
         view' = [view EXCEPT ![n] = WorldStep(@)]
  PROVE  /\ Log(Leader)' = Log(Leader)
         /\ Applied(n) < Len(Log(Leader))
         /\ Registers' = [Registers EXCEPT ![n] = Deliver(Log(Leader), @)]
<1>1. /\ Log(n) \in Seq(Command) /\ Log(Leader) \in Seq(Command)
      /\ Applied(n) \in Nat /\ Leader \in Id /\ view[n] \in View(n)
  BY ViewFields, IdFinite
<1>2. /\ WorldStep(view[n]).log = Log(n)
      /\ WorldStep(view[n]).replicas[n] = Deliver(Log(n), view[n].replicas[n])
  BY <1>1, WorldStepView DEF Log
<1>3. Log(Leader)' = Log(Leader)
  BY <1>1, <1>2 DEF Log, TypeOK
<1>4. Applied(n) + 1 \in DOMAIN Log(n)
  BY <1>1
<1>5. Applied(n) + 1 \in DOMAIN Log(Leader) /\ Log(n)[Applied(n) + 1] = Log(Leader)[Applied(n) + 1]
  BY <1>4 DEF ClusterInv, LogsFollowLeader
<1>6. Applied(n) < Len(Log(Leader))
  BY <1>1, <1>5
<1>7. Deliver(Log(n), view[n].replicas[n]) = Deliver(Log(Leader), view[n].replicas[n])
  BY <1>5, <1>6 DEF Deliver, Applied
<1>8. Registers' = [Registers EXCEPT ![n] = Deliver(Log(Leader), @)]
  <2>1. \A k \in Id : view'[k].replicas[k] = IF k = n THEN Deliver(Log(Leader), view[n].replicas[n])
                                                     ELSE view[k].replicas[k]
    BY <1>2, <1>7 DEF TypeOK
  <2> QED BY <2>1 DEF Registers
<1> QED BY <1>3, <1>6, <1>8

\* The running cluster implements the replicated log it was extracted from: a
\* node's decision is the abstract commit, its drain the abstract deliver, and
\* every other step of it leaves the abstract state alone (net.rs, rsm.rs).
THEOREM Implements == Spec => ImplementsReplicatedLog
<1>1. Init => RL!Init
  BY IdFinite DEF Init, RL!Init, Log, FreshReplica, RL!FreshReplica
<1>2. ClusterInv /\ TypeOK /\ [Next]_vars => [RL!Next]_(RL!vars)
  <2> SUFFICES ASSUME ClusterInv, TypeOK, [Next]_vars PROVE [RL!Next]_(RL!vars)
    OBVIOUS
  <2>1. Leader \in Id /\ \A n \in Id : view[n] \in View(n)
    BY IdFinite DEF TypeOK
  <2>2. ASSUME view' = view PROVE UNCHANGED RL!vars
    BY <2>2 DEF RL!vars, Log
  <2>3. ASSUME NEW n \in Id, NEW c \in Command, view' = [view EXCEPT ![n] = Commit(@, c)],
               n = Leader => Len(Log(n)) < Expected
        PROVE  [RL!Next]_(RL!vars)
    <3>1. Registers' = Registers
      <4>1. \A k \in Id : view'[k].replicas = view[k].replicas
        BY <2>1, <2>3, CommitView DEF TypeOK
      <4> QED BY <4>1 DEF Registers
    <3>2. CASE n = Leader
      <4>1. Log(Leader)' = Append(Log(Leader), c)
        BY <2>1, <2>3, <3>2, CommitView DEF TypeOK, Log
      <4>2. RL!CommitSlot
        BY <2>3, <3>1, <3>2, <4>1 DEF RL!CommitSlot, RL!Commit, RL!config, Registers
      <4> QED BY <4>2 DEF RL!Next
    <3>3. CASE n # Leader
      <4>1. Log(Leader)' = Log(Leader)
        BY <2>1, <2>3, <3>3 DEF TypeOK, Log
      <4> QED BY <3>1, <4>1 DEF RL!vars, Registers
    <3> QED BY <3>2, <3>3
  <2>4. ASSUME NEW n \in Id, NEW b, NEW p, NEW slot, NEW c \in Command, NEW pending,
               NEW drain, NEW undecided, n = Leader, Len(Log(Leader)) < Expected,
               DecideIfQuorum(n, b, p, slot, c, pending, drain, undecided)
        PROVE  [RL!Next]_(RL!vars)
    BY <2>2, <2>3, <2>4 DEF DecideIfQuorum, OnQuorum
  <2>5. ASSUME NEW n \in Id, DriveSubmit(n) PROVE [RL!Next]_(RL!vars)
    <3>1. Submit(n, Workload[nextCmd + 1]) /\ n = Leader /\ Len(Log(Leader)) < Expected
      BY <2>5 DEF DriveSubmit, MayDrive
    <3>2. Workload[nextCmd + 1] \in Command
      BY <2>5, ClusterAssumption DEF DriveSubmit, MayDrive, Expected, TypeOK
    <3> QED BY <3>1, <3>2, <2>2, <2>4 DEF Submit
  <2>6. ASSUME NEW n \in Id, NEW label, NEW next, Drain(n, label, next)
        PROVE  [RL!Next]_(RL!vars)
    <3>1. CASE view' = view
      BY <3>1, <2>2
    <3>2. CASE Applied(n) < Len(Log(n)) /\ view' = [view EXCEPT ![n] = WorldStep(@)]
      <4>1. RL!DeliverTo(n)
        BY <3>2, DrainIsDeliver DEF RL!DeliverTo, RL!Deliver, Deliver, Applied, Registers
      <4> QED BY <4>1 DEF RL!Next
    <3> QED BY <2>6, <3>1, <3>2 DEF Drain
  <2>7. ASSUME NEW n \in Id, HandleVote(n) PROVE [RL!Next]_(RL!vars)
    <3> DEFINE m == Head(chan[n])
    <3>1. m \in Transit /\ m \in Msg
      BY <2>7, ReceiveTypes, ReceiveShrinks DEF HandleVote
    <3>2. m.slot = Len(Log(Leader)) /\ m.slot < Expected /\ m.cmd \in Command /\ n = Leader
      BY <2>7, <3>1, MsgFields DEF HandleVote, NextSlot, ClusterInv, Truthful
    <3> QED BY <2>7, <3>2, <2>4 DEF HandleVote
  <2>8. ASSUME NEW n \in Id, HandleCommit(n) PROVE [RL!Next]_(RL!vars)
    <3> DEFINE m == Head(chan[n])
    <3>1. m \in Transit /\ m \in Msg
      BY <2>8, ReceiveTypes, ReceiveShrinks DEF HandleCommit
    <3>2. m.slot = NextSlot(n) /\ m.slot < Expected /\ m.cmd \in Command
      BY <2>8, <3>1, MsgFields DEF HandleCommit, ClusterInv, Truthful
    <3> QED BY <2>8, <3>2, <2>3 DEF HandleCommit, NextSlot
  <2>9. ASSUME NEW n \in Id, Task(n) PROVE [RL!Next]_(RL!vars)
    <3>1. \/ DriveSubmit(n) \/ HandleVote(n) \/ HandleCommit(n)
          \/ \E label, next : Drain(n, label, next)
          \/ view' = view
      BY <2>9 DEF Task, DriveDone, Send, Publish, HandleIrrelevant, HandlePropose, Exit
    <3> QED BY <3>1, <2>2, <2>5, <2>6, <2>7, <2>8
  <2>10. CASE Join \/ Timeout \/ Returned \/ UNCHANGED vars
    BY <2>10, <2>2 DEF Join, Timeout, Returned, vars
  <2> QED BY <2>9, <2>10 DEF Next
<1> QED BY <1>1, <1>2, ClusterCorrect, TypeCorrect, PTL
        DEF Spec, ImplementsReplicatedLog, RL!Spec

-----------------------------------------------------------------------------
(* Convergence, inherited from the abstract log along the refinement. *)

RLP == INSTANCE ReplicatedLogProofs WITH
         MaxSlots <- Expected,
         log <- Log(Leader),
         replicas <- [n \in Id |-> view[n].replicas[n]]

\* Replicas of the running cluster that applied equally many slots hold equal
\* stores.
THEOREM ClusterConverges == Spec => []StoresAgree
<1>1. RLP!Spec => []RLP!StoresAgree
  BY RLP!Convergence, RsmAssumption, ClusterAssumption DEF Expected
<1>2. RLP!StoresAgree => StoresAgree
  BY DEF RLP!StoresAgree, StoresAgree, Applied, StoreOf
<1>3. RL!Spec => RLP!Spec
  <2>1. RL!Init => RLP!Init
    BY DEF RL!Init, RLP!Init, RL!FreshReplica, RLP!FreshReplica
  <2>2. [RL!Next]_(RL!vars) => [RLP!Next]_(RLP!vars)
    BY DEF RL!Next, RLP!Next, RL!vars, RLP!vars, RL!CommitSlot, RLP!CommitSlot,
           RL!DeliverTo, RLP!DeliverTo, RL!DeliverToAll, RLP!DeliverToAll,
           RL!Commit, RLP!Commit, RL!config, RLP!config, RL!Deliver, RLP!Deliver,
           RL!WorldStep, RLP!WorldStep
  <2> QED BY <2>1, <2>2, PTL DEF RL!Spec, RLP!Spec
<1> QED BY <1>1, <1>2, <1>3, Implements, PTL DEF ImplementsReplicatedLog

-----------------------------------------------------------------------------
(* What a step of a task does, in the terms of the harness's invariants. *)

\* A node that commits has one more slot to apply; no other node moves.
LEMMA CommitNode ==
  ASSUME TypeOK, NEW n \in Id, NEW c \in Command, view' = [view EXCEPT ![n] = Commit(@, c)]
  PROVE  /\ Log(n)' = Append(Log(n), c) /\ NextSlot(n)' = NextSlot(n) + 1
         /\ \A k \in Id : Applied(k)' = Applied(k)
         /\ \A k \in Id \ {n} : Log(k)' = Log(k) /\ NextSlot(k)' = NextSlot(k) /\ view'[k] = view[k]
<1>1. view'[n] = Commit(view[n], c) /\ \A k \in Id \ {n} : view'[k] = view[k]
  BY DEF TypeOK
<1>2. Log(n)' = Append(Log(n), c) /\ view'[n].replicas = view[n].replicas
  BY <1>1, CommitView DEF Log, TypeOK
<1>3. Log(n) \in Seq(Command)
  BY ViewFields
<1>4. Len(Log(n)') = Len(Log(n)) + 1
  BY <1>2, <1>3
<1> QED BY <1>1, <1>2, <1>4 DEF Log, Applied, NextSlot

\* A node that drains applies one more slot of the log it has.
LEMMA DrainNode ==
  ASSUME TypeOK, NEW n \in Id, Applied(n) < Len(Log(n)),
         view' = [view EXCEPT ![n] = WorldStep(@)]
  PROVE  /\ Applied(n)' = Applied(n) + 1
         /\ \A k \in Id : Log(k)' = Log(k) /\ NextSlot(k)' = NextSlot(k)
         /\ \A k \in Id \ {n} : Applied(k)' = Applied(k) /\ view'[k] = view[k]
<1>1. view'[n] = WorldStep(view[n]) /\ \A k \in Id \ {n} : view'[k] = view[k]
  BY DEF TypeOK
<1>2. Log(n)' = Log(n) /\ view'[n].replicas[n] = Deliver(Log(n), view[n].replicas[n])
  BY <1>1, WorldStepView DEF Log, TypeOK
<1>3. Deliver(Log(n), view[n].replicas[n]).applied = Applied(n) + 1
  BY DEF Deliver, Applied
<1> QED BY <1>1, <1>2, <1>3 DEF Log, Applied, NextSlot

\* Steps that touch no view.
LEMMA SameViews ==
  ASSUME view' = view
  PROVE  /\ \A k \in Id : /\ Log(k)' = Log(k) /\ NextSlot(k)' = NextSlot(k)
                          /\ Applied(k)' = Applied(k)
  BY DEF Log, NextSlot, Applied

\* Draining moves no log.
LEMMA DrainKeepsLogs ==
  ASSUME TypeOK, NEW n \in Id, NEW label, NEW next, Drain(n, label, next)
  PROVE  \A k \in Id : Log(k)' = Log(k) /\ NextSlot(k)' = NextSlot(k)
<1>1. CASE view' = view
  BY <1>1, SameViews
<1>2. CASE Applied(n) < Len(Log(n)) /\ view' = [view EXCEPT ![n] = WorldStep(@)]
  BY <1>2, DrainNode
<1> QED BY <1>1, <1>2 DEF Drain

\* One vote is a quorum only of a cluster of one.
LEMMA LoneQuorum ==
  ASSUME NEW c \in Command, Decided([EmptyBallot EXCEPT ![Leader] = c], c)
  PROVE  Id = {Leader}
<1> DEFINE b == [EmptyBallot EXCEPT ![Leader] = c]
<1>1. DOMAIN b = Id /\ Supporters(b, c) = {Leader}
  BY IdFinite, ClusterAssumption DEF EmptyBallot, Supporters
<1>2. Cardinality({Leader}) = 1
  BY FS_Singleton
<1>3. 2 * 1 > N
  BY <1>1, <1>2, IdFinite DEF Decided, IsQuorum
<1> QED BY <1>3, ClusterAssumption DEF Id

\* submit, called by drive: refused, or a proposal is in flight and on its way to
\* every peer, or the cluster has one member and the slot is decided.
LEMMA SubmitShape ==
  ASSUME TypeOK, NEW n \in Id, DriveSubmit(n), NEW c, c = Workload[nextCmd + 1]
  PROVE  /\ n = Leader /\ pc[Leader] = "drive" /\ Leader \in Live /\ outcome = None
         /\ c \in Command /\ nextCmd \in Nat /\ nextCmd < Expected
         /\ NextSlot(Leader) = nextCmd /\ Applied(Leader) = nextCmd
         /\ nextCmd' = nextCmd + 1 /\ UNCHANGED <<crashed, chan, snapshot, outcome>>
         /\ \/ proposing # None /\ UNCHANGED <<view, proposing, outbox, pc, cast>>
            \/ /\ proposing = None /\ proposing' = c /\ view' = view
               /\ cast' = cast \cup {<<nextCmd, Leader, c>>}
               /\ outbox' = [outbox EXCEPT ![Leader] =
                               @ \cup ToPeers(Leader, Propose(nextCmd, c))]
               /\ pc' = [pc EXCEPT ![Leader] = "drive"]
            \/ /\ proposing = None /\ proposing' = None
               /\ view' = [view EXCEPT ![Leader] = Commit(@, c)]
               /\ cast' = cast \cup {<<nextCmd, Leader, c>>}
               /\ outbox' = outbox /\ Id = {Leader}
               /\ pc' = [pc EXCEPT ![Leader] = "drain_driven"]
<1>1. /\ n = Leader /\ pc[Leader] = "drive" /\ Leader \in Live /\ outcome = None
      /\ nextCmd < Expected /\ NextSlot(Leader) = nextCmd /\ Applied(Leader) = nextCmd
      /\ Submit(Leader, c)
      /\ nextCmd' = nextCmd + 1 /\ UNCHANGED <<crashed, chan, snapshot, outcome>>
  BY DEF DriveSubmit, MayDrive, At, NextSlot
<1>2. c \in Command /\ nextCmd \in Nat
  BY <1>1, ClusterAssumption DEF Expected, TypeOK
<1> DEFINE b == [EmptyBallot EXCEPT ![Leader] = c]
           pending == outbox[Leader] \cup ToPeers(Leader, Propose(nextCmd, c))
<1>3. CASE proposing # None
  BY <1>1, <1>2, <1>3 DEF Submit
<1>4. CASE proposing = None /\ ~Decided(b, c)
  <2>1. /\ proposing' = c /\ view' = view /\ cast' = cast \cup {<<nextCmd, Leader, c>>}
        /\ outbox' = [outbox EXCEPT ![Leader] = pending]
        /\ pc' = [pc EXCEPT ![Leader] = "drive"]
    BY <1>1, <1>4 DEF Submit, DecideIfQuorum, OnQuorum, Goto
  <2> QED BY <1>1, <1>2, <1>4, <2>1
<1>5. CASE proposing = None /\ Decided(b, c)
  <2>1. /\ proposing' = None /\ view' = [view EXCEPT ![Leader] = Commit(@, c)]
        /\ cast' = cast \cup {<<nextCmd, Leader, c>>}
        /\ outbox' = [outbox EXCEPT ![Leader] =
                        pending \cup ToPeers(Leader, CommitOf(nextCmd, c))]
        /\ pc' = [pc EXCEPT ![Leader] = "drain_driven"]
    BY <1>1, <1>5 DEF Submit, DecideIfQuorum, OnQuorum, Goto
  <2>2. Id = {Leader}
    BY <1>2, <1>5, LoneQuorum
  <2>3. \A m : ToPeers(Leader, m) = {}
    BY <2>2 DEF ToPeers
  <2>4. pending \cup ToPeers(Leader, CommitOf(nextCmd, c)) = outbox[Leader]
    BY <2>3
  <2>5. outbox' = outbox
    BY <2>1, <2>4, <1>1 DEF TypeOK
  <2> QED BY <1>1, <1>2, <1>5, <2>1, <2>2, <2>5
<1> QED BY <1>3, <1>4, <1>5

\* A vote that counts: the slot in flight is decided and its commit is on its way
\* to every peer, or nothing happens beyond the ballot.
LEMMA VoteShape ==
  ASSUME TypeOK, NEW n \in Id, HandleVote(n), NEW m, m = Head(chan[n])
  PROVE  /\ n = Leader /\ pc[Leader] = "recv" /\ Leader \in Live /\ outcome = None
         /\ m \in Transit /\ m \in Msg /\ m.cmd \in Command /\ m.slot = NextSlot(Leader)
         /\ chan' = [chan EXCEPT ![Leader] = Tail(@)]
         /\ \A k \in Id : Queued(k)' \subseteq Queued(k)
         /\ UNCHANGED <<crashed, nextCmd, snapshot, outcome, cast>>
         /\ \/ /\ proposing' = None /\ view' = [view EXCEPT ![Leader] = Commit(@, m.cmd)]
               /\ outbox' = [outbox EXCEPT ![Leader] = ToPeers(Leader, CommitOf(m.slot, m.cmd))]
               /\ pc' = [pc EXCEPT ![Leader] = "drain_handled"]
            \/ /\ proposing' = proposing /\ view' = view
               /\ outbox' = [outbox EXCEPT ![Leader] = {}]
               /\ pc' = [pc EXCEPT ![Leader] = "send_handled"]
<1> DEFINE b == [ballot EXCEPT ![m.from] = m.cmd]
<1>1. /\ Receive(n) /\ n = Leader /\ m.slot = NextSlot(Leader)
      /\ UNCHANGED <<crashed, nextCmd, snapshot, outcome, cast>>
      /\ DecideIfQuorum(Leader, b, proposing, m.slot, m.cmd, {},
                        "drain_handled", "send_handled")
  BY DEF HandleVote
<1>2. /\ pc[Leader] = "recv" /\ Leader \in Live /\ outcome = None
      /\ chan' = [chan EXCEPT ![Leader] = Tail(@)]
  BY <1>1 DEF Receive, At
<1>3. m \in Transit /\ m \in Msg /\ \A k \in Id : Queued(k)' \subseteq Queued(k)
  BY <1>1, ReceiveShrinks, ReceiveTypes
<1>4. m.cmd \in Command
  BY <1>3, MsgFields
<1>5. {} \cup ToPeers(Leader, CommitOf(m.slot, m.cmd)) = ToPeers(Leader, CommitOf(m.slot, m.cmd))
  OBVIOUS
<1>6. CASE Decided(b, m.cmd)
  <2>1. /\ proposing' = None /\ view' = [view EXCEPT ![Leader] = Commit(@, m.cmd)]
        /\ outbox' = [outbox EXCEPT ![Leader] = {} \cup ToPeers(Leader, CommitOf(m.slot, m.cmd))]
        /\ pc' = [pc EXCEPT ![Leader] = "drain_handled"]
    BY <1>1, <1>6 DEF DecideIfQuorum, OnQuorum, Goto
  <2> QED BY <1>1, <1>2, <1>3, <1>4, <1>5, <2>1
<1>7. CASE ~Decided(b, m.cmd)
  <2>1. /\ proposing' = proposing /\ view' = view
        /\ outbox' = [outbox EXCEPT ![Leader] = {}]
        /\ pc' = [pc EXCEPT ![Leader] = "send_handled"]
    BY <1>1, <1>7 DEF DecideIfQuorum, OnQuorum, Goto
  <2> QED BY <1>1, <1>2, <1>3, <1>4, <2>1
<1> QED BY <1>6, <1>7

-----------------------------------------------------------------------------
(* Every node drains what it commits. *)

\* A commit leaves one slot to apply and the drain loop runs until none is left
\* (lib.rs apply_commit), so between two messages nothing is pending.
LEMMA AppliedInductive ==
  /\ Init => AppliedInv
  /\ AppliedInv /\ TypeOK /\ [Next]_vars => AppliedInv'
<1>1. Init => AppliedInv
  BY DEF Init, AppliedInv, Applied, Log, FreshReplica
<1>2. AppliedInv /\ TypeOK /\ [Next]_vars => AppliedInv'
  <2> SUFFICES ASSUME AppliedInv, TypeOK, [Next]_vars PROVE AppliedInv'
    OBVIOUS
  <2>1. \A n \in Id : Applied(n) \in Nat /\ NextSlot(n) \in Nat /\ Len(Log(n)) = NextSlot(n)
    BY ViewFields DEF NextSlot
  <2>2. DOMAIN pc = Id
    BY DEF TypeOK
  <2>3. \A k \in Id : Len(Log(k)') = NextSlot(k)'
    BY DEF NextSlot
  <2>4. ASSUME view' = view, NEW n \in Id, NEW label, pc' = [pc EXCEPT ![n] = label],
               pc[n] \notin {"drain_driven", "drain_handled"}
        PROVE  AppliedInv'
    BY <2>2, <2>4, SameViews DEF AppliedInv
  <2>5. ASSUME view' = view, pc' = pc PROVE AppliedInv'
    BY <2>5, SameViews DEF AppliedInv
  <2>6. ASSUME NEW n \in Id, NEW c \in Command, view' = [view EXCEPT ![n] = Commit(@, c)],
               NEW label \in {"drain_driven", "drain_handled"},
               pc' = [pc EXCEPT ![n] = label]
        PROVE  AppliedInv'
    <3>1. /\ NextSlot(n)' = NextSlot(n) + 1 /\ \A k \in Id : Applied(k)' = Applied(k)
          /\ \A k \in Id \ {n} : NextSlot(k)' = NextSlot(k)
      BY <2>6, CommitNode
    <3> QED BY <2>1, <2>2, <2>3, <2>6, <3>1 DEF AppliedInv
  <2>7. ASSUME NEW n \in Id, DriveSubmit(n) PROVE AppliedInv'
    <3>1. PICK c : c = Workload[nextCmd + 1]
      OBVIOUS
    <3>2. /\ n = Leader /\ pc[Leader] = "drive" /\ c \in Command
          /\ \/ UNCHANGED <<view, pc>>
             \/ view' = view /\ pc' = [pc EXCEPT ![Leader] = "drive"]
             \/ /\ view' = [view EXCEPT ![Leader] = Commit(@, c)]
                /\ pc' = [pc EXCEPT ![Leader] = "drain_driven"]
      BY <2>7, <3>1, SubmitShape
    <3> QED BY <2>4, <2>5, <2>6, <3>2
  <2>8. ASSUME NEW n \in Id, NEW label, NEW next, Drain(n, label, next) PROVE AppliedInv'
    <3>1. CASE Applied(n) < Len(Log(n))
      <4>1. view' = [view EXCEPT ![n] = WorldStep(@)] /\ pc' = pc
        BY <2>8, <3>1 DEF Drain
      <4>2. /\ Applied(n)' = Applied(n) + 1
            /\ \A k \in Id : NextSlot(k)' = NextSlot(k)
            /\ \A k \in Id \ {n} : Applied(k)' = Applied(k)
        BY <3>1, <4>1, DrainNode
      <4>3. pc[n] \in {"drain_driven", "drain_handled"}
        BY <2>1, <3>1 DEF AppliedInv
      <4> QED BY <2>1, <2>3, <3>1, <4>1, <4>2, <4>3 DEF AppliedInv
    <3>2. CASE ~(Applied(n) < Len(Log(n)))
      <4>1. view' = view /\ pc' = [pc EXCEPT ![n] = next]
        BY <2>8, <3>2 DEF Drain, Goto
      <4>2. Applied(n) = Len(Log(n))
        BY <2>1, <3>2 DEF AppliedInv
      <4> QED BY <2>1, <2>2, <4>1, <4>2, SameViews DEF AppliedInv
    <3> QED BY <3>1, <3>2
  <2>9. ASSUME NEW n \in Id, HandleVote(n) PROVE AppliedInv'
    <3>1. PICK m : m = Head(chan[n])
      OBVIOUS
    <3>2. /\ n = Leader /\ pc[Leader] = "recv" /\ m.cmd \in Command
          /\ \/ view' = view /\ pc' = [pc EXCEPT ![Leader] = "send_handled"]
             \/ /\ view' = [view EXCEPT ![Leader] = Commit(@, m.cmd)]
                /\ pc' = [pc EXCEPT ![Leader] = "drain_handled"]
      BY <2>9, <3>1, VoteShape
    <3> QED BY <2>4, <2>6, <3>2
  <2>10. ASSUME NEW n \in Id, HandleCommit(n) PROVE AppliedInv'
    <3>1. Head(chan[n]).cmd \in Command
      BY <2>10, ReceiveTypes, MsgFields DEF HandleCommit
    <3>2. /\ view' = [view EXCEPT ![n] = Commit(@, Head(chan[n]).cmd)]
          /\ pc' = [pc EXCEPT ![n] = "drain_handled"]
      BY <2>10 DEF HandleCommit, Goto
    <3> QED BY <2>6, <3>1, <3>2
  <2>11. ASSUME NEW n \in Id, Task(n) PROVE AppliedInv'
    <3>1. \/ DriveSubmit(n) \/ HandleVote(n) \/ HandleCommit(n)
          \/ \E label, next : Drain(n, label, next)
          \/ /\ view' = view
             /\ \/ pc' = pc
                \/ pc[n] \notin {"drain_driven", "drain_handled"} /\ \E label : pc' = [pc EXCEPT ![n] = label]
      BY <2>11 DEF Task, DriveDone, Send, Publish, HandleIrrelevant, HandlePropose, Exit,
                   Receive, At, Goto
    <3> QED BY <3>1, <2>4, <2>5, <2>7, <2>8, <2>9, <2>10
  <2>12. CASE Join \/ Timeout \/ Returned \/ UNCHANGED vars
    BY <2>12, <2>5 DEF Join, Timeout, Returned, vars
  <2> QED BY <2>11, <2>12 DEF Next
<1> QED BY <1>1, <1>2

-----------------------------------------------------------------------------
(* What a node has published. *)

\* What a published view says stays true of it: publish comes only when the node
\* has nothing left to drain or to send (net.rs publish).
LEMMA PublishedInductive ==
  /\ Init => PublishedInv
  /\ PublishedInv /\ AppliedInv /\ TypeOK /\ [Next]_vars => PublishedInv'
<1>1. Init => PublishedInv
  BY DEF Init, PublishedInv, Live
<1>2. PublishedInv /\ AppliedInv /\ TypeOK /\ [Next]_vars => PublishedInv'
  <2> SUFFICES ASSUME PublishedInv, AppliedInv, TypeOK, [Next]_vars PROVE PublishedInv'
    OBVIOUS
  <2>1. /\ \A n \in Id : /\ Applied(n) \in Nat /\ NextSlot(n) \in Nat
                         /\ Len(Log(n)) = NextSlot(n)
                         /\ view[n].log = Log(n) /\ view[n].replicas[n].applied = Applied(n)
        /\ \A n \in Id : snapshot[n] # None => Len(snapshot[n].log) \in Nat
    <3>1. \A n \in Id : snapshot[n] # None => snapshot[n].log \in Seq(Command)
      BY DEF TypeOK, View, GlobalConfig
    <3>2. \A n \in Id : Applied(n) \in Nat /\ NextSlot(n) \in Nat
      BY ViewFields
    <3>3. \A n \in Id : snapshot[n] # None => Len(snapshot[n].log) \in Nat
      BY <3>1
    <3> QED BY <3>2, <3>3 DEF NextSlot, Log, Applied
  <2>2. /\ DOMAIN pc = Id /\ DOMAIN outbox = Id /\ DOMAIN snapshot = Id /\ DOMAIN view = Id
        /\ Live \subseteq Id
    BY DEF TypeOK, Live
  <2>3. \A k \in Id : Len(Log(k)') = NextSlot(k)'
    BY DEF NextSlot
  <2>4. ASSUME view' = view, UNCHANGED <<crashed, snapshot>>, NEW n \in Id, NEW label,
               \A k \in Id \ {n} : outbox'[k] = outbox[k], pc' = [pc EXCEPT ![n] = label],
               n \notin Live \/ label \notin {"recv", "done"}
        PROVE  PublishedInv'
    BY <2>2, <2>4, SameViews DEF PublishedInv, Live, Expected
  <2>5. ASSUME view' = view, UNCHANGED <<crashed, snapshot, pc>>,
               \A k \in Id : outbox'[k] \subseteq outbox[k]
        PROVE  PublishedInv'
    BY <2>2, <2>5, SameViews DEF PublishedInv, Live, Expected
  <2>6. ASSUME NEW n \in Id, NEW c \in Command, view' = [view EXCEPT ![n] = Commit(@, c)],
               UNCHANGED <<crashed, snapshot>>,
               \A k \in Id \ {n} : outbox'[k] = outbox[k],
               NEW label \in {"drain_driven", "drain_handled"},
               pc' = [pc EXCEPT ![n] = label]
        PROVE  PublishedInv'
    <3>1. /\ NextSlot(n)' = NextSlot(n) + 1 /\ \A k \in Id : Applied(k)' = Applied(k)
          /\ \A k \in Id \ {n} : NextSlot(k)' = NextSlot(k) /\ view'[k] = view[k]
      BY <2>6, CommitNode
    <3>2. ASSUME NEW k \in Id, snapshot[k] # None
          PROVE  snapshot[k] = view'[k] \/ Len(snapshot[k].log) < NextSlot(k)'
      <4>1. snapshot[k] = view[k] \/ Len(snapshot[k].log) < NextSlot(k)
        BY <2>1, <3>2 DEF PublishedInv
      <4>2. CASE k # n
        BY <3>1, <4>1, <4>2
      <4>3. CASE k = n
        <5>1. Len(snapshot[k].log) <= NextSlot(k) /\ Len(snapshot[k].log) \in Nat
          BY <2>1, <3>2, <4>1
        <5> QED BY <2>1, <3>1, <4>3, <5>1
      <4> QED BY <4>2, <4>3
    <3>3. \A k \in Live : /\ pc'[k] \in {"recv", "done"} => snapshot[k] = view'[k] /\ outbox'[k] = {}
                          /\ pc'[k] = "done" => Applied(k)' >= Expected
      BY <2>2, <2>6, <3>1 DEF PublishedInv
    <3> QED BY <2>3, <2>6, <3>2, <3>3 DEF PublishedInv, Live, Expected
  <2>7. ASSUME NEW n \in Id, DriveSubmit(n) PROVE PublishedInv'
    <3>1. PICK c : c = Workload[nextCmd + 1]
      OBVIOUS
    <3>2. /\ n = Leader /\ pc[Leader] = "drive" /\ c \in Command /\ UNCHANGED <<crashed, snapshot>>
          /\ \/ UNCHANGED <<view, pc, outbox>>
             \/ /\ view' = view /\ pc' = [pc EXCEPT ![Leader] = "drive"]
                /\ \A k \in Id \ {Leader} : outbox'[k] = outbox[k]
             \/ /\ view' = [view EXCEPT ![Leader] = Commit(@, c)] /\ outbox' = outbox
                /\ pc' = [pc EXCEPT ![Leader] = "drain_driven"]
      BY <2>2, <2>7, <3>1, SubmitShape
    <3> QED BY <2>4, <2>5, <2>6, <3>2
  <2>8. ASSUME NEW n \in Id, NEW label, NEW next \in {"drive", "send_handled"}, Drain(n, label, next)
        PROVE  PublishedInv'
    <3>1. CASE Applied(n) < Len(Log(n))
      <4>1. view' = [view EXCEPT ![n] = WorldStep(@)] /\ UNCHANGED <<crashed, pc, snapshot, outbox>>
        BY <2>8, <3>1 DEF Drain
      <4>2. /\ \A k \in Id : NextSlot(k)' = NextSlot(k)
            /\ \A k \in Id \ {n} : view'[k] = view[k] /\ Applied(k)' = Applied(k)
        BY <3>1, <4>1, DrainNode
      <4>3. pc[n] \in {"drain_driven", "drain_handled"}
        BY <2>1, <3>1 DEF AppliedInv
      <4>4. snapshot[n] # None => Len(snapshot[n].log) < NextSlot(n)
        BY <2>1, <3>1 DEF PublishedInv
      <4> QED BY <2>1, <2>2, <2>3, <4>1, <4>2, <4>3, <4>4 DEF PublishedInv, Live, Expected
    <3>2. CASE ~(Applied(n) < Len(Log(n)))
      <4>1. /\ view' = view /\ pc' = [pc EXCEPT ![n] = next] /\ UNCHANGED <<crashed, snapshot>>
            /\ outbox' = outbox
        BY <2>2, <2>8, <3>2 DEF Drain, Goto
      <4> QED BY <2>4, <4>1
    <3> QED BY <3>1, <3>2
  <2>9. ASSUME NEW n \in Id, HandleVote(n) PROVE PublishedInv'
    <3>1. PICK m : m = Head(chan[n])
      OBVIOUS
    <3>2. /\ n = Leader /\ m.cmd \in Command /\ UNCHANGED <<crashed, snapshot>>
          /\ \A k \in Id \ {Leader} : outbox'[k] = outbox[k]
          /\ \/ view' = view /\ pc' = [pc EXCEPT ![Leader] = "send_handled"]
             \/ /\ view' = [view EXCEPT ![Leader] = Commit(@, m.cmd)]
                /\ pc' = [pc EXCEPT ![Leader] = "drain_handled"]
      BY <2>2, <2>9, <3>1, VoteShape
    <3> QED BY <2>4, <2>6, <3>2
  <2>10. ASSUME NEW n \in Id, HandleCommit(n) PROVE PublishedInv'
    <3>1. Head(chan[n]).cmd \in Command
      BY <2>10, ReceiveTypes, MsgFields DEF HandleCommit
    <3>2. /\ view' = [view EXCEPT ![n] = Commit(@, Head(chan[n]).cmd)]
          /\ pc' = [pc EXCEPT ![n] = "drain_handled"] /\ UNCHANGED <<crashed, snapshot>>
          /\ outbox' = outbox
      BY <2>2, <2>10 DEF HandleCommit, Goto
    <3> QED BY <2>6, <3>1, <3>2
  <2>11. ASSUME NEW n \in Id, NEW label, NEW next,
                <<label, next>> \in {<<"send_handled", "drive">>, <<"send_driven", "recv">>},
                Publish(n, label, next)
         PROVE  PublishedInv'
    <3>1. /\ view' = view /\ crashed' = crashed /\ outbox' = outbox /\ outbox[n] = {}
          /\ snapshot' = [snapshot EXCEPT ![n] = view[n]] /\ pc' = [pc EXCEPT ![n] = next]
          /\ pc[n] = label
      BY <2>11 DEF Publish, Goto, At
    <3>2. Applied(n) = NextSlot(n)
      BY <2>1, <2>11, <3>1 DEF AppliedInv
    <3> QED BY <2>1, <2>2, <2>3, <2>11, <3>1, <3>2, SameViews DEF PublishedInv, Live, Expected
  <2>12. ASSUME NEW n \in Id, Exit(n) PROVE PublishedInv'
    <3>1. /\ view' = view /\ UNCHANGED <<crashed, outbox, snapshot>> /\ pc[n] = "recv"
          /\ Applied(n) >= Expected /\ pc' = [pc EXCEPT ![n] = "done"]
      BY <2>12 DEF Exit, Goto, At
    <3> QED BY <2>2, <2>3, <3>1, SameViews DEF PublishedInv, Live, Expected
  <2>13. ASSUME NEW n \in Id, NEW label, Send(n, label) PROVE PublishedInv'
    <3>1. /\ view' = view /\ UNCHANGED <<crashed, snapshot, pc>>
          /\ \A k \in Id : outbox'[k] \subseteq outbox[k]
      BY <2>2, <2>13 DEF Send
    <3> QED BY <3>1, <2>5
  <2>14. ASSUME NEW n \in Id, DriveDone(n) \/ HandleIrrelevant(n) \/ HandlePropose(n)
         PROVE  PublishedInv'
    <3>1. /\ view' = view /\ UNCHANGED <<crashed, snapshot>>
          /\ \A k \in Id \ {n} : outbox'[k] = outbox[k]
          /\ \E label \in {"send_driven", "send_handled"} : pc' = [pc EXCEPT ![n] = label]
      BY <2>2, <2>14 DEF DriveDone, HandleIrrelevant, HandlePropose, Goto
    <3> QED BY <3>1, <2>4
  <2>15. ASSUME NEW n \in Id, Task(n) PROVE PublishedInv'
    BY <2>15, <2>7, <2>8, <2>9, <2>10, <2>11, <2>12, <2>13, <2>14 DEF Task
  <2>16. CASE Join \/ Timeout \/ Returned \/ UNCHANGED vars
    BY <2>16, <2>5 DEF Join, Timeout, Returned, vars
  <2> QED BY <2>15, <2>16 DEF Next
<1> QED BY <1>1, <1>2

-----------------------------------------------------------------------------
(* Replicas that never started. *)

\* A replica without a task or a channel neither hears nor says anything, and
\* casts no vote.
LEMMA CrashedInductive ==
  /\ Init => CrashedInv
  /\ CrashedInv /\ TypeOK /\ [Next]_vars => CrashedInv'
<1>1. Init => CrashedInv
  BY DEF Init, CrashedInv, Log
<1>2. CrashedInv /\ TypeOK /\ [Next]_vars => CrashedInv'
  <2> SUFFICES ASSUME CrashedInv, TypeOK, [Next]_vars PROVE CrashedInv'
    OBVIOUS
  <2>1. /\ DOMAIN pc = Id /\ DOMAIN outbox = Id /\ DOMAIN snapshot = Id /\ DOMAIN view = Id
        /\ DOMAIN chan = Id /\ crashed \subseteq Id
    BY DEF TypeOK
  <2>2. ASSUME NEW n \in Live, UNCHANGED crashed,
               \A k \in Id \ {n} : /\ pc'[k] = pc[k] /\ snapshot'[k] = snapshot[k]
                                   /\ Log(k)' = Log(k) /\ outbox'[k] = outbox[k],
               \A k \in crashed : chan'[k] = chan[k],
               \A v \in cast' : v \in cast \/ v[2] = n
        PROVE  CrashedInv'
    BY <2>1, <2>2 DEF CrashedInv, Live
  <2>3. ASSUME NEW n \in Id, DriveSubmit(n) PROVE CrashedInv'
    <3>1. PICK c : c = Workload[nextCmd + 1]
      OBVIOUS
    <3>2. /\ Leader \in Live /\ c \in Command /\ UNCHANGED <<crashed, chan, snapshot>>
          /\ \A k \in Id \ {Leader} : pc'[k] = pc[k] /\ outbox'[k] = outbox[k]
          /\ \A v \in cast' : v \in cast \/ v[2] = Leader
          /\ \/ view' = view
             \/ view' = [view EXCEPT ![Leader] = Commit(@, c)]
      BY <2>1, <2>3, <3>1, SubmitShape
    <3>3. \A k \in Id \ {Leader} : Log(k)' = Log(k)
      BY <3>2, IdFinite, SameViews, CommitNode
    <3> QED BY <2>2, <3>2, <3>3
  <2>4. ASSUME NEW n \in Id, NEW label, NEW next, Drain(n, label, next) PROVE CrashedInv'
    <3>1. \A k \in Id : Log(k)' = Log(k)
      BY <2>4, DrainKeepsLogs
    <3> QED BY <2>1, <2>2, <2>4, <3>1 DEF Drain, Goto, At
  <2>5. ASSUME NEW n \in Id, HandleVote(n) PROVE CrashedInv'
    <3>1. PICK m : m = Head(chan[n])
      OBVIOUS
    <3>2. /\ Leader \in Live /\ m.cmd \in Command /\ UNCHANGED <<crashed, snapshot, cast>>
          /\ \A k \in Id \ {Leader} : pc'[k] = pc[k] /\ outbox'[k] = outbox[k] /\ chan'[k] = chan[k]
          /\ \/ view' = view
             \/ view' = [view EXCEPT ![Leader] = Commit(@, m.cmd)]
      BY <2>1, <2>5, <3>1, VoteShape
    <3>3. \A k \in Id \ {Leader} : Log(k)' = Log(k)
      BY <3>2, IdFinite, SameViews, CommitNode
    <3>4. /\ \A k \in crashed : chan'[k] = chan[k]
          /\ \A k \in Id \ {Leader} : snapshot'[k] = snapshot[k]
          /\ \A v \in cast' : v \in cast \/ v[2] = Leader
      BY <2>1, <3>2 DEF Live
    <3> QED BY <2>2, <3>2, <3>3, <3>4
  <2>6. ASSUME NEW n \in Id, HandleCommit(n) PROVE CrashedInv'
    <3>1. Head(chan[n]).cmd \in Command
      BY <2>6, ReceiveTypes, MsgFields DEF HandleCommit
    <3>2. view' = [view EXCEPT ![n] = Commit(@, Head(chan[n]).cmd)]
      BY <2>6 DEF HandleCommit
    <3>3. \A k \in Id \ {n} : Log(k)' = Log(k)
      BY <3>1, <3>2, CommitNode
    <3> QED BY <2>1, <2>2, <2>6, <3>3 DEF HandleCommit, Receive, Goto, At, Live
  <2>7. ASSUME NEW n \in Id, NEW label, Send(n, label) PROVE CrashedInv'
    BY <2>1, <2>2, <2>7, SameViews DEF Send, At, Live
  <2>8. ASSUME NEW n \in Id, NEW label, NEW next, Publish(n, label, next) PROVE CrashedInv'
    BY <2>1, <2>2, <2>8, SameViews DEF Publish, Goto, At
  <2>9. ASSUME NEW n \in Id, DriveDone(n) \/ Exit(n) PROVE CrashedInv'
    BY <2>1, <2>2, <2>9, SameViews DEF DriveDone, Exit, Goto, At
  <2>10. ASSUME NEW n \in Id, HandleIrrelevant(n) \/ HandlePropose(n) PROVE CrashedInv'
    BY <2>1, <2>2, <2>10, SameViews DEF HandleIrrelevant, HandlePropose, Receive, Goto, At, Live
  <2>11. ASSUME NEW n \in Id, Task(n) PROVE CrashedInv'
    BY <2>11, <2>3, <2>4, <2>5, <2>6, <2>7, <2>8, <2>9, <2>10 DEF Task
  <2>12. CASE Join \/ Timeout \/ Returned \/ UNCHANGED vars
    BY <2>12 DEF Join, Timeout, Returned, vars, CrashedInv, Log, Live
  <2> QED BY <2>11, <2>12 DEF Next
<1> QED BY <1>1, <1>2

-----------------------------------------------------------------------------
(* The leader's cursor. *)

\* The cursor, which advances whatever submit answers, never leaves the log
\* behind, because submit is never refused (net.rs drive).
LEMMA CursorInductive ==
  /\ Init => CursorInv
  /\ CursorInv /\ AppliedInv /\ ClusterInv /\ TypeOK /\ [Next]_vars => CursorInv'
<1>1. Init => CursorInv
  <2> SUFFICES ASSUME Init PROVE CursorInv
    OBVIOUS
  <2>1. \A n \in Id : Log(n) = << >> /\ outbox[n] = {} /\ chan[n] = << >>
    BY DEF Init, Log
  <2>2. Transit = {}
    BY <2>1 DEF Transit, Queued
  <2> QED BY <2>1, <2>2, IdFinite DEF Init, CursorInv, NextSlot
<1>2. CursorInv /\ AppliedInv /\ ClusterInv /\ TypeOK /\ [Next]_vars => CursorInv'
  <2> SUFFICES ASSUME CursorInv, AppliedInv, ClusterInv, TypeOK, [Next]_vars PROVE CursorInv'
    OBVIOUS
  <2>1. /\ DOMAIN pc = Id /\ Leader \in Id /\ nextCmd \in Nat /\ Expected \in Nat
        /\ nextCmd <= Expected /\ NextSlot(Leader) \in Nat
    <3>1. Leader \in Id /\ Expected \in Nat
      BY IdFinite, ClusterAssumption DEF Expected
    <3>2. NextSlot(Leader) \in Nat
      BY <3>1, ViewFields
    <3> QED BY <3>1, <3>2 DEF TypeOK
  <2>2. \A m \in Transit : m \in Msg /\ m.slot \in Nat
    <3>1. \A m \in Transit : m \in Msg
      BY DEF Transit, Queued, TypeOK
    <3> QED BY <3>1, MsgFields
  <2>3. \A v \in cast : v[1] \in Nat
    BY DEF TypeOK
  <2>4. ASSUME NextSlot(Leader)' = NextSlot(Leader), UNCHANGED <<nextCmd, proposing>>,
               pc'[Leader] \in {"send_driven", "recv", "done"} /\ proposing = None =>
                 nextCmd = Expected,
               \A m \in Transit' : m \in Transit \/ m.slot < nextCmd,
               \A v \in cast' : v \in cast \/ v[1] < nextCmd
        PROVE  CursorInv'
    BY <2>4 DEF CursorInv, Expected
  <2>5. ASSUME NEW n \in Id, DriveSubmit(n) PROVE CursorInv'
    <3>1. PICK c : c = Workload[nextCmd + 1]
      OBVIOUS
    <3>2. /\ NextSlot(Leader) = nextCmd /\ nextCmd' = nextCmd + 1 /\ c \in Command
          /\ UNCHANGED chan /\ nextCmd < Expected
      BY <2>5, <3>1, SubmitShape
    <3>3. /\ proposing = None
          /\ cast' = cast \cup {<<nextCmd, Leader, c>>}
          /\ \/ /\ proposing' = c /\ view' = view
                /\ outbox' = [outbox EXCEPT ![Leader] =
                                @ \cup ToPeers(Leader, Propose(nextCmd, c))]
                /\ pc' = [pc EXCEPT ![Leader] = "drive"]
             \/ /\ proposing' = None /\ outbox' = outbox
                /\ view' = [view EXCEPT ![Leader] = Commit(@, c)]
                /\ pc' = [pc EXCEPT ![Leader] = "drain_driven"]
      <4>1. proposing = None
        BY <2>1, <3>2 DEF CursorInv
      <4> QED BY <2>5, <3>1, <4>1, SubmitShape
    <3>4. \A m \in Transit' : m \in Transit \/ m.slot = nextCmd
      <4>1. \A k \in Id : Queued(k)' \subseteq Queued(k)
        BY <3>2 DEF Queued
      <4>2. CASE outbox' = outbox
        BY <3>2, <4>2 DEF Transit, Queued
      <4>3. CASE outbox' = [outbox EXCEPT ![Leader] =
                              @ \cup ToPeers(Leader, Propose(nextCmd, c))]
        <5>s. PICK S : S = outbox[Leader] \cup ToPeers(Leader, Propose(nextCmd, c))
          OBVIOUS
        <5>1. \A o \in S : o.msg \in Transit \/ o.msg.slot = nextCmd
          BY <2>1, <5>s, TransitMembers DEF ToPeers, Propose
        <5>2. outbox' = [outbox EXCEPT ![Leader] = S]
          BY <4>3, <5>s
        <5>3. \A m \in Transit' : m \in Transit \/ \E o \in S : m = o.msg
          BY <2>1, <4>1, <5>2, TransitGrowth
        <5> QED BY <5>1, <5>3
      <4> QED BY <3>3, <4>2, <4>3
    <3>5. /\ \A m \in Transit' : m.slot < nextCmd'
          /\ \A v \in cast' : v[1] < nextCmd'
      BY <2>1, <2>2, <2>3, <3>2, <3>3, <3>4 DEF CursorInv
    <3>6. pc'[Leader] \notin {"send_driven", "recv", "done"}
      BY <2>1, <3>3
    <3>7. CASE proposing' = c /\ view' = view
      <4>1. c # None /\ NextSlot(Leader)' = NextSlot(Leader)
        BY <2>1, <3>2, <3>7, ClusterAssumption, SameViews
      <4> QED BY <3>1, <3>2, <3>5, <3>6, <3>7, <4>1 DEF CursorInv
    <3>8. CASE proposing' = None /\ view' = [view EXCEPT ![Leader] = Commit(@, c)]
      <4>1. NextSlot(Leader)' = NextSlot(Leader) + 1
        BY <2>1, <3>2, <3>8, CommitNode
      <4> QED BY <3>2, <3>5, <3>6, <3>8, <4>1 DEF CursorInv
    <3> QED BY <3>3, <3>7, <3>8
  <2>6. ASSUME NEW n \in Id, DriveDone(n) PROVE CursorInv'
    <3>1. /\ view' = view /\ UNCHANGED <<nextCmd, proposing, outbox, chan, cast>>
          /\ pc' = [pc EXCEPT ![n] = "send_driven"] /\ pc[n] = "drive" /\ ~MayDrive(n)
      BY <2>6 DEF DriveDone, Goto, At, leaderVars
    <3>2. Transit' = Transit
      BY <3>1 DEF Transit, Queued
    <3>3. n = Leader /\ proposing = None => nextCmd = Expected
      BY <2>1, <3>1 DEF MayDrive, CursorInv, AppliedInv, NextSlot
    <3>4. pc'[Leader] \in {"send_driven", "recv", "done"} /\ proposing = None =>
            nextCmd = Expected
      BY <2>1, <3>1, <3>3 DEF CursorInv
    <3> QED BY <2>1, <2>4, <3>1, <3>2, <3>4, SameViews
  <2>7. ASSUME NEW n \in Id, NEW label, NEW next \in {"drive", "send_handled"}, Drain(n, label, next)
        PROVE  CursorInv'
    <3>1. NextSlot(Leader)' = NextSlot(Leader)
      BY <2>1, <2>7, DrainKeepsLogs
    <3>2. Transit' = Transit /\ UNCHANGED <<nextCmd, proposing, cast>>
      BY <2>7 DEF Drain, leaderVars, Transit, Queued
    <3>3. pc'[Leader] \in {"send_driven", "recv", "done"} => pc'[Leader] = pc[Leader]
      BY <2>1, <2>7 DEF Drain, Goto
    <3> QED BY <2>4, <3>1, <3>2, <3>3 DEF CursorInv
  <2>8. ASSUME NEW n \in Id, NEW label, Send(n, label) PROVE CursorInv'
    <3>1. Transit' \subseteq Transit /\ view' = view /\ UNCHANGED <<nextCmd, proposing, cast, pc>>
      BY <2>8, SendMoves DEF Send, leaderVars
    <3> QED BY <2>1, <2>4, <3>1, SameViews DEF CursorInv
  <2>9. ASSUME NEW n \in Id, NEW label, NEW next,
               <<label, next>> \in {<<"send_handled", "drive">>, <<"send_driven", "recv">>},
               Publish(n, label, next)
        PROVE  CursorInv'
    <3>1. /\ view' = view /\ UNCHANGED <<nextCmd, proposing, cast, outbox, chan>>
          /\ pc[n] = label /\ pc' = [pc EXCEPT ![n] = next]
      BY <2>9 DEF Publish, Goto, At, leaderVars
    <3>2. Transit' = Transit
      BY <3>1 DEF Transit, Queued
    <3>3. pc'[Leader] \in {"send_driven", "recv", "done"} =>
            pc[Leader] \in {"send_driven", "recv", "done"}
      BY <2>1, <2>9, <3>1
    <3> QED BY <2>1, <2>4, <3>1, <3>2, <3>3, SameViews DEF CursorInv
  <2>10. ASSUME NEW n \in Id, HandleIrrelevant(n) PROVE CursorInv'
    <3>1. Transit' \subseteq Transit
      BY <2>10, ReceiveShrinks, TransitMembers DEF HandleIrrelevant
    <3>2. /\ view' = view /\ UNCHANGED <<nextCmd, proposing, cast>>
          /\ pc' = [pc EXCEPT ![n] = "send_handled"]
      BY <2>10 DEF HandleIrrelevant, Goto, leaderVars
    <3>3. pc'[Leader] \in {"send_driven", "recv", "done"} => pc'[Leader] = pc[Leader]
      BY <2>1, <3>2
    <3> QED BY <2>1, <2>4, <3>1, <3>2, <3>3, SameViews DEF CursorInv
  <2>11. ASSUME NEW n \in Id, HandlePropose(n) PROVE CursorInv'
    <3>m. PICK m : m = Head(chan[n])
      OBVIOUS
    <3>v. PICK v : v = Vote(m.slot, n, m.cmd)
      OBVIOUS
    <3>1. /\ Receive(n) /\ UNCHANGED <<view, nextCmd, proposing>>
          /\ outbox' = [outbox EXCEPT ![n] = To(Leader, v)]
          /\ cast' = cast \cup {<<m.slot, n, m.cmd>>}
          /\ pc' = [pc EXCEPT ![n] = "send_handled"]
      BY <2>11, <3>m, <3>v DEF HandlePropose, leaderVars, Goto
    <3>2. m \in Transit /\ \A k \in Id : Queued(k)' \subseteq Queued(k)
      BY <3>1, <3>m, ReceiveShrinks
    <3>3. m.slot < nextCmd /\ v.slot = m.slot
      BY <3>2, <3>v DEF CursorInv, Vote
    <3>4. \A x \in Transit' : x \in Transit \/ x.slot < nextCmd
      <4>1. \A x \in Transit' : x \in Transit \/ \E o \in To(Leader, v) : x = o.msg
        BY <3>1, <3>2, TransitGrowth
      <4> QED BY <4>1, <3>3 DEF To
    <3>5. pc'[Leader] \in {"send_driven", "recv", "done"} => pc'[Leader] = pc[Leader]
      BY <2>1, <3>1
    <3>6. \A x \in cast' : x \in cast \/ x[1] < nextCmd
      BY <3>1, <3>3
    <3> QED BY <2>1, <2>4, <3>1, <3>4, <3>5, <3>6, SameViews DEF CursorInv
  <2>12. ASSUME NEW n \in Id, HandleVote(n) PROVE CursorInv'
    <3>m. PICK m : m = Head(chan[n])
      OBVIOUS
    <3>1. /\ pc[Leader] = "recv" /\ m \in Transit /\ m.cmd \in Command /\ m.slot = NextSlot(Leader)
          /\ \A k \in Id : Queued(k)' \subseteq Queued(k)
          /\ UNCHANGED <<nextCmd, cast>>
      BY <2>12, <3>m, VoteShape
    <3>2. proposing # None /\ nextCmd = NextSlot(Leader) + 1
      BY <2>1, <3>1 DEF CursorInv
    <3>3. CASE /\ proposing' = None /\ view' = [view EXCEPT ![Leader] = Commit(@, m.cmd)]
               /\ outbox' = [outbox EXCEPT ![Leader] = ToPeers(Leader, CommitOf(m.slot, m.cmd))]
               /\ pc' = [pc EXCEPT ![Leader] = "drain_handled"]
      <4>1. NextSlot(Leader)' = NextSlot(Leader) + 1
        BY <2>1, <3>1, <3>3, CommitNode
      <4>2. \A x \in Transit' : x \in Transit \/ x.slot = m.slot
        <5>1. PICK S : S = ToPeers(Leader, CommitOf(m.slot, m.cmd))
          OBVIOUS
        <5>2. \A x \in Transit' : x \in Transit \/ \E o \in S : x = o.msg
          BY <2>1, <3>1, <3>3, <5>1, TransitGrowth
        <5> QED BY <5>1, <5>2 DEF ToPeers, CommitOf
      <4>3. /\ \A x \in Transit' : x.slot < nextCmd'
            /\ \A x \in cast' : x[1] < nextCmd'
        BY <3>1, <4>2 DEF CursorInv
      <4> QED BY <2>1, <3>1, <3>2, <3>3, <4>1, <4>3 DEF CursorInv
    <3>4. CASE /\ proposing' = proposing /\ view' = view
               /\ outbox' = [outbox EXCEPT ![Leader] = {}]
               /\ pc' = [pc EXCEPT ![Leader] = "send_handled"]
      <4>1. Transit' \subseteq Transit
        <5>1. PICK S : S = {}
          OBVIOUS
        <5>2. \A x \in Transit' : x \in Transit \/ \E o \in S : x = o.msg
          BY <2>1, <3>1, <3>4, <5>1, TransitGrowth
        <5> QED BY <5>1, <5>2
      <4> QED BY <2>1, <2>4, <3>1, <3>4, <4>1, SameViews DEF CursorInv
    <3> QED BY <2>12, <3>m, <3>3, <3>4, VoteShape
  <2>13. ASSUME NEW n \in Id, HandleCommit(n) PROVE CursorInv'
    <3> DEFINE m == Head(chan[n])
    <3>1. /\ Receive(n) /\ m.type = "commit" /\ m.slot = NextSlot(n)
          /\ view' = [view EXCEPT ![n] = Commit(@, m.cmd)]
          /\ UNCHANGED <<nextCmd, proposing, cast, outbox>>
          /\ pc' = [pc EXCEPT ![n] = "drain_handled"]
      BY <2>13 DEF HandleCommit, leaderVars, Goto
    <3>2. m \in Transit /\ Transit' \subseteq Transit /\ m \in Msg
      BY <3>1, ReceiveShrinks, TransitMembers, ReceiveTypes
    <3>3. m.slot + 1 \in DOMAIN Log(Leader)
      BY <3>1, <3>2 DEF ClusterInv, Truthful
    <3>4. n # Leader
      BY <3>1, <3>3, IdFinite, ViewFields DEF NextSlot
    <3>5. NextSlot(Leader)' = NextSlot(Leader)
      BY <2>1, <3>1, <3>2, <3>4, MsgFields, CommitNode
    <3>6. pc'[Leader] = pc[Leader]
      BY <2>1, <3>1, <3>4
    <3> QED BY <2>4, <3>1, <3>2, <3>5, <3>6 DEF CursorInv
  <2>14. ASSUME NEW n \in Id, Exit(n) PROVE CursorInv'
    <3>1. /\ view' = view /\ UNCHANGED <<nextCmd, proposing, cast, outbox, chan>>
          /\ pc[n] = "recv" /\ pc' = [pc EXCEPT ![n] = "done"]
      BY <2>14 DEF Exit, Goto, At, leaderVars
    <3>2. Transit' = Transit
      BY <3>1 DEF Transit, Queued
    <3>3. pc'[Leader] \in {"send_driven", "recv", "done"} =>
            pc[Leader] \in {"send_driven", "recv", "done"}
      BY <2>1, <3>1
    <3> QED BY <2>1, <2>4, <3>1, <3>2, <3>3, SameViews DEF CursorInv
  <2>15. ASSUME NEW n \in Id, Task(n) PROVE CursorInv'
    BY <2>15, <2>5, <2>6, <2>7, <2>8, <2>9, <2>10, <2>11, <2>12, <2>13, <2>14 DEF Task
  <2>16. CASE Join \/ Timeout \/ Returned \/ UNCHANGED vars
    <3>1. UNCHANGED <<view, proposing, nextCmd, pc, outbox, chan, cast>>
      BY <2>16 DEF Join, Timeout, Returned, vars, leaderVars
    <3>2. Transit' = Transit
      BY <3>1 DEF Transit, Queued
    <3> QED BY <2>1, <2>4, <3>1, <3>2, SameViews DEF CursorInv
  <2> QED BY <2>15, <2>16 DEF Next
<1> QED BY <1>1, <1>2

-----------------------------------------------------------------------------
(* Who sends what to whom. *)

\* What the message lemmas need of the leader's counters.
LEMMA CounterTypes ==
  ASSUME TypeOK
  PROVE  /\ Leader \in Id /\ nextCmd \in Nat /\ Broadcasts \in Nat
         /\ DOMAIN pc = Id /\ DOMAIN outbox = Id /\ DOMAIN chan = Id /\ Live \subseteq Id
         /\ \A n \in Id : NextSlot(n) \in Nat /\ chan[n] \in Seq(Msg)
<1>1. Leader \in Id /\ nextCmd \in Nat
  BY IdFinite, ClusterAssumption DEF TypeOK, Expected
<1>2. \A n \in Id : NextSlot(n) \in Nat /\ chan[n] \in Seq(Msg)
  BY ViewFields DEF TypeOK
<1> QED BY <1>1, <1>2 DEF TypeOK, Broadcasts, Live

\* Only the leader broadcasts, one message at a time, numbered by its log and its
\* cursor; followers only vote (lib.rs handle, net.rs dispatch).
LEMMA RouteInductive ==
  /\ Init => RouteInv
  /\ RouteInv /\ CursorInv /\ ClusterInv /\ TypeOK /\ [Next]_vars => RouteInv'
<1>1. Init => RouteInv
  BY IdFinite DEF Init, RouteInv, Queued
<1>2. RouteInv /\ CursorInv /\ ClusterInv /\ TypeOK /\ [Next]_vars => RouteInv'
  <2> SUFFICES ASSUME RouteInv, CursorInv, ClusterInv, TypeOK, [Next]_vars PROVE RouteInv'
    OBVIOUS
  <2>1. /\ Leader \in Id /\ nextCmd \in Nat /\ Broadcasts \in Nat /\ NextSlot(Leader) \in Nat
        /\ DOMAIN pc = Id /\ DOMAIN outbox = Id /\ DOMAIN chan = Id
    BY CounterTypes
  <2> DEFINE Idle == pc[Leader] \in {"drive", "drain_driven"} /\ proposing = None
  <2>2. ASSUME NextSlot(Leader)' = NextSlot(Leader), UNCHANGED nextCmd,
               Queued(Leader)' \subseteq Queued(Leader),
               \A k \in Id : outbox'[k] \subseteq outbox[k],
               Idle' => Idle \/ outbox[Leader] = {}
        PROVE  RouteInv'
    BY <2>1, <2>2 DEF RouteInv, Broadcasts, IsBroadcast
  <2>3. ASSUME Queued(Leader)' \subseteq Queued(Leader), NEW m,
               \A k \in Id \ {Leader} : outbox'[k] = outbox[k],
               outbox'[Leader] = ToPeers(Leader, m), IsBroadcast(m, Broadcasts'), ~Idle'
        PROVE  RouteInv'
    <3>1. \A o \in ToPeers(Leader, m) : o.to # Leader /\ o.msg = m
      BY DEF ToPeers
    <3>2. \A o, p \in ToPeers(Leader, m) : o.to = p.to => o = p
      BY DEF ToPeers
    <3> QED BY <2>1, <2>3, <3>1, <3>2 DEF RouteInv, IsBroadcast
  <2>4. ASSUME NEW n \in Id, DriveSubmit(n) PROVE RouteInv'
    <3>1. PICK c : c = Workload[nextCmd + 1]
      OBVIOUS
    <3>2. /\ pc[Leader] = "drive" /\ c \in Command /\ UNCHANGED chan
          /\ NextSlot(Leader) = nextCmd /\ nextCmd' = nextCmd + 1
      BY <2>4, <3>1, SubmitShape
    <3>3. proposing = None /\ outbox[Leader] = {}
      BY <2>1, <3>2 DEF CursorInv, RouteInv
    <3>4. Queued(Leader)' = Queued(Leader)
      BY <3>2 DEF Queued
    <3>5. CASE /\ proposing' = c /\ view' = view
               /\ outbox' = [outbox EXCEPT ![Leader] = @ \cup ToPeers(Leader, Propose(nextCmd, c))]
      <4>1. PICK m : m = Propose(nextCmd, c)
        OBVIOUS
      <4>2. /\ outbox'[Leader] = ToPeers(Leader, m)
            /\ \A k \in Id \ {Leader} : outbox'[k] = outbox[k]
        BY <2>1, <3>3, <3>5, <4>1
      <4>3. NextSlot(Leader)' = nextCmd
        BY <2>1, <3>2, <3>5, SameViews
      <4>4. IsBroadcast(m, Broadcasts')
        BY <2>1, <3>2, <4>1, <4>3 DEF IsBroadcast, Broadcasts, Propose
      <4>5. proposing' # None
        BY <3>2, <3>5, ClusterAssumption
      <4> QED BY <2>3, <3>4, <4>2, <4>4, <4>5
    <3>6. CASE outbox' = outbox /\ Id = {Leader}
      BY <2>1, <3>3, <3>4, <3>6 DEF RouteInv
    <3> QED BY <2>4, <3>1, <3>3, <3>5, <3>6, SubmitShape
  <2>5. ASSUME NEW n \in Id, HandleVote(n) PROVE RouteInv'
    <3>m. PICK m : m = Head(chan[n])
      OBVIOUS
    <3>1. /\ pc[Leader] = "recv" /\ m \in Transit /\ m.cmd \in Command /\ m.slot = NextSlot(Leader)
          /\ Queued(Leader)' \subseteq Queued(Leader) /\ nextCmd' = nextCmd
      BY <2>1, <2>5, <3>m, VoteShape
    <3>2. nextCmd = NextSlot(Leader) + 1
      BY <2>1, <3>1 DEF CursorInv
    <3>3. CASE /\ proposing' = None /\ view' = [view EXCEPT ![Leader] = Commit(@, m.cmd)]
               /\ outbox' = [outbox EXCEPT ![Leader] = ToPeers(Leader, CommitOf(m.slot, m.cmd))]
               /\ pc' = [pc EXCEPT ![Leader] = "drain_handled"]
      <4>1. NextSlot(Leader)' = NextSlot(Leader) + 1
        BY <2>1, <3>1, <3>3, CommitNode
      <4>2. PICK d : d = CommitOf(m.slot, m.cmd)
        OBVIOUS
      <4>3. IsBroadcast(d, Broadcasts')
        BY <2>1, <3>1, <3>2, <4>1, <4>2 DEF IsBroadcast, Broadcasts, CommitOf
      <4>4. /\ outbox'[Leader] = ToPeers(Leader, d) /\ pc'[Leader] = "drain_handled"
            /\ \A k \in Id \ {Leader} : outbox'[k] = outbox[k]
        BY <2>1, <3>3, <4>2
      <4> QED BY <2>3, <3>1, <4>3, <4>4
    <3>4. CASE /\ proposing' = proposing /\ view' = view
               /\ outbox' = [outbox EXCEPT ![Leader] = {}]
               /\ pc' = [pc EXCEPT ![Leader] = "send_handled"]
      <4>1. (\A k \in Id : outbox'[k] \subseteq outbox[k]) /\ pc'[Leader] = "send_handled"
        BY <2>1, <3>4
      <4> QED BY <2>1, <2>2, <3>1, <3>4, <4>1, SameViews
    <3> QED BY <2>5, <3>m, <3>3, <3>4, VoteShape
  <2>6. ASSUME NEW n \in Id, DriveDone(n) PROVE RouteInv'
    <3>1. /\ view' = view /\ UNCHANGED <<nextCmd, proposing, outbox, chan>>
          /\ pc' = [pc EXCEPT ![n] = "send_driven"]
      BY <2>6 DEF DriveDone, Goto, leaderVars
    <3> QED BY <2>1, <2>2, <3>1, SameViews DEF Queued
  <2>7. ASSUME NEW n \in Id, NEW label, NEW next,
               <<label, next>> \in {<<"drain_driven", "drive">>, <<"drain_handled", "send_handled">>},
               Drain(n, label, next)
        PROVE  RouteInv'
    <3>1. NextSlot(Leader)' = NextSlot(Leader)
      BY <2>1, <2>7, DrainKeepsLogs
    <3>2. UNCHANGED <<nextCmd, proposing, outbox, chan>> /\ pc[n] = label
          /\ (pc' = pc \/ pc' = [pc EXCEPT ![n] = next])
      BY <2>7 DEF Drain, Goto, At, leaderVars
    <3>3. Idle' => Idle
      BY <2>1, <2>7, <3>2
    <3> QED BY <2>1, <2>2, <3>1, <3>2, <3>3 DEF Queued
  <2>8. ASSUME NEW n \in Id, NEW label, Send(n, label) PROVE RouteInv'
    <3>1. /\ view' = view /\ UNCHANGED <<nextCmd, proposing, pc>>
      BY <2>8 DEF Send, leaderVars
    <3>2. PICK o \in outbox[n] :
            /\ outbox' = [outbox EXCEPT ![n] = @ \ {o}]
            /\ chan' = chan \/ chan' = [chan EXCEPT ![o.to] = Append(@, o.msg)]
      BY <2>8 DEF Send
    <3>3. \A k \in Id : outbox'[k] \subseteq outbox[k]
      BY <2>1, <3>2
    <3>4. \A m \in Queued(Leader)' : m.type = "vote"
      <4>1. CASE chan'[Leader] = chan[Leader]
        BY <4>1 DEF RouteInv, Queued
      <4>2. CASE chan'[Leader] # chan[Leader]
        <5>1. o.to = Leader /\ chan'[Leader] = Append(chan[Leader], o.msg)
          BY <2>1, <3>2, <4>2
        <5>2. o.msg.type = "vote"
          BY <5>1 DEF RouteInv
        <5>3. chan[Leader] \in Seq(Msg) /\ o.msg \in Msg
          BY <2>1 DEF TypeOK
        <5>4. \A i \in DOMAIN Append(chan[Leader], o.msg) :
                \/ i \in DOMAIN chan[Leader] /\ Append(chan[Leader], o.msg)[i] = chan[Leader][i]
                \/ Append(chan[Leader], o.msg)[i] = o.msg
          BY <5>3
        <5> QED BY <5>1, <5>2, <5>4 DEF RouteInv, Queued
      <4> QED BY <4>1, <4>2
    <3>5. NextSlot(Leader)' = NextSlot(Leader)
      BY <2>1, <3>1, SameViews
    <3> QED BY <2>1, <3>1, <3>3, <3>4, <3>5 DEF RouteInv, Broadcasts, IsBroadcast
  <2>9. ASSUME NEW n \in Id, NEW label, NEW next, Publish(n, label, next) PROVE RouteInv'
    <3>1. /\ view' = view /\ UNCHANGED <<nextCmd, proposing, outbox, chan>> /\ outbox[n] = {}
          /\ pc' = [pc EXCEPT ![n] = next]
      BY <2>9 DEF Publish, Goto, leaderVars
    <3>2. Idle' => Idle \/ outbox[Leader] = {}
      BY <2>1, <3>1
    <3> QED BY <2>1, <2>2, <3>1, <3>2, SameViews DEF Queued
  <2>10. ASSUME NEW n \in Id, HandleIrrelevant(n) PROVE RouteInv'
    <3>1. Queued(Leader)' \subseteq Queued(Leader)
      BY <2>1, <2>10, ReceiveShrinks DEF HandleIrrelevant
    <3>2. /\ view' = view /\ UNCHANGED <<nextCmd, proposing, outbox>>
          /\ pc' = [pc EXCEPT ![n] = "send_handled"]
      BY <2>10 DEF HandleIrrelevant, Goto, leaderVars
    <3>3. Idle' => Idle
      BY <2>1, <3>2
    <3> QED BY <2>1, <2>2, <3>1, <3>2, <3>3, SameViews
  <2>11. ASSUME NEW n \in Id, HandlePropose(n) PROVE RouteInv'
    <3>m. PICK m : m = Head(chan[n])
      OBVIOUS
    <3>v. PICK v : v = Vote(m.slot, n, m.cmd)
      OBVIOUS
    <3>1. /\ Receive(n) /\ UNCHANGED <<view, nextCmd, proposing>> /\ m.type = "propose"
          /\ outbox' = [outbox EXCEPT ![n] = To(Leader, v)]
          /\ pc' = [pc EXCEPT ![n] = "send_handled"]
      BY <2>11, <3>m, <3>v DEF HandlePropose, leaderVars, Goto
    <3>2. Queued(Leader)' \subseteq Queued(Leader)
      BY <2>1, <3>1, ReceiveShrinks
    <3>3. n # Leader
      <4>1. chan[n] # << >> /\ chan[n] \in Seq(Msg)
        BY <3>1 DEF Receive, TypeOK
      <4>2. m \in Queued(n)
        BY <3>m, <4>1 DEF Queued
      <4> QED BY <3>1, <4>2 DEF RouteInv
    <3>4. \A o \in To(Leader, v) : o.to = Leader /\ o.msg.type = "vote"
      BY <3>v DEF To, Vote
    <3>5. /\ NextSlot(Leader)' = NextSlot(Leader) /\ pc'[Leader] = pc[Leader]
          /\ \A k \in Id \ {n} : outbox'[k] = outbox[k]
          /\ outbox'[n] = To(Leader, v)
      BY <2>1, <3>1, <3>3, SameViews
    <3> QED BY <2>1, <3>1, <3>2, <3>3, <3>4, <3>5 DEF RouteInv, Broadcasts, IsBroadcast
  <2>12. ASSUME NEW n \in Id, HandleCommit(n) PROVE RouteInv'
    <3> DEFINE m == Head(chan[n])
    <3>1. /\ Receive(n) /\ m.type = "commit" /\ m.slot = NextSlot(n)
          /\ view' = [view EXCEPT ![n] = Commit(@, m.cmd)]
          /\ UNCHANGED <<nextCmd, proposing, outbox>>
          /\ pc' = [pc EXCEPT ![n] = "drain_handled"]
      BY <2>12 DEF HandleCommit, leaderVars, Goto
    <3>2. m \in Queued(n) /\ m \in Msg /\ Queued(Leader)' \subseteq Queued(Leader)
      <4>1. chan[n] # << >> /\ chan[n] \in Seq(Msg)
        BY <3>1 DEF Receive, TypeOK
      <4>2. m \in Queued(n)
        BY <4>1 DEF Queued
      <4> QED BY <2>1, <3>1, <4>2, ReceiveShrinks, ReceiveTypes
    <3>3. n # Leader
      BY <3>1, <3>2 DEF RouteInv
    <3>4. NextSlot(Leader)' = NextSlot(Leader) /\ pc'[Leader] = pc[Leader]
      BY <2>1, <3>1, <3>2, <3>3, MsgFields, CommitNode
    <3> QED BY <2>2, <3>1, <3>2, <3>4
  <2>13. ASSUME NEW n \in Id, Exit(n) PROVE RouteInv'
    <3>1. /\ view' = view /\ UNCHANGED <<nextCmd, proposing, outbox, chan>>
          /\ pc' = [pc EXCEPT ![n] = "done"]
      BY <2>13 DEF Exit, Goto, leaderVars
    <3>2. Idle' => Idle
      BY <2>1, <3>1
    <3> QED BY <2>1, <2>2, <3>1, <3>2, SameViews DEF Queued
  <2>14. ASSUME NEW n \in Id, Task(n) PROVE RouteInv'
    BY <2>14, <2>4, <2>5, <2>6, <2>7, <2>8, <2>9, <2>10, <2>11, <2>12, <2>13 DEF Task
  <2>15. CASE Join \/ Timeout \/ Returned \/ UNCHANGED vars
    <3>1. UNCHANGED <<view, proposing, nextCmd, pc, outbox, chan>>
      BY <2>15 DEF Join, Timeout, Returned, vars, leaderVars
    <3> QED BY <2>1, <2>2, <3>1, SameViews DEF Queued
  <2> QED BY <2>14, <2>15 DEF Next
<1> QED BY <1>1, <1>2

-----------------------------------------------------------------------------
(* The stream of broadcasts. *)

\* What a running follower finds first in its queue is the proposal of the slot
\* it is at, or its commit once it has had the proposal.
LEMMA HeadIsNext ==
  ASSUME TypeOK, NEW f \in Id, InStep(f), chan[f] # << >>
  PROVE  /\ Head(chan[f]).slot = NextSlot(f)
         /\ Head(chan[f]).type = "propose" => Taken(f) = 2 * NextSlot(f)
         /\ Head(chan[f]).type = "commit" => Taken(f) = 2 * NextSlot(f) + 1
         /\ Head(chan[f]).type \in {"propose", "commit"}
<1>1. /\ chan[f] \in Seq(Msg) /\ NextSlot(f) \in Nat
  BY CounterTypes
<1>2. 1 \in DOMAIN chan[f] /\ Head(chan[f]) = chan[f][1] /\ Head(chan[f]) \in Msg
  BY <1>1
<1>3. PICK t : t = Taken(f)
  OBVIOUS
<1>4. PICK m : m = Head(chan[f])
  OBVIOUS
<1>5. IsBroadcast(m, t + 1) /\ (t = 2 * NextSlot(f) \/ t = 2 * NextSlot(f) + 1) /\ m.slot \in Nat
  BY <1>2, <1>3, <1>4, MsgFields DEF InStep
<1>6. /\ m.slot = NextSlot(f)
      /\ m.type = "propose" => t = 2 * NextSlot(f)
      /\ m.type = "commit" => t = 2 * NextSlot(f) + 1
      /\ m.type \in {"propose", "commit"}
  BY <1>1, <1>5 DEF IsBroadcast
<1> QED BY <1>3, <1>4, <1>6

\* Taking the head of a queue counts as taken, and leaves the rest in its place.
LEMMA TakeHead ==
  ASSUME TypeOK, NEW f \in Id \ {Leader}, InStep(f), chan[f] # << >>,
         chan' = [chan EXCEPT ![f] = Tail(@)],
         UNCHANGED nextCmd, NextSlot(Leader)' = NextSlot(Leader),
         outbox'[Leader] = outbox[Leader]
  PROVE  /\ Taken(f)' = Taken(f) + 1
         /\ \A i \in DOMAIN (chan'[f]) : IsBroadcast(chan'[f][i], Taken(f)' + i)
<1>1. /\ chan[f] \in Seq(Msg) /\ Broadcasts \in Nat /\ DOMAIN chan = Id
  BY CounterTypes
<1>2. chan'[f] = Tail(chan[f]) /\ Unsent(f)' = Unsent(f) /\ Broadcasts' = Broadcasts
  BY <1>1 DEF Unsent, Broadcasts
<1>3. /\ Len(chan'[f]) = Len(chan[f]) - 1 /\ Len(chan[f]) \in Nat
      /\ \A i \in DOMAIN (chan'[f]) : i \in Nat /\ i + 1 \in DOMAIN chan[f] /\ chan'[f][i] = chan[f][i + 1]
  BY <1>1, <1>2
<1>4. Unsent(f) \in {0, 1}
  BY DEF Unsent
<1>5. Taken(f)' = Taken(f) + 1 /\ Taken(f) \in Int
  BY <1>1, <1>2, <1>3, <1>4 DEF Taken
<1>6. PICK t \in Int : t = Taken(f)
  BY <1>5
<1>7. \A i \in DOMAIN (chan'[f]) : IsBroadcast(chan[f][i + 1], t + (i + 1))
  <2>1. \A j \in DOMAIN chan[f] : IsBroadcast(chan[f][j], t + j)
    BY <1>6 DEF InStep
  <2>2. ASSUME NEW i \in DOMAIN (chan'[f]) PROVE i + 1 \in DOMAIN chan[f]
    BY <1>3
  <2> QED BY <2>1, <2>2
<1>8. \A i \in DOMAIN (chan'[f]) : t + (i + 1) = (t + 1) + i
  <2>1. \A i \in Nat : t + (i + 1) = (t + 1) + i
    OBVIOUS
  <2>2. \A i \in DOMAIN (chan'[f]) : i \in Nat
    BY <1>3
  <2> QED BY <2>1, <2>2
<1>9. \A i \in DOMAIN (chan'[f]) : IsBroadcast(chan'[f][i], (t + 1) + i)
  BY <1>3, <1>7, <1>8
<1> QED BY <1>5, <1>6, <1>9

\* A follower whose queue, log and share of the leader's outbox stay as they are
\* stays in step.
LEMMA StaysInStep ==
  ASSUME NEW f \in Id, InStep(f), chan'[f] = chan[f], NextSlot(f)' = NextSlot(f),
         Taken(f)' = Taken(f)
  PROVE  InStep(f)'
  BY DEF InStep, IsBroadcast

\* The leader makes its next broadcast once the previous one is sent.
LEMMA BroadcastInStep ==
  ASSUME TypeOK, NEW f \in Id \ {Leader}, InStep(f), NEW m,
         chan'[f] = chan[f], NextSlot(f)' = NextSlot(f),
         Broadcasts' = Broadcasts + 1, outbox[Leader] = {},
         outbox'[Leader] = ToPeers(Leader, m)
  PROVE  InStep(f)'
<1>1. Broadcasts \in Nat /\ Len(chan[f]) \in Nat
  BY CounterTypes
<1>2. Unsent(f) = 0 /\ Unsent(f)' = 1
  <2>1. [to |-> f, msg |-> m] \in ToPeers(Leader, m)
    BY DEF ToPeers
  <2> QED BY <2>1 DEF Unsent
<1>3. Taken(f)' = Taken(f)
  BY <1>1, <1>2 DEF Taken
<1> QED BY <1>3, StaysInStep

\* A send takes one broadcast from the leader's outbox to the end of the queue.
LEMMA SendInStep ==
  ASSUME TypeOK, RouteInv, NEW n \in Id, NEW label, Send(n, label),
         NEW f \in Live \ {Leader}, pc[f] # "done", InStep(f)
  PROVE  InStep(f)'
<1>1. /\ Leader \in Id /\ Broadcasts \in Nat /\ chan[f] \in Seq(Msg) /\ f \in Id
      /\ DOMAIN chan = Id /\ DOMAIN outbox = Id /\ NextSlot(f) \in Nat
  BY CounterTypes
<1>2. PICK o \in outbox[n] :
        /\ outbox' = [outbox EXCEPT ![n] = @ \ {o}]
        /\ chan' = IF o.to \in Live /\ pc[o.to] # "done"
                   THEN [chan EXCEPT ![o.to] = Append(@, o.msg)]
                   ELSE chan
  BY DEF Send
<1>3. /\ NextSlot(f)' = NextSlot(f) /\ Broadcasts' = Broadcasts
  <2>1. view' = view /\ nextCmd' = nextCmd
    BY DEF Send, leaderVars
  <2> QED BY <2>1, <1>1, SameViews DEF Broadcasts
<1>4. CASE o.to # f
  <2>1. chan'[f] = chan[f]
    BY <1>1, <1>2, <1>4
  <2>2. Unsent(f)' = Unsent(f)
    <3>1. outbox'[Leader] = outbox[Leader] \/ outbox'[Leader] = outbox[Leader] \ {o}
      BY <1>1, <1>2
    <3> QED BY <1>4, <3>1 DEF Unsent
  <2>3. Taken(f)' = Taken(f)
    BY <1>3, <2>1, <2>2 DEF Taken
  <2> QED BY <1>1, <1>3, <2>1, <2>3, StaysInStep
<1>5. CASE o.to = f
  <2>1. n = Leader
    BY <1>2, <1>5 DEF RouteInv
  <2>2. /\ outbox'[Leader] = outbox[Leader] \ {o}
        /\ chan'[f] = Append(chan[f], o.msg) /\ o.msg \in Msg
    BY <1>1, <1>2, <1>5, <2>1 DEF TypeOK
  <2>3. Unsent(f) = 1 /\ Unsent(f)' = 0
    BY <1>2, <1>5, <2>1, <2>2 DEF Unsent, RouteInv
  <2>4. IsBroadcast(o.msg, Broadcasts)
    BY <1>2, <2>1 DEF RouteInv
  <2>5. /\ Len(chan'[f]) = Len(chan[f]) + 1 /\ Len(chan[f]) \in Nat
        /\ DOMAIN chan'[f] = 1..(Len(chan[f]) + 1)
        /\ \A i \in DOMAIN chan[f] : chan'[f][i] = chan[f][i]
        /\ chan'[f][Len(chan[f]) + 1] = o.msg
    BY <1>1, <2>2
  <2>6. Taken(f)' = Taken(f) /\ Broadcasts = Taken(f) + (Len(chan[f]) + 1)
    BY <1>1, <1>3, <2>3, <2>5 DEF Taken
  <2>7. ASSUME NEW i \in DOMAIN chan'[f] PROVE IsBroadcast(chan'[f][i], Taken(f) + i)
    <3>1. CASE i \in DOMAIN chan[f]
      BY <2>5, <3>1 DEF InStep
    <3>2. CASE i = Len(chan[f]) + 1
      BY <2>4, <2>5, <2>6, <3>2
    <3>3. i \in DOMAIN chan[f] \/ i = Len(chan[f]) + 1
      BY <1>1, <2>5
    <3> QED BY <3>1, <3>2, <3>3
  <2>8. Taken(f)' \in {2 * NextSlot(f)', 2 * NextSlot(f)' + 1}
    BY <1>3, <2>6 DEF InStep
  <2> QED BY <2>6, <2>7, <2>8 DEF InStep, IsBroadcast
<1> QED BY <1>4, <1>5

\* Broadcasts reach every running follower once and in order: that the leader
\* sends all of one before it makes the next, and that the queues are FIFO, is
\* what keeps a follower from ever having to drop one (net.rs).
LEMMA StreamInductive ==
  /\ Init => StreamInv
  /\ StreamInv /\ RouteInv /\ CursorInv /\ PublishedInv /\ ClusterInv /\ TypeOK /\ [Next]_vars
       => StreamInv'
<1>1. Init => StreamInv
  <2> SUFFICES ASSUME Init, NEW f \in Live \ {Leader} PROVE InStep(f)
    BY DEF StreamInv
  <2>1. f \in Id /\ Leader \in Id
    BY IdFinite DEF Live
  <2>2. chan[f] = << >> /\ outbox[Leader] = {} /\ nextCmd = 0
    BY <2>1 DEF Init
  <2>3. NextSlot(f) = 0 /\ NextSlot(Leader) = 0
    BY <2>1 DEF Init, NextSlot, Log
  <2> QED BY <2>2, <2>3 DEF InStep, Taken, Unsent, Broadcasts
<1>2. StreamInv /\ RouteInv /\ CursorInv /\ PublishedInv /\ ClusterInv /\ TypeOK /\ [Next]_vars
        => StreamInv'
  <2> SUFFICES ASSUME StreamInv, RouteInv, CursorInv, PublishedInv, ClusterInv, TypeOK,
                      [Next]_vars, NEW f \in Id \ {Leader}, f \in Live', pc'[f] # "done"
               PROVE  InStep(f)'
    BY DEF StreamInv, Live
  <2>1. /\ Leader \in Id /\ nextCmd \in Nat /\ Broadcasts \in Nat /\ NextSlot(Leader) \in Nat
        /\ DOMAIN pc = Id /\ DOMAIN outbox = Id /\ DOMAIN chan = Id /\ NextSlot(f) \in Nat
        /\ chan[f] \in Seq(Msg)
    BY CounterTypes
  <2>2. ASSUME f \in Live, pc[f] # "done" PROVE InStep(f)
    BY <2>2 DEF StreamInv
  <2>3. ASSUME chan'[f] = chan[f], NextSlot(f)' = NextSlot(f), UNCHANGED nextCmd,
               NextSlot(Leader)' = NextSlot(Leader), outbox'[Leader] = outbox[Leader],
               UNCHANGED crashed, pc[f] # "done"
        PROVE  InStep(f)'
    <3>1. InStep(f)
      BY <2>2, <2>3 DEF Live
    <3>2. Taken(f)' = Taken(f)
      BY <2>3 DEF Taken, Unsent, Broadcasts
    <3> QED BY <2>3, <3>1, <3>2, StaysInStep
  <2>4. ASSUME NEW n \in Id, DriveSubmit(n) PROVE InStep(f)'
    <3>1. PICK c : c = Workload[nextCmd + 1]
      OBVIOUS
    <3>2. /\ pc[Leader] = "drive" /\ c \in Command /\ UNCHANGED <<chan, crashed>>
          /\ NextSlot(Leader) = nextCmd /\ nextCmd' = nextCmd + 1
      BY <2>4, <3>1, SubmitShape
    <3>3. proposing = None /\ outbox[Leader] = {}
      BY <2>1, <3>2 DEF CursorInv, RouteInv
    <3>4. /\ view' = view /\ pc' = [pc EXCEPT ![Leader] = "drive"]
          /\ outbox' = [outbox EXCEPT ![Leader] = @ \cup ToPeers(Leader, Propose(nextCmd, c))]
      <4>1. Id # {Leader}
        OBVIOUS
      <4> QED BY <2>4, <3>1, <3>3, <4>1, SubmitShape
    <3>5. PICK m : m = Propose(nextCmd, c)
      OBVIOUS
    <3>6. outbox'[Leader] = ToPeers(Leader, m) /\ pc'[f] = pc[f]
      BY <2>1, <3>3, <3>4, <3>5
    <3>7. NextSlot(f)' = NextSlot(f) /\ Broadcasts' = Broadcasts + 1
      BY <2>1, <3>2, <3>4, SameViews DEF Broadcasts
    <3>8. InStep(f)
      BY <2>2, <3>2, <3>6 DEF Live
    <3> QED BY <3>2, <3>3, <3>6, <3>7, <3>8, BroadcastInStep
  <2>5. ASSUME NEW n \in Id, HandleVote(n) PROVE InStep(f)'
    <3>m. PICK m : m = Head(chan[n])
      OBVIOUS
    <3>1. /\ Leader \in Live /\ pc[Leader] = "recv" /\ m.cmd \in Command /\ m.slot = NextSlot(Leader)
          /\ UNCHANGED <<nextCmd, crashed>> /\ chan'[f] = chan[f]
      BY <2>1, <2>5, <3>m, VoteShape
    <3>2. outbox[Leader] = {}
      BY <3>1 DEF PublishedInv
    <3>3. CASE /\ view' = [view EXCEPT ![Leader] = Commit(@, m.cmd)]
               /\ outbox' = [outbox EXCEPT ![Leader] = ToPeers(Leader, CommitOf(m.slot, m.cmd))]
               /\ pc' = [pc EXCEPT ![Leader] = "drain_handled"]
      <4>1. NextSlot(Leader)' = NextSlot(Leader) + 1 /\ NextSlot(f)' = NextSlot(f)
        BY <2>1, <3>1, <3>3, CommitNode
      <4>2. PICK d : d = CommitOf(m.slot, m.cmd)
        OBVIOUS
      <4>3. outbox'[Leader] = ToPeers(Leader, d) /\ pc'[f] = pc[f]
        BY <2>1, <3>3, <4>2
      <4>4. Broadcasts' = Broadcasts + 1
        BY <2>1, <3>1, <4>1 DEF Broadcasts
      <4>5. InStep(f)
        BY <2>2, <3>1, <4>3 DEF Live
      <4> QED BY <3>1, <3>2, <4>1, <4>3, <4>4, <4>5, BroadcastInStep
    <3>4. CASE /\ view' = view /\ outbox' = [outbox EXCEPT ![Leader] = {}]
               /\ pc' = [pc EXCEPT ![Leader] = "send_handled"]
      <4>1. outbox'[Leader] = outbox[Leader] /\ pc'[f] = pc[f]
        BY <2>1, <3>2, <3>4
      <4> QED BY <2>1, <2>3, <3>1, <3>4, <4>1, SameViews
    <3> QED BY <2>5, <3>m, <3>3, <3>4, VoteShape
  <2>6. ASSUME NEW n \in Id, NEW label, NEW next, Drain(n, label, next),
               label \in {"drain_driven", "drain_handled"}
        PROVE  InStep(f)'
    <3>1. \A k \in Id : NextSlot(k)' = NextSlot(k)
      BY <2>6, DrainKeepsLogs
    <3>2. /\ UNCHANGED <<crashed, nextCmd, outbox, chan>> /\ pc[n] = label
          /\ (pc' = pc \/ pc' = [pc EXCEPT ![n] = next])
      BY <2>6 DEF Drain, Goto, At, leaderVars
    <3>3. pc[f] # "done"
      BY <2>1, <2>6, <3>2
    <3> QED BY <2>1, <2>3, <3>1, <3>2, <3>3
  <2>7. ASSUME NEW n \in Id, NEW label, Send(n, label) PROVE InStep(f)'
    <3>1. UNCHANGED <<crashed, pc>>
      BY <2>7 DEF Send
    <3>2. f \in Live /\ pc[f] # "done"
      BY <3>1 DEF Live
    <3> QED BY <2>2, <2>7, <3>2, SendInStep
  <2>8. ASSUME NEW n \in Id,
               \/ DriveDone(n) \/ Exit(n)
               \/ \E next : Publish(n, "send_handled", next) \/ Publish(n, "send_driven", next)
        PROVE  InStep(f)'
    <3>1. /\ view' = view /\ UNCHANGED <<crashed, nextCmd, outbox, chan>> /\ pc[n] # "done"
          /\ \E next : pc' = [pc EXCEPT ![n] = next]
      BY <2>8 DEF DriveDone, Exit, Publish, Goto, At, leaderVars
    <3>2. pc[f] # "done"
      BY <2>1, <3>1
    <3> QED BY <2>1, <2>3, <3>1, <3>2, SameViews
  <2>9. ASSUME NEW n \in Id, Receive(n)
        PROVE  /\ n # f => chan'[f] = chan[f]
               /\ n = f /\ UNCHANGED crashed => InStep(f) /\ chan[f] # << >> /\ f \in Live
               /\ chan' = [chan EXCEPT ![n] = Tail(@)]
               /\ pc[n] = "recv"
    BY <2>1, <2>2, <2>9 DEF Receive, At
  <2>10. ASSUME NEW n \in Id, HandleIrrelevant(n) PROVE InStep(f)'
    <3>1. /\ Receive(n) /\ view' = view /\ UNCHANGED <<crashed, nextCmd, outbox>>
          /\ pc' = [pc EXCEPT ![n] = "send_handled"]
          /\ Head(chan[n]).slot # NextSlot(n) \/ Head(chan[n]).type = "vote"
      BY <2>10 DEF HandleIrrelevant, Goto, leaderVars
    <3>2. n # f
      BY <2>9, <3>1, HeadIsNext
    <3>3. pc[f] # "done" /\ chan'[f] = chan[f]
      BY <2>1, <2>9, <3>1, <3>2
    <3> QED BY <2>1, <2>3, <3>1, <3>3, SameViews
  <2>11. ASSUME NEW n \in Id, HandlePropose(n) PROVE InStep(f)'
    <3>1. /\ Receive(n) /\ view' = view /\ UNCHANGED <<crashed, nextCmd>>
          /\ pc' = [pc EXCEPT ![n] = "send_handled"]
          /\ \A k \in Id \ {n} : outbox'[k] = outbox[k]
          /\ Head(chan[n]).type = "propose"
      BY <2>1, <2>11 DEF HandlePropose, Goto, leaderVars
    <3>2. n # Leader
      <4>1. chan[n] # << >> /\ chan[n] \in Seq(Msg)
        BY <3>1, CounterTypes DEF Receive
      <4>2. Head(chan[n]) \in Queued(n)
        BY <4>1 DEF Queued
      <4> QED BY <3>1, <4>2 DEF RouteInv
    <3>3. \A k \in Id : NextSlot(k)' = NextSlot(k)
      BY <3>1, SameViews
    <3>4. CASE n = f
      <4>1. InStep(f) /\ chan[f] # << >> /\ chan' = [chan EXCEPT ![f] = Tail(@)]
        BY <2>9, <3>1, <3>4
      <4>2. Taken(f) = 2 * NextSlot(f)
        BY <3>1, <3>4, <4>1, HeadIsNext
      <4>3. /\ Taken(f)' = Taken(f) + 1
            /\ \A i \in DOMAIN (chan'[f]) : IsBroadcast(chan'[f][i], Taken(f)' + i)
        BY <2>1, <3>1, <3>2, <3>3, <4>1, TakeHead
      <4> QED BY <2>1, <3>3, <4>2, <4>3 DEF InStep, IsBroadcast
    <3>5. CASE n # f
      <4>1. pc[f] # "done" /\ chan'[f] = chan[f]
        BY <2>1, <2>9, <3>1, <3>5
      <4> QED BY <2>1, <2>3, <3>1, <3>2, <3>3, <4>1
    <3> QED BY <3>4, <3>5
  <2>12. ASSUME NEW n \in Id, HandleCommit(n) PROVE InStep(f)'
    <3>m. PICK m : m = Head(chan[n])
      OBVIOUS
    <3>1. /\ Receive(n) /\ m.type = "commit" /\ UNCHANGED <<crashed, nextCmd, outbox>>
          /\ view' = [view EXCEPT ![n] = Commit(@, m.cmd)]
          /\ pc' = [pc EXCEPT ![n] = "drain_handled"]
      BY <2>12, <3>m DEF HandleCommit, leaderVars, Goto
    <3>2. m \in Queued(n) /\ m.cmd \in Command
      <4>1. chan[n] # << >> /\ chan[n] \in Seq(Msg)
        BY <3>1, CounterTypes DEF Receive
      <4>2. m \in Queued(n) /\ m \in Msg
        BY <3>m, <4>1 DEF Queued
      <4> QED BY <4>2, MsgFields
    <3>3. n # Leader
      BY <3>1, <3>2 DEF RouteInv
    <3>4. /\ NextSlot(n)' = NextSlot(n) + 1
          /\ \A k \in Id \ {n} : NextSlot(k)' = NextSlot(k)
      BY <3>1, <3>2, CommitNode
    <3>5. CASE n = f
      <4>1. InStep(f) /\ chan[f] # << >> /\ chan' = [chan EXCEPT ![f] = Tail(@)]
        BY <2>9, <3>1, <3>5
      <4>2. Taken(f) = 2 * NextSlot(f) + 1
        BY <3>m, <3>1, <3>5, <4>1, HeadIsNext
      <4>3. /\ Taken(f)' = Taken(f) + 1
            /\ \A i \in DOMAIN (chan'[f]) : IsBroadcast(chan'[f][i], Taken(f)' + i)
        BY <2>1, <3>1, <3>3, <3>4, <4>1, TakeHead
      <4> QED BY <2>1, <3>4, <3>5, <4>2, <4>3 DEF InStep, IsBroadcast
    <3>6. CASE n # f
      <4>1. pc[f] # "done" /\ chan'[f] = chan[f]
        BY <2>1, <2>9, <3>1, <3>6
      <4> QED BY <2>1, <2>3, <3>1, <3>3, <3>4, <3>6, <4>1
    <3> QED BY <3>5, <3>6
  <2>13. ASSUME NEW n \in Id, Task(n) PROVE InStep(f)'
    BY <2>13, <2>4, <2>5, <2>6, <2>7, <2>8, <2>10, <2>11, <2>12 DEF Task
  <2>14. CASE Join \/ Timeout \/ Returned \/ UNCHANGED vars
    <3>1. UNCHANGED <<crashed, view, nextCmd, pc, outbox, chan>>
      BY <2>14 DEF Join, Timeout, Returned, vars, leaderVars
    <3> QED BY <2>1, <2>3, <3>1, SameViews
  <2> QED BY <2>13, <2>14 DEF Next
<1> QED BY <1>1, <1>2

\* The harness, the nodes and the channels stay in step: these hold initially and
\* every step keeps them.
THEOREM HarnessInductive ==
  /\ Init => HarnessInv
  /\ HarnessInv /\ ClusterInv /\ TypeOK /\ [Next]_vars => HarnessInv'
  BY AppliedInductive, PublishedInductive, CrashedInductive, CursorInductive, RouteInductive,
     StreamInductive DEF HarnessInv

\* Every conjunct of HarnessInv holds in every reachable state.
THEOREM HarnessCorrect == Spec => []HarnessInv
  BY HarnessInductive, ClusterCorrect, TypeCorrect, PTL DEF Spec

-----------------------------------------------------------------------------
(* What it means for the properties of the cluster. *)

\* A node never publishes between its commit and the world_step that applies it
\* (net.rs publish, lib.rs apply_commit).
THEOREM SnapshotsAreDrained == Spec => []SnapshotsDrained
<1>1. HarnessInv /\ TypeOK => SnapshotsDrained
  <2> SUFFICES ASSUME HarnessInv, TypeOK, NEW n \in Id, snapshot[n] # None
               PROVE  /\ snapshot[n].replicas[n].applied = Len(snapshot[n].log)
                      /\ Len(snapshot[n].log) <= Len(Log(n))
    BY DEF SnapshotsDrained, Published
  <2>1. /\ snapshot[n].replicas[n].applied = Len(snapshot[n].log)
        /\ snapshot[n] = view[n] \/ Len(snapshot[n].log) < Len(Log(n))
    BY DEF HarnessInv, PublishedInv
  <2>2. snapshot[n].log \in Seq(Command) /\ Log(n) \in Seq(Command)
    BY ViewFields DEF TypeOK, View, GlobalConfig
  <2>3. Len(snapshot[n].log) \in Nat /\ Len(Log(n)) \in Nat
    BY <2>2
  <2> QED BY <2>1, <2>3 DEF Log
<1> QED BY <1>1, HarnessCorrect, TypeCorrect, PTL

\* No follower is ever stuck behind a message it had to drop, and a leader with
\* work left has the next command of the workload in flight (net.rs drive and
\* the receive loop, which have no catch-up and no retry).
THEOREM NobodySkipsASlot == Spec => []NextSlotIsUnderWay
<1>1. HarnessInv /\ ClusterInv /\ TypeOK => NextSlotIsUnderWay
  <2> SUFFICES ASSUME HarnessInv, ClusterInv, TypeOK PROVE NextSlotIsUnderWay
    OBVIOUS
  <2>1. ASSUME NEW n \in Live \ {Leader}, pc[n] = "recv", chan[n] # << >>
        PROVE  Head(chan[n]).slot = NextSlot(n)
    <3>1. InStep(n)
      BY <2>1 DEF HarnessInv, StreamInv
    <3> QED BY <2>1, <3>1, HeadIsNext DEF Live
  <2>2. ASSUME pc[Leader] = "recv", Applied(Leader) < Expected
        PROVE  nextCmd = Len(Log(Leader)) + 1 /\ proposing = Workload[nextCmd]
    <3>1. Leader \in Id /\ Applied(Leader) = Len(Log(Leader))
      BY <2>2, IdFinite DEF HarnessInv, AppliedInv
    <3>2. proposing # None
      <4>1. Expected \in Nat /\ NextSlot(Leader) \in Nat
        BY CounterTypes, ClusterAssumption DEF Expected
      <4> QED BY <2>2, <3>1, <4>1 DEF HarnessInv, CursorInv, NextSlot
    <3> QED BY <3>2 DEF HarnessInv, CursorInv, NextSlot
  <2> QED BY <2>1, <2>2 DEF NextSlotIsUnderWay
<1> QED BY <1>1, HarnessCorrect, ClusterCorrect, TypeCorrect, PTL

\* Without the leader or a quorum nothing is ever committed, applied or published
\* beyond the initial view: over-budget crashes cost liveness, never safety.
THEOREM OverBudgetIsSafe == Spec => []OverBudgetCommitsNothing
<1>1. HarnessInv /\ ClusterInv /\ TypeOK => OverBudgetCommitsNothing
  <2> SUFFICES ASSUME HarnessInv, ClusterInv, TypeOK, ~Progressing, NEW n \in Id
               PROVE  /\ Log(n) = << >>
                      /\ Applied(n) = 0
                      /\ snapshot[n] # None => snapshot[n] = view[n]
    BY DEF OverBudgetCommitsNothing
  <2>1. /\ Leader \in Id /\ Log(n) \in Seq(Command) /\ Log(Leader) \in Seq(Command)
        /\ Applied(n) \in Nat
    BY IdFinite, ViewFields
  <2>2. Log(n) = << >>
    <3>1. CASE Leader \notin Live
      <4>1. Log(Leader) = << >>
        BY <2>1, <3>1 DEF Live, HarnessInv, CrashedInv
      <4>2. DOMAIN Log(n) = {}
        BY <4>1 DEF ClusterInv, LogsFollowLeader
      <4> QED BY <2>1, <4>2
    <3>2. CASE ~IsQuorum(Cardinality(Live), N)
      <4>1. ASSUME NEW i \in DOMAIN Log(n) PROVE FALSE
        <5>1. IsQuorum(Cardinality(Voters(i - 1, Log(n)[i])), N)
          BY DEF ClusterInv, QuorumBacked
        <5>2. Voters(i - 1, Log(n)[i]) \subseteq Live
          BY DEF Voters, HarnessInv, CrashedInv
        <5> QED BY <3>2, <5>1, <5>2, QuorumMonotone DEF Live
      <4>2. DOMAIN Log(n) = {}
        BY <4>1
      <4> QED BY <2>1, <4>2
    <3> QED BY <3>1, <3>2 DEF Progressing
  <2>3. Applied(n) = 0
    BY <2>1, <2>2 DEF HarnessInv, AppliedInv
  <2>4. ASSUME snapshot[n] # None PROVE snapshot[n] = view[n]
    <3>1. snapshot[n].log \in Seq(Command)
      BY <2>4 DEF TypeOK, View, GlobalConfig
    <3>2. Len(snapshot[n].log) \in Nat /\ Len(Log(n)) = 0
      BY <2>2, <3>1
    <3>3. ~(Len(snapshot[n].log) < Len(Log(n)))
      BY <3>2
    <3> QED BY <2>4, <3>3 DEF HarnessInv, PublishedInv
  <2> QED BY <2>2, <2>3, <2>4
<1> QED BY <1>1, HarnessCorrect, ClusterCorrect, TypeCorrect, PTL

\* Logs of the same length are the same log.
LEMMA EqualLengthEqualLog ==
  ASSUME ClusterInv, TypeOK, NEW m \in Id, NEW n \in Id, NextSlot(m) = NextSlot(n)
  PROVE  Log(m) = Log(n)
<1>1. Log(m) \in Seq(Command) /\ Log(n) \in Seq(Command)
  BY ViewFields
<1>2. \A i \in 1..NextSlot(m) : Log(m)[i] = Log(n)[i]
  BY <1>1 DEF ClusterInv, LogsFollowLeader, NextSlot
<1> QED BY <1>1, <1>2 DEF NextSlot

\* In a stalled cluster every live replica has published the same log and the same
\* store (net.rs converged).
THEOREM StallsAreConverged == Spec => []StalledMeansConverged
<1>1. HarnessInv /\ ClusterInv /\ StoresAgree /\ TypeOK => StalledMeansConverged
  <2> SUFFICES ASSUME HarnessInv, ClusterInv, StoresAgree, TypeOK, \A n \in Live : Blocked(n)
               PROVE  \A m, n \in Live :
                        /\ snapshot[m].log = snapshot[n].log
                        /\ snapshot[m].replicas[m].store = snapshot[n].replicas[n].store
    BY DEF StalledMeansConverged
  <2>1. \A n \in Live : /\ n \in Id /\ pc[n] \in {"recv", "done"}
                        /\ snapshot[n] = view[n] /\ outbox[n] = {}
                        /\ Applied(n) = NextSlot(n)
    BY DEF Blocked, Live, HarnessInv, PublishedInv, AppliedInv, NextSlot
  <2>2. ASSUME NEW n \in Live PROVE NextSlot(n) = NextSlot(Leader)
    <3>1. Leader \in Id /\ n \in Id /\ NextSlot(n) \in Nat /\ NextSlot(Leader) \in Nat /\ nextCmd \in Nat
      BY CounterTypes DEF Live
    <3>2. Log(n) \in Seq(Command) /\ Log(Leader) \in Seq(Command)
      BY <3>1, ViewFields
    <3>3. NextSlot(n) <= NextSlot(Leader)
      <4>1. DOMAIN Log(n) \subseteq DOMAIN Log(Leader)
        BY <3>1 DEF ClusterInv, LogsFollowLeader
      <4> QED BY <3>1, <3>2, <4>1 DEF NextSlot
    <3>4. CASE Leader \notin Live
      <4>1. Log(Leader) = << >>
        BY <3>1, <3>4 DEF Live, HarnessInv, CrashedInv
      <4>2. NextSlot(Leader) = 0
        BY <4>1 DEF NextSlot
      <4> QED BY <3>1, <3>3, <4>2
    <3>5. CASE n # Leader /\ Leader \in Live /\ pc[n] = "done"
      <4>1. Applied(n) >= Expected /\ NextSlot(Leader) <= Expected
        BY <3>1, <3>5 DEF HarnessInv, PublishedInv, ClusterInv, LogIsWorkload, NextSlot
      <4>2. Expected \in Nat
        BY ClusterAssumption DEF Expected
      <4> QED BY <2>1, <3>1, <3>3, <4>1, <4>2
    <3>6. CASE n # Leader /\ Leader \in Live /\ pc[n] # "done"
      <4>1. InStep(n) /\ chan[n] = << >>
        BY <2>1, <3>6 DEF Blocked, HarnessInv, StreamInv
      <4>2. Unsent(n) = 0
        BY <2>1, <3>6 DEF Unsent
      <4>3. Taken(n) = NextSlot(Leader) + nextCmd
        BY <3>1, <4>1, <4>2 DEF Taken, Broadcasts
      <4>4. nextCmd = NextSlot(Leader) \/ nextCmd = NextSlot(Leader) + 1
        BY DEF HarnessInv, CursorInv
      <4> QED BY <3>1, <4>1, <4>3, <4>4 DEF InStep
    <3> QED BY <3>4, <3>5, <3>6
  <2>3. ASSUME NEW m \in Live, NEW n \in Live
        PROVE  Log(m) = Log(n) /\ StoreOf(m) = StoreOf(n)
    <3>1. m \in Id /\ n \in Id /\ NextSlot(m) = NextSlot(n) /\ Applied(m) = Applied(n)
      BY <2>1, <2>2
    <3> QED BY <3>1, EqualLengthEqualLog DEF StoresAgree
  <2> QED BY <2>1, <2>3 DEF Log, StoreOf
<1> QED BY <1>1, HarnessCorrect, ClusterCorrect, ClusterConverges, TypeCorrect, PTL

\* run_cluster that joined every task before its timeout returns a complete
\* outcome: every live replica is in it, with the whole workload and one store.
THEOREM SettledRunsAreComplete == Spec => []SettledMeansReplicated
<1>1. Init => SettledMeansReplicated
  BY DEF Init, SettledMeansReplicated
<1>2. /\ SettledMeansReplicated /\ HarnessInv /\ ClusterInv /\ StoresAgree /\ TypeOK
      /\ [Next]_vars
      => SettledMeansReplicated'
  <2> SUFFICES ASSUME SettledMeansReplicated, HarnessInv, ClusterInv, StoresAgree, TypeOK,
                      [Next]_vars
               PROVE  SettledMeansReplicated'
    OBVIOUS
  <2>1. CASE UNCHANGED <<outcome, crashed>>
    BY <2>1 DEF SettledMeansReplicated, Live
  <2>2. CASE Timeout
    <3>1. outcome' = Outcome(FALSE)
      BY <2>2 DEF Timeout
    <3>2. outcome'.settled = FALSE
      BY <3>1 DEF Outcome
    <3> QED BY <3>2 DEF SettledMeansReplicated
  <2>3. CASE Join
    <3>1. /\ outcome' = Outcome(TRUE) /\ crashed' = crashed
          /\ \A n \in Live : pc[n] = "done"
      BY <2>3 DEF Join
    <3>2. ASSUME NEW n \in Live
          PROVE  /\ n \in Id /\ snapshot[n] = view[n] /\ snapshot[n] # None
                 /\ Applied(n) = Expected /\ Log(n) = Workload
      <4>1. /\ n \in Id /\ snapshot[n] = view[n] /\ Applied(n) >= Expected
            /\ Applied(n) = NextSlot(n)
        BY <3>1 DEF Live, HarnessInv, PublishedInv, AppliedInv, NextSlot
      <4>2. NextSlot(n) <= Expected /\ \A i \in DOMAIN Log(n) : Log(n)[i] = Workload[i]
        BY <4>1 DEF ClusterInv, LogIsWorkload, NextSlot
      <4>3. /\ Log(n) \in Seq(Command) /\ Workload \in Seq(Command)
            /\ NextSlot(n) \in Nat /\ Expected \in Nat
        <5>1. Log(n) \in Seq(Command) /\ NextSlot(n) \in Nat
          BY <4>1, ViewFields
        <5> QED BY <5>1, ClusterAssumption DEF Expected
      <4>4. NextSlot(n) = Expected
        BY <4>1, <4>2, <4>3
      <4>5. Log(n) = Workload
        BY <4>2, <4>3, <4>4 DEF NextSlot, Expected
      <4>6. snapshot[n] # None
        <5>1. view[n] \in GlobalConfig({n}) /\ None \notin GlobalConfig({n})
          BY <4>1, ClusterAssumption DEF TypeOK, View
        <5> QED BY <4>1, <5>1
      <4> QED BY <4>1, <4>4, <4>5, <4>6
    <3>3. Published = Live
      <4>1. \A n \in crashed : snapshot[n] = None
        BY DEF HarnessInv, CrashedInv
      <4> QED BY <3>2, <4>1 DEF Published, Live
    <3>4. PICK o : o = Outcome(TRUE)
      OBVIOUS
    <3>5. /\ DOMAIN o.views = Live /\ \A n \in Live : o.views[n] = view[n]
          /\ o.complete
      BY <3>2, <3>3, <3>4 DEF Outcome, Applied
    <3>6. \A m, n \in Live : StoreOf(m) = StoreOf(n)
      BY <3>2 DEF StoresAgree
    <3>7. /\ \A n \in Live : o.views[n].log = Workload
          /\ \A m, n \in Live : o.views[m].replicas[m].store = o.views[n].replicas[n].store
      BY <3>2, <3>5, <3>6 DEF Log, StoreOf
    <3>8. outcome' = o /\ Live' = Live
      BY <3>1, <3>4 DEF Live
    <3> QED BY <3>5, <3>7, <3>8 DEF SettledMeansReplicated
  <2>4. ASSUME NEW n \in Id, Task(n) PROVE UNCHANGED <<outcome, crashed>>
    BY <2>4, SubmitShape DEF Task, DriveDone, Drain, Send, Publish, HandleIrrelevant,
                HandlePropose, HandleVote, HandleCommit, Exit, DriveSubmit
  <2>5. CASE Returned \/ UNCHANGED vars
    BY <2>1, <2>5 DEF Returned, vars
  <2> QED BY <2>1, <2>2, <2>3, <2>4, <2>5 DEF Next
<1> QED BY <1>1, <1>2, HarnessCorrect, ClusterCorrect, ClusterConverges, TypeCorrect, PTL DEF Spec
=============================================================================
