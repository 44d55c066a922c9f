----------------------------- MODULE NetCluster -----------------------------
(***************************************************************************)
(* The crash-fault cluster of crates/dlc-d-node: the protocol node         *)
(* (src/lib.rs) and the tokio harness that runs one task per live replica  *)
(* (src/net.rs, run_cluster).                                              *)
(*                                                                         *)
(* A replica's task loops:  recv a message, handle it, dispatch what it    *)
(* returned, publish a snapshot, drive the workload (leader only),         *)
(* dispatch, publish.  Tasks interleave at every effect another task or    *)
(* the harness can see: each single send, each publication, and the end of *)
(* the task.  Node-local computation between two effects is one step.      *)
(* Each receiver has one FIFO queue (an unbounded mpsc channel).           *)
(***************************************************************************)
EXTENDS Rsm, Consensus

CONSTANTS N,         \* cluster size; replica ids are 0 .. N-1
          Leader,    \* the static leader
          Workload,  \* the commands the leader drives, in order
          None       \* Option::None, and "nothing published yet"

Id == 0..(N - 1)

ASSUME ClusterAssumption ==
  /\ N \in Nat
  /\ Leader \in Id
  /\ Workload \in Seq(Command)
  /\ None \notin Command
  /\ \A n \in Id : None \notin GlobalConfig({n})

VARIABLES
  crashed,    \* replicas that never start: no task, no channel
  view,       \* view[n]: the node's GlobalConfig, whose only replica is n
  ballot,     \* the leader's ballot for the slot in flight
  proposing,  \* the leader's command in flight, or None
  nextCmd,    \* the leader's cursor into the workload
  pc,         \* pc[n]: where the task of replica n is in its loop
  outbox,     \* outbox[n]: what n's handler returned and has yet to send
  chan,       \* chan[n]: the queue of receiver n
  snapshot,   \* snapshot[n]: the view n last published, or None
  outcome,    \* what run_cluster returned, or None while it runs
  cast        \* history: every vote any replica cast, <<slot, replica, command>>

leaderVars == <<ballot, proposing, nextCmd>>
vars == <<crashed, view, ballot, proposing, nextCmd, pc, outbox, chan, snapshot,
          outcome, cast>>

-----------------------------------------------------------------------------
(* Derived state. *)

Log(n) == view[n].log
Applied(n) == view[n].replicas[n].applied
StoreOf(n) == view[n].replicas[n].store
NextSlot(n) == Len(Log(n))

Live == Id \ crashed
Expected == Len(Workload)
EmptyBallot == [i \in Id |-> None]

ProposeMsg == [type : {"propose"}, slot : Nat, cmd : Command]
VoteMsg    == [type : {"vote"}, slot : Nat, from : Id, cmd : Command]
CommitMsg  == [type : {"commit"}, slot : Nat, cmd : Command]
Msg == ProposeMsg \cup VoteMsg \cup CommitMsg

\* A mistake the checks must notice: voters numbered from one.
VoteFromOne(s, n, c) == [type |-> "vote", slot |-> s, from |-> n + 1, cmd |-> c]

Propose(s, c) == [type |-> "propose", slot |-> s, cmd |-> c]
Vote(s, n, c) == [type |-> "vote", slot |-> s, from |-> n, cmd |-> c]
CommitOf(s, c) == [type |-> "commit", slot |-> s, cmd |-> c]

\* Dest::Peers and Dest::To.
ToPeers(n, m) == [to : Id \ {n}, msg : {m}]
To(r, m) == {[to |-> r, msg |-> m]}

\* A task runs only while run_cluster has not returned.
At(n, label) == outcome = None /\ n \in Live /\ pc[n] = label
Goto(n, label) == pc' = [pc EXCEPT ![n] = label]

-----------------------------------------------------------------------------
(* Node::decide_if_quorum, for the ballot b and proposal p the caller left: *)
(* on a quorum commit the command, leave the ballot `after` behind and tell *)
(* the peers `notices`; `undecided` is where the task goes otherwise.       *)
(* Committing continues with the drain loop.                                *)

OnQuorum(n, b, p, cmd, pending, drain, undecided, after, notices) ==
  IF Decided(b, cmd)
  THEN /\ proposing' = None
       /\ ballot' = after
       /\ view' = [view EXCEPT ![n] = Commit(@, cmd)]
       /\ outbox' = [outbox EXCEPT ![n] = pending \cup notices]
       /\ Goto(n, drain)
  ELSE /\ proposing' = p
       /\ ballot' = b
       /\ outbox' = [outbox EXCEPT ![n] = pending]
       /\ Goto(n, undecided)
       /\ UNCHANGED view

\* Mistakes the checks must notice: the commit is not broadcast, is broadcast
\* under the next slot's number, or leaves the decided slot's ballot behind.
DecideSilently(n, b, p, slot, cmd, pending, drain, undecided) ==
  OnQuorum(n, b, p, cmd, pending, drain, undecided, EmptyBallot, {})
DecideNextSlot(n, b, p, slot, cmd, pending, drain, undecided) ==
  OnQuorum(n, b, p, cmd, pending, drain, undecided,
           EmptyBallot, ToPeers(n, CommitOf(slot + 1, cmd)))
DecideKeepingBallot(n, b, p, slot, cmd, pending, drain, undecided) ==
  OnQuorum(n, b, p, cmd, pending, drain, undecided, b, ToPeers(n, CommitOf(slot, cmd)))

\* The commit is broadcast to the peers and the ballot cleared.
DecideIfQuorum(n, b, p, slot, cmd, pending, drain, undecided) ==
  OnQuorum(n, b, p, cmd, pending, drain, undecided,
           EmptyBallot, ToPeers(n, CommitOf(slot, cmd)))

\* A mistake the checks must notice: the leader forgets its own vote.
SubmitWithoutOwnVote(n, cmd) ==
  IF proposing = None
  THEN /\ DecideIfQuorum(n, EmptyBallot, cmd, NextSlot(n), cmd,
                         outbox[n] \cup ToPeers(n, Propose(NextSlot(n), cmd)),
                         "drain_driven", "drive")
       /\ UNCHANGED cast
  ELSE UNCHANGED <<view, ballot, proposing, outbox, pc, cast>>

\* Node::submit: open the next slot, voting for one's own proposal.  Refused
\* (nothing is sent) when a proposal is already in flight.
Submit(n, cmd) ==
  IF proposing = None
  THEN /\ DecideIfQuorum(n, [EmptyBallot EXCEPT ![n] = cmd], cmd, NextSlot(n), cmd,
                         outbox[n] \cup ToPeers(n, Propose(NextSlot(n), cmd)),
                         "drain_driven", "drive")
       /\ cast' = cast \cup {<<NextSlot(n), n, cmd>>}
  ELSE UNCHANGED <<view, ballot, proposing, outbox, pc, cast>>

\* The condition of the loop in net.rs drive.
MayDrive(n) ==
  /\ n = Leader
  /\ nextCmd < Expected
  /\ Len(Log(n)) = nextCmd
  /\ Applied(n) = nextCmd

-----------------------------------------------------------------------------
(* Steps of a replica's task. *)

\* One iteration of drive: the cursor advances whatever submit answered.
DriveSubmit(n) ==
  /\ At(n, "drive") /\ MayDrive(n)
  /\ Submit(n, Workload[nextCmd + 1])
  /\ nextCmd' = nextCmd + 1
  /\ UNCHANGED <<crashed, chan, snapshot, outcome>>

DriveDone(n) ==
  /\ At(n, "drive") /\ ~MayDrive(n)
  /\ Goto(n, "send_driven")
  /\ UNCHANGED <<crashed, view, leaderVars, outbox, chan, snapshot, outcome, cast>>

\* apply_commit's loop: one world_step per iteration until the log is drained.
Drain(n, label, next) ==
  /\ At(n, label)
  /\ IF Applied(n) < Len(Log(n))
     THEN view' = [view EXCEPT ![n] = WorldStep(@)] /\ UNCHANGED pc
     ELSE Goto(n, next) /\ UNCHANGED view
  /\ UNCHANGED <<crashed, leaderVars, outbox, chan, snapshot, outcome, cast>>

\* dispatch, one send at a time in the order of the ids.  A send to a replica
\* that never started, or whose task has ended, is dropped.
Send(n, label) ==
  /\ At(n, label)
  /\ \E o \in outbox[n] :
       /\ \A p \in outbox[n] : o.to <= p.to
       /\ outbox' = [outbox EXCEPT ![n] = @ \ {o}]
       /\ chan' = IF o.to \in Live /\ pc[o.to] # "done"
                  THEN [chan EXCEPT ![o.to] = Append(@, o.msg)]
                  ELSE chan
  /\ UNCHANGED <<crashed, view, leaderVars, pc, snapshot, outcome, cast>>

\* publish, once everything is sent.
Publish(n, label, next) ==
  /\ At(n, label)
  /\ outbox[n] = {}
  /\ snapshot' = [snapshot EXCEPT ![n] = view[n]]
  /\ Goto(n, next)
  /\ UNCHANGED <<crashed, view, leaderVars, outbox, chan, outcome, cast>>

-----------------------------------------------------------------------------
(* The receive loop: `while applied < expected`, one message per turn. *)

Receive(n) ==
  /\ At(n, "recv")
  /\ Applied(n) < Expected
  /\ chan[n] # << >>
  /\ chan' = [chan EXCEPT ![n] = Tail(@)]

\* A message this node's state has no use for: a slot it is not waiting for,
\* or a vote sent to a node that is not the leader.
HandleIrrelevant(n) ==
  /\ Receive(n)
  /\ LET m == Head(chan[n])
     IN  m.slot # NextSlot(n) \/ (m.type = "vote" /\ n # Leader)
  /\ Goto(n, "send_handled")
  /\ UNCHANGED <<crashed, view, leaderVars, outbox, snapshot, outcome, cast>>

\* A mistake the checks must notice: committing on the proposal itself.
HandleProposeEagerly(n) ==
  /\ Receive(n)
  /\ LET m == Head(chan[n])
     IN  /\ m.type = "propose" /\ m.slot = NextSlot(n)
         /\ view' = [view EXCEPT ![n] = Commit(@, m.cmd)]
         /\ outbox' = [outbox EXCEPT ![n] = To(Leader, Vote(m.slot, n, m.cmd))]
         /\ cast' = cast \cup {<<m.slot, n, m.cmd>>}
  /\ Goto(n, "drain_handled")
  /\ UNCHANGED <<crashed, leaderVars, snapshot, outcome>>

\* A follower votes for whatever is proposed for the slot it waits on.
HandlePropose(n) ==
  /\ Receive(n)
  /\ LET m == Head(chan[n])
     IN  /\ m.type = "propose" /\ m.slot = NextSlot(n)
         /\ outbox' = [outbox EXCEPT ![n] = To(Leader, Vote(m.slot, n, m.cmd))]
         /\ cast' = cast \cup {<<m.slot, n, m.cmd>>}
  /\ Goto(n, "send_handled")
  /\ UNCHANGED <<crashed, view, leaderVars, snapshot, outcome>>

\* A mistake the checks must notice: a vote counted whatever its slot.
HandleVoteOfAnySlot(n) ==
  /\ Receive(n)
  /\ LET m == Head(chan[n])
     IN  /\ m.type = "vote" /\ n = Leader
         /\ DecideIfQuorum(n, [ballot EXCEPT ![m.from] = m.cmd], proposing,
                           NextSlot(n), m.cmd, {}, "drain_handled", "send_handled")
  /\ UNCHANGED <<crashed, nextCmd, snapshot, outcome, cast>>

HandleVote(n) ==
  /\ Receive(n)
  /\ LET m == Head(chan[n])
     IN  /\ m.type = "vote" /\ n = Leader /\ m.slot = NextSlot(n)
         /\ DecideIfQuorum(n, [ballot EXCEPT ![m.from] = m.cmd], proposing,
                           m.slot, m.cmd, {}, "drain_handled", "send_handled")
  /\ UNCHANGED <<crashed, nextCmd, snapshot, outcome, cast>>

\* A mistake the checks must notice: a commit put in front of the log.
HandleCommitInFront(n) ==
  /\ Receive(n)
  /\ LET m == Head(chan[n])
     IN  /\ m.type = "commit" /\ m.slot = NextSlot(n)
         /\ view' = [view EXCEPT ![n].log = <<m.cmd>> \o @]
  /\ Goto(n, "drain_handled")
  /\ UNCHANGED <<crashed, leaderVars, outbox, snapshot, outcome, cast>>

HandleCommit(n) ==
  /\ Receive(n)
  /\ LET m == Head(chan[n])
     IN  /\ m.type = "commit" /\ m.slot = NextSlot(n)
         /\ view' = [view EXCEPT ![n] = Commit(@, m.cmd)]
  /\ Goto(n, "drain_handled")
  /\ UNCHANGED <<crashed, leaderVars, outbox, snapshot, outcome, cast>>

\* A mistake the checks must notice: leaving one command early.
ExitEarly(n) ==
  /\ At(n, "recv")
  /\ Applied(n) + 1 >= Expected
  /\ Goto(n, "done")
  /\ UNCHANGED <<crashed, view, leaderVars, outbox, chan, snapshot, outcome, cast>>

\* The whole workload is applied: the task ends and its receiver is dropped.
Exit(n) ==
  /\ At(n, "recv")
  /\ Applied(n) >= Expected
  /\ Goto(n, "done")
  /\ UNCHANGED <<crashed, view, leaderVars, outbox, chan, snapshot, outcome, cast>>

-----------------------------------------------------------------------------
(* The harness: wait for every task, or for the settle timeout. *)

Published == {n \in Id : snapshot[n] # None}

Outcome(settled) ==
  [settled  |-> settled,
   views    |-> [n \in Published |-> snapshot[n]],
   complete |-> settled /\ \A n \in Published :
                             snapshot[n].replicas[n].applied = Expected]

Join ==
  /\ outcome = None
  /\ \A n \in Live : pc[n] = "done"
  /\ outcome' = Outcome(TRUE)
  /\ UNCHANGED <<crashed, view, leaderVars, pc, outbox, chan, snapshot, cast>>

\* The timer may fire at any moment before the join is observed; the tasks are
\* then aborted wherever they are.
Timeout ==
  /\ outcome = None
  /\ outcome' = Outcome(FALSE)
  /\ UNCHANGED <<crashed, view, leaderVars, pc, outbox, chan, snapshot, cast>>

\* run_cluster has returned.
Returned == outcome # None /\ UNCHANGED vars

-----------------------------------------------------------------------------
Init ==
  /\ crashed \in SUBSET Id
  /\ view = [n \in Id |-> [replicas |-> [i \in {n} |-> FreshReplica], log |-> << >>]]
  /\ ballot = EmptyBallot
  /\ proposing = None
  /\ nextCmd = 0
  /\ pc = [n \in Id |-> "send_handled"]  \* the first publish, with nothing to send
  /\ outbox = [n \in Id |-> {}]
  /\ chan = [n \in Id |-> << >>]
  /\ snapshot = [n \in Id |-> None]
  /\ outcome = None
  /\ cast = {}

Task(n) ==
  \/ DriveSubmit(n) \/ DriveDone(n)
  \/ Drain(n, "drain_driven", "drive") \/ Drain(n, "drain_handled", "send_handled")
  \/ Send(n, "send_handled") \/ Send(n, "send_driven")
  \/ Publish(n, "send_handled", "drive") \/ Publish(n, "send_driven", "recv")
  \/ HandleIrrelevant(n) \/ HandlePropose(n) \/ HandleVote(n) \/ HandleCommit(n)
  \/ Exit(n)

Next == (\E n \in Id : Task(n)) \/ Join \/ Timeout \/ Returned

Spec == Init /\ [][Next]_vars

\* The tokio scheduler runs every task that is ready, and wakes the harness
\* when the last one has ended.  Nothing is assumed of the timer.
FairSpec == Spec /\ (\A n \in Id : WF_vars(Task(n))) /\ WF_vars(Join)

-----------------------------------------------------------------------------
(* Types. *)

Labels == {"drive", "drain_driven", "send_driven", "recv", "drain_handled",
           "send_handled", "done"}

View(n) == GlobalConfig({n})

IsOutcome(o) ==
  /\ o.settled \in BOOLEAN /\ o.complete \in BOOLEAN
  /\ DOMAIN o.views \subseteq Id
  /\ \A n \in DOMAIN o.views : o.views[n] \in View(n)

\* Every variable holds a value of the type the code gives it, and the crash
\* cluster only ever carries the three messages of lib.rs.
TypeOK ==
  /\ crashed \in SUBSET Id
  /\ \A n \in Id : view[n] \in View(n)
  /\ DOMAIN view = Id
  /\ ballot \in [Id -> Command \cup {None}]
  /\ proposing \in Command \cup {None}
  /\ nextCmd \in 0..Expected
  /\ pc \in [Id -> Labels]
  /\ outbox \in [Id -> SUBSET [to : Id, msg : Msg]]
  /\ chan \in [Id -> Seq(Msg)]
  /\ DOMAIN snapshot = Id
  /\ \A n \in Id : snapshot[n] = None \/ snapshot[n] \in View(n)
  /\ outcome = None \/ IsOutcome(outcome)
  /\ cast \subseteq Nat \X Id \X Command

-----------------------------------------------------------------------------
(* Safety. *)

\* The leader's log is the cluster's log: every other replica's log is a prefix
\* of it, so no two replicas ever disagree on a committed slot (the agreement
\* the append-only, gap-free Commit handler of lib.rs is there to keep).
LogsFollowLeader ==
  \A n \in Id : \A i \in DOMAIN Log(n) :
    i \in DOMAIN Log(Leader) /\ Log(n)[i] = Log(Leader)[i]

\* Slot k of every log is the k-th command of the workload: none skipped, none
\* duplicated, none out of order, although the cursor of net.rs drive advances
\* whether or not submit accepted the command.
LogIsWorkload ==
  \A n \in Id : Len(Log(n)) <= Expected /\ \A i \in DOMAIN Log(n) : Log(n)[i] = Workload[i]

\* Replicas that applied the same number of slots hold the same store.
StoresAgree ==
  \A m, n \in Id : Applied(m) = Applied(n) => StoreOf(m) = StoreOf(n)

Voters(slot, c) == {r \in Id : <<slot, r, c>> \in cast}

\* A slot is committed anywhere only if a quorum of replicas voted for that
\* command AT THAT SLOT.  Votes arrive late and a workload may repeat a command,
\* so counting a vote of the previous slot would go unnoticed by every check on
\* the logs themselves.
QuorumBacked ==
  \A n \in Id : \A i \in DOMAIN Log(n) :
    IsQuorum(Cardinality(Voters(i - 1, Log(n)[i])), N)

\* Whoever waits, waits for the next slot.  What a follower finds first in its
\* queue is for the slot it is at: there is no catch-up, so a follower that had
\* to drop a message would be stuck for good, and only the order of the sends and
\* the FIFO queues prevent it.  A leader with work left has exactly the next
\* command of the workload in flight, although the cursor of net.rs drive
\* advances whatever submit returned.
NextSlotIsUnderWay ==
  /\ \A n \in Live \ {Leader} :
       pc[n] = "recv" /\ chan[n] # << >> => Head(chan[n]).slot = NextSlot(n)
  /\ pc[Leader] = "recv" /\ Applied(Leader) < Expected =>
       nextCmd = Len(Log(Leader)) + 1 /\ proposing = Workload[nextCmd]

Progressing == Leader \in Live /\ IsQuorum(Cardinality(Live), N)

\* With the leader or a quorum down nothing is committed, applied or published:
\* over-budget crashes cost liveness, never safety (net.rs; tests/networked.rs).
OverBudgetCommitsNothing ==
  ~Progressing =>
    \A n \in Id :
      /\ Log(n) = << >>
      /\ Applied(n) = 0
      /\ snapshot[n] # None => snapshot[n] = view[n]

\* A published view is never caught between commit and world_step: it has
\* applied everything it has committed, and is no newer than the node.
SnapshotsDrained ==
  \A n \in Published :
    /\ snapshot[n].replicas[n].applied = Len(snapshot[n].log)
    /\ Len(snapshot[n].log) <= Len(Log(n))

\* If every task ended before the timeout the outcome is complete, covers every
\* live replica, and all of them hold the whole workload and the same store.
SettledMeansReplicated ==
  outcome # None /\ outcome.settled =>
    /\ outcome.complete
    /\ DOMAIN outcome.views = Live
    /\ \A n \in Live : outcome.views[n].log = Workload
    /\ \A m, n \in Live : outcome.views[m].replicas[m].store
                             = outcome.views[n].replicas[n].store

Blocked(n) == pc[n] = "done" \/ (pc[n] = "recv" /\ chan[n] = << >> /\ Applied(n) < Expected)

\* A truly stalled cluster, in which every live task is blocked or has ended,
\* has published equal stores and logs: what converged() promises of a stall.
StalledMeansConverged ==
  (\A n \in Live : Blocked(n)) =>
    \A m, n \in Live :
      /\ snapshot[m].log = snapshot[n].log
      /\ snapshot[m].replicas[m].store = snapshot[n].replicas[n].store

\* NOT a property of the code: net.rs documents converged() as true of a stalled
\* run, and `settle` as the time after which a run is declared stalled; but the
\* timeout can cut a run that is still moving, between the leader's commit and
\* a follower's.
TimedOutRunConverged ==
  outcome # None =>
    \A m, n \in DOMAIN outcome.views :
      outcome.views[m].replicas[m].store = outcome.views[n].replicas[n].store

-----------------------------------------------------------------------------
(* Liveness and refinement. *)

\* With the leader and a quorum live, every run whose timer does not fire first
\* completes: every live replica applies the whole workload.
WithinBudgetCompletes ==
  Progressing => <>(outcome # None /\ (outcome.complete \/ ~outcome.settled))

\* A follower's vote is never the last word: once the leader has committed a
\* slot every live replica applies it, unless the timer fires.
CommittedReachesAll ==
  \A k \in 1..Expected :
    Len(Log(Leader)) >= k ~> (outcome # None \/ \A n \in Live : Applied(n) >= k)

\* The cluster implements the replicated log: the leader's log is the log, and a
\* replica's model register is the one in its own view.
RL == INSTANCE ReplicatedLog WITH
        MaxSlots <- Expected,
        log <- Log(Leader),
        replicas <- [n \in Id |-> view[n].replicas[n]]

ImplementsReplicatedLog == RL!Spec

-----------------------------------------------------------------------------
(* The inductive invariant behind the safety properties. *)

Queued(n) == {chan[n][i] : i \in DOMAIN chan[n]}
Transit == UNION {{o.msg : o \in outbox[n]} \cup Queued(n) : n \in Id}

\* Every message under way still tells the truth about the run: it carries the
\* workload's command for its slot, a vote was really cast, and a commit repeats
\* what the leader's log already holds.
Truthful(m) ==
  /\ m.slot < Expected /\ m.cmd = Workload[m.slot + 1]
  /\ m.type = "vote" => <<m.slot, m.from, m.cmd>> \in cast
  /\ m.type = "commit" => /\ m.slot + 1 \in DOMAIN Log(Leader)
                          /\ m.cmd = Log(Leader)[m.slot + 1]

\* A vote stands on a ballot only for the slot in flight.
BallotIsOfThisSlot(b, votes) ==
  \A r \in Id : b[r] # None => <<NextSlot(Leader), r, b[r]>> \in votes

\* Messages, ballots and logs are consistent with each other at every moment,
\* whatever is queued, unsent or half drained.
ClusterInv ==
  /\ LogsFollowLeader
  /\ LogIsWorkload
  /\ QuorumBacked
  /\ \A m \in Transit : Truthful(m)
  /\ BallotIsOfThisSlot(ballot, cast)

-----------------------------------------------------------------------------
(* The inductive invariant behind what the harness publishes and returns. *)

\* A node commits only what it goes on to apply before it does anything else.
AppliedInv ==
  \A n \in Id :
    /\ Applied(n) <= Len(Log(n))
    /\ pc[n] \notin {"drain_driven", "drain_handled"} => Applied(n) = Len(Log(n))

\* A snapshot is the drained view of some earlier moment, and of this one unless
\* the node has committed since.
PublishedInv ==
  /\ \A n \in Id :
       snapshot[n] # None =>
         /\ snapshot[n].replicas[n].applied = Len(snapshot[n].log)
         /\ snapshot[n] = view[n] \/ Len(snapshot[n].log) < Len(Log(n))
  /\ \A n \in Live :
       /\ pc[n] \in {"recv", "done"} => snapshot[n] = view[n] /\ outbox[n] = {}
       /\ pc[n] = "done" => Applied(n) >= Expected

\* A replica that never started says, hears and publishes nothing.
CrashedInv ==
  /\ \A n \in crashed : /\ pc[n] = "send_handled" /\ snapshot[n] = None
                         /\ Log(n) = << >> /\ chan[n] = << >> /\ outbox[n] = {}
  /\ \A v \in cast : v[2] \in Live

\* The cursor is one ahead of the log while a command is in flight and level
\* with it otherwise, and nobody has heard of a slot past it.
CursorInv ==
  /\ proposing = None => nextCmd = NextSlot(Leader)
  /\ proposing # None => /\ nextCmd = NextSlot(Leader) + 1
                         /\ proposing = Workload[nextCmd]
  /\ pc[Leader] \in {"send_driven", "recv", "done"} /\ proposing = None =>
       nextCmd = Expected
  /\ \A m \in Transit : m.slot < nextCmd
  /\ \A v \in cast : v[1] < nextCmd

\* The leader's broadcasts are numbered: the proposal of slot s is the one
\* numbered 2s + 1, its commit the one numbered 2s + 2.
IsBroadcast(m, k) ==
  \/ m.type = "propose" /\ k = 2 * m.slot + 1
  \/ m.type = "commit" /\ k = 2 * m.slot + 2

\* How many broadcasts the leader has made, how many of them are still to be
\* sent to f, and how many f has taken from its queue.
Broadcasts == NextSlot(Leader) + nextCmd
Unsent(f) == IF \E o \in outbox[Leader] : o.to = f THEN 1 ELSE 0
Taken(f) == Broadcasts - Unsent(f) - Len(chan[f])

\* Followers send votes to the leader and nothing else; the leader sends one
\* broadcast at a time.
RouteInv ==
  /\ \A n \in Id \ {Leader} : \A o \in outbox[n] : o.to = Leader /\ o.msg.type = "vote"
  /\ \A m \in Queued(Leader) : m.type = "vote"
  /\ \A o \in outbox[Leader] : o.to # Leader /\ IsBroadcast(o.msg, Broadcasts)
  /\ \A o, p \in outbox[Leader] : o.to = p.to => o = p
  /\ pc[Leader] \in {"drive", "drain_driven"} /\ proposing = None => outbox[Leader] = {}

\* A follower has taken the proposal, but not yet the commit, of the slot it is at,
\* or neither; its queue holds the broadcasts that come next.
InStep(f) ==
  /\ Taken(f) \in {2 * NextSlot(f), 2 * NextSlot(f) + 1}
  /\ \A i \in DOMAIN chan[f] : IsBroadcast(chan[f][i], Taken(f) + i)

\* Every running follower gets every broadcast once and in order.
StreamInv == \A f \in Live \ {Leader} : pc[f] # "done" => InStep(f)

\* The node, the harness and the channels are in step with each other at every
\* moment, wherever each task is.
HarnessInv ==
  AppliedInv /\ PublishedInv /\ CrashedInv /\ CursorInv /\ RouteInv /\ StreamInv
=============================================================================
