--------------------------- MODULE NetAuthCluster ---------------------------
(***************************************************************************)
(* The authenticated cluster of crates/dlc-d-node src/netauth.rs: one task *)
(* per live replica runs the AuthNode of AuthReplication, and every message*)
(* crosses a FIFO channel as a frame of Codec.                             *)
(*                                                                         *)
(* A task publishes its view, drives the workload (leader only),           *)
(* dispatches, publishes, and then loops: recv a frame, decode and handle  *)
(* it, dispatch, publish, drive, dispatch, publish.  Tasks interleave at   *)
(* each single send and each publication, as in NetCluster.                *)
(***************************************************************************)
EXTENDS Codec

CONSTANT Workloads  \* the workloads: commands with the capability presented

ASSUME WorkloadAssumption ==
  \A w \in Workloads :
    w \in Seq([cmd : Command, cap : Issued]) /\ Len(w) <= MaxSlots

\* run_auth_cluster gives every live seat its own key and an AuthNode, and what it
\* sends goes through a tokio channel that its receiver's task alone reads.
ASSUME EverySeatIsHonest == Faults = {{}} /\ Networks = {FALSE}

VARIABLES
  workload,   \* the commands of this run
  crashed,    \* replicas that never start
  nextCmd,    \* the leader's cursor into the workload
  pc,         \* pc[n]: where the task of replica n is
  out,        \* out[n]: the frames n has yet to send
  chan,       \* chan[n]: the queue of receiver n
  snapshot,   \* snapshot[n]: the view n last published, or None
  outcome     \* what run_auth_cluster returned, or None

runVars == <<workload, crashed>>
netVars == <<vars, runVars, nextCmd, pc, out, chan, snapshot, outcome>>

Expected == Len(workload)
Live == Seat \ crashed
Applied(n) == view[n].replicas[n].applied

At(n, label) == outcome = None /\ n \in Live /\ pc[n] = label
Goto(n, label) == pc' = [pc EXCEPT ![n] = label]

-----------------------------------------------------------------------------
(* dispatch. *)

\* A mistake the checks must notice: a peer left out of a broadcast.
PeersButLast(n, m) == IF m.type = "vote" THEN {Leader} ELSE Seat \ {n, N - 1}

\* Dest::To the leader for a vote, Dest::Peers for the rest.
Recipients(n, m) == IF m.type = "vote" THEN {Leader} ELSE Seat \ {n}

\* The messages the node just returned are encoded, ready to be sent.
Enqueue(n) ==
  out' = [out EXCEPT ![n] =
            @ \cup UNION {{[to |-> r, frame |-> EncodeMsg(m)] : r \in Recipients(n, m)}
                            : m \in sent' \ sent}]

\* One send at a time, in the order of the seats; to a replica that never
\* started, or whose task has ended, it is dropped.
Send(n, label) ==
  /\ At(n, label)
  /\ \E o \in out[n] :
       /\ \A p \in out[n] : o.to <= p.to
       /\ out' = [out EXCEPT ![n] = @ \ {o}]
       /\ chan' = IF o.to \in Live /\ pc[o.to] # "done"
                  THEN [chan EXCEPT ![o.to] = Append(@, o.frame)]
                  ELSE chan
  /\ UNCHANGED <<vars, runVars, nextCmd, pc, snapshot, outcome>>

Publish(n, label, next) ==
  /\ At(n, label)
  /\ out[n] = {}
  /\ snapshot' = [snapshot EXCEPT ![n] = view[n]]
  /\ Goto(n, next)
  /\ UNCHANGED <<vars, runVars, nextCmd, out, chan, outcome>>

-----------------------------------------------------------------------------
(* drive. *)

\* A mistake the checks must notice: driving on without the previous slot.
MayDriveAhead(n) == n = Leader /\ nextCmd < Expected /\ proposing = None

MayDrive(n) ==
  n = Leader /\ nextCmd < Expected /\ NextSlot(n) = nextCmd /\ Applied(n) = nextCmd

\* The cursor advances whether or not submit takes the command.
Drive(n) ==
  /\ At(n, "drive") /\ MayDrive(n)
  /\ nextCmd' = nextCmd + 1
  /\ LET w == workload[nextCmd + 1]
     IN  IF VerifyCapability(w.cap, w.cmd) THEN Submit(w.cmd, w.cap) ELSE UNCHANGED vars
  /\ Enqueue(n)
  /\ UNCHANGED <<runVars, pc, chan, snapshot, outcome>>

DriveDone(n) ==
  /\ At(n, "drive") /\ ~MayDrive(n)
  /\ Goto(n, "send_driven")
  /\ UNCHANGED <<vars, runVars, nextCmd, out, chan, snapshot, outcome>>

-----------------------------------------------------------------------------
(* The receive loop. *)

\* Whether AuthNode::handle has a use for m; otherwise it returns at once.
Useful(n, m) ==
  CASE m.type = "propose" -> m.slot = NextSlot(n) /\ VerifyProposal(m)
    [] m.type = "vote"    -> n = Leader
    [] m.type = "commit"  -> m.slot = NextSlot(n) /\ VerifyCommit(m)

\* A frame that does not decode is dropped and the task waits for the next.
Receive(n) ==
  /\ At(n, "recv") /\ Applied(n) < Expected /\ chan[n] # << >>
  /\ chan' = [chan EXCEPT ![n] = Tail(@)]
  /\ LET m == DecodeMsg(Head(chan[n]))
     IN  IF m = Malformed
         THEN UNCHANGED <<vars, pc>>
         ELSE /\ IF Useful(n, m) THEN Handle(n, m) ELSE UNCHANGED vars
              /\ Goto(n, "send_handled")
  /\ Enqueue(n)
  /\ UNCHANGED <<runVars, nextCmd, snapshot, outcome>>

Exit(n) ==
  /\ At(n, "recv") /\ Applied(n) >= Expected
  /\ Goto(n, "done")
  /\ UNCHANGED <<vars, runVars, nextCmd, out, chan, snapshot, outcome>>

-----------------------------------------------------------------------------
(* run_auth_cluster. *)

Outcome(settled) ==
  [settled  |-> settled,
   complete |-> settled /\ \A n \in Seat : snapshot[n] # None =>
                             snapshot[n].replicas[n].applied = Expected]

Join ==
  /\ outcome = None
  /\ \A n \in Live : pc[n] = "done"
  /\ outcome' = Outcome(TRUE)
  /\ UNCHANGED <<vars, runVars, nextCmd, pc, out, chan, snapshot>>

Timeout ==
  /\ outcome = None
  /\ outcome' = Outcome(FALSE)
  /\ UNCHANGED <<vars, runVars, nextCmd, pc, out, chan, snapshot>>

Returned == outcome # None /\ UNCHANGED netVars

NetInit ==
  /\ Init
  /\ workload \in Workloads
  /\ crashed \in SUBSET Seat
  /\ nextCmd = 0
  /\ pc = [n \in Seat |-> "send_handled"]  \* the first publish, nothing to send
  /\ out = [n \in Seat |-> {}]
  /\ chan = [n \in Seat |-> << >>]
  /\ snapshot = [n \in Seat |-> None]
  /\ outcome = None

Task(n) ==
  \/ Drive(n) \/ DriveDone(n)
  \/ Send(n, "send_handled") \/ Send(n, "send_driven")
  \/ Publish(n, "send_handled", "drive") \/ Publish(n, "send_driven", "recv")
  \/ Receive(n) \/ Exit(n)

NetNext == (\E n \in Seat : Task(n)) \/ Join \/ Timeout \/ Returned

\* The runtime polls every task that can move; the channels lose nothing.
NetSpec ==
  /\ NetInit /\ [][NetNext]_netVars
  /\ \A n \in Seat : WF_netVars(Task(n))

-----------------------------------------------------------------------------
(* Properties. *)

Licensed(i) == VerifyCapability(workload[i].cap, workload[i].cmd)

\* How many commands of the workload come before the first refused one.
LicensedLen ==
  Cardinality({k \in 1..Expected : \A i \in 1..k : Licensed(i)})

\* A refused command strands the rest of the workload: no replica ever commits
\* anything but the commands before it, in order, and the tasks, which wait for
\* the whole workload, never end by themselves (drive and the loop of
\* run_auth_cluster).
RefusalStrandsTheRest ==
  /\ \A n \in Seat : /\ NextSlot(n) <= LicensedLen
                     /\ \A i \in DOMAIN Log(n) : Log(n)[i] = workload[i].cmd
  /\ outcome # None /\ LicensedLen < Expected /\ Live # {} => ~outcome.settled

QuorumLive == Leader \in Live /\ Reached(Cardinality(Live))

\* Whatever is queued anywhere decodes to a message some replica sent, field for
\* field: a frame loses nothing a signature covers, so what verified when it was
\* sent verifies when it arrives (codec.rs, its one property that must hold).
FramesCarrySentMessages ==
  \A n \in Seat : \A i \in DOMAIN chan[n] : DecodeMsg(chan[n][i]) \in sent

\* Every command before the first refused one is committed by every live replica
\* when they form a quorum of the roster's kind, unless the timer fires first:
\* what crosses the channels as bytes still verifies at the other end.
LicensedPrefixCommits ==
  QuorumLive ~> (outcome # None \/ \A n \in Live : NextSlot(n) = LicensedLen)
-----------------------------------------------------------------------------
(* The inductive invariant behind the safety properties. *)

\* A message whose frame loses nothing: a certificate as long as its votes are
\* many, all fields those of a message.
Encodable(m) ==
  \/ \E n \in Seat, s \in Nat, c \in Command, cap \in Issued : m = ProposeMsg(n, s, c, cap)
  \/ \E v \in VoteType : m = VoteMsg(v)
  \/ \E s \in Nat, c \in Command, V \in SUBSET VoteType :
       IsFiniteSet(V) /\ m = CommitMsg(s, c, QuorumCert(V, Cardinality(V)))

Frame == {EncodeMsg(m) : m \in sent}

\* Only frames of sent messages are on their way.
WireInv ==
  /\ IsFiniteSet(votes)
  /\ \A m \in sent : Encodable(m)
  /\ out \in [Seat -> SUBSET [to : Seat, frame : Frame]]
  /\ chan \in [Seat -> Seq(Frame)]

PcLabel == {"send_handled", "drive", "send_driven", "recv", "done"}

HarnessTypes ==
  /\ TypeOK /\ Drained /\ WireInv
  /\ workload \in Workloads /\ crashed \subseteq Seat
  /\ nextCmd \in 0..Expected
  /\ pc \in [Seat -> PcLabel]
  /\ DOMAIN snapshot = Seat

\* The cursor is at the leader's next slot or one ahead of it, in which case the
\* command it passed is in flight or was refused; the leader's log is the licensed
\* start of the workload.
CursorInv ==
  /\ nextCmd \in {NextSlot(Leader), NextSlot(Leader) + 1}
  /\ proposing # None => /\ nextCmd = NextSlot(Leader) + 1
                         /\ proposing = workload[nextCmd].cmd /\ Licensed(nextCmd)
  /\ \A i \in 1..NextSlot(Leader) : Log(Leader)[i] = workload[i].cmd /\ Licensed(i)

\* A task ends only when it applied the whole workload, and what it published last
\* is its view.
EndInv ==
  /\ \A n \in Live : pc[n] = "done" => Applied(n) >= Expected
  /\ \A n \in Live : pc[n] \in {"recv", "done"} => out[n] = {} /\ snapshot[n] = view[n]
  /\ \A n \in crashed : snapshot[n] = None
  /\ outcome # None /\ outcome.settled =>
       outcome.complete /\ \A n \in Live : pc[n] = "done"

HarnessInv == HarnessTypes /\ CursorInv /\ EndInv

\* Whenever the leader may drive, submit can take the command: nothing is in
\* flight, so no command the cursor passes is lost to an earlier one.
SubmitIsFree ==
  At(Leader, "drive") /\ MayDrive(Leader) =>
    proposing = None /\ NextSlot(Leader) < MaxSlots

\* A run whose tasks all ended left the whole workload in every snapshot.
SettledMeansComplete == outcome # None /\ outcome.settled => outcome.complete
=============================================================================
