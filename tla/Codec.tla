------------------------------- MODULE Codec -------------------------------
(***************************************************************************)
(* The wire codec of the authenticated cluster, crates/dlc-d-node          *)
(* src/codec.rs.  A CBOR array is a sequence; keys, terms and signatures   *)
(* are opaque members of it.  The command a vote is for is not a field of  *)
(* the frame: only its signature binds it, so a decoded credential is      *)
(* worth what its signature covers.                                        *)
(***************************************************************************)
EXTENDS AuthReplication, SequencesExt

\* A signature by key under a domain tag, over a slot and a command.
Sig(key, domain, s, c) == [key |-> key, domain |-> domain, slot |-> s, cmd |-> c]

\* What sig says about slot s as a signature of key: the command it covers.
Covered(sig, key, domain, s) ==
  IF sig.key = key /\ sig.domain = domain /\ sig.slot = s THEN sig.cmd ELSE None

\* The error every decoder answers a malformed value with.
Malformed == [type |-> "malformed"]

-----------------------------------------------------------------------------
\* A command's payload and its capability proposition, each of which identifies
\* the command.
EncCommand(c) == <<c, c>>
DecCommand(a) == IF Len(a) = 2 /\ a[1] = a[2] THEN a[1] ELSE None

\* A credential's issuer and its signature over the command it was issued for.
EncCap(cap) == <<"issuer", cap>>
DecCap(a) == IF Len(a) = 2 /\ a[1] = "issuer" THEN a[2] ELSE None

EncVote(v) == <<v.voter, v.slot, Sig(v.voter, "vote", v.slot, v.cmd)>>
DecVote(a) == Vote(a[1], a[2], Covered(a[3], a[1], "vote", a[2]))

EncProposal(p) ==
  <<p.leader, p.slot, EncCommand(p.cmd), EncCap(p.cap),
    Sig(p.leader, "propose", p.slot, p.cmd)>>

\* A proposal whose signature is not its leader's over its slot and command is
\* the proposal of no member.
DecProposal(a) ==
  LET cmd == DecCommand(a[3])
      leader == IF Covered(a[5], a[1], "propose", a[2]) = cmd THEN a[1] ELSE N
  IN  ProposeMsg(leader, a[2], cmd, DecCap(a[4]))

\* A mistake the checks must notice: the slot of a certificate's votes taken to
\* be the slot after the commit's.
DecCommitNextSlot(a) ==
  CommitMsg(a[1] + 1, DecCommand(a[2]),
            QuorumCert({DecVote(a[3][i]) : i \in DOMAIN a[3]}, Len(a[3])))

\* The votes of a certificate, in some order.
EncCommit(m) ==
  <<m.slot, EncCommand(m.cmd), [i \in 1..m.qc.len |-> EncVote(SetToSeq(m.qc.votes)[i])]>>
DecCommit(a) ==
  CommitMsg(a[1], DecCommand(a[2]),
            QuorumCert({DecVote(a[3][i]) : i \in DOMAIN a[3]}, Len(a[3])))

-----------------------------------------------------------------------------
EncodeMsg(m) ==
  CASE m.type = "propose" -> <<0, EncProposal(m)>>
    [] m.type = "vote"    -> <<1, EncVote(m.vote)>>
    [] m.type = "commit"  -> <<2, EncCommit(m)>>

\* A frame is [tag, body] with exactly the fields of the tag's message.
DecodeMsg(frame) ==
  CASE Len(frame) = 2 /\ frame[1] = 0 /\ Len(frame[2]) = 5 -> DecProposal(frame[2])
    [] Len(frame) = 2 /\ frame[1] = 1 /\ Len(frame[2]) = 3 -> VoteMsg(DecVote(frame[2]))
    [] Len(frame) = 2 /\ frame[1] = 2 /\ Len(frame[2]) = 3 -> DecCommit(frame[2])
    [] OTHER -> Malformed
=============================================================================
