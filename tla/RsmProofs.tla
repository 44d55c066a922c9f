----------------------------- MODULE RsmProofs -----------------------------
(***************************************************************************)
(* What the transitions of Rsm do to the configuration of one node, which  *)
(* holds its own replica and its own copy of the log.                      *)
(***************************************************************************)
EXTENDS Rsm, NaturalsInduction, WellFoundedInduction, TLAPS

\* deliver (rsm.rs) turns a replica into a replica: the log supplies commands,
\* and apply keeps the store in its domain.
LEMMA DeliverType ==
  ASSUME NEW log \in Seq(Command), NEW r \in Replica
  PROVE  Deliver(log, r) \in Replica
<1>1. r.applied \in Nat /\ r.store \in Store
  BY DEF Replica
<1>2. CASE r.applied < Len(log)
  <2>1. log[r.applied + 1] \in Command
    BY <1>1, <1>2
  <2>2. ApplyCommand[log[r.applied + 1]][r.store] \in Store
    BY <1>1, <2>1, RsmAssumption
  <2> QED BY <1>1, <1>2, <2>2 DEF Deliver, Replica
<1>3. CASE ~(r.applied < Len(log))
  BY <1>3 DEF Deliver
<1> QED BY <1>2, <1>3

\* Committing a command on a node's own configuration appends it to that node's
\* log and leaves its one replica where it was (rsm.rs commit).
LEMMA CommitConfig ==
  ASSUME NEW n, NEW g \in GlobalConfig({n}), NEW c \in Command
  PROVE  /\ Commit(g, c) \in GlobalConfig({n})
         /\ Commit(g, c).log = Append(g.log, c)
         /\ Commit(g, c).replicas = g.replicas
  BY DEF GlobalConfig, Commit

\* world_step on a node's own configuration keeps its log and delivers at most
\* one slot to its one replica (rsm.rs world_step).
LEMMA WorldStepConfig ==
  ASSUME NEW n, NEW g \in GlobalConfig({n})
  PROVE  /\ WorldStep(g) \in GlobalConfig({n})
         /\ WorldStep(g).log = g.log
         /\ WorldStep(g).replicas[n] = Deliver(g.log, g.replicas[n])
<1>1. g.log \in Seq(Command) /\ g.replicas \in [{n} -> Replica]
  BY DEF GlobalConfig
<1>2. [i \in DOMAIN g.replicas |-> Deliver(g.log, g.replicas[i])] \in [{n} -> Replica]
  BY <1>1, DeliverType
<1> QED BY <1>1, <1>2 DEF GlobalConfig, WorldStep

\* A node that had applied its whole log has applied all of it again after one
\* commit and one world_step: the drain loop of apply_commit runs once.
LEMMA CommitThenStep ==
  ASSUME NEW n, NEW g \in GlobalConfig({n}), NEW c \in Command,
         g.replicas[n].applied = Len(g.log)
  PROVE  LET h == WorldStep(Commit(g, c))
         IN  /\ h \in GlobalConfig({n})
             /\ h.log = Append(g.log, c)
             /\ h.replicas[n].applied = Len(h.log)
<1> DEFINE d == Commit(g, c)
<1>1. /\ d \in GlobalConfig({n})
      /\ d.log = Append(g.log, c) /\ d.replicas = g.replicas
  BY CommitConfig
<1>2. g.log \in Seq(Command)
  BY DEF GlobalConfig
<1>3. Len(d.log) = Len(g.log) + 1 /\ Len(g.log) \in Nat
  BY <1>1, <1>2
<1>4. d.replicas[n].applied < Len(d.log)
  BY <1>1, <1>3
<1>5. Deliver(d.log, d.replicas[n]).applied = Len(g.log) + 1
  BY <1>1, <1>4 DEF Deliver
<1>6. /\ WorldStep(d) \in GlobalConfig({n}) /\ WorldStep(d).log = d.log
      /\ WorldStep(d).replicas[n] = Deliver(d.log, d.replicas[n])
  BY <1>1, WorldStepConfig
<1> QED BY <1>1, <1>3, <1>5, <1>6

-----------------------------------------------------------------------------
(* apply_prefix. *)

\* Every set of naturals with a member has a least one.
LEMMA LeastNat ==
  ASSUME NEW T \in SUBSET Nat, T # {}
  PROVE  \E x \in T : \A y \in T : x <= y
<1>1. PICK R : R = {p \in Nat \X Nat : p[1] < p[2]}
  OBVIOUS
<1>2. IsWellFoundedOn(R, Nat)
  <2>1. OpToRel(<, Nat) = R
    BY <1>1 DEF OpToRel
  <2> QED BY <2>1, NatLessThanWellFounded
<1>3. \E x \in T : \A y \in T : ~(<<y, x>> \in R)
  <2> HIDE DEF IsWellFoundedOn
  <2> QED BY <1>2, WFMin
<1>4. PICK x \in T : \A y \in T : ~(<<y, x>> \in R)
  BY <1>3
<1>5. \A y \in T : ~(y < x)
  BY <1>1, <1>4
<1> QED BY <1>5

\* Any sequence of stores that starts with the initial one and follows the
\* commands is what apply_prefix computes: the fold has no other result.
LEMMA PrefixFold ==
  ASSUME NEW cmds \in Seq(Command), NEW h \in [0..Len(cmds) -> Store],
         h[0] = InitStore,
         \A i \in 1..Len(cmds) : h[i] = ApplyCommand[cmds[i]][h[i - 1]],
         NEW k \in 0..Len(cmds)
  PROVE  ApplyPrefix(cmds)[k] = h[k]
<1> DEFINE Body(f) == [i \in 0..k |-> IF i = 0 THEN InitStore
                                      ELSE ApplyCommand[cmds[i]][f[i - 1]]]
           after == CHOOSE f : f = Body(f)
           g == [i \in 0..k |-> h[i]]
<1>1. ApplyPrefix(cmds)[k] = after[k]
  BY DEF ApplyPrefix
<1>2. g = Body(g)
  OBVIOUS
<1>3. after = Body(after)
  BY <1>2
<1> HIDE DEF after
<1>4. \A i \in 0..k : after[i] = IF i = 0 THEN InitStore ELSE ApplyCommand[cmds[i]][after[i - 1]]
  BY <1>3
<1>5. \A i \in 0..k : after[i] = h[i]
  <2> DEFINE Differ == {i \in 0..k : after[i] # h[i]}
  <2> SUFFICES ASSUME Differ # {} PROVE FALSE
    OBVIOUS
  <2>1. Differ \in SUBSET Nat
    OBVIOUS
  <2> HIDE DEF Differ
  <2>2. PICK i \in Differ : \A j \in Differ : i <= j
    BY <2>1, LeastNat
  <2>3. i \in 0..k /\ after[i] # h[i]
    BY DEF Differ
  <2>4. CASE i = 0
    BY <2>3, <2>4, <1>4
  <2>5. CASE i # 0
    <3>1. i - 1 \in 0..k /\ i \in 1..Len(cmds)
      BY <2>3, <2>5
    <3>2. i - 1 \notin Differ
      BY <2>2, <2>3, <3>1
    <3>3. after[i - 1] = h[i - 1]
      BY <3>1, <3>2 DEF Differ
    <3> QED BY <3>1, <3>3, <2>3, <2>5, <1>4
  <2> QED BY <2>4, <2>5
<1> QED BY <1>1, <1>5

\* A node whose store went through the commands of its log, one after the other, from
\* the initial one.
StoreHistory(g, n) ==
  \E h \in [0..Len(g.log) -> Store] :
    /\ h[0] = InitStore
    /\ \A i \in 1..Len(g.log) : h[i] = ApplyCommand[g.log[i]][h[i - 1]]
    /\ g.replicas[n].store = h[Len(g.log)]

\* One commit and one world_step take such a node one store further (rsm.rs).
LEMMA HistoryStep ==
  ASSUME NEW n, NEW g \in GlobalConfig({n}), NEW c \in Command,
         g.replicas[n].applied = Len(g.log), StoreHistory(g, n)
  PROVE  StoreHistory(WorldStep(Commit(g, c)), n)
<1>1. PICK h \in [0..Len(g.log) -> Store] :
        /\ h[0] = InitStore
        /\ \A i \in 1..Len(g.log) : h[i] = ApplyCommand[g.log[i]][h[i - 1]]
        /\ g.replicas[n].store = h[Len(g.log)]
  BY DEF StoreHistory
<1>2. PICK d \in GlobalConfig({n}) : d = Commit(g, c)
  BY CommitConfig
<1>3. PICK after : after = WorldStep(d)
  OBVIOUS
<1>4. g.log \in Seq(Command) /\ Len(g.log) \in Nat
  BY DEF GlobalConfig
<1>5. d.log = Append(g.log, c) /\ d.replicas = g.replicas
  BY <1>2, CommitConfig
<1>6. PICK len \in Nat : len = Len(g.log)
  BY <1>4
<1>7. /\ Len(d.log) = len + 1 /\ d.log[len + 1] = c
      /\ \A i \in 1..len : d.log[i] = g.log[i]
  BY <1>4, <1>5, <1>6
<1>8. after.log = d.log /\ after.replicas[n] = Deliver(d.log, d.replicas[n])
  BY <1>3, WorldStepConfig
<1>9. after.replicas[n].store = ApplyCommand[c][h[len]]
  BY <1>1, <1>5, <1>6, <1>7, <1>8 DEF Deliver
<1>10. ApplyCommand[c][h[len]] \in Store
  BY <1>1, <1>6, RsmAssumption
<1>11. PICK k : k = [i \in 0..(len + 1) |-> IF i <= len THEN h[i] ELSE ApplyCommand[c][h[len]]]
  OBVIOUS
<1>12. k \in [0..(len + 1) -> Store] /\ k[0] = InitStore /\ k[len + 1] = ApplyCommand[c][h[len]]
       /\ \A i \in 0..len : k[i] = h[i]
  BY <1>1, <1>6, <1>10, <1>11
<1>13. \A i \in 1..(len + 1) : k[i] = ApplyCommand[d.log[i]][k[i - 1]]
  <2>1. ASSUME NEW i \in 1..len
        PROVE  k[i] = ApplyCommand[d.log[i]][k[i - 1]]
    <3>1. i \in 0..len /\ i - 1 \in 0..len
      OBVIOUS
    <3> QED BY <1>1, <1>6, <1>7, <1>12, <3>1
  <2>2. k[len + 1] = ApplyCommand[d.log[len + 1]][k[len + 1 - 1]]
    BY <1>7, <1>12
  <2> QED BY <2>1, <2>2
<1>14. StoreHistory(after, n)
  BY <1>7, <1>8, <1>9, <1>12, <1>13 DEF StoreHistory
<1> QED BY <1>2, <1>3, <1>14

\* Its store is what apply_prefix computes from scratch.
LEMMA HistoryIsFold ==
  ASSUME NEW n, NEW g \in GlobalConfig({n}), StoreHistory(g, n)
  PROVE  g.replicas[n].store = ApplyPrefix(g.log)[Len(g.log)]
<1>1. PICK cmds \in Seq(Command) : cmds = g.log
  BY DEF GlobalConfig
<1>2. PICK h \in [0..Len(cmds) -> Store] :
        /\ h[0] = InitStore
        /\ \A i \in 1..Len(cmds) : h[i] = ApplyCommand[cmds[i]][h[i - 1]]
        /\ g.replicas[n].store = h[Len(cmds)]
  BY <1>1 DEF StoreHistory
<1>3. Len(cmds) \in 0..Len(cmds)
  BY <1>1
<1>4. ApplyPrefix(cmds)[Len(cmds)] = h[Len(cmds)]
  BY <1>2, <1>3, PrefixFold
<1> QED BY <1>1, <1>2, <1>4
=============================================================================
