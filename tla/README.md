# A verification of delegation_calc

TLA+ models of this repository: the replicated state machine and its crash-fault
cluster, the authenticated replica and its cluster over encoded frames, the
consumable budgets, the term calculus with its proof checker, wire format and
verifier, and the typed programming surface.  TLC checks them on small instances;
TLAPS proves the safety results for every size: of the replication, the
authentication, the codecs, the signed bytes, the budgets, the delegations and
the calculus.  `PROJECT.json` is the index: components, runs, mutants, the map
from definitions to source lines, findings, hazards and theorems.

Paths below are relative to `src/crates/` unless they say otherwise.

## 1. The system

| Part | Where | State it keeps | Operations | What is hard |
|---|---|---|---|---|
| Replicated state machine | `dlc-core/src/rsm.rs` | none: pure functions over `GlobalConfig` (replicas, log, failure budget) | `commit`, `deliver`, `world_step`, `apply_command`, `apply_prefix` | replicas at different slots, commands that do not commute |
| Budgets | `rsm.rs`, `obligation.rs`, `graded.rs` | `consumed: u32`; `(epsilon, delta): u64` | `saturating_add` (two of them), `consume`, `counit`, `within_budget` | the top of the integer types; debug and release differ |
| Quorum predicates | `dlc-d-rsm/src/consensus.rs` | none | `is_quorum`, `is_byz_quorum`, `decided`, `byz_decided` | thresholds at small and even sizes |
| Crash-fault node | `dlc-d-node/src/lib.rs` | own view, ballot, proposal in flight | `submit`, `handle` (Propose, Vote, Commit) | late and out-of-slot messages, no retransmission |
| Cluster harness | `dlc-d-node/src/net.rs` | one task and one FIFO channel per live replica, a shared snapshot map, a timer | `run_cluster`, `drive`, `dispatch`, `publish` | interleavings of tasks at each send and publication, crashes, the timeout |
| Authenticated node | `auth.rs`, `proto.rs` | as the node, plus the collected votes; signed credentials | `submit`, `handle`; `verify_*` | replay, relay, padding, misused keys, thresholds |
| Authenticated harness | `netauth.rs`, `codec.rs` | as `net.rs`, over encoded frames | `run_auth_cluster` | a refused command, malformed frames |
| Term calculus | `dlc-core/src/{syntax,subst,reduce}.rs` | none | `shift`, `subst`, `step`, `reduce_with_fuel` | binders and indices |
| Checker and verifier | `decide.rs`, `judgment.rs`, `dlc-verifier`, `dlc-crypto` | contexts, keyring | `infer`, `decide_pure`, `verify`, `verify_in_keyring` | context handling, which signatures must verify |
| Wire formats | `dlc-protocol/src/wire.rs`, `envelope.rs` | none | encode, decode | narrowing casts, array shapes |
| Programming surface | `dlc-d`, `dlc-d-macro`, `dlc-d-ledger` | compile-time lineage and budget constants, run-time admission | `admit`, `decide` | agreement of compile-time and run-time checks |
| Grades | `dlc-grade-quantale` | none | `tensor`, `residual`, `apply` | saturation against the algebra |
| Interop, CLI, wasm, bench, fuzz | the remaining crates | none | wrappers | - |

How they interact.  `run_cluster` spawns a task per live replica; a task owns a
`Node` and communicates only through the channels and the snapshot map.  The
leader's task drives the workload: it submits a command when its log and its
applied count have both reached the cursor, the node broadcasts `Propose`,
followers send `Vote` to the leader, and a vote that completes a majority makes
the leader append (`commit`), apply (`world_step` until drained) and broadcast
`Commit`.  Every change of a view goes through `dlc_core::rsm`; every decision
through `dlc_d_rsm::consensus`.  `auth.rs` is the same node with each message
checked against a roster, a capability and, for a commit, a certificate of votes.
Nothing is persisted and nothing is sent twice: a crash is for good, a replica
that misses a slot never catches up.

What makes each part correct:

- *rsm*: equal progress means equal stores; the log is append-only; incremental
  application equals application from scratch.
- *cluster*: logs are prefixes of the leader's and of the workload; a slot is
  committed only with a majority of votes for it; crashes beyond the budget stop
  progress and never cause divergence; within the budget every live replica
  finishes; what is published and reported is never half applied.
- *authenticated node*: no commit without a certificate for that slot and command
  and without a licensed command; disagreement only behind a proposal the leader never
  made; agreement while no key is misused, or, on private channels, while the leader's
  is not; the leader's own certificates pass its followers' check there.
- *harness over frames*: what verified when sent verifies when it arrives; a refused
  command stops the workload there, and everything before it commits everywhere.
- *signed bytes*: one byte string has one reading.
- *budgets*: an overspend is never forgotten; the headroom offered is the headroom
  there is.
- *calculus*: substitution captures nothing; a typed term is a value or steps; which
  reductions keep the type.
- *verifier and wire*: decoding undoes encoding; a token is accepted exactly when it
  has the claimed type and every signature in it, at any depth, is its principal's.
- *programming surface*: all authority comes from a declared root; the certificate
  test agrees with the build; no tool runs without a credential for that tool.

## 2. Modules

| Module | Models | Kind |
|---|---|---|
| `Rsm` | `rsm.rs`: `Deliver`, `WorldStep`, `Commit`, `ApplyPrefix` | operators |
| `Consensus` | `consensus.rs` | operators |
| `ReplicatedLog` | the promise: one log, replicas applying it in order | abstract specification |
| `NetCluster` | `lib.rs` + `net.rs` | detailed specification, `INSTANCE`s `ReplicatedLog` |
| `AuthReplication` | `auth.rs` + `proto.rs` | specification under an adverse network |
| `Codec` | `codec.rs` | operators over the messages of `AuthReplication` |
| `NetAuthCluster` | `netauth.rs` | composes `AuthReplication`'s handlers, `Codec`, tasks and channels |
| `Signing` | the signed byte strings of `proto.rs` | operators |
| `Budgets` | `FailureBudget`, `DpBudget`, `Graded` | specification |
| `Quantale` | `dlc-grade-quantale` | operators and an invariant over `Budgets` |
| `Syntax` | `syntax.rs`, `ifc.rs`, `principal.rs` | tables of constructors and fields |
| `Datatypes` | the Rust types behind a term: field kinds, widths, nesting | assumptions on the sets of values |
| `Substitution` | `subst.rs` | operators |
| `Judgment` | the contexts of `judgment.rs` and what a variable looks up in them | operators |
| `Typing` | `decide.rs` | operators |
| `Reduction` | `reduce.rs` | specification: a term, its context and its reducts |
| `Wire` | `wire.rs` | operators |
| `SignedTerm` | `signed_term.rs`, `ed25519.rs` | operators |
| `Verifier` | `check.rs`, `envelope.rs` | operators |
| `Token` | a relying party's view: `Reduction` with `Verifier` | properties |
| `Governed` | `dlc-d`, and what `dlc-d-macro` emits | specification |
| `...Proofs` | eight modules | theorems and proofs |
| `MC...` | constants of the bounded instances | model checking |

Definitions introduced by a comment "a mistake the checks must notice" are not part of
the models.  Each is a faulty variant of the definition that follows it; putting
it in that definition's place makes a property fail (`PROJECT.json`, "mutants"),
which shows that the property depends on the code it is about.

### Rsm, Consensus, ReplicatedLog

A term is a member of `Store`, a command with its payload and capability a member
of `Command`, and `apply_command` (fuel-bounded reduction of `payload store`) is
the constant function `ApplyCommand`: the replication layer uses only that it is
total and deterministic, which `Reduction`'s `Step`, a function, bears out.  A
`GlobalConfig` is a record of the replicas, keyed by id, and the log; its third
field, the budget, is read and written by no transition and lives in `Budgets`.

`ReplicatedLog` lets commits, single deliveries and whole steps happen in any
order.  `MaxSlots` bounds the log for TLC; the proofs hold for every value.

### NetCluster

One replica is one task whose position in its loop is `pc[n]`:

    send_handled -> drive -> (drain_driven ->) drive ... -> send_driven -> recv
         ^                                                                  |
         +------------- (drain_handled <-) ---- handle a message <----------+      done

| Action | Code |
|---|---|
| `DriveSubmit`, `DriveDone` | one turn, and the end, of the loop in `drive`; `Submit` is `Node::submit`; the cursor moves on whatever it returned |
| `Drain` | one `world_step` of `apply_commit`'s loop |
| `Send` | one `tx.send` of `dispatch`, in the order of ids; dropped if the receiver never started or has ended |
| `Publish` | `publish`, once everything is sent |
| `HandlePropose`, `HandleVote`, `HandleCommit`, `HandleIrrelevant` | `recv` and one arm of `Node::handle`, the early returns being `HandleIrrelevant` |
| `Exit` | the loop condition turns false; the receiver is dropped |
| `Join`, `Timeout`, `Returned` | the end of `run_cluster`: all tasks ended, or the settle timer fired |

A step of a task is what no other task can observe inside; every send and every
publication is a step of its own, and the timeout may fall between any two.
`crashed` is chosen at the start, as in `ClusterConfig`.  `cast` is a history
variable: the votes ever cast, against which commits are judged.  Two arms of
`handle` that no run of the harness can reach are not modelled: a vote whose
`from` is outside the ballot, and a message without a slot of this workload.
A decision is only ever attempted for the command in the message, as in the code.

### AuthReplication

Signatures are symbolic: a vote is the record of its signer, slot and command,
and only the holder of a key makes that record (`Signing` says why that is
sound).  A capability is the command it was issued for.  The network is the set
of messages ever sent by correct nodes, any of which may be delivered at any time
to anybody, any number of times, or never; that covers loss, duplication,
reordering, delay and relaying.  `faulty`, chosen at the start from `Faults`, are
the seats that run no node.  They may at any time send any proposal under their
own key (with any issued capability) and any vote under their own key.  Anybody may
send a commit with a certificate put together from the votes that can be read (`Held`);
no key is needed for that.  Which votes those are is `observed`, chosen at the start from
`Networks`:

- `TRUE`: every vote ever sent.  Votes are signed and not encrypted, `netauth.rs:15`
  says that channels stand in for sockets, and `src/spec/threat-model.md:19` has the
  adversary observe every channel; so has `src/models/tamarin/dlcd-replication.spthy`.
- `FALSE`: a vote is read by its addressee, the leader's seat, and by nobody else until
  it is published in a certificate.  These are the in-process channels of the harness.

The difference matters, because a follower votes for the proposal of any member: where
votes can be read, one misused follower key gets a certificate the leader knows nothing
of.  `Trusted` (no key is misused, or votes are private) and `~observed` are the
hypotheses of every property that needs the leader to be ahead, and are written in it.
With no key misused everybody may still replay and reassemble what is under way.

`Byzantine` selects the roster's threshold (`Roster::new_byzantine`), which both the
leader's decision and the certificate check follow.  One action is one call of `submit` or `handle`,
`record_vote` and the drain of `apply_commit` included: an `AuthNode` is owned by
one task and the handlers do not await.

### Codec, NetAuthCluster, Signing

`NetAuthCluster` is `run_auth_cluster`: the handlers of `AuthReplication`, run by
tasks that exchange frames over FIFO channels.  `Drive` is one turn of `drive`,
whose cursor advances even when `submit` refuses the capability; `Receive` is
`recv`, `decode_msg`, `handle`; `Send`, `Publish`, `Exit`, `Join`, `Timeout` are
as in `NetCluster`.  A frame is the array `encode_msg` builds; `Codec` has every
nested encoder and decoder with its shape check.  A vote's command is not a field
of its frame: what a decoded vote is for is what its signature covers, and a
certificate is read that way.

`Signing` has the three signed strings byte by byte: a domain, four
little-endian bytes of the slot, the payload's canonical encoding, and the
capability behind a presence byte.  Its constants `Canonical` and `EncodeProp`
stand for the CBOR encoders, of which it assumes that one item is never the
beginning of another.

### Budgets, Quantale

Both budgets at parametric widths.  `OverflowChecks` tells a debug build, where
`+` on `u32` panics (and `halted` becomes true), from the release profile of the
root `Cargo.toml`, which does not turn overflow checks on, so that it wraps.
`charged` and `spent` are histories: the mathematical sums the machine values are
compared with.  `Quantale` adds the order, the lattice, the residual and the
change of base from risk, over the same saturating sum.

### Syntax, Datatypes, Substitution, Judgment, Typing, Reduction

Terms, propositions, principals and obligations are tuples headed by their
constructor.  Tables name the fields of each constructor and the variables bound
in each, as `shift` and `subst` treat them; in `Substitution` one definition of
`shift` and one of `subst_at` then stand for the source's arms.  `Judgment` has the
contexts and `Lookup`, which searches the additive context before the linear one;
`Typing` has `infer` arm by arm, with the linear hypotheses of let-tensor.
`Reduction` is the loop of `reduce_with_fuel`: `cur` is the term after `n` steps from
`origin`, typed in `ctx`.  `Occurrences` and `Substituted` are the reference for
substitution: where each variable of a term is and which binder it belongs to,
computed without shifting anything.

The functions of the source that call themselves are constants: `Shift`, `SubstAt`,
`Infer`, `Step`, `Enc`, `Dec`, `AllSigsVerify`, and the observers `Constructors`,
`Occurrences` and `SignNodes`.  Each has a rule, a plain definition that says what one
call does in terms of the calls it makes (`ShiftRule`, `SubstAtRule`, `InferRule`, ...),
and an assumption that the constant follows its rule on the values considered.
`MCCalculus` ties each constant to its rule by recursion, and TLC evaluates every one of
the assumptions.  The rules are the translation of the source; written this way they can
be both run and reasoned about.

The values considered are constants too: `Universe(kind)` for each Rust type, `Programs`,
`Contexts`, and the calls of `shift`, `subst_at` and `infer` (`Shifts`, `Substitutions`,
`Judgments`).  What is assumed of them is that they are closed under what the code does
with them: a part of a term is a term, a smaller one; a reduct of a program is a program;
the substitutions of a head rule are among those considered, and their results are terms,
that is, no index leaves its 32 bits; the calls that `infer` makes are among those
considered (`InferCalls`).  One set of values satisfying this is everything the code can
build whose indices stay within their width; the finite ones of `MCCalculus` are others.

### Wire, SignedTerm, Verifier, Token

A CBOR value is an integer, a byte string or an array.  The encoder's tags and the
decoder's are two tables in `Wire`, as they are two lists in the source, and the
decoder narrows integers at the widths `W8`, `W32`, `W64`; it indexes an array
before checking its length, so a short one is a `Panic`.  `Verifier` has `verify`,
the traversal `all_sigs_verify` with the fields each arm descends into, and the
envelope, over `SignedTerm`'s `verify_in_keyring` and its first-row lookup.  `Token` states
what a relying party relies on.

### Governed

A crate is a set of declarations and one governed function.

| Variable | Stands for |
|---|---|
| `phase`, `envelope` | how far the crate got; the axes of `agent_service`, once it builds |
| `decls` | `grants!` and `delegates!` in the source |
| `verdicts` | the answers the certificate test the macro emits has given |
| `credentials` | signatures issuers made, with the key and the tool they are for |
| `caps` | `Cap` witnesses minted and not yet moved into a call |
| `invoked` | the tools invoked, by the governed function or by the host |

| Action | Code |
|---|---|
| `Grants`, `Delegates` | a declaration is written |
| `Build` | `Envelope::parse`, `lower`, the gates and the trait bounds; a refused crate stops there |
| `Test` | `certificate_test`: `cap_problem` and `decide_pure`; `cargo test` may be run at any time, or never, and nothing waits for it |
| `Issue` | an issuer signs `cap_message`, before or after the build |
| `AdmitCap` | `Cap::admit` |
| `CallGoverned` | a call, which consumes its `Cap` |
| `HostInvokes` | `admission::decide` before a tool runs |

rustc is outside the model: a crate builds when every trait bound the macros emit
has one implementation in the crate.  The checker the certificate asks is the
constant `Checker`; the runs give it `DecidePure` of `Typing`.  What the proofs use of
it is `CheckerAssumption`: for the one kind of problem the certificate poses, a
variable in a context of at most one claim, it answers what `Lookup` finds.  TLC
evaluates that assumption with `DecidePure` in both runs.

## 3. Runs

| Run | Instance | Shows |
|---|---|---|
| `replicated_log` | 3 replicas, 3 slots, 2 commands | agreement, prefix fold, append-only of the abstract log |
| `cluster` | 3 replicas, leader 1, workload `<<3, 1, 1>>`, every crash set, weak fairness | nine invariants, the refinement, two liveness properties |
| `cluster_timeout` | 3 replicas, one command | *violation*: a timed-out run need not have converged |
| `auth` | majority roster of 3, no misused key, a follower's or the leader's, votes readable by all or by their addressee, 2 slots, 3 commands of which 2 are licensed | certificates and licences; who is behind a disagreement; agreement while no key is misused; on private channels agreement and progress behind a safe leader |
| `auth_equivocation` | Byzantine roster of 4, faulty leader, 1 slot | *violation*: two commands committed to one slot |
| `net_auth` | Byzantine roster of 3, four workloads, every crash set, weak fairness | frames lose nothing, certificates pass, a refused command strands the rest, the licensed prefix commits |
| `budgets` | widths of 4 values, debug build | sums, overspending, the debug build's contract, the headroom |
| `budgets_release` | the same, release build | *violation*: a charge lowers the faults consumed |
| `calculus` | terms with a scrutinee of up to 3 nodes in every position, 8 contexts, 2 steps; tokens, 6 keyrings, 2 sets of anchors, 2 presenters | substitution, progress, preservation on a fragment, weakening, the wire round trip, what the verifier accepts |
| `subject_reduction` | the same | *violation*: a reduct with another type |
| `governed` | 3 issuers, 2 tools, up to 3 declarations and 2 credentials, 7 envelopes | authority from roots, certificate agrees with build, licensed calls |
| `delegation` | the same | *violation*: a delegation that satisfies its own gate |

Bounds.  Stores are the numbers 0..6 and commands the maps `s -> 2s + c (mod 7)`:
they do not commute and applying one twice differs from applying it once, so an
order, a gap or a repetition shows in the store.  The cluster's workload repeats
a command in adjacent slots, the case in which a vote of one slot can be mistaken
for one of the next, and differs in the first, so that an order shows.  Three
slots let a message of one slot meet a replica two slots later.  Three replicas
give a majority with and without a crash, and a minority.  A one-replica cluster
is its own quorum and decides inside `submit` (the label `drain_driven`); the
theorems, which hold for every `N`, cover that case.  `auth` takes
the majority roster because one faulty seat of three is the most it
tolerates; `net_auth` the
Byzantine roster of three because there a majority is no quorum, so that a check
with the wrong threshold shows (five seats, the next size at which the two differ,
are too many for the tasks' interleavings; `CertificatesVerifyOnTheWire` covers
every size).  Its workloads are: all licensed, equal commands in adjacent slots, a
refused command in the middle, and one at the start.

In `calculus` the widths are 2, 8 and 32: values sit at the edge of each.  Three nodes
under an elimination are two binders inside one another and a free variable above
both, the smallest terms in which an index off by one captures a variable; two steps
are a redex and the redex it uncovers.  `MCCalculus` starts from all such terms typed
in one of the contexts (with one or two values for each annotation), with all small
branches under the simple scrutinees and simple branches under all of them, and
closes them: 2690 programs with all their subterms and reducts, the calls of `shift`
and `subst_at` on them and on the substituted values, and 30337 calls of `infer`.  The
keyrings list a principal never, once, twice in either order, and under another
algorithm.  In `governed` three issuers make a chain of two delegations and a
cycle of two; one tool has a pinned name, so that ident and name differ.  The
hashes of the instance are distinct: a collision of the 32-bit FNV-1a hash is
outside the claim.

`auth`, `governed`, `delegation` and both `budgets` runs do not check for deadlock: the
first stops when every slot of the bound is used,
`governed` at a rejected crate with nothing left to issue, the budgets at `SpendCap` or
at a panic.
`TypeOK` is checked as an invariant of `cluster`; elsewhere it is part of what is
proved (`AlwaysDrained`, `HistoryInv`, `GradeInductive`).

Fairness.  `FairSpec` of `NetCluster` is weak fairness of each task and of the
join: tokio runs a task that is ready and wakes the harness when the last one
has ended.  `NetSpec` of `NetAuthCluster` is weak fairness of each task.  No
fairness is put on the timer, and every liveness property allows it to fire
first.  `FairSpec` of `AuthReplication` asks that a correct node keeps handling
what correct nodes sent it, each kind of message on its own, which is what the
harness's channels give.  Faulty seats are under no fairness.  `ProposedIsCommitted`
is about private channels only: where votes can be read, a misused key has a follower
commit the slot first; the follower then drops the leader's proposal, nothing is sent
twice, and the leader waits for its vote for ever.

### Findings

1. **A timed-out run need not have converged** (`net.rs:154`).  `converged()` is
   documented as "true of a *stalled* cluster too" (`net.rs:70`), and `settle` as
   the time after which the run is declared stalled (`net.rs:46`).  The timer
   does not tell a stalled run from a slow one.  What does hold is
   `StalledMeansConverged`: a cluster in which every task is blocked has
   published equal logs and stores.
2. **A Byzantine roster does not stop an equivocating leader** (`auth.rs:219`).
   `proto.rs:101-105` and `tests/byzantine.rs:14-16` and `:256-260` rest on a correct
   replica voting once per slot, "which the honest node enforces with its ballot".
   The ballot is the leader's; a follower keeps no record of its votes and signs
   every proposal of its next slot that verifies.  The test builds its
   certificates from votes that were split by hand.  (The comment on
   `verify_commit`, `proto.rs:359-368`, does say that this protocol gives no
   Byzantine agreement.)  `AgreementUnderCorrectLeader` is what holds;
   and `DisagreementTakesADoubleVote` proves that the threshold does its part: below
   a third of misused keys a double vote is the only way to disagree.
3. **The failure budget wraps in release builds** (`rsm.rs:93`), although it is
   named `saturating_add` and documented as monotone like the privacy grade,
   whose addition does saturate.
4. **A reduct of a well-typed term may have another type** (`reduce.rs:93`).
   `infer` types `let <x>_p = m in body` as `p says psi` (`decide.rs:274-282`); `step`
   opens it to the body, of type `psi`.  `spec/typing-rules.md:319-320` states
   subject reduction for all typed terms, and lists says-extract among the head
   redexes.  `FragmentKeepsType` is what holds: without says-elimination and
   without tensor-elimination the type is kept.
5. **A delegation can satisfy its own gate** (`dlc-d/src/lib.rs:207`).  The gate
   asks for `Grants` of the parent and the implementation the macro emits is
   one; `Admin => Admin` builds, and so does a cycle of two.  `lib.rs:188` says
   "Misdelegation can only narrow, by construction".  `AuthorityComesFromARoot` is
   what holds: when the delegations form no cycle, all authority is a root's.

Two consequences of `auth.rs:219` and `auth.rs:248` lie outside the hypothesis `Trusted`,
and are why it is there.  Both take one misused follower key and a network on which
votes can be read, the leader's key being safe.  Neither is a property of a run: TLC
shows the first within five states if `AgreementUnderCorrectLeader` is checked without
`Trusted`, the second if `OwnCommitsVerify` is, with `Faults = {{2}}`.

- The holder of the key proposes a licensed command of its own to a correct node, reads
  the vote that goes to the leader, and puts a certificate of two together; that node
  commits it, and the leader what it proposed itself.  `tests/byzantine.rs:193-196` says
  that "only a *compromised* leader breaks agreement"; comparing a proposal's signer
  with `leader_idx` would make it so.  `ConflictsTakeARogueProposal` is what holds, on any
  network: one of the two commands was signed by a correct node although the leader
  did not propose it there.
- The same certificate relayed to the leader moves its log on, for the `Commit` arm clears
  neither `proposing` nor `ballot`.  A vote for the new slot is then added to a ballot of
  the old one: the leader commits the command in a slot no quorum signed it for, and
  broadcasts a certificate with votes for two slots, which every follower refuses and on
  which a debug build stops (`auth.rs:306-308`).  So the leader is left out of
  `CommitsAreCertified` and `ConflictsShowADoubleVote` in this case.
  `CommittedWasLicensed` holds of it all the same.

One more, which no run shows but a theorem does: `Spend::remaining` promises an
exact headroom to every grade within its budget.  With a ceiling at the type's
maximum the saturated sum stays within it whatever is asked
(`HeadroomInexactAtTheTop`); `HeadroomDecides` is the promise with that case
excluded.

## 4. Proofs

Each safety property is proved in three steps: the initial states satisfy an
inductive invariant, every step keeps it, and it implies the property.  TLC checked
the invariants on the small instances before they were proved.  A property
named in brackets is the one a run checks.

`RsmProofs` has what `deliver`, `commit` and `world_step` do to a well-typed
configuration, and what `apply_prefix` computes: any sequence of stores that starts
with the initial one and follows the commands is its result (`PrefixFold`).  The
cluster's and the authenticated node's proofs rest on it.  The only assumption is
`RsmAssumption` (`ApplyCommand` is total on `Store`).

`ReplicatedLogProofs` (every store, command set, replica set and log length).
`StoresAgree` is not inductive: nothing says that a replica that is behind will
pass through the stores the others went through.  `HistoryInv` names that
sequence of stores: there is an `h` with `h[0] = InitStore`, each next store the
command of its slot applied to the one before, and every replica's store is
`h[applied]`.  A commit extends `h` by one, a delivery moves a replica along it.
`Convergence`, `LogAppendOnly` and, by `PrefixFold`, `IncrementalIsFold`
(`StoreIsPrefixFold`) follow.

`NetClusterProofs` (every `N`, leader, workload and crash set; `ClusterAssumption`,
of which the last part says that `None` is no view).  First `TypeOK`.
Then `ClusterInv`: `LogsFollowLeader`, `LogIsWorkload` and `QuorumBacked` need
that every message under way, queued or not yet sent, is *truthful*: it carries
the workload's command for its slot, a vote was really cast, a commit repeats an
entry of the leader's log; and that the ballot holds votes of the slot in flight
only.  That last part is what the slot check of the `Vote` arm and the clearing
of the ballot are for.  `Implements` maps each step to a commit, a delivery or a
stutter of `ReplicatedLog`, with the leader's log as the log; that a follower
delivers what the abstract log holds is where `ClusterInv` is used.
`ClusterConverges` then gets agreement of the stores from the refinement and
`Convergence`, as the design intends.

What the harness publishes and returns needs to know where every task is, which is
`HarnessInv`:

- `AppliedInv`: a log is longer than what is applied only inside a drain loop;
- `PublishedInv`: a snapshot is drained, and is the current view unless the node has
  committed since (hence `SnapshotsAreDrained`);
- `CursorInv`: the workload cursor is level with the leader's log, or one ahead while a
  command is in flight, and nobody has heard of a slot beyond it;
- `RouteInv` and `StreamInv`: the leader's broadcasts are numbered, the proposal of
  slot `s` by `2s + 1` and its commit by `2s + 2`; a follower's queue holds the numbers
  that come next, one by one, and the follower has taken `2s` or `2s + 1` of them when
  it is at slot `s`.

The numbering is what makes the absence of retransmission harmless: no message of a
live follower is ever out of its slot, so none is dropped (`NobodySkipsASlot`, of
`NextSlotIsUnderWay`).  When all tasks are blocked, the queues are empty, and the
numbers make all live logs equal (`StallsAreConverged`); a task that ended had applied
the whole workload (`SettledRunsAreComplete`); beyond the budget no ballot fills
(`OverBudgetIsSafe`).

`AuthReplicationProofs` (every roster, threshold, leader, set of misused keys, set of
licensed commands, and both kinds of network).  `AuthInv` adds four things to the
properties.

- `Evidence`: every vote on the ballot, in a message or in a certificate was really
  signed by its seat, or that seat is faulty; a correct seat signs only what has a
  capability.  So each commit of a correct follower has a quorum of signatures
  behind it (`ForgeryResistance`).
- `Proposals`: the leader proposes one command for a slot, never for a slot beyond its
  own, and while its proposal is for the slot it is at the ballot is of that slot
  (`InFlight`).  This is the part that survives a relayed commit: after one, the
  proposal in flight is for an earlier slot.
- `LeaderCommits`: what the leader commits is signed by a quorum, or it is an old
  ballot completed, and then licensed, in a slot the leader proposed nothing for.  With
  the first part this gives every command a correct signer, and so a capability,
  unless the misused keys reach the threshold alone (`OnlyLicensedCommands`); and
  it makes disagreement somebody else's proposal (`DisagreementTakesARogueProposal`):
  two commands in one slot were each signed by a correct node or completed from an
  old ballot; they are not both the leader's proposal, which is unique; and next to a
  completed ballot the other command is signed and was not proposed at all.
- `LeaderIsAhead`, where votes are private and the leader safe: any certificate that
  verifies repeats an entry of the leader's log.  This is why agreement needs no
  quorum intersection there: such a certificate contains a vote of a correct seat, which
  went to the leader and becomes public only in its own certificate, as it commits.

`AgreementBehindSafeLeader` has two cases: with no key misused everything signed is the
leader's proposal, even where all votes are read; with private votes the leader is ahead.
`LeaderIsNeverBehind` is of private votes only, `CertificatesVerify` of both cases
(what happens in the third is at the end of section 3).  `ReachedIsMonotone` and `DecisionIsQuorum` show that the leader's decision
and the certificate check use one threshold.  `AuthStoresConverge` is the promise of
the state machine on this network: a node's store went through the commands of its
log (`StoreHistory`), and where they agree nodes that have come equally far have equal
logs.

Under an unsafe leader quorum intersection is all there is.
`QuorumsMeetInACorrectSeat` proves what `consensus.rs` leaves to the Lean development:
two quorums share a seat whose key is safe, if less than a third of a Byzantine
roster, or nobody on any roster, has lost theirs.  Hence a ballot decides once
(`BallotDecidesOnce`), and `DisagreementTakesADoubleVote`: two commands committed to one
slot were both signed by one correct node.  That is the exact condition finding 2 is
about: the threshold is sound, and the vote is not recorded.

`NetAuthClusterProofs` (every roster, threshold, workload and crash set; assumptions
`WorkloadAssumption`, and `EverySeatIsHonest`: `run_auth_cluster` gives every live seat its
own key and a channel of its own).  The codec first: a proposal, a vote and a commit survive encoding and
decoding (`FrameSurvives`), the certificate because its votes are enumerated and
read back as a set of the same size.  `WireInv` says that only frames of sent
messages are in an outbox or a queue.  So each step of the harness is a step of a
node handling a message that was sent, or no step at all: `HarnessImplementsNodes`
is `NetSpec => Spec`, and everything proved of `AuthReplication` holds of the
harness (`CertificatesVerifyOnTheWire`, `WiredStoresConverge`).  `FramesDecode`
(`FramesCarrySentMessages`) is the codec's side of it.  `CursorInv` relates the cursor
to the leader's log across refusals: it is level, or one ahead, and then the command
it passed is in flight or was refused; hence `DriveFindsTheLeaderFree` (no licensed
command is lost because another is in flight), `RefusalStrands`
(`RefusalStrandsTheRest`: a refused command leaves the cursor one ahead for good) and
`SettledAuthRunsAreComplete`.

At the end of `NetAuthClusterProofs` (every payload, capability and 32-bit slot; assumption
`SigningAssumption`: canonical encodings are prefix-free, proposition encodings
injective).  The three domains differ at the seventh byte (`DomainsSeparate`), so no
signature can be taken for one of another kind.  Within a kind the slot is the
first four bytes, the payload is found because no encoding begins another, and the
capability is the rest; hence `CapabilityBindsCommand`,
`ProposalBindsSlotAndCommand` and `VoteBindsSlotAndCommand`, which justify the
symbolic signatures of `AuthReplication`.

`BudgetsProofs` (every width, ceiling and cap).  Saturating addition onto a
cut sum is the cut of the whole sum, hence the grade always is the true sum, cut,
and an overspend is permanent; a build with overflow checks holds exactly what
was charged until it halts.  It also has the laws the tests of `dlc-grade-quantale`
sample: the residual is adjoint to the saturating tensor, meet and join are a
lattice, the tensor distributes over the join, risk embeds as a homomorphism, and
`HeadroomDecides`.

`GovernedProofs` (every set of issuers, tools, declarations, envelopes, labels, every
keyring and every order of presentation; assumptions `GovernedAssumption`, which
gives the types, and `CheckerAssumption` above).  `CrateInv` keeps what the steps of a
crate's life leave behind: what is built compiled, only that runs, a credential is what
its issuer signed.

- `AuthorityIsRooted`: suppose a holding lies outside a set that takes in what roots
  declare and follows the delegations.  Take one whose issuer has the least rank
  in the order of delegations.  It was not declared by a root, so its gate says
  that the parent, of a lesser rank, held it; and that holding is outside too.
  `Rooted` is the least such set.  Without the order the argument has no start,
  which is finding 5.
- `InvocationsAreLicensed`: `CapInv` adds that a witness not yet used was minted on a
  credential for the governed tool.  What is admitted was signed over the tool's
  hash; `Envelope::parse` leaves one cap axis, so the witness is moved into a call of
  the tool it was minted for.
- `CertificateAgrees`: the trait bound has one implementation per issuer, whose list is
  what the certificate presents; a demand that was not granted is met with another
  name or with none.

The last two are theorems under `HashesDistinct`: no two tools' names collide in the
32-bit hash both checks compare.  The code does not ensure it, so it is a hypothesis
of the theorems and not an assumption on the constants; with a collision a
credential for one tool does admit the other.

`TokenProofs` (every set of values, programs, contexts, keyrings and anchors that
satisfies `UniverseAssumption`, `CodecAssumption`, `ShiftAssumption`,
`SubstitutionAssumption`, `ProgramAssumption`, `TypeAssumption`, `JudgmentAssumption`,
`StructureAssumption`, `SignaturesAssumption` and `RelyingPartyAssumption`, described in
section 2).  `ReducesPrograms` is the invariant that keeps a run among the programs.
Every fact about terms of any depth is proved by taking a smallest counterexample:
`Size` is a natural, so of the terms (calls, judgments) that lack a property one has only
parts that have it (`SmallestTerm`, `SmallestCall`, `SmallestJudgment`), and one node of the
rule then gives a contradiction.

- Wire format.  `TagTablesAgree` compares the encoder's table of tags with the decoder's,
  constructor by constructor; a field survives its widening and narrowing because it
  fits its width.  `ValuesRoundTrip` is the round trip of every value, and
  `WireFormatRoundTrips` (`DecodeInvertsEncode`) that of a run and of keyrings.
- Relying party.  `WalkFindsEverySignature`: the recursive walk, which lists the fields to
  descend into once more by hand, reaches every `Sign` node.  With the first-row lookup and
  the round trip that is `RelyingPartyAccepts` (`AcceptedIffTypedAndSigned`).
- Substitution.  `ShiftsLift` and `SubstitutionsReplace` say where each variable of the
  result comes from: `SubstitutionIsCaptureAvoiding` (`SubstitutionKeepsBindings`).  The head
  rule of let-tensor needs that a variable lifted over the second binder and then
  lowered is where it was (`PlacedTwice`).
- Reduction.  `StepHasForm` lists what `step` can make of a term: a substitution into a part, a
  part, the two substitutions of let-tensor, a command applied, a delegated signature, or
  a subterm reduced in place.  From it follow `NothingIsFreed` (`NoNewFreeVariables`), that a
  step brings in no constructor but those of two head rules (`ConstructorsOfStep`),
  and `VerifiedStaysVerified` (`ReductionKeepsSignatures`): a closed signed proof is fixed by
  shifting and substituting (`ShiftFixes`, `SubstFixes`), hence its bytes are those that
  were signed.
- Progress.  `ReductionProgresses` (`CoreProgress`): the principal argument of an elimination
  is a value of the type eliminated or steps, and the value is then the introduction that
  the head rule awaits (`CanonicalForms`).  Excluding the frozen eliminations is an
  invariant of the run because no step makes one.
- Weakening.  `SameTyping`: two terms with one constructor and equal fields, whose subterms
  have equal types in all calls `infer` makes for both, have equal types.
  `TypingWeakens` (`WeakeningKeepsType`) needs no more than that and `Lookup`.
- Subject reduction.  `ShiftTypes` and `SubstTypes` are the two substitution lemmas: a
  shifted term has its type among hypotheses moved as its variables were (`Moved`), and
  a substituted one among the hypotheses without the one replaced (`Without`).  Each head
  rule keeps the type (`ContractTypes`, `LetSaysTypes`, `DelegateTypes`), and so does a
  congruence rule (`CongruenceTypes`): `FragmentSubjectReduction` (`FragmentKeepsType`).
  That the fragment is closed under steps is again an invariant of the run.  Let-tensor
  is outside because `infer` reads the variables 0 and 1 of its body in the additive
  context first, and the head rule substitutes the components for them; says-bind
  because of finding 4.

Only model-checked: liveness and the fairness it needs, which the prover does not reach
(`WithinBudgetCompletes`, `CommittedReachesAll`, `ProposedIsCommitted`,
`LicensedPrefixCommits`); and that the constants of the calculus and of `Governed` satisfy
the assumptions made of them (of `DecidePure`, `CheckerAssumption`), which TLC evaluates on
the instances.  Every safety property of a passing run is stated by a theorem.

## 5. Plan

1. `Rsm`, `Consensus`, `ReplicatedLog` with its proofs: done.
2. `NetCluster` with its refinement and proofs: done.
3. `AuthReplication`, and its proofs: done.
4. `Budgets`, `Quantale`, with their proofs: done.
5. `Codec`, `NetAuthCluster`, `Signing`, with their proofs: done.
6. `Syntax`, `Substitution`, `Judgment`, `Typing`, `Reduction`: done.
7. `Wire`, `SignedTerm`, `Verifier`, `Token`: done.
8. `Governed`, and its proofs: done.
9. The proofs about terms (`TokenProofs`): the wire format, the verifier, substitution,
   progress, weakening, subject reduction: done.
10. Worth proving next: what a settled crash-fault run's stores are in terms of
    `apply_prefix`.

## 6. Not modelled

- Cryptographic primitives are ideal signatures; CBOR's bytes are values, except for
  what `Signing` assumes of them; so are the check that a principal's id has 32 bytes
  (`wire.rs:297`) and ciborium's limit on how deep a value may be nested, past
  which a term that was encoded would not be read back.  The replay, time-anchor and transparency stubs
  check nothing yet.
- Decoding of arbitrary CBOR: `Wire` says what the decoders answer, a panic
  included, but the runs decode only what was encoded.
- `Label::bottom` and `Label::join`, `Graded::map`, obligations as values,
  `assert_tolerates` and `Cap::unchecked`: called by nothing modelled.
- The macros' grammar, spans and diagnostics; a collision of tool hashes.
- The ledger example, interoperability tokens, exporters, command lines, demos,
  benches, fuzzers and the wasm wrapper: clients of the modelled parts, or text
  generation.
- The symbolic models under `src/models` and the Lean development, which are
  other verifications of the same system.
