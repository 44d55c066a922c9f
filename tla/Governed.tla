------------------------------ MODULE Governed ------------------------------
(***************************************************************************)
(* The programming surface: crates/dlc-d (grants!, delegates!, the cap     *)
(* axis's gate and certificate, run-time admission) and crates/dlc-d-macro *)
(* (the agent_service envelope).                                           *)
(*                                                                         *)
(* A crate is a set of declarations and one governed function.  It is      *)
(* edited, built by rustc, run, and tested or not; issuers sign credentials*)
(* and callers of a built crate present them.  rustc itself is outside: a crate *)
(* builds when the trait bounds the macros emit have one implementation.   *)
(***************************************************************************)
EXTENDS Judgment, SignedTerm

CONSTANTS Issuer,        \* issuer types; the ident is the last path segment
          Tools,         \* tool types: an ident and a pinned name, if any
          ToolLists,     \* lists of tools a declaration may name
          Edge,          \* the declared FlowsInto edges between labels
          Envelopes,     \* lists of axes an agent_service attribute may hold
          Fnv,           \* the 32-bit FNV-1a hash of a name
          Keyring,       \* the keyring of the host
          None,          \* Option::None
          Checker(_, _, _),     \* decide_pure of a context, a term and a proposition
          MaxDecls, MaxCredentials

ASSUME GovernedAssumption ==
  /\ None \notin Issuer
  /\ ToolLists \subseteq Seq(Tools)
  /\ MaxDecls \in Nat /\ MaxCredentials \in Nat

VARIABLES phase,        \* "source", "rejected" or "built"
          decls,        \* the declarations in the source
          envelope,     \* the governed function's axes, once built
          verdicts,     \* what the emitted certificate test answered so far
          credentials,  \* signatures, each with the keyring row and the tool it is for
          caps,         \* witnesses minted and not yet moved into a call
          invoked       \* tools invoked: by the governed function, by the host

crate == <<phase, decls, envelope, verdicts>>
vars == <<crate, credentials, caps, invoked>>

-----------------------------------------------------------------------------
(* Declarations. *)

\* derive(Tool): the stable name is the pinned one, by default the ident.
Name(tool) == IF tool.pinned = None THEN tool.ident ELSE tool.pinned

\* grants! makes a root issuer, delegates! hands tools of a parent on.
Roots == {d \in decls : d.parent = None}
Delegations == decls \ Roots

\* What the trait solver knows: the implementations are those of the whole
\* crate, wherever the declaration stands.
HasGrant(issuer, tool) ==
  \E d \in decls : d.issuer = issuer /\ tool \in {d.tools[i] : i \in DOMAIN d.tools}
HasLineage(issuer) == \E d \in decls : d.issuer = issuer
FlowsInto(src, dst) == src = dst \/ <<src, dst>> \in Edge

\* IssuerGrants::GRANTS: the names, in the order declared.
GrantList(issuer) ==
  LET d == CHOOSE e \in decls : e.issuer = issuer
  IN  [i \in DOMAIN d.tools |-> Name(d.tools[i])]

\* A second IssuerGrants, or a second Grants for the same tool, is a duplicate
\* implementation.
NoDuplicateImpl ==
  /\ \A d, e \in decls : d.issuer = e.issuer => d = e
  /\ \A d \in decls : \A i, j \in DOMAIN d.tools : d.tools[i] = d.tools[j] => i = j

\* A mistake the checks must notice: what the parent holds is not looked at.
AnyDelegation(d) == d \in Delegations

\* The assert_granted consts of delegates!.
NotWidening(d) == \A i \in DOMAIN d.tools : HasGrant(d.parent, d.tools[i])

-----------------------------------------------------------------------------
(* The envelope. *)

\* Envelope::parse refuses a second axis of a kind.
Parses(axes) == \A i, j \in DOMAIN axes : axes[i][1] = axes[j][1] => i = j

Axis(axes, kind) == {axes[i] : i \in {j \in DOMAIN axes : axes[j][1] = kind}}

\* The obligations lower emits, all of which must hold.  A budget axis only
\* anchors a type.
Lowers(axes) ==
  /\ \A cap \in Axis(axes, "cap") : HasGrant(cap[3], cap[2])
  /\ \A flow \in Axis(axes, "flow") : FlowsInto(flow[2], flow[3])
  /\ \A d \in Axis(axes, "delegate") :
       Axis(axes, "cap") # {} /\ \A cap \in Axis(axes, "cap") : HasLineage(cap[3])

-----------------------------------------------------------------------------
(* The certificate. *)

\* issuer_principal and runtime::cap_atom.
IssuerPrincipal(issuer) == <<"Atom", Fnv[issuer]>>
CapAtom(name) == Fnv[name]

Claim(issuer, name) == <<"Says", IssuerPrincipal(issuer), <<"Atom", CapAtom(name)>>>>

\* The certificate puts one kind of problem to the checker: a variable in a context
\* of at most one claim.  There the checker answers what infer looks up.
ClaimContexts ==
  LET Claims == {Claim(x[1], Name(x[2])) : x \in Issuer \X Tools}
  IN  {EmptyCtx} \cup {Ctx(<<phi>>, << >>) : phi \in Claims}

ASSUME CheckerAssumption ==
  \A ctx \in ClaimContexts, issuer \in Issuer, tool \in Tools :
    Checker(ctx, <<"Var", 0>>, Claim(issuer, Name(tool)))
      <=> Lookup(ctx, 0) = Claim(issuer, Name(tool))

\* A mistake the checks must notice: the demand presented as its own credential.
PresentDemanded(granted, name) == <<name>>

\* The grant cap_problem presents: the one demanded if it was granted, else the
\* first one.
Presented(granted, name) ==
  IF \E i \in DOMAIN granted : granted[i] = name THEN <<name>>
  ELSE IF granted # << >> THEN <<Head(granted)>> ELSE << >>

\* decide_pure of cap_problem.
CertificateHolds(granted, issuer, name) ==
  LET presented == Presented(granted, name)
  IN  Checker(Ctx([i \in DOMAIN presented |-> Claim(issuer, presented[i])], << >>),
              <<"Var", 0>>, Claim(issuer, name))

-----------------------------------------------------------------------------
(* Admission. *)

CapMessage(atom) == <<"dlc-d/cap-invoke:", atom>>

\* A mistake the checks must notice: a credential not bound to its tool.
MessageWithoutTool(name) == CapMessage(0)

\* What a credential for the tool of this name is signed over.
CredentialMessage(name) == CapMessage(CapAtom(name))

\* runtime::admit.
Admits(issuer, name, sig) == VerifyInKeyring(Keyring, issuer, CredentialMessage(name), sig)

\* admission::decide.
Decide(issuer, name, sig) == IF Admits(issuer, name, sig) THEN "Admit" ELSE "Deny"

-----------------------------------------------------------------------------
(* Actions. *)

Init ==
  /\ phase = "source" /\ decls = {} /\ envelope = << >> /\ verdicts = {}
  /\ credentials = {} /\ caps = 0 /\ invoked = {}

Declare(parents) ==
  /\ phase = "source" /\ Cardinality(decls) < MaxDecls
  /\ \E parent \in parents, issuer \in Issuer, tools \in ToolLists :
       decls' = decls \cup {[parent |-> parent, issuer |-> issuer, tools |-> tools]}
  /\ UNCHANGED <<phase, envelope, verdicts, credentials, caps, invoked>>

Grants == Declare({None})
Delegates == Declare(Issuer)

Compiles(axes) ==
  /\ NoDuplicateImpl
  /\ \A d \in Delegations : NotWidening(d)
  /\ Parses(axes) /\ Lowers(axes)

\* cargo build, of the declarations and a function governed by the envelope.
Build ==
  /\ phase = "source"
  /\ \E axes \in Envelopes :
       /\ phase' = IF Compiles(axes) THEN "built" ELSE "rejected"
       /\ envelope' = IF Compiles(axes) THEN axes ELSE << >>
  /\ UNCHANGED <<decls, verdicts, credentials, caps, invoked>>

\* cargo test: the certificate test of a function with a cap axis.  Nothing else
\* waits for it.
Test ==
  /\ phase = "built"
  /\ \E cap \in Axis(envelope, "cap") :
       verdicts' = verdicts \cup {CertificateHolds(GrantList(cap[3]), cap[3], Name(cap[2]))}
  /\ UNCHANGED <<phase, decls, envelope, credentials, caps, invoked>>

\* An issuer signs a capability for a tool with its key, before or after the build.
Issue(row, tool) ==
  /\ Cardinality(credentials) < MaxCredentials
  /\ credentials' = credentials \cup
       {[row |-> row, tool |-> tool,
         sig |-> <<"Signature", ALG_ED25519,
                   SignatureOver(row.public_key, CredentialMessage(Name(tool)))>>]}
  /\ UNCHANGED <<crate, caps, invoked>>

\* Cap::admit for the governed function's tool.  The issuer principal is the
\* host's to choose; a refusal mints nothing.
AdmitCap(issuer, sig) ==
  /\ caps = 0
  /\ \E cap \in Axis(envelope, "cap") : Admits(issuer, Name(cap[2]), sig)
  /\ caps' = caps + 1
  /\ UNCHANGED <<crate, credentials, invoked>>

\* A call of the governed function moves the witness in.
CallGoverned ==
  /\ caps > 0
  /\ caps' = caps - 1
  /\ \E cap \in Axis(envelope, "cap") : invoked' = invoked \cup {<<"governed", cap[2]>>}
  /\ UNCHANGED <<crate, credentials>>

\* A host monitor that asks decide before it invokes a tool by name.
HostInvokes(issuer, tool, sig) ==
  /\ phase = "built"
  /\ Decide(issuer, Name(tool), sig) = "Admit"
  /\ invoked' = invoked \cup {<<"host", tool>>}
  /\ UNCHANGED <<crate, credentials, caps>>

KeyRows == {Keyring[i] : i \in DOMAIN Keyring}

Next ==
  \/ Grants \/ Delegates \/ Build \/ Test \/ CallGoverned
  \/ \E row \in KeyRows, tool \in Tools : Issue(row, tool)
  \/ \E row \in KeyRows, c \in credentials :
       \/ AdmitCap(<<"Atom", row.principal>>, c.sig)
       \/ \E tool \in Tools : HostInvokes(<<"Atom", row.principal>>, tool, c.sig)

Spec == Init /\ [][Next]_vars

-----------------------------------------------------------------------------
(* Properties. *)

Built == phase = "built"

Names(tools) == {tools[i] : i \in DOMAIN tools}
Held == UNION {{d.issuer} \X Names(d.tools) : d \in decls}

\* A set of holdings that takes in what roots declare and what its holders hand on.
Derivable(h) ==
  \A d \in decls : \A t \in Names(d.tools) :
    d.parent = None \/ <<d.parent, t>> \in h => <<d.issuer, t>> \in h

\* Authority by derivation: what is in every such set was declared by a root, or
\* handed on by an issuer that had derived it before.
Rooted ==
  {x \in Issuer \X Tools : \A h \in SUBSET (Issuer \X Tools) : Derivable(h) => x \in h}

Acyclic ==
  \E rank \in [Issuer -> 0..Cardinality(Issuer)] :
    \A d \in Delegations : rank[d.parent] < rank[d.issuer]

\* lib.rs delegates!: in a crate that builds, whose delegations form no cycle, all
\* authority, through any number of delegations, is authority some grants! root
\* declared and every issuer in between held.
AuthorityComesFromARoot == Built /\ Acyclic => Held \subseteq Rooted

\* lib.rs cap_problem: the verified checker's verdict on a demand and the trait
\* bound of the build agree for every issuer and tool, whether the envelope asks or
\* not, so the certificate test of a crate that builds is green, when no two tools'
\* names have one hash (HashesDistinct).
CertificateAgreesWithBuild ==
  /\ FALSE \notin verdicts
  /\ Built => \A issuer \in {i \in Issuer : HasLineage(i)}, tool \in Tools :
       CertificateHolds(GrantList(issuer), issuer, Name(tool)) <=> HasGrant(issuer, tool)

\* The keys that can admit: the first of some principal, under ed25519.
AdmittingKeys ==
  {Keyring[i].public_key : i \in {k \in DOMAIN Keyring :
     /\ Keyring[k].alg = ALG_ED25519
     /\ \A j \in 1..(k - 1) : Keyring[j].principal # Keyring[k].principal}}

\* runtime.rs: a tool is only ever invoked on a credential for that very tool by
\* a key the keyring lists first for its principal; a governed one, besides, only
\* when its envelope's issuer declared the grant.
CallsAreLicensed ==
  \A call \in invoked :
    /\ \E c \in credentials : c.tool = call[2] /\ c.row.public_key \in AdmittingKeys
    /\ call[1] = "governed" =>
         \E cap \in Axis(envelope, "cap") : cap[2] = call[2] /\ HasGrant(cap[3], cap[2])

\* NOT a property of the code: the documentation of delegates! says that
\* misdelegation can only narrow, by construction.  Trait implementations hold in
\* the whole crate, so the implementation a delegation emits satisfies the gate of
\* the delegation it came from: an issuer that delegates to itself, or two to each
\* other, hold what no root granted.
MisdelegationOnlyNarrows == Built => Held \subseteq Rooted

-----------------------------------------------------------------------------
(* The invariants behind the safety properties. *)

\* What the checks compare are 32-bit hashes: they tell the tools of the crate
\* apart when no two of their stable names collide.
HashesDistinct == \A s, t \in Tools : CapAtom(Name(s)) = CapAtom(Name(t)) => s = t

\* What the other invariants rest on: what is built compiled, only that runs, and a
\* credential is what its issuer signed.
CrateInv ==
  /\ phase \in {"source", "rejected", "built"}
  /\ decls \subseteq [parent : Issuer \cup {None}, issuer : Issuer, tools : ToolLists]
  /\ caps \in Nat
  /\ Built => Compiles(envelope)
  /\ ~Built => envelope = << >>
  /\ ~Built => caps = 0 /\ invoked = {}
  /\ \A c \in credentials :
       /\ c.tool \in Tools
       /\ c.sig = <<"Signature", ALG_ED25519,
                    SignatureOver(c.row.public_key, CredentialMessage(Name(c.tool)))>>

\* A credential for this tool by a key that can admit.
Licensed(tool) == \E c \in credentials : c.tool = tool /\ c.row.public_key \in AdmittingKeys

\* A witness not yet used was minted on a credential for the governed tool.
CapInv == caps > 0 => \E cap \in Axis(envelope, "cap") : Licensed(cap[2])
=============================================================================
