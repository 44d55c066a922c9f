--------------------------- MODULE GovernedProofs ---------------------------
(***************************************************************************)
(* Theorems about Governed for every set of issuers, tools, declarations,  *)
(* envelopes, labels and keyring: where authority comes from, when the     *)
(* emitted certificate agrees with the build, and what an invocation rests *)
(* on.  The run governed checks the same formulas on one crate.            *)
(***************************************************************************)
EXTENDS Governed, NaturalsInduction, WellFoundedInduction, TLAPS

-----------------------------------------------------------------------------
(* Declarations. *)

\* Every set of ranks with a member has a least one.
LEMMA LeastRank ==
  ASSUME NEW T \in SUBSET Nat, T # {}
  PROVE  \E x \in T : \A y \in T : x <= y
<1>1. PICK R : R = {p \in Nat \X Nat : p[1] < p[2]}
  OBVIOUS
<1>2. IsWellFoundedOn(R, Nat)
  <2>1. OpToRel(<, Nat) = R
    BY <1>1 DEF OpToRel
  <2> QED BY <2>1, NatLessThanWellFounded
<1>3. \E x \in T : \A y \in T : ~(<<y, x>> \in R)
  <2> HIDE DEF IsWellFoundedOn
  <2> QED BY <1>2, WFMin
<1>4. PICK x \in T : \A y \in T : ~(<<y, x>> \in R)
  BY <1>3
<1>5. \A y \in T : ~(y < x)
  BY <1>1, <1>4
<1> QED BY <1>5

\* A declaration names tools of the crate, and its parent, if it has one, is an
\* issuer.
LEMMA DeclFields ==
  ASSUME CrateInv, NEW d \in decls
  PROVE  /\ d.issuer \in Issuer /\ d.parent \in Issuer \cup {None}
         /\ d.tools \in Seq(Tools) /\ Names(d.tools) \subseteq Tools
         /\ d \in Delegations <=> d.parent # None
<1>1. d \in [parent : Issuer \cup {None}, issuer : Issuer, tools : ToolLists]
  BY DEF CrateInv
<1>2. d.tools \in Seq(Tools)
  BY <1>1, GovernedAssumption
<1>3. Names(d.tools) \subseteq Tools
  BY <1>2 DEF Names
<1> QED BY <1>1, <1>2, <1>3 DEF Delegations, Roots

\* What is held is what some declaration of the issuer lists.
LEMMA HeldIsGranted ==
  ASSUME CrateInv
  PROVE  /\ Held \subseteq Issuer \X Tools
         /\ \A issuer, tool : <<issuer, tool>> \in Held <=> HasGrant(issuer, tool)
<1>1. ASSUME NEW x \in Held
      PROVE  x \in Issuer \X Tools
  <2>1. PICK d \in decls : x \in {d.issuer} \X Names(d.tools)
    BY DEF Held
  <2> QED BY <2>1, DeclFields
<1>2. ASSUME NEW issuer, NEW tool
      PROVE  <<issuer, tool>> \in Held <=> HasGrant(issuer, tool)
  BY DEF Held, HasGrant, Names
<1> QED BY <1>1, <1>2

\* A crate that builds hands on only what its parents hold (the assert_granted
\* consts of delegates!).
LEMMA DelegationsNarrow ==
  ASSUME CrateInv, Built, NEW d \in Delegations, NEW t \in Names(d.tools)
  PROVE  <<d.parent, t>> \in Held
<1>1. PICK i \in DOMAIN d.tools : t = d.tools[i]
  BY DEF Names
<1>2. HasGrant(d.parent, d.tools[i])
  BY DEF CrateInv, Compiles, NotWidening
<1> QED BY <1>1, <1>2, HeldIsGranted

-----------------------------------------------------------------------------
(* Every step of the crate. *)

\* CrateInv at the start.
LEMMA InitCrateInv == Init => CrateInv
BY DEF Init, CrateInv, Built

\* What rustc makes of an envelope is a matter of the declarations alone.
LEMMA CompilesIsRigid ==
  ASSUME decls' = decls, NEW axes, envelope' = axes, Compiles(axes)
  PROVE  Compiles(envelope)'
<1>1. (NoDuplicateImpl)'
  BY DEF Compiles, NoDuplicateImpl
<1>2. \A issuer, tool : HasGrant(issuer, tool)' <=> HasGrant(issuer, tool)
  BY DEF HasGrant
<1>3. \A issuer : HasLineage(issuer)' <=> HasLineage(issuer)
  BY DEF HasLineage
<1>4. (\A d \in Delegations : NotWidening(d))'
  <2>1. Delegations' = Delegations
    BY DEF Delegations, Roots
  <2>2. \A d \in Delegations : NotWidening(d)
    BY DEF Compiles
  <2> QED BY <1>2, <2>1, <2>2 DEF NotWidening
<1>5. Parses(envelope')
  BY DEF Compiles
<1>6. (Lowers(envelope))'
  BY <1>2, <1>3 DEF Compiles, Lowers
<1> QED BY <1>1, <1>4, <1>5, <1>6 DEF Compiles

\* CrateInv is kept by every action.
LEMMA CrateInductive ==
  ASSUME CrateInv, [Next]_vars
  PROVE  CrateInv'
<1> USE DEF CrateInv
<1>1. ASSUME NEW parents, parents \subseteq Issuer \cup {None}, Declare(parents)
      PROVE  CrateInv'
  <2>1. PICK parent \in parents, issuer \in Issuer, tools \in ToolLists :
           decls' = decls \cup {[parent |-> parent, issuer |-> issuer, tools |-> tools]}
    BY <1>1 DEF Declare
  <2>2. decls' \subseteq [parent : Issuer \cup {None}, issuer : Issuer, tools : ToolLists]
    BY <1>1, <2>1
  <2>3. /\ phase = "source" /\ phase' = phase /\ envelope' = envelope
        /\ credentials' = credentials /\ caps' = caps /\ invoked' = invoked
    BY <1>1 DEF Declare
  <2> QED BY <2>2, <2>3 DEF Built
<1>2. CASE Build
  <2>1. /\ phase = "source" /\ decls' = decls /\ credentials' = credentials
        /\ caps' = caps /\ invoked' = invoked
    BY <1>2 DEF Build
  <2>2. PICK axes \in Envelopes : /\ phase' = IF Compiles(axes) THEN "built" ELSE "rejected"
                                  /\ envelope' = IF Compiles(axes) THEN axes ELSE << >>
    BY <1>2 DEF Build
  <2>3. CASE Compiles(axes)
    <3>1. phase' = "built" /\ envelope' = axes
      BY <2>2, <2>3
    <3>2. Compiles(envelope)'
      BY <2>1, <2>3, <3>1, CompilesIsRigid
    <3> QED BY <2>1, <3>1, <3>2 DEF Built
  <2>4. CASE ~Compiles(axes)
    BY <2>1, <2>2, <2>4 DEF Built
  <2> QED BY <2>3, <2>4
<1>3. ASSUME UNCHANGED <<phase, decls, envelope>>
      PROVE  (Built => Compiles(envelope))' /\ (~Built => envelope = << >>)'
  <2>1. Built' <=> Built
    BY <1>3 DEF Built
  <2>2. CASE Built
    BY <1>3, <2>1, <2>2, CompilesIsRigid
  <2>3. CASE ~Built
    BY <1>3, <2>1, <2>3
  <2> QED BY <2>2, <2>3
<1>4. CASE Test
  <2>1. /\ phase' = phase /\ decls' = decls /\ envelope' = envelope
        /\ credentials' = credentials /\ caps' = caps /\ invoked' = invoked
    BY <1>4 DEF Test
  <2> QED BY <1>3, <2>1 DEF Built
<1>5. ASSUME NEW row \in KeyRows, NEW tool \in Tools, Issue(row, tool)
      PROVE  CrateInv'
  <2>1. /\ phase' = phase /\ decls' = decls /\ envelope' = envelope
        /\ caps' = caps /\ invoked' = invoked
    BY <1>5 DEF Issue, crate
  <2> DEFINE sig == <<"Signature", ALG_ED25519,
                     SignatureOver(row.public_key, CredentialMessage(Name(tool)))>>
  <2>2. PICK new : new = [row |-> row, tool |-> tool, sig |-> sig]
    OBVIOUS
  <2>3. credentials' = credentials \cup {new}
    BY <1>5, <2>2 DEF Issue
  <2>4. new.row = row /\ new.tool = tool /\ new.sig = sig
    BY <2>2
  <2>5. \A c \in credentials' :
          /\ c.tool \in Tools
          /\ c.sig = <<"Signature", ALG_ED25519,
                       SignatureOver(c.row.public_key, CredentialMessage(Name(c.tool)))>>
    BY <2>3, <2>4
  <2> QED BY <1>3, <2>1, <2>5 DEF Built
<1>6. ASSUME NEW issuer, NEW c \in credentials, AdmitCap(issuer, c.sig)
      PROVE  CrateInv'
  <2>1. /\ phase' = phase /\ decls' = decls /\ envelope' = envelope /\ caps' = caps + 1
        /\ credentials' = credentials /\ invoked' = invoked
        /\ \E cap \in Axis(envelope, "cap") : TRUE
    BY <1>6 DEF AdmitCap, crate
  <2>2. Built
    BY <2>1 DEF Axis
  <2> QED BY <1>3, <2>1, <2>2 DEF Built
<1>7. CASE CallGoverned
  <2>1. /\ phase' = phase /\ decls' = decls /\ envelope' = envelope /\ caps > 0
        /\ caps' = caps - 1 /\ credentials' = credentials
    BY <1>7 DEF CallGoverned, crate
  <2>2. Built /\ caps - 1 \in Nat
    BY <2>1
  <2> QED BY <1>3, <2>1, <2>2 DEF Built
<1>8. ASSUME NEW issuer, NEW tool \in Tools, NEW c \in credentials,
             HostInvokes(issuer, tool, c.sig)
      PROVE  CrateInv'
  <2>1. /\ phase' = phase /\ decls' = decls /\ envelope' = envelope /\ caps' = caps
        /\ credentials' = credentials /\ Built
    BY <1>8 DEF HostInvokes, crate, Built
  <2> QED BY <1>3, <2>1 DEF Built
<1>9. CASE UNCHANGED vars
  <2>1. /\ phase' = phase /\ decls' = decls /\ envelope' = envelope /\ caps' = caps
        /\ credentials' = credentials /\ invoked' = invoked
    BY <1>9 DEF vars, crate
  <2> QED BY <1>3, <2>1 DEF Built
<1> HIDE DEF CrateInv
<1>10. CASE Grants
  BY <1>1, <1>10 DEF Grants
<1>11. CASE Delegates
  BY <1>1, <1>11 DEF Delegates
<1> QED BY <1>2, <1>4, <1>5, <1>6, <1>7, <1>8, <1>9, <1>10, <1>11 DEF Next

-----------------------------------------------------------------------------
(* Where authority comes from. *)

\* Holdings that take in a root's grants and follow the delegations take in all that
\* is held: a holding outside them, of the issuer of the least rank that has one, was
\* not declared by a root, and its parent's would be of a lesser rank.
LEMMA HeldIsDerived ==
  ASSUME CrateInv, Built, Acyclic, NEW h, Derivable(h)
  PROVE  Held \subseteq h
<1>1. PICK rank \in [Issuer -> 0..Cardinality(Issuer)] :
        \A d \in Delegations : rank[d.parent] < rank[d.issuer]
  BY DEF Acyclic
<1>2. \A i \in Issuer : rank[i] \in Nat
  OBVIOUS
<1>3. SUFFICES ASSUME NEW y \in Held, y \notin h
               PROVE  FALSE
  OBVIOUS
<1> DEFINE Outside == {x \in Held : x \notin h}
           Ranks == {rank[x[1]] : x \in Outside}
<1>4. \A x \in Outside : x[1] \in Issuer
  BY HeldIsGranted
<1>5. Ranks \in SUBSET Nat /\ Ranks # {}
  BY <1>2, <1>3, <1>4
<1>6. PICK least \in Ranks : \A r \in Ranks : least <= r
  <2> HIDE DEF Ranks
  <2> QED BY <1>5, LeastRank
<1>7. PICK x \in Outside : least = rank[x[1]]
  BY <1>6
<1>8. PICK d \in decls : \E t \in Names(d.tools) : x = <<d.issuer, t>>
  <2>1. x \in Held
    BY <1>7
  <2> QED BY <2>1 DEF Held
<1>9. PICK t \in Names(d.tools) : x = <<d.issuer, t>>
  BY <1>8
<1>10. x \notin h
  BY <1>7
<1>11. d.parent # None /\ <<d.parent, t>> \notin h
  BY <1>9, <1>10 DEF Derivable
<1>12. d \in Delegations /\ d.parent \in Issuer /\ d.issuer \in Issuer
  BY <1>11, DeclFields
<1>13. <<d.parent, t>> \in Outside
  BY <1>11, <1>12, DelegationsNarrow
<1>14. rank[d.parent] \in Ranks
  BY <1>13
<1>15. rank[d.parent] < rank[d.issuer] /\ least = rank[d.issuer]
  BY <1>1, <1>7, <1>9, <1>12
<1> QED
  <2> HIDE DEF Ranks
  <2> QED BY <1>2, <1>6, <1>12, <1>14, <1>15

\* The invariant the theorems below rest on.
LEMMA CrateCorrect == Spec => []CrateInv
<1>1. CrateInv /\ [Next]_vars => CrateInv'
  BY CrateInductive
<1> QED BY <1>1, InitCrateInv, PTL DEF Spec

\* lib.rs grants! and delegates!: whatever the crate declares, if it builds and its
\* delegations form no cycle, every grant in it goes back to a root that declared it,
\* through issuers that each held it before they handed it on.
THEOREM AuthorityIsRooted == Spec => []AuthorityComesFromARoot
<1>1. CrateInv => AuthorityComesFromARoot
  <2>1. SUFFICES ASSUME CrateInv, Built, Acyclic
                 PROVE  Held \subseteq Rooted
    BY DEF AuthorityComesFromARoot
  <2>2. ASSUME NEW h \in SUBSET (Issuer \X Tools), Derivable(h)
        PROVE  Held \subseteq h
    BY <2>1, <2>2, HeldIsDerived
  <2>3. Held \subseteq Issuer \X Tools
    BY <2>1, HeldIsGranted
  <2> QED BY <2>2, <2>3 DEF Rooted
<1> QED BY <1>1, CrateCorrect, PTL

-----------------------------------------------------------------------------
(* What an invocation rests on. *)

\* The tool of an envelope's cap axis is a tool of the crate, and its issuer one that
\* declared it.
LEMMA CapAxisIsGranted ==
  ASSUME CrateInv, Built, NEW cap \in Axis(envelope, "cap")
  PROVE  HasGrant(cap[3], cap[2]) /\ cap[2] \in Tools /\ cap[3] \in Issuer
<1>1. HasGrant(cap[3], cap[2])
  BY DEF CrateInv, Compiles, Lowers
<1>2. <<cap[3], cap[2]>> \in Held
  BY <1>1, HeldIsGranted
<1> QED BY <1>1, <1>2, HeldIsGranted

\* Envelope::parse leaves at most one cap axis.
LEMMA CapAxisIsUnique ==
  ASSUME CrateInv, Built, NEW c \in Axis(envelope, "cap"), NEW d \in Axis(envelope, "cap")
  PROVE  c = d
<1>1. \A i, j \in DOMAIN envelope : envelope[i][1] = envelope[j][1] => i = j
  BY DEF CrateInv, Compiles, Parses
<1>2. PICK i \in DOMAIN envelope : envelope[i][1] = "cap" /\ c = envelope[i]
  BY DEF Axis
<1>3. PICK j \in DOMAIN envelope : envelope[j][1] = "cap" /\ d = envelope[j]
  BY DEF Axis
<1> QED BY <1>1, <1>2, <1>3

\* runtime::admit: a signature that is admitted for a tool was made for that tool, by
\* a key that can admit.
LEMMA AdmittedIsIssued ==
  ASSUME HashesDistinct, CrateInv, NEW issuer, NEW tool \in Tools, NEW c \in credentials,
         Admits(issuer, Name(tool), c.sig)
  PROVE  Licensed(tool)
<1>1. c.tool \in Tools
      /\ c.sig = <<"Signature", ALG_ED25519,
                   SignatureOver(c.row.public_key, CredentialMessage(Name(c.tool)))>>
  BY DEF CrateInv
<1>2. PICK i \in FirstRow(Keyring, issuer[2]) :
         /\ Keyring[i].alg = ALG_ED25519
         /\ c.sig[3] = SignatureOver(Keyring[i].public_key, CredentialMessage(Name(tool)))
  BY DEF Admits, VerifyInKeyring, Ed25519Verify
<1>3. SignatureOver(c.row.public_key, CredentialMessage(Name(c.tool)))
      = SignatureOver(Keyring[i].public_key, CredentialMessage(Name(tool)))
  BY <1>1, <1>2
<1>4. c.row.public_key = Keyring[i].public_key
      /\ CredentialMessage(Name(c.tool)) = CredentialMessage(Name(tool))
  BY <1>3 DEF SignatureOver
<1>5. c.tool = tool
  <2>1. CapAtom(Name(c.tool)) = CapAtom(Name(tool))
    BY <1>4 DEF CredentialMessage, CapMessage
  <2> QED BY <1>1, <2>1 DEF HashesDistinct
<1>6. Keyring[i].public_key \in AdmittingKeys
  BY <1>2 DEF FirstRow, AdmittingKeys
<1> QED BY <1>4, <1>5, <1>6 DEF Licensed

\* A credential is never withdrawn, and a crate that was built is not edited.
LEMMA StepFrame ==
  ASSUME CrateInv, [Next]_vars
  PROVE  /\ credentials \subseteq credentials'
         /\ Built => UNCHANGED <<phase, decls, envelope>>
<1>1. CASE Grants \/ Delegates \/ Build \/ Test
  BY <1>1 DEF Grants, Delegates, Declare, Build, Test, Built
<1>2. CASE CallGoverned
  BY <1>2 DEF CallGoverned, crate
<1>3. CASE \E row \in KeyRows, tool \in Tools : Issue(row, tool)
  BY <1>3 DEF Issue, crate
<1>4. CASE \E row \in KeyRows, c \in credentials :
             \/ AdmitCap(<<"Atom", row.principal>>, c.sig)
             \/ \E tool \in Tools : HostInvokes(<<"Atom", row.principal>>, tool, c.sig)
  BY <1>4 DEF AdmitCap, HostInvokes, crate
<1>5. CASE UNCHANGED vars
  BY <1>5 DEF vars, crate
<1> QED BY <1>1, <1>2, <1>3, <1>4, <1>5 DEF Next

\* What an invocation rests on outlasts the step.
LEMMA LicensesLast ==
  ASSUME CrateInv, [Next]_vars, Built
  PROVE  /\ \A tool : Licensed(tool) => Licensed(tool)'
         /\ \A issuer, tool : HasGrant(issuer, tool) => HasGrant(issuer, tool)'
         /\ envelope' = envelope
<1>1. credentials \subseteq credentials' /\ decls' = decls /\ envelope' = envelope
  BY StepFrame
<1> QED BY <1>1 DEF Licensed, HasGrant

\* CapInv and CallsAreLicensed are kept by every action.
LEMMA LicenceInductive ==
  ASSUME HashesDistinct, CrateInv, CapInv, CallsAreLicensed, [Next]_vars
  PROVE  CapInv' /\ CallsAreLicensed'
<1>1. CASE ~Built
  <2>1. caps = 0 /\ invoked = {} /\ Axis(envelope, "cap") = {}
    BY <1>1 DEF CrateInv, Axis
  <2>2. caps' = 0 /\ invoked' = {}
    <3>1. CASE Grants \/ Delegates \/ Build \/ Test
      BY <2>1, <3>1 DEF Grants, Delegates, Declare, Build, Test
    <3>2. CASE UNCHANGED vars
      BY <2>1, <3>2 DEF vars
    <3> QED BY <1>1, <2>1, <3>1, <3>2 DEF Next, CallGoverned, Issue, AdmitCap, HostInvokes, Built
  <2> QED BY <2>2 DEF CapInv, CallsAreLicensed
<1>2. CASE Built
  <2>1. Built
    BY <1>2
  <2>2. ASSUME UNCHANGED caps
        PROVE  CapInv'
    BY <1>2, <2>2, LicensesLast DEF CapInv
  <2>3. ASSUME NEW call \in invoked
        PROVE  /\ Licensed(call[2])'
               /\ call[1] = "governed" => (\E cap \in Axis(envelope, "cap") :
                                             cap[2] = call[2] /\ HasGrant(cap[3], cap[2]))'
    <3>1. Licensed(call[2])
      BY DEF CallsAreLicensed, Licensed
    <3>2. call[1] = "governed" =>
            \E cap \in Axis(envelope, "cap") : cap[2] = call[2] /\ HasGrant(cap[3], cap[2])
      BY DEF CallsAreLicensed
    <3> QED BY <1>2, <3>1, <3>2, LicensesLast
  <2>4. ASSUME \A call \in invoked' \ invoked :
                 /\ Licensed(call[2])
                 /\ call[1] = "governed" =>
                      \E cap \in Axis(envelope, "cap") :
                        cap[2] = call[2] /\ HasGrant(cap[3], cap[2])
        PROVE  CallsAreLicensed'
    <3>1. \A call \in invoked' :
            /\ Licensed(call[2])'
            /\ call[1] = "governed" => (\E cap \in Axis(envelope, "cap") :
                                          cap[2] = call[2] /\ HasGrant(cap[3], cap[2]))'
      BY <1>2, <2>3, <2>4, LicensesLast
    <3> QED BY <3>1 DEF CallsAreLicensed, Licensed
  <2>5. CASE UNCHANGED <<caps, invoked>>
    BY <2>2, <2>4, <2>5
  <2>6. ASSUME NEW issuer, NEW c \in credentials, AdmitCap(issuer, c.sig)
        PROVE  CapInv' /\ CallsAreLicensed'
    <3>1. PICK cap \in Axis(envelope, "cap") : Admits(issuer, Name(cap[2]), c.sig)
      BY <2>6 DEF AdmitCap
    <3>2. Licensed(cap[2])
      BY <2>1, <3>1, CapAxisIsGranted, AdmittedIsIssued
    <3>3. CapInv'
      BY <1>2, <3>2, LicensesLast DEF CapInv
    <3>4. CallsAreLicensed'
      BY <2>4, <2>6 DEF AdmitCap
    <3> QED BY <3>3, <3>4
  <2>7. CASE CallGoverned
    <3>1. PICK cap \in Axis(envelope, "cap") : invoked' = invoked \cup {<<"governed", cap[2]>>}
      BY <2>7 DEF CallGoverned
    <3>2. Licensed(cap[2])
      BY <2>1, <2>7, CapAxisIsUnique DEF CapInv, CallGoverned
    <3>3. HasGrant(cap[3], cap[2])
      BY <2>1, CapAxisIsGranted
    <3>4. CapInv'
      BY <1>2, <3>2, LicensesLast DEF CapInv
    <3>5. CallsAreLicensed'
      BY <2>4, <3>1, <3>2, <3>3
    <3> QED BY <3>4, <3>5
  <2>8. ASSUME NEW issuer, NEW tool \in Tools, NEW c \in credentials,
               HostInvokes(issuer, tool, c.sig)
        PROVE  CapInv' /\ CallsAreLicensed'
    <3>1. Admits(issuer, Name(tool), c.sig)
      BY <2>8 DEF HostInvokes, Decide
    <3>2. Licensed(tool)
      BY <3>1, AdmittedIsIssued
    <3>3. invoked' = invoked \cup {<<"host", tool>>} /\ caps' = caps
      BY <2>8 DEF HostInvokes
    <3> QED BY <2>2, <2>4, <3>2, <3>3
  <2>9. CASE Grants \/ Delegates \/ Build \/ Test \/ UNCHANGED vars
             \/ \E row \in KeyRows, tool \in Tools : Issue(row, tool)
    BY <2>5, <2>9 DEF Grants, Delegates, Declare, Build, Test, Issue, vars
  <2> QED BY <2>6, <2>7, <2>8, <2>9 DEF Next
<1> QED BY <1>1, <1>2

\* runtime.rs admit and admission.rs decide: when no two tools' names collide in the
\* 32-bit hash, a tool is only ever invoked on a credential made for that very tool,
\* by a key the keyring lists first for its principal, and the governed function only
\* invokes what its envelope's issuer declared.
THEOREM InvocationsAreLicensed ==
  ASSUME HashesDistinct
  PROVE  Spec => []CallsAreLicensed
<1>1. Init => CapInv /\ CallsAreLicensed
  BY DEF Init, CapInv, CallsAreLicensed
<1>2. CrateInv /\ CapInv /\ CallsAreLicensed /\ [Next]_vars => CapInv' /\ CallsAreLicensed'
  BY LicenceInductive
<1> QED BY <1>1, <1>2, CrateCorrect, PTL DEF Spec

-----------------------------------------------------------------------------
(* The certificate. *)

\* cap_problem: for an issuer whose declaration is d, the checker's verdict on a demand
\* is the trait bound's.
LEMMA CertificateIsGrant ==
  ASSUME HashesDistinct, CrateInv, Built, NEW issuer \in Issuer, HasLineage(issuer),
         NEW tool \in Tools
  PROVE  CertificateHolds(GrantList(issuer), issuer, Name(tool)) <=> HasGrant(issuer, tool)
<1>1. PICK d \in decls : d.issuer = issuer
  BY DEF HasLineage
<1>2. \A e \in decls : e.issuer = issuer => e = d
  BY <1>1 DEF CrateInv, Compiles, NoDuplicateImpl
<1>3. (CHOOSE e \in decls : e.issuer = issuer) = d
  BY <1>1, <1>2
<1>4. PICK granted : granted = GrantList(issuer)
  OBVIOUS
<1>5. granted = [i \in DOMAIN d.tools |-> Name(d.tools[i])]
  <2>1. \A e : e = (CHOOSE f \in decls : f.issuer = issuer)
               => GrantList(issuer) = [i \in DOMAIN e.tools |-> Name(e.tools[i])]
    BY DEF GrantList
  <2>2. GrantList(issuer) = [i \in DOMAIN d.tools |-> Name(d.tools[i])]
    BY <1>3, <2>1
  <2> QED BY <1>4, <2>2
<1>6. HasGrant(issuer, tool) <=> \E i \in DOMAIN d.tools : d.tools[i] = tool
  BY <1>1, <1>2 DEF HasGrant
<1>7. PICK n \in Nat : DOMAIN d.tools = 1..n /\ \A i \in 1..n : d.tools[i] \in Tools
  <2>1. d.tools \in Seq(Tools)
    BY DeclFields
  <2> QED BY <2>1
<1>8. DOMAIN granted = 1..n /\ \A i \in 1..n : granted[i] = Name(d.tools[i])
  BY <1>5, <1>7
<1>9. \A i \in 1..n : granted[i] = Name(tool) <=> d.tools[i] = tool
  BY <1>7, <1>8 DEF HashesDistinct
<1>10. ASSUME NEW t \in Tools
       PROVE  /\ Ctx(<<Claim(issuer, Name(t))>>, << >>) \in ClaimContexts
              /\ Lookup(Ctx(<<Claim(issuer, Name(t))>>, << >>), 0) = Claim(issuer, Name(t))
  <2>1. Ctx(<<Claim(issuer, Name(t))>>, << >>) \in ClaimContexts
    <3>1. PICK x \in Issuer \X Tools : x[1] = issuer /\ x[2] = t
      BY <<issuer, t>> \in Issuer \X Tools
    <3>2. Claim(issuer, Name(t)) \in {Claim(y[1], Name(y[2])) : y \in Issuer \X Tools}
      BY <3>1
    <3> QED BY <3>2 DEF ClaimContexts
  <2>2. Lookup(Ctx(<<Claim(issuer, Name(t))>>, << >>), 0) = Claim(issuer, Name(t))
    BY DEF Lookup, Ctx
  <2> QED BY <2>1, <2>2
<1>11. ASSUME NEW t \in Tools, Presented(granted, Name(tool)) = <<Name(t)>>
       PROVE  CertificateHolds(granted, issuer, Name(tool)) <=> t = tool
  <2>1. [i \in DOMAIN <<Name(t)>> |-> Claim(issuer, <<Name(t)>>[i])] = <<Claim(issuer, Name(t))>>
    OBVIOUS
  <2>2. CertificateHolds(granted, issuer, Name(tool))
          <=> Checker(Ctx(<<Claim(issuer, Name(t))>>, << >>), <<"Var", 0>>, Claim(issuer, Name(tool)))
    BY <1>11, <2>1 DEF CertificateHolds
  <2>3. CertificateHolds(granted, issuer, Name(tool))
          <=> Claim(issuer, Name(t)) = Claim(issuer, Name(tool))
    BY <1>10, <2>2, CheckerAssumption
  <2>4. Claim(issuer, Name(t)) = Claim(issuer, Name(tool)) => CapAtom(Name(t)) = CapAtom(Name(tool))
    BY DEF Claim
  <2> QED BY <2>3, <2>4 DEF HashesDistinct
<1>12. CASE \E i \in 1..n : d.tools[i] = tool
  <2>1. Presented(granted, Name(tool)) = <<Name(tool)>>
    BY <1>8, <1>9, <1>12 DEF Presented
  <2> QED BY <1>4, <1>6, <1>7, <1>11, <1>12, <2>1
<1>13. CASE n # 0 /\ \A i \in 1..n : d.tools[i] # tool
  <2>1. 1 \in 1..n
    BY <1>13
  <2>2. granted # << >> /\ Head(granted) = Name(d.tools[1])
    BY <1>5, <1>7, <1>8, <2>1
  <2>3. Presented(granted, Name(tool)) = <<Name(d.tools[1])>>
    BY <1>8, <1>9, <1>13, <2>2 DEF Presented
  <2> QED BY <1>4, <1>6, <1>7, <1>11, <1>13, <2>1, <2>3
<1>14. CASE n = 0
  <2>1. Presented(granted, Name(tool)) = << >>
    BY <1>8, <1>14 DEF Presented
  <2>2. [i \in DOMAIN << >> |-> Claim(issuer, << >>[i])] = << >>
    OBVIOUS
  <2>3. CertificateHolds(granted, issuer, Name(tool))
          <=> Checker(EmptyCtx, <<"Var", 0>>, Claim(issuer, Name(tool)))
    BY <2>1, <2>2 DEF CertificateHolds, EmptyCtx
  <2>4. EmptyCtx \in ClaimContexts
    BY DEF ClaimContexts
  <2>5. Lookup(EmptyCtx, 0) # Claim(issuer, Name(tool))
    BY DEF Lookup, EmptyCtx, Ctx, Guarded, NoProp, Claim
  <2> QED BY <1>4, <1>6, <1>7, <1>14, <2>3, <2>4, <2>5, CheckerAssumption
<1> QED BY <1>12, <1>13, <1>14

\* The certificate test passes, however often and whenever it is run.
LEMMA TestIsGreen ==
  ASSUME HashesDistinct, CrateInv, FALSE \notin verdicts, [Next]_vars
  PROVE  FALSE \notin verdicts'
<1>1. CASE Test
  <2>1. PICK cap \in Axis(envelope, "cap") :
          verdicts' = verdicts \cup {CertificateHolds(GrantList(cap[3]), cap[3], Name(cap[2]))}
    BY <1>1 DEF Test
  <2>2. Built
    BY <1>1 DEF Test, Built
  <2>3. HasGrant(cap[3], cap[2]) /\ cap[2] \in Tools /\ cap[3] \in Issuer
    BY <2>2, CapAxisIsGranted
  <2>4. HasLineage(cap[3])
    BY <2>3 DEF HasGrant, HasLineage
  <2>5. CertificateHolds(GrantList(cap[3]), cap[3], Name(cap[2]))
    BY <2>2, <2>3, <2>4, CertificateIsGrant
  <2> QED BY <2>1, <2>5
<1>2. CASE Grants \/ Delegates \/ Build
  BY <1>2 DEF Grants, Delegates, Declare, Build
<1>3. CASE CallGoverned
  BY <1>3 DEF CallGoverned, crate
<1>4. CASE \E row \in KeyRows, tool \in Tools : Issue(row, tool)
  BY <1>4 DEF Issue, crate
<1>5. CASE \E row \in KeyRows, c \in credentials :
             \/ AdmitCap(<<"Atom", row.principal>>, c.sig)
             \/ \E tool \in Tools : HostInvokes(<<"Atom", row.principal>>, tool, c.sig)
  BY <1>5 DEF AdmitCap, HostInvokes, crate
<1>6. CASE UNCHANGED vars
  BY <1>6 DEF vars, crate
<1> QED BY <1>1, <1>2, <1>3, <1>4, <1>5, <1>6 DEF Next

\* lib.rs cap_problem: when no two tools' names collide in the 32-bit hash, the
\* verified checker's verdict is the build's for every issuer and tool, so the
\* certificate test of a crate that builds passes.
THEOREM CertificateAgrees ==
  ASSUME HashesDistinct
  PROVE  Spec => []CertificateAgreesWithBuild
<1> DEFINE Green == FALSE \notin verdicts
<1>1. Init => Green
  BY DEF Init
<1>2. CrateInv /\ Green /\ [Next]_vars => Green'
  BY TestIsGreen
<1>3. CrateInv /\ Green => CertificateAgreesWithBuild
  BY CertificateIsGrant DEF CertificateAgreesWithBuild
<1> QED BY <1>1, <1>2, <1>3, CrateCorrect, PTL DEF Spec
=============================================================================
