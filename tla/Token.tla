------------------------------- MODULE Token -------------------------------
(***************************************************************************)
(* Proof terms as tokens: what the wire format, the relying party and the  *)
(* reduction of a term together guarantee.                                 *)
(***************************************************************************)
EXTENDS Reduction, Verifier

CONSTANTS Keyrings,   \* the keyrings relying parties may hold
          Anchors,    \* the contexts of hypotheses they grant
          Presenters  \* principal ids and the keys their owners sign envelopes with

\* Every signature a term carries, at any depth, with what it is attached to.
CONSTANT SignNodes(_)

SignNodesRule(t) ==
  (IF Is(t, "Sign") THEN {t} ELSE {}) \cup UNION {SignNodes(t[i]) : i \in Subterms(t)}

\* On the terms considered, a relying party's walk and the list of what there is to
\* check follow their rules.
ASSUME SignaturesAssumption ==
  \A t \in Universe("term") :
    /\ SignNodes(t) = SignNodesRule(t)
    /\ \A k \in Keyrings : AllSigsVerify(t, k) = SigsRule(t, k)

\* A keyring's rows; a context granted has no linear hypothesis.
ASSUME RelyingPartyAssumption ==
  /\ \A k \in Keyrings :
       k \in Seq([principal : {k[i].principal : i \in DOMAIN k}, alg : 0..(W8 - 1),
                 public_key : {k[i].public_key : i \in DOMAIN k}])
  /\ \A c \in Anchors : c = Ctx(c.additive, << >>)

\* The key a keyring gives a principal id: the one listed first.
KeyOf(keyring, pid) ==
  LET rows == {i \in DOMAIN keyring : keyring[i].principal = pid}
  IN  IF rows = {} THEN {} ELSE {keyring[CHOOSE i \in rows : \A j \in rows : i <= j]}

\* The node is signed by its principal, over the proof it affirms.
SignedByItsPrincipal(t, keyring) ==
  /\ Is(t[2], "Atom")
  /\ \E row \in KeyOf(keyring, t[2][2]) :
       row.alg = 0 /\ t[4] = <<"Signature", 0, SignatureOver(row.public_key, Encode(t[3]))>>

\* A relying party opens the envelope and verifies the token it finds there.
AcceptedFrom(cose, claimed, keyring, assumptions) ==
  LET opened == UnwrapSign1(cose, keyring)
  IN  opened[1] = "ok" /\ Verified(opened[2], claimed, keyring, assumptions)

-----------------------------------------------------------------------------
(* Properties. *)

\* decode undoes encode: the two hand-written tables of tags agree on every
\* constructor and every field survives its widening and narrowing, in terms,
\* in the propositions inferred for them and in keyrings.
DecodeInvertsEncode ==
  /\ Decode(Encode(cur)) = Ok(cur)
  /\ LET phi == Infer(ctx, cur)
     IN  phi # NoProp => DecodeProp(EncodeProp(phi)) = Ok(phi)
  /\ \A k \in Keyrings : DecodeKeyring(EncodeKeyring(k)) = Ok(k)

\* check.rs: a token is accepted exactly when it has the claimed type and every
\* Sign node in it, however deep and under whatever constructor, is signed over
\* its proof by the key listed first for its principal.  An envelope (envelope.rs)
\* asks for the presenter's signature on top of that, and never stands in for one
\* inside.
AcceptedIffTypedAndSigned ==
  ctx \in Anchors =>
    \A k \in Keyrings :
      LET signed == \A t \in SignNodes(cur) : SignedByItsPrincipal(t, k)
          token == Encode(cur)
          type == Infer(ctx, cur)
      IN  /\ \A claimed \in {type, <<"Bot">>} :
               Verified(token, claimed, k, ctx.additive) <=> claimed = type /\ signed
          /\ \A who \in Presenters :
               AcceptedFrom(WrapSign1(token, who[1], who[2]), type, k, ctx.additive) <=>
                 signed /\ \E row \in KeyOf(k, who[1]) : row.alg = 0 /\ row.public_key = who[2]

\* Reduction does not invalidate a token: when every signed proof is closed and
\* no delegation is reduced, the reducts of a term whose signatures verify have
\* signatures that verify, because neither shifting nor substitution reaches the
\* bytes that were signed.
ReductionKeepsSignatures ==
  \A k \in Keyrings :
    /\ AllSigsVerify(origin, k)
    /\ \A t \in SignNodes(origin) : Free(t[3]) = {}
    /\ "Delegate" \notin Constructors(origin)
    => AllSigsVerify(cur, k)
=============================================================================
