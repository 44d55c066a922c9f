------------------------------ MODULE Verifier ------------------------------
(***************************************************************************)
(* The relying party: crates/dlc-verifier src/check.rs and the COSE        *)
(* envelope of crates/dlc-protocol (src/envelope.rs).                      *)
(***************************************************************************)
EXTENDS Typing, Wire, SignedTerm

\* all_sigs_verify: SigsRule says what it answers for a term, given what it answers
\* for the subterms.
CONSTANT AllSigsVerify(_, _)

\* A mistake the checks must notice: the proof under an obligation not walked.
WalkedNotBoxed(t) == IF Is(t, "Boxed") THEN {4} ELSE Subterms(t)

\* The fields all_sigs_verify descends into, arm by arm.
Walked(t) ==
  CASE t[1] \in {"Var", "Now"} -> {}
    [] t[1] \in {"Fst", "Snd", "SfExtract", "Attenuate"} -> {2}
    [] t[1] \in {"Lam", "Sign", "Verify", "LiftLabel", "WithinIntro", "Inl", "Inr"} -> {3}
    [] t[1] \in {"App", "Delegate", "Discharge", "Pair", "TensorIntro", "LetTensor",
                 "Command", "RunCmd"} -> {2, 3}
    [] t[1] \in {"Boxed", "Declassify", "SaysBind", "LetSays"} -> {3, 4}
    [] Is(t, "Case") -> {2, 3, 4}

\* A Sign node is checked against the canonical bytes of the subterm decoded;
\* the signature a Verify node carries is not looked at.
SigsRule(t, keyring) ==
  /\ Is(t, "Sign") => VerifyInKeyring(keyring, t[2], CanonicalBytes(t[3]), t[4])
  /\ \A i \in Walked(t) : AllSigsVerify(t[i], keyring)

\* verify_with_assumptions.
Verified(w, claimed, keyring, assumptions) ==
  LET term == Decode(w)
  IN  /\ term[1] = "ok"
      /\ Infer(Ctx(assumptions, << >>), term[2]) = claimed
      /\ AllSigsVerify(term[2], keyring)

-----------------------------------------------------------------------------
(* The envelope. *)

\* wrap_sign1: the presenter, holding key, signs the token.
WrapSign1(token, pid, key) ==
  [kid |-> pid, payload |-> token, sig |-> SignatureOver(key, token)]

\* unwrap_sign1: the token, or Error.
UnwrapSign1(cose, keyring) ==
  IF \E i \in FirstRow(keyring, cose.kid) :
       /\ keyring[i].alg = ALG_ED25519
       /\ Ed25519Verify(keyring[i].public_key, cose.payload, cose.sig)
  THEN Ok(cose.payload)
  ELSE Error
=============================================================================
