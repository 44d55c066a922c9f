----------------------------- MODULE SignedTerm -----------------------------
(***************************************************************************)
(* The keyring check of crates/dlc-crypto: src/signed_term.rs over the     *)
(* signatures of src/ed25519.rs.                                           *)
(*                                                                         *)
(* A signature is the record of the key that made it and of the bytes it   *)
(* covers.  A keyring is the sequence of its rows.                         *)
(***************************************************************************)
EXTENDS Syntax

ALG_ED25519 == 0

\* ed25519::sign and ed25519::verify.
SignatureOver(key, msg) == <<"over", key, msg>>
Ed25519Verify(key, msg, bytes) == bytes = SignatureOver(key, msg)

\* A mistake the checks must notice: any row of the principal will do.
AnyRow(keyring, pid) == {i \in DOMAIN keyring : keyring[i].principal = pid}

\* The row `find` returns: the first of the principal, if there is one.
FirstRow(keyring, pid) ==
  {i \in DOMAIN keyring : /\ keyring[i].principal = pid
                          /\ \A j \in 1..(i - 1) : keyring[j].principal # pid}

\* Only atomic principals hold keys, and both sides name the same algorithm.
VerifyInKeyring(keyring, p, msg, sig) ==
  /\ Is(p, "Atom")
  /\ \E i \in FirstRow(keyring, p[2]) :
       /\ sig[2] = ALG_ED25519 /\ keyring[i].alg = ALG_ED25519
       /\ Ed25519Verify(keyring[i].public_key, msg, sig[3])
=============================================================================
