------------------------------- MODULE Syntax -------------------------------
(***************************************************************************)
(* The abstract syntax of the calculus, crates/dlc-core: propositions and  *)
(* proof terms (src/syntax.rs), principals (src/principal.rs), labels      *)
(* (src/ifc.rs), obligations (src/obligation.rs) and time bounds           *)
(* (src/time.rs).                                                          *)
(*                                                                         *)
(* A value of a Rust enum is the tuple <<variant, field, ..., field>>.     *)
(* Variables are de-Bruijn indices, as in the code.  A time bound, an      *)
(* action id and the bytes of a key or signature are plain values.         *)
(***************************************************************************)
EXTENDS Integers, Sequences, FiniteSets

\* The variants of each enum and the kinds of their fields, in order.
PrincipalFields ==
  [Atom |-> <<"pid">>, And |-> <<"principal", "principal">>,
   Or |-> <<"principal", "principal">>, Acting |-> <<"principal", "principal">>]

DpBudgetFields == [DpBudget |-> <<"u64", "u64">>]

ObligationFields ==
  [Top |-> << >>, Bot |-> << >>, ActOf |-> <<"principal", "bytes">>, Within |-> <<"time">>,
   Tensor |-> <<"obligation", "obligation">>, Lolli |-> <<"obligation", "obligation">>,
   DpBudget |-> <<"budget">>]

PropFields ==
  [Top |-> << >>, Bot |-> << >>, Atom |-> <<"u32">>,
   Imp |-> <<"prop", "prop">>, And |-> <<"prop", "prop">>, Or |-> <<"prop", "prop">>,
   Says |-> <<"principal", "prop">>, SpeaksFor |-> <<"principal", "principal">>,
   At |-> <<"prop", "label">>, Boxed |-> <<"obligation", "prop">>,
   Within |-> <<"time", "prop">>, Tensor |-> <<"prop", "prop">>,
   Lolli |-> <<"prop", "prop">>, Replicated |-> <<"prop", "label">>]

SignatureFields == [Signature |-> <<"u8", "bytes">>]

TermFields ==
  [Var |-> <<"u32">>, Lam |-> <<"prop", "term">>, App |-> <<"term", "term">>,
   Sign |-> <<"principal", "term", "signature">>,
   Verify |-> <<"principal", "term", "signature">>,
   Delegate |-> <<"term", "term">>, Attenuate |-> <<"term", "prop">>,
   SaysBind |-> <<"principal", "term", "term">>,
   Boxed |-> <<"obligation", "term", "term">>, Discharge |-> <<"term", "term">>,
   LiftLabel |-> <<"label", "term">>, Declassify |-> <<"label", "term", "term">>,
   Now |-> <<"time">>, WithinIntro |-> <<"time", "term">>,
   Pair |-> <<"term", "term">>, Fst |-> <<"term">>, Snd |-> <<"term">>,
   Inl |-> <<"prop", "term">>, Inr |-> <<"prop", "term">>,
   Case |-> <<"term", "term", "term">>,
   TensorIntro |-> <<"term", "term">>, LetTensor |-> <<"term", "term">>,
   LetSays |-> <<"principal", "term", "term">>, SfExtract |-> <<"term">>,
   Command |-> <<"term", "term", "label">>, RunCmd |-> <<"term", "term">>]

Is(v, variant) == v[1] = variant

\* Positions of the subterms of t.
Subterms(t) == {i \in 2..Len(t) : TermFields[t[1]][i - 1] = "term"}
=============================================================================
