----------------------------- MODULE MCGoverned -----------------------------
(***************************************************************************)
(* A crate with three issuers, a tool named by its ident and one with a    *)
(* pinned name, and a host keyring that lists one issuer twice and another *)
(* under an algorithm nothing verifies.                                    *)
(***************************************************************************)
EXTENDS Governed, Typing, TLC

Send == [ident |-> "SendEmail", pinned |-> None]
Write == [ident |-> "Write", pinned |-> "file-write"]
MCTools == {Send, Write}
MCToolLists == {<<Send>>, <<Write>>, <<Write, Send>>, <<Send, Send>>}

MCEdge == {<<"Public", "Secret">>}

MCFnv ==
  "Admin" :> 1 @@ "Ops" :> 2 @@ "Intern" :> 3 @@ "SendEmail" :> 4 @@ "file-write" :> 5

Row(pid, alg, key) == [principal |-> pid, alg |-> alg, public_key |-> key]
MCKeyring == <<Row("ops", 0, "k1"), Row("ops", 0, "k2"), Row("admin", 1, "k3")>>

\* Every axis, alone, together, doubled, and unsatisfied.
MCEnvelopes ==
  LET Cap(t, i) == <<"cap", t, i>>
      Delegate == <<"delegate">>
  IN  {<< >>, <<Delegate>>, <<Cap(Send, "Ops"), Cap(Write, "Ops")>>,
       <<Cap(Send, "Intern"), <<"flow", "Public", "Secret">>, <<"budget", 1>>, Delegate>>,
       <<Cap(Send, "Ops"), <<"flow", "Secret", "Public">>>>,
       <<Cap(Write, "Intern")>>, <<Cap(Write, "Ops"), <<"flow", "Secret", "Secret">>>>}

\* infer is what its rule says, given itself.  (The LET stops TLC's coverage from
\* unfolding it.)
MCInfer(c, t) == LET result == InferRule(c, t) IN result
=============================================================================
