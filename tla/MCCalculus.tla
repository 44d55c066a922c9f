----------------------------- MODULE MCCalculus -----------------------------
(***************************************************************************)
(* Bounded instances of Token.  A run starts from a well-typed             *)
(* term: a scrutinee of at most three nodes, in every position that takes  *)
(* one, over small other arguments.  The contexts give each elimination    *)
(* form a hypothesis of its kind and tell the hypotheses apart by type.    *)
(* To these come signed tokens, and terms annotated with every             *)
(* proposition, principal and obligation.                                  *)
(***************************************************************************)
EXTENDS Token

P == <<"Atom", "p">>
Q == <<"Atom", "q">>
A == <<"Atom", 1>>
B == <<"Atom", 2>>
Sig == <<"Signature", 1, <<"over", "nobody">>>>
Lbl == <<3>>

MCContexts ==
  {EmptyCtx,
   Ctx(<<A, B>>, << >>),
   Ctx(<<B, <<"Imp", B, A>>>>, << >>),
   Ctx(<<<<"Says", P, A>>, <<"And", A, B>>>>, << >>),
   Ctx(<<<<"Says", P, <<"SpeaksFor", Q, P>>>>, <<"Says", Q, A>>>>, << >>),
   Ctx(<<<<"SpeaksFor", Q, P>>, A>>, << >>),
   Ctx(<<<<"Or", A, B>>, <<"Tensor", A, B>>>>, << >>),
   Ctx(<<A, <<"Replicated", <<"Imp", A, A>>, Lbl>>>>, << >>)}

Atoms == {<<"Var", 0>>, <<"Var", 1>>, <<"Now", 9>>}

\* S \cup T and S \ T for large sets, sorting first the one that is searched.
Both(S, T) == IF Cardinality(S) = 0 THEN T ELSE S \cup T
Less(S, T) == IF Cardinality(T) = 0 THEN S ELSE S \ T

RECURSIVE All(_)
All(sets) == IF sets = << >> THEN { } ELSE Both(Head(sets), All(Tail(sets)))

\* One node over the terms of S, or over those of S and of R.
Unary(S) ==
  {<<op, a>> : op \in {"Fst", "Snd", "SfExtract"}, a \in S}
    \cup {<<"Lam", phi, a>> : phi \in {A, <<"Top">>}, a \in S}
    \cup {<<op, A, a>> : op \in {"Inl", "Inr"}, a \in S}
    \cup {<<op, P, a, Sig>> : op \in {"Sign", "Verify"}, a \in S}
    \cup {<<"Attenuate", a, B>> : a \in S}
    \cup {<<"LiftLabel", Lbl, a>> : a \in S}
    \cup {<<"WithinIntro", 9, a>> : a \in S}

Binary(S, R) ==
  {<<op, a, b>> : op \in {"App", "Delegate", "Discharge", "Pair", "TensorIntro", "LetTensor",
                          "RunCmd"}, a \in S, b \in R}
    \cup {<<op, P, a, b>> : op \in {"SaysBind", "LetSays"}, a \in S, b \in R}
    \cup {<<"Boxed", <<"Top">>, a, b>> : a \in S, b \in R}
    \cup {<<"Declassify", << >>, a, b>> : a \in S, b \in R}
    \cup {<<"Command", a, b, Lbl>> : a \in S, b \in R}

Typed(c, S) == {t \in S : Infer(c, t) # NoProp}

UpToTwo == Atoms \cup Unary(Atoms)
Simple == UpToTwo \cup {<<"TensorIntro", a, b>> : a \in Atoms, b \in Atoms}
UpToThree == UpToTwo \cup Unary(Unary(Atoms)) \cup Binary(Atoms, Atoms)

\* Binders over variables only, to be met under another binder.
Binders ==
  {<<op, P, a, b>> : op \in {"SaysBind", "LetSays"}, a \in Atoms, b \in Atoms}
    \cup {<<"Case", a, b, b2>> : a \in Atoms, b \in Atoms, b2 \in Atoms}
    \cup {<<"LetTensor", a, b>> : a \in Atoms, b \in Atoms}

\* Scrutinees typed in c: terms of up to three nodes, nested binders, commands,
\* and redexes.
Scrutinees(c) ==
  LET small == Typed(c, UpToTwo)
      e == <<"Now", 9>>
  IN  Typed(c, UpToThree)
        \cup Typed(c, {<<"Lam", <<"Top">>, b>> : b \in Binders})
        \cup Typed(c, {<<"Command", <<"Lam", A, b>>, s, Lbl>> : b \in Atoms, s \in small})
        \cup {<<"Discharge", <<"Boxed", <<"Top">>, m, e>>, e>> : m \in small}
        \cup {<<"Fst", <<"Pair", m, e>>>> : m \in small}

\* The elimination forms typed in c for its scrutinees, with all small branches.
Eliminations(c) ==
  LET all == Scrutinees(c)
      Of(connective) == {s \in all : Is(Infer(c, s), connective)}
      Forms(Form(_, _), S, R) ==
        {Form(x[1], x[2]) : x \in {y \in S \X R : Infer(c, Form(y[1], y[2])) # NoProp}}
      \* Simple scrutinees over all branches, all scrutinees over simple branches.
      Eliminating(Form(_, _), connective) ==
        Forms(Form, Of(connective), Atoms)
          \cup Forms(Form, Of(connective) \cap Simple, UpToTwo)
      Branching(op) == Eliminating(LAMBDA s, b : <<op, Infer(c, s)[2], s, b>>, "Says")
  IN  All(<<
        Eliminating(LAMBDA s, x : <<"App", s, x>>, "Imp"),
        {<<op, s>> : op \in {"Fst", "Snd"}, s \in Of("And")},
        Eliminating(LAMBDA s, b : <<"Case", s, b, <<"Now", 9>>>>, "Or"),
        Eliminating(LAMBDA s, b : <<"Case", s, b, <<"Var", 0>>>>, "Or"),
        Eliminating(LAMBDA s, b : <<"Case", s, <<"Now", 9>>, b>>, "Or"),
        Eliminating(LAMBDA s, b : <<"LetTensor", s, b>>, "Tensor"),
        Branching("SaysBind"), Branching("LetSays"),
        Eliminating(LAMBDA s, m : <<"Delegate", s, m>>, "Says"),
        Eliminating(LAMBDA s, m : <<"Delegate", m, s>>, "Says"),
        Typed(c, {<<"SfExtract", s>> : s \in Of("Says")}),
        Typed(c, {<<"Verify", P, s, Sig>> : s \in Of("Says")}),
        {<<"Attenuate", s, B>> : s \in Of("Says")},
        {<<"Discharge", s, <<"Now", 9>>>> : s \in Of("Boxed")},
        Eliminating(LAMBDA s, x : <<"RunCmd", s, x>>, "Replicated")>>)

-----------------------------------------------------------------------------
(* Annotations and tokens, with values at the edge of their widths. *)

SomePrincipals == {P} \cup {<<op, P, Q>> : op \in {"And", "Or", "Acting"}}

SomeObligations ==
  {<<"Top">>, <<"Bot">>, <<"Within", 31>>, <<"DpBudget", <<"DpBudget", 31, 0>>>>}
    \cup {<<"ActOf", p, "act">> : p \in SomePrincipals}
    \cup {<<op, <<"Top">>, <<"Bot">>>> : op \in {"Tensor", "Lolli"}}

SomeProps ==
  {<<"Bot">>, <<"Atom", 7>>, <<"At", A, <<0, 7>>>>, <<"Within", 31, B>>,
   <<"Replicated", <<"Imp", A, A>>, Lbl>>}
    \cup {<<op, A, B>> : op \in {"Imp", "And", "Or", "Tensor", "Lolli"}}
    \cup {<<"Says", p, A>> : p \in SomePrincipals}
    \cup {<<"SpeaksFor", p, Q>> : p \in SomePrincipals}
    \cup {<<"Boxed", o, A>> : o \in SomeObligations}

Annotated == {<<"Lam", phi, <<"Var", 0>>>> : phi \in SomeProps}

\* The terms principal "p" signs, with its own key or with another one.
Now == <<"Now", 31>>
Signed(m) ==
  {<<"Sign", P, m, <<"Signature", alg, SignatureOver(key, Encode(m))>>>>
     : alg \in {0, 1}, key \in {"kp", "other"}}

\* Proofs worth signing: closed ones, with and without a binder, and an open one.
ToSign ==
  {Now, <<"Lam", A, <<"Var", 0>>>>, <<"Var", 0>>}
    \cup {<<"LetSays", P, m, <<"Var", 0>>>> : m \in Signed(Now)}

SignedByQ(m) == <<"Sign", Q, m, <<"Signature", 0, SignatureOver("kq", Encode(m))>>>>

\* A signed node under every constructor that is not an elimination of its type,
\* and as the argument or in the body of a redex.
Around(s) ==
  {s, <<"Pair", s, Now>>, <<"Pair", Now, s>>, <<"Boxed", <<"Top">>, s, Now>>,
   <<"Boxed", <<"Top">>, Now, s>>, <<"Lam", A, s>>, <<"Inl", A, s>>, <<"Inr", A, s>>,
   <<"LiftLabel", Lbl, s>>, <<"WithinIntro", 9, s>>, <<"Declassify", Lbl,
   <<"LiftLabel", Lbl, Now>>, s>>, <<"Command", <<"Lam", A, <<"Var", 0>>>>, s, Lbl>>,
   <<"Discharge", <<"Boxed", <<"Top">>, s, Now>>, Now>>, <<"TensorIntro", s, s>>,
   <<"App", <<"Lam", <<"Top">>, s>>, Now>>, <<"Fst", <<"Pair", s, Now>>>>,
   <<"Case", <<"Inl", A, Now>>, s, s>>, <<"Attenuate", s, B>>, <<"Verify", P, s, Sig>>,
   <<"SaysBind", P, s, <<"Pair", <<"Var", 0>>, s>>>>, SignedByQ(s),
   <<"Delegate", <<"Var", 0>>, SignedByQ(s)>>,
   <<"LetSays", Q, SignedByQ(s), <<"Lam", A, <<"Var", 1>>>>>>,
   <<"LetSays", Q, SignedByQ(s), <<"Pair", s, <<"Var", 0>>>>>>}

Tokens(c) ==
  Typed(c, Annotated \cup UNION {Around(s) : s \in UNION {Signed(m) : m \in ToSign}})

\* No hypothesis, or a principal configured to speak for another.
MCAnchors == {EmptyCtx, Ctx(<<<<"Says", P, <<"SpeaksFor", Q, P>>>>>>, << >>)}

\* No row, the key, two rows for p in either order, a row under another algorithm,
\* and a row for q as well.
MCKeyrings ==
  LET Row(pid, alg, key) == [principal |-> pid, alg |-> alg, public_key |-> key]
  IN  {<< >>, <<Row("p", 0, "kp")>>, <<Row("p", 0, "kp"), Row("p", 0, "other")>>,
       <<Row("p", 0, "other"), Row("p", 0, "kp")>>, <<Row("p", 1, "kp"), Row("q", 0, "kq")>>,
       <<Row("q", 0, "kq"), Row("p", 0, "kp")>>}

MCPresenters == {<<"q", "kq">>, <<"p", "other">>}

\* Terms to substitute: open, closed, and with binders of their own.
MCValues ==
  {<<"Var", 0>>, <<"Var", 2>>, <<"Lam", A, <<"App", <<"Var", 0>>, <<"Var", 1>>>>>>}

-----------------------------------------------------------------------------
(* The values considered: the terms met, their types, and all their parts.  *)

MCSize(kind, v) ==
  LET kinds == Variants[kind][v[1]]
      Part(i) == IF i \in DOMAIN kinds /\ kinds[i] \in DOMAIN Variants THEN Size(kinds[i], v[i + 1])
                 ELSE 0
  IN  1 + Part(1) + Part(2) + Part(3)

\* The fields of the given kind in the values of S, all of which are of kind `of`.
Fields(kind, of, S) ==
  {x[1][x[2] + 1] : x \in {y \in S \X (1..4) :
                            LET kinds == Variants[of][y[1][1]]
                            IN  y[2] \in DOMAIN kinds /\ kinds[y[2]] = kind}}

RECURSIVE Closure(_, _)
Closure(kind, S) ==
  LET more == Less(Fields(kind, kind, S), S)
  IN  IF more = {} THEN S ELSE Both(S, Closure(kind, more))

\* The reducts and the subterms of the terms of S, theirs, and so on.
RECURSIVE Reducts(_, _)
Reducts(new, old) ==
  LET all == Both(new, old)
      more == Less(Both({Step(t) : t \in new} \ {NoTerm}, Fields("term", "term", new)), all)
  IN  IF more = {} THEN all ELSE Reducts(more, all)

\* The calls of shift or subst_at on the subterms, theirs, and so on.
RECURSIVE Calls(_, _)
Calls(new, old) ==
  LET all == Both(new, old)
      more == Less({<<x[1][1][x[2]], x[1][2], x[1][3] + Binds(x[1][1], x[2])>> :
                      x \in {y \in new \X (2..4) : y[2] \in Subterms(y[1][1])}}, all)
  IN  IF more = {} THEN all ELSE Calls(more, all)

\* The calls of infer for the judgments of `new`, theirs, and so on.
RECURSIVE Inferred(_, _)
Inferred(new, old) ==
  LET all == Both(new, old)
      more == Less(UNION {{<<Added(j[1], call[1]), j[2][call[2]]>> : call \in InferCalls(j[1], j[2])}
                            : j \in new}, all)
  IN  IF more = {} THEN all ELSE Inferred(more, all)

RECURSIVE Starts(_)
Starts(contexts) ==
  IF contexts = {} THEN {}
  ELSE LET c == CHOOSE c \in contexts : TRUE
       IN  All(<<IF c \in MCContexts THEN Both(Scrutinees(c), Eliminations(c)) ELSE { },
                 IF c \in MCAnchors THEN Tokens(c) ELSE { },
                 Starts(contexts \ {c})>>)

AllContexts == MCContexts \cup MCAnchors

\* TLC evaluates a definition once when the configuration gives it to a constant.
CONSTANTS Reduced, Called, Considered

MCReduced == Reducts(Both(MCValues, Starts(AllContexts)), { })

MCCalled ==
  LET substitutions ==
        Calls(Both({<<x[1], x[2], 0>> : x \in MCReduced \X MCValues},
                   UNION {Substitutes(t) : t \in {r \in MCReduced : Step(r) # NoTerm}}), { })
      hits == {s \in substitutions : Is(s[1], "Var") /\ s[1][2] = s[3]}
  IN  [substitutions |-> substitutions,
       shifts |-> Calls(Both({<<s[2], s[3], 0>> : s \in hits},
                             UNION {Lifts(t) : t \in MCReduced}), { })]

MCConsidered ==
  LET terms == All(<<MCReduced,
                     {Shift(s[1], s[2], s[3]) : s \in MCCalled.shifts},
                     {SubstAt(s[1], s[2], s[3]) : s \in MCCalled.substitutions}>>)
      types == {Infer(c, t) : c \in AllContexts, t \in MCReduced} \ {NoProp}
      props == Closure("prop", Both(types, Fields("prop", "term", terms)))
      obligations == Closure("obligation", Fields("obligation", "term", terms)
                                \cup Fields("obligation", "prop", props))
  IN  [term |-> terms, prop |-> props, obligation |-> obligations,
       principal |-> Closure("principal", Fields("principal", "term", terms)
                       \cup Fields("principal", "prop", props)
                       \cup Fields("principal", "obligation", obligations)),
       budget |-> Fields("budget", "obligation", obligations),
       signature |-> Fields("signature", "term", terms),
       judgment |-> Inferred(AllContexts \X MCReduced, { })]

MCPrograms == MCReduced
MCSubstitutions == MCCalled.substitutions
MCShifts == MCCalled.shifts
MCUniverse(kind) == MCConsidered[kind]

-----------------------------------------------------------------------------
(* The recursion: each of these is what its rule says, given itself.  (The LET  *)
(* stops TLC's coverage from unfolding it.)                                 *)

MCEnc(kind, v) == LET result == EncRule(kind, v) IN result
MCDec(kind, w) == LET result == DecRule(kind, w) IN result
MCInfer(c, t) == LET result == InferRule(c, t) IN result
MCShift(t, delta, cutoff) == LET result == ShiftRule(t, delta, cutoff) IN result
MCSubstAt(body, value, depth) == LET result == SubstAtRule(body, value, depth) IN result
MCStep(t) == LET result == StepRule(t) IN result
MCConstructors(t) == LET result == ConstructorsRule(t) IN result
MCOccurrences(t) == LET result == OccurrencesRule(t) IN result
MCAllSigsVerify(t, k) == LET result == SigsRule(t, k) IN result
MCSignNodes(t) == LET result == SignNodesRule(t) IN result
=============================================================================
