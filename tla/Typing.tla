------------------------------- MODULE Typing -------------------------------
(***************************************************************************)
(* The proof checker of crates/dlc-core: the inference of src/decide.rs.   *)
(***************************************************************************)
EXTENDS Judgment

\* infer: InferRule says what it answers for a term, given what it answers for the
\* subterms.
CONSTANT Infer(_, _)

-----------------------------------------------------------------------------
(* infer, by connective.  m is the type of the principal subterm.           *)

\* Implication and affirmation.
Logical == {"Lam", "App", "Sign", "Verify", "Delegate", "Attenuate"}

\* m: p says (q => p) and n: q says phi make (p acting q) says phi.
DelegateType(m, n) ==
  IF /\ Is(m, "Says") /\ Is(m[3], "SpeaksFor") /\ m[3][3] = m[2]
     /\ Is(n, "Says") /\ n[2] = m[3][2]
  THEN <<"Says", <<"Acting", m[2], n[2]>>, n[3]>>
  ELSE NoProp

InferLogical(ctx, t) ==
  CASE Is(t, "Lam") ->
         LET psi == Infer(ConsA(ctx, t[2]), t[3])
         IN  Guarded(psi # NoProp, <<"Imp", t[2], psi>>)
    [] Is(t, "App") ->
         LET f == Infer(ctx, t[2])
             x == Infer(ctx, t[3])
         IN  Guarded(Is(f, "Imp") /\ x # NoProp /\ f[2] = x, f[3])
    [] Is(t, "Sign") ->
         LET phi == Infer(ctx, t[3]) IN Guarded(phi # NoProp, <<"Says", t[2], phi>>)
    [] Is(t, "Verify") ->
         LET m == Infer(ctx, t[3]) IN Guarded(Is(m, "Says") /\ m[2] = t[2], m[3])
    [] Is(t, "Delegate") -> DelegateType(Infer(ctx, t[2]), Infer(ctx, t[3]))
    \* The side conditions of attenuation are not checked here.
    [] Is(t, "Attenuate") ->
         LET m == Infer(ctx, t[2]) IN Guarded(Is(m, "Says"), <<"Says", m[2], t[3]>>)

\* Obligations, labels and time.  Evidence and policies are not inspected.
Modal == {"Boxed", "Discharge", "LiftLabel", "Declassify", "Now", "WithinIntro"}

InferModal(ctx, t) ==
  IF Is(t, "Now") THEN <<"Top">>
  ELSE LET m == IF Is(t, "Discharge") THEN Infer(ctx, t[2]) ELSE Infer(ctx, t[3])
       IN  CASE Is(t, "Boxed") -> Guarded(m # NoProp, <<"Boxed", t[2], m>>)
             [] Is(t, "Discharge") -> Guarded(Is(m, "Boxed"), m[3])
             [] Is(t, "LiftLabel") -> Guarded(m # NoProp, <<"At", m, t[2]>>)
             [] Is(t, "Declassify") -> Guarded(Is(m, "At"), <<"At", m[2], t[2]>>)
             [] Is(t, "WithinIntro") -> Guarded(m # NoProp, <<"Within", t[2], m>>)

\* Products and sums.
Structural == {"Pair", "Fst", "Snd", "Inl", "Inr", "Case", "TensorIntro", "LetTensor"}

InferStructural(ctx, t) ==
  LET m == Infer(ctx, t[2])
      n == Infer(ctx, t[3])
  IN  CASE Is(t, "Pair") -> Guarded(m # NoProp /\ n # NoProp, <<"And", m, n>>)
        [] Is(t, "Fst") -> Guarded(Is(m, "And"), m[2])
        [] Is(t, "Snd") -> Guarded(Is(m, "And"), m[3])
        [] Is(t, "Inl") -> Guarded(n # NoProp, <<"Or", n, t[2]>>)
        [] Is(t, "Inr") -> Guarded(n # NoProp, <<"Or", t[2], n>>)
        [] Is(t, "Case") ->
             IF ~Is(m, "Or") THEN NoProp
             ELSE LET left == Infer(ConsA(ctx, m[2]), t[3])
                      right == Infer(ConsA(ctx, m[3]), t[4])
                  IN  Guarded(right # NoProp /\ left = right, left)
        [] Is(t, "TensorIntro") -> Guarded(m # NoProp /\ n # NoProp, <<"Tensor", m, n>>)
        \* Two LINEAR hypotheses for the two variables the body binds.
        [] Is(t, "LetTensor") ->
             IF Is(m, "Tensor") THEN Infer(ConsL(ConsL(ctx, m[2]), m[3]), t[3]) ELSE NoProp

\* Elimination of affirmations, and replicated commands.
Binding == {"SaysBind", "LetSays", "SfExtract", "Command", "RunCmd"}

\* The type of the body of a says-elimination by p of a term of type m.
SaysBody(ctx, p, m, body) ==
  IF Is(m, "Says") /\ m[2] = p THEN Infer(ConsA(ctx, m[3]), body) ELSE NoProp

InferBinding(ctx, t) ==
  CASE Is(t, "SaysBind") ->
         LET psi == SaysBody(ctx, t[2], Infer(ctx, t[3]), t[4])
         IN  Guarded(psi # NoProp, <<"Says", t[2], psi>>)
    [] Is(t, "LetSays") -> SaysBody(ctx, t[2], Infer(ctx, t[3]), t[4])
    [] Is(t, "SfExtract") ->
         LET m == Infer(ctx, t[2])
         IN  Guarded(Is(m, "Says") /\ Is(m[3], "SpeaksFor") /\ m[3][3] = m[2], m[3])
    [] Is(t, "Command") ->
         LET c == Infer(ctx, t[3])
             m == Infer(ctx, t[2])
         IN  Guarded(Is(c, "Says") /\ Is(m, "Imp") /\ m[2] = m[3], <<"Replicated", m, t[4]>>)
    [] Is(t, "RunCmd") ->
         LET v == Infer(ctx, t[2])
             s == Infer(ctx, t[3])
         IN  Guarded(/\ Is(v, "Replicated") /\ Is(v[2], "Imp") /\ v[2][2] = v[2][3]
                     /\ s # NoProp /\ s = v[2][2],
                     <<"At", v[2][2], v[3]>>)

InferRule(ctx, t) ==
  CASE Is(t, "Var") -> Lookup(ctx, t[2])
    [] t[1] \in Logical -> InferLogical(ctx, t)
    [] t[1] \in Modal -> InferModal(ctx, t)
    [] t[1] \in Structural -> InferStructural(ctx, t)
    [] t[1] \in Binding -> InferBinding(ctx, t)

\* The calls infer makes for the subterms of t: the field, and what the binder adds
\* to the context there.  Evidence and policies are not typed.
Nothing == <<"nothing">>
Added(ctx, new) ==
  CASE new[1] = "A" -> ConsA(ctx, new[2])
    [] new[1] = "L" -> ConsL(ConsL(ctx, new[2]), new[3])
    [] OTHER -> ctx

InferCalls(ctx, t) ==
  LET m == Infer(ctx, t[2])
      n == Infer(ctx, t[3])
  IN  CASE Is(t, "Lam") -> {<<<<"A", t[2]>>, 3>>}
        [] Is(t, "Case") ->
             {<<Nothing, 2>>}
               \cup IF Is(m, "Or") THEN {<<<<"A", m[2]>>, 3>>, <<<<"A", m[3]>>, 4>>} ELSE {}
        [] Is(t, "LetTensor") ->
             {<<Nothing, 2>>} \cup IF Is(m, "Tensor") THEN {<<<<"L", m[2], m[3]>>, 3>>} ELSE {}
        [] t[1] \in {"SaysBind", "LetSays"} ->
             {<<Nothing, 3>>}
               \cup IF Is(n, "Says") /\ n[2] = t[2] THEN {<<<<"A", n[3]>>, 4>>} ELSE {}
        [] t[1] \in {"Boxed", "Declassify"} -> {<<Nothing, 3>>}
        [] Is(t, "Discharge") -> {<<Nothing, 2>>}
        [] OTHER -> {<<Nothing, i>> : i \in Subterms(t)}

\* decide_pure, of the typing problem (ctx, t, prop).
DecidePure(ctx, t, prop) == Infer(ctx, t) = prop
=============================================================================
