----------------------------- MODULE Reduction -----------------------------
(***************************************************************************)
(* Reduction of proof terms, crates/dlc-core/src/reduce.rs: step, and      *)
(* reduce_with_fuel as a state machine, one step of the loop at a time,    *)
(* with what spec/typing-rules.md promises of it.                          *)
(***************************************************************************)
EXTENDS Typing, Substitution

CONSTANTS Fuel,        \* the fuel reduce_with_fuel is called with
          Contexts,    \* the contexts terms are checked in
          Programs,    \* the terms reduced
          Values       \* terms the substitution property substitutes

ASSUME FuelAssumption == Fuel \in Nat

\* step: StepRule says what it answers for a term, given what it answers for the
\* subterms.
CONSTANT Step(_)

VARIABLES ctx,     \* the context the term was checked in
          origin,  \* the term reduce_with_fuel was called with
          cur,     \* its current reduct
          n        \* steps taken

vars == <<ctx, origin, cur, n>>

-----------------------------------------------------------------------------
(* step. *)

\* Option::None for a term.
NoTerm == <<"None">>

\* A mistake the checks must notice: no reduction below the root.
NoCongruence(t, i) == NoTerm

\* The congruence rules: reduce the subterm in field i.
Congruence(t, i) ==
  LET s == Step(t[i]) IN IF s = NoTerm THEN NoTerm ELSE [t EXCEPT ![i] = s]

\* A mistake the checks must notice: the first component not shifted.
BindTensorUnshifted(body, a, b) == Subst(Subst(body, a), b)

\* let-tensor: the first component is substituted while the second variable is
\* still bound.
BindTensor(body, a, b) == Subst(Subst(body, Shift(a, 1, 0)), b)

\* Sign under another principal than the binder's is stuck.
OpenSays(t) ==
  IF Is(t[3], "Sign")
  THEN IF t[3][2] = t[2] THEN Subst(t[4], t[3][3]) ELSE NoTerm
  ELSE Congruence(t, 3)

DelegateStep(t) ==
  CASE Is(t[2], "Sign") /\ Is(t[3], "Sign") ->
         <<"Sign", <<"Acting", t[2][2], t[3][2]>>, t[3][3], t[3][4]>>
    [] Is(t[2], "Sign") /\ ~Is(t[3], "Sign") -> Congruence(t, 3)
    [] ~Is(t[2], "Sign") -> Congruence(t, 2)

\* The introduction forms that the principal argument of each elimination waits for.
Awaits ==
  [App |-> {"Lam"}, Fst |-> {"Pair"}, Snd |-> {"Pair"}, Case |-> {"Inl", "Inr"},
   LetTensor |-> {"TensorIntro"}, SfExtract |-> {"Sign"}, Discharge |-> {"Boxed"},
   RunCmd |-> {"Command"}]

\* The head rules: an elimination meets the introduction it waits for.
Contract(t) ==
  LET m == t[2]
  IN  CASE Is(t, "App") -> Subst(m[3], t[3])
        [] Is(t, "Fst") -> m[2]
        [] t[1] \in {"Snd", "SfExtract", "Discharge"} -> m[3]
        [] Is(t, "Case") -> Subst(IF Is(m, "Inl") THEN t[3] ELSE t[4], m[3])
        [] Is(t, "LetTensor") -> BindTensor(t[3], m[2], m[3])
        [] Is(t, "RunCmd") -> <<"LiftLabel", m[4], <<"App", m[2], t[3]>>>>

\* The principal argument comes first; until it is what the elimination waits for, it
\* is reduced in place.  Values and frozen forms do not step.
StepRule(t) ==
  CASE t[1] \in DOMAIN Awaits -> IF t[2][1] \in Awaits[t[1]] THEN Contract(t) ELSE Congruence(t, 2)
    [] t[1] \in {"SaysBind", "LetSays"} -> OpenSays(t)
    [] Is(t, "Delegate") -> DelegateStep(t)
    [] OTHER -> NoTerm

\* The substitutions and the shifts of the head rules at a term.
Substitutes(t) ==
  CASE Is(t, "App") /\ Is(t[2], "Lam") -> {<<t[2][3], t[3], 0>>}
    [] Is(t, "Case") /\ Is(t[2], "Inl") -> {<<t[3], t[2][3], 0>>}
    [] Is(t, "Case") /\ Is(t[2], "Inr") -> {<<t[4], t[2][3], 0>>}
    [] Is(t, "LetTensor") /\ Is(t[2], "TensorIntro") ->
         LET a == Shift(t[2][2], 1, 0)
         IN  {<<t[3], a, 0>>, <<Subst(t[3], a), t[2][3], 0>>}
    [] t[1] \in {"SaysBind", "LetSays"} /\ Is(t[3], "Sign") -> {<<t[4], t[3][3], 0>>}
    [] OTHER -> {}
Lifts(t) ==
  IF Is(t, "LetTensor") /\ Is(t[2], "TensorIntro") THEN {<<t[2][2], 1, 0>>} ELSE {}

\* The programs are closed under subterms and steps; step follows its rule on them,
\* and what it substitutes is among the substitutions considered.
ASSUME ProgramAssumption ==
  /\ Programs \subseteq Universe("term") /\ Values \subseteq Universe("term")
  /\ \A t \in Programs :
       /\ Step(t) = StepRule(t)
       /\ Step(t) # NoTerm => Step(t) \in Programs
       /\ \A i \in Subterms(t) : t[i] \in Programs
       /\ Substitutes(t) \cup {<<t, v, 0>> : v \in Values} \subseteq Substitutions
       /\ Lifts(t) \subseteq Shifts

\* The types inferred for programs are among the propositions considered.
ASSUME TypeAssumption ==
  \A c \in Contexts : \A t \in Programs : Infer(c, t) # NoProp => Infer(c, t) \in Universe("prop")

\* One more additive hypothesis, behind the others.
Weakened(c) == [c EXCEPT !.additive = Append(@, <<"Bot">>)]

\* Additive and linear hypotheses.  Judging starts without linear ones, and they
\* come in pairs, so there is never exactly one to use.
IsContext(c) ==
  /\ c = Ctx(c.additive, c.linear)
  /\ \A gamma \in {c.additive, c.linear} : gamma \in Seq({gamma[i] : i \in DOMAIN gamma})
  /\ Len(c.linear) # 1

\* The calls of infer considered: a context and a term.
Judgments == Universe("judgment")

\* Every call of infer considered follows its rule, with one more hypothesis as well,
\* and makes calls that are considered; so are those for programs.
ASSUME JudgmentAssumption ==
  /\ EmptyCtx \in Contexts
  /\ Contexts \X Programs \subseteq Judgments
  /\ \A j \in Judgments :
       /\ IsContext(j[1]) /\ j[2] \in Universe("term")
       /\ \A c \in {j[1], Weakened(j[1])} : Infer(c, j[2]) = InferRule(c, j[2])
       /\ \A call \in InferCalls(j[1], j[2]) :
            <<Added(j[1], call[1]), j[2][call[2]]>> \in Judgments

-----------------------------------------------------------------------------
(* reduce_with_fuel. *)

\* A well-typed term is reduced.
Init ==
  /\ ctx \in Contexts
  /\ origin \in Programs
  /\ Infer(ctx, origin) # NoProp
  /\ cur = origin
  /\ n = 0

Reduce ==
  /\ n < Fuel
  /\ Step(cur) # NoTerm
  /\ cur' = Step(cur)
  /\ n' = n + 1
  /\ UNCHANGED <<ctx, origin>>

\* The normal form, or the term at which the fuel ran out, is returned.
Returned == (n = Fuel \/ Step(cur) = NoTerm) /\ UNCHANGED vars

Next == Reduce \/ Returned

Spec == Init /\ [][Next]_vars

-----------------------------------------------------------------------------
(* The structure of terms, independent of the arithmetic of indices.        *)

\* The constructors that occur in a term, and its variables.
CONSTANTS Constructors(_), Occurrences(_)

ConstructorsRule(t) == {t[1]} \cup UNION {Constructors(t[i]) : i \in Subterms(t)}

\* What each variable of a term stands for: its path from the root, how many
\* variables are bound there, and whether it is the k-th variable bound on the
\* way from the root or the k-th free one.  Seen from one node further up, which
\* binds `binds` variables, it may no longer be free.
Outward(o, i, binds) ==
  [path |-> <<i>> \o o.path, depth |-> o.depth + binds,
   means |-> CASE o.means[1] = "bound" -> <<"bound", o.means[2] + binds>>
               [] o.means[1] = "free" /\ o.means[2] < binds -> <<"bound", binds - o.means[2]>>
               [] OTHER -> <<"free", o.means[2] - binds>>]

OccurrencesRule(t) ==
  IF Is(t, "Var") THEN {[path |-> << >>, depth |-> 0, means |-> <<"free", t[2]>>]}
  ELSE UNION {{Outward(o, i, Binds(t, i)) : o \in Occurrences(t[i])} : i \in Subterms(t)}

\* Both follow their rules on the terms considered.
ASSUME StructureAssumption ==
  \A t \in Universe("term") :
    /\ Constructors(t) = ConstructorsRule(t)
    /\ Occurrences(t) = OccurrencesRule(t)

Free(t) == {o.means[2] : o \in {p \in Occurrences(t) : p.means[1] = "free"}}

\* Where the variables of the body are, and what they mean, once the values stand
\* for its first free variables, all at once: a variable of the body keeps its
\* binder; the variables of a value are bound by the value's own binders or are
\* as free as they were in the value.
Substituted(body, values) ==
  LET k == Len(values)
      Placed(o, v) ==
        [path |-> o.path \o v.path, depth |-> o.depth + v.depth,
         means |-> IF v.means[1] = "bound" THEN <<"bound", o.depth + v.means[2]>> ELSE v.means]
  IN  UNION {CASE o.means[1] = "bound" -> {o}
               [] o.means[1] = "free" /\ o.means[2] < k ->
                    {Placed(o, v) : v \in Occurrences(values[o.means[2] + 1])}
               [] OTHER -> {[o EXCEPT !.means = <<"free", @[2] - k>>]}
                 : o \in Occurrences(body)}

-----------------------------------------------------------------------------
(* Properties. *)

\* Capture-avoidance of subst.rs: substituting changes what no variable means,
\* whatever binders lie between; and the head rule of let-tensor, two
\* substitutions with a shift between them, binds both variables at once.
SubstitutionKeepsBindings ==
  /\ \A v \in Values : Occurrences(Subst(cur, v)) = Substituted(cur, <<v>>)
  /\ Is(cur, "LetTensor") /\ Is(cur[2], "TensorIntro") =>
       Occurrences(Step(cur)) = Substituted(cur[3], <<cur[2][2], cur[2][3]>>)

\* A step never frees a variable: whatever a reduct mentions, the term already
\* mentioned (so closed terms stay closed under step).
NoNewFreeVariables == [][Free(cur') \subseteq Free(cur)]_vars

\* The forms typing-rules.md section 11 calls values, the frozen ones included.
IsValue(t) ==
  t[1] \in {"Lam", "Sign", "Pair", "Inl", "Inr", "TensorIntro", "Now", "Boxed", "Command",
            "LiftLabel", "WithinIntro", "Verify", "Attenuate", "Declassify"}

FrozenEliminations == {"Verify", "Attenuate", "Declassify"}

\* Progress (typing-rules.md section 11): a closed well-typed term without
\* frozen eliminations is a value or steps.  It rests on the congruence rules.
CoreProgress ==
  Constructors(origin) \cap FrozenEliminations = {} /\ Infer(EmptyCtx, cur) # NoProp =>
    IsValue(cur) \/ Step(cur) # NoTerm

\* Subject reduction for terms without says-E and without tensor-E: the type
\* inferred for the term is the type inferred for each of its reducts.
FragmentKeepsType ==
  Constructors(origin) \cap {"SaysBind", "LetTensor"} = {} =>
    Infer(ctx, cur) = Infer(ctx, origin)

\* Weakening: one more additive hypothesis behind the others changes the type of
\* no term that had one, although variables are looked up by position in two
\* contexts, one after the other.
WeakeningKeepsType ==
  Infer(ctx, cur) # NoProp =>
    Infer(Weakened(ctx), cur) = Infer(ctx, cur)

\* NOT a property of the code: typing-rules.md section 11 states subject
\* reduction of every well-typed term; says-E is typed `p says psi` but its
\* reduct is the body, of type psi.
SubjectReduction == Infer(ctx, cur) = Infer(ctx, origin)
=============================================================================
