---------------------------- MODULE Substitution ----------------------------
(***************************************************************************)
(* Shifting and substitution of de-Bruijn indices, crates/dlc-core         *)
(* src/subst.rs.                                                           *)
(***************************************************************************)
EXTENDS Datatypes

\* shift and subst_at: ShiftRule and SubstAtRule say what they do with a term, given
\* what they do with its subterms.
CONSTANTS Shift(_, _, _), SubstAt(_, _, _)

CONSTANTS Shifts,        \* the calls of shift considered: a term, a delta, a cutoff
          Substitutions  \* those of subst_at: a body, a value, a depth

\* A mistake the checks must notice: a binder whose body is not counted as
\* being under it (the says-E case of syntax.rs, Term::SaysBind).
BindsNoSays(t, i) ==
  CASE t[1] = "Lam" -> 1
    [] t[1] = "Case" /\ i > 2 -> 1
    [] t[1] = "LetTensor" /\ i = 3 -> 2
    [] OTHER -> 0

\* How many variables the node t binds in its field i.
Binds(t, i) ==
  CASE t[1] = "Lam" -> 1
    [] t[1] = "Case" /\ i > 2 -> 1
    [] t[1] = "LetTensor" /\ i = 3 -> 2
    [] t[1] \in {"SaysBind", "LetSays"} /\ i = 4 -> 1
    [] OTHER -> 0

\* A mistake the checks must notice: bound variables shifted with the free ones.
ShiftBoundToo(t, delta, cutoff) ==
  IF Is(t, "Var")
  THEN IF t[2] + delta < 0 THEN t ELSE <<"Var", t[2] + delta>>
  ELSE [i \in 1..Len(t) |->
          IF i \in Subterms(t) THEN Shift(t[i], delta, cutoff) ELSE t[i]]

\* An index shifted below zero is left as it is.
ShiftRule(t, delta, cutoff) ==
  IF Is(t, "Var")
  THEN IF t[2] < cutoff \/ t[2] + delta < 0 THEN t ELSE <<"Var", t[2] + delta>>
  ELSE [i \in 1..Len(t) |->
          IF i \in Subterms(t) THEN Shift(t[i], delta, cutoff + Binds(t, i)) ELSE t[i]]

\* A mistake the checks must notice: the value not lifted over the binders.
HitUnlifted(value, depth) == value

\* The value put in place of a variable met under `depth` binders.
Hit(value, depth) == Shift(value, depth, 0)

\* subst_at.
SubstAtRule(body, value, depth) ==
  IF Is(body, "Var")
  THEN CASE body[2] = depth -> Hit(value, depth)
         [] body[2] > depth -> <<"Var", body[2] - 1>>
         [] body[2] < depth -> body
  ELSE [i \in 1..Len(body) |->
          IF i \in Subterms(body) THEN SubstAt(body[i], value, depth + Binds(body, i))
          ELSE body[i]]

Subst(body, value) == SubstAt(body, value, 0)

\* Every call considered follows its rule, answers a term (no index leaves its
\* width), and makes calls that are considered.
ASSUME ShiftAssumption ==
  \A s \in Shifts :
    /\ s[1] \in Universe("term") /\ s[2] \in Nat /\ s[3] \in Nat
    /\ Shift(s[1], s[2], s[3]) = ShiftRule(s[1], s[2], s[3])
    /\ Shift(s[1], s[2], s[3]) \in Universe("term")
    /\ \A i \in Subterms(s[1]) : <<s[1][i], s[2], s[3] + Binds(s[1], i)>> \in Shifts

ASSUME SubstitutionAssumption ==
  \A s \in Substitutions :
    /\ s[1] \in Universe("term") /\ s[2] \in Universe("term") /\ s[3] \in Nat
    /\ SubstAt(s[1], s[2], s[3]) = SubstAtRule(s[1], s[2], s[3])
    /\ SubstAt(s[1], s[2], s[3]) \in Universe("term")
    /\ Is(s[1], "Var") /\ s[1][2] = s[3] => <<s[2], s[3], 0>> \in Shifts
    /\ \A i \in Subterms(s[1]) : <<s[1][i], s[2], s[3] + Binds(s[1], i)>> \in Substitutions
=============================================================================
