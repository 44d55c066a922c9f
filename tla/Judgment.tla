------------------------------ MODULE Judgment ------------------------------
(***************************************************************************)
(* Contexts of crates/dlc-core (src/judgment.rs) and what the checker      *)
(* (src/decide.rs) reads in them for a variable.                           *)
(***************************************************************************)
EXTENDS Syntax

\* Option::None for a proposition.
NoProp == <<"None">>
Guarded(condition, prop) == IF condition THEN prop ELSE NoProp

Ctx(additive, linear) == [additive |-> additive, linear |-> linear]
EmptyCtx == Ctx(<< >>, << >>)

\* cons_a and cons_l: the new hypothesis becomes index 0.
ConsA(ctx, phi) == [ctx EXCEPT !.additive = <<phi>> \o @]
ConsL(ctx, phi) == [ctx EXCEPT !.linear = <<phi>> \o @]

\* A mistake the checks must notice: any linear variable may be used, whatever
\* else the linear context holds.
LookupAnyLinear(ctx, i) ==
  IF i < Len(ctx.additive) THEN ctx.additive[i + 1]
  ELSE Guarded(i < Len(ctx.linear), ctx.linear[i + 1])

\* var-A, then var-L: the linear context is consulted only past the end of the
\* additive one, and only when it is a singleton and the index is 0.
Lookup(ctx, i) ==
  IF i < Len(ctx.additive) THEN ctx.additive[i + 1]
  ELSE Guarded(Len(ctx.linear) = 1 /\ i = 0, ctx.linear[1])
=============================================================================
