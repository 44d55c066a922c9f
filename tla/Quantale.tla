------------------------------ MODULE Quantale ------------------------------
(***************************************************************************)
(* The privacy grade as a quantale (crates/dlc-grade-quantale/src/lib.rs). *)
(* A Spend is a grade under the reversed order: more consumed is lower, the*)
(* type's maximum is the bottom.  The tensor is the saturating sum of      *)
(* Budgets, and its residual is the headroom a caller may still consume.   *)
(***************************************************************************)
EXTENDS Budgets

Least(a, b) == IF a <= b THEN a ELSE b
Greatest(a, b) == IF a <= b THEN b ELSE a

\* u64::saturating_sub.
Monus(a, b) == IF a <= b THEN 0 ELSE a - b

\* Spend as a lattice: Meet is the more consumed, Join the less consumed.
SpendLeq(g, h) == Leq(h, g)
Meet(g, h) == [epsilon |-> Greatest(g.epsilon, h.epsilon), delta |-> Greatest(g.delta, h.delta)]
Join(g, h) == [epsilon |-> Least(g.epsilon, h.epsilon), delta |-> Least(g.delta, h.delta)]
EXHAUSTED == [epsilon |-> MaxU64, delta |-> MaxU64]

Tensor(g, h) == AddGrade(g, h)

\* A mistake the checks must notice: the subtraction the wrong way round.
ResidualSwapped(g, ceiling) ==
  [epsilon |-> Monus(g.epsilon, ceiling.epsilon), delta |-> Monus(g.delta, ceiling.delta)]

\* What is left of a ceiling after g (residual, and remaining).
Residual(g, ceiling) ==
  [epsilon |-> Monus(ceiling.epsilon, g.epsilon), delta |-> Monus(ceiling.delta, g.delta)]

\* Risk is one component with the same sum; Tau accounts for it as epsilon.
RiskTensor(r, s) == SaturatingAdd(r, s)
Tau(r) == [epsilon |-> r, delta |-> 0]

-----------------------------------------------------------------------------
\* A grade within its ceiling admits exactly the requests that fit in its
\* headroom (remaining, and the kernel's consume and within_budget), PROVIDED
\* the ceiling lies below the type's maximum: at the maximum the saturated sum
\* is within the ceiling whatever is asked.
HeadroomIsExact ==
  WithinBudget /\ Ceiling.epsilon < MaxU64 /\ Ceiling.delta < MaxU64 =>
    \A want \in Grade :
      Leq(AddGrade(grade, want), Ceiling) <=> Leq(want, Residual(grade, Ceiling))
=============================================================================
