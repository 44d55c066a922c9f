--------------------------- MODULE BudgetsProofs ---------------------------
(***************************************************************************)
(* Proofs about Budgets and about the quantale over it, for every width of *)
(* the two types, every ceiling and every bound on what is charged; and    *)
(* what the headroom says about the kernel's admission.                    *)
(***************************************************************************)
EXTENDS Quantale, Integers, TLAPS

\* The types GradeInv needs, and the grade as a function of the history.
GradeInv ==
  /\ grade \in Grade
  /\ spent \in [epsilon : Nat, delta : Nat]
  /\ GradeIsTrueSum

\* Saturation is harmless under composition: adding to a sum already cut gives
\* the whole sum, cut (u64::saturating_add).
LEMMA SaturatingAssoc ==
  ASSUME NEW a \in Nat, NEW b \in Nat
  PROVE  SaturatingAdd(Cut(a), b) = Cut(a + b)
BY BudgetAssumption DEF SaturatingAdd, Cut

\* Saturating addition stays within the type and never goes below its left
\* operand.
LEMMA SaturatingGrows ==
  ASSUME NEW a \in 0..MaxU64, NEW b \in Nat
  PROVE  SaturatingAdd(a, b) \in 0..MaxU64 /\ SaturatingAdd(a, b) >= a
BY BudgetAssumption DEF SaturatingAdd

\* The grade is, at any moment, the saturated sum of everything consumed.
THEOREM GradeInductive == Spec => []GradeInv
<1>1. Init => GradeInv
  BY BudgetAssumption DEF Init, GradeInv, GradeIsTrueSum, Cut, ZERO, Grade
<1>2. GradeInv /\ [Next]_vars => GradeInv'
  <2> SUFFICES ASSUME GradeInv, [Next]_vars
               PROVE  GradeInv'
    OBVIOUS
  <2>1. ASSUME NEW extra \in 1..MaxU32, Charge(extra)
        PROVE  GradeInv'
    BY <2>1 DEF GradeInv, GradeIsTrueSum, Charge
  <2>2. ASSUME NEW g \in Grade, Consume(g)
        PROVE  GradeInv'
    <3>1. /\ grade' = AddGrade(grade, g)
          /\ spent' = [epsilon |-> spent.epsilon + g.epsilon, delta |-> spent.delta + g.delta]
      BY <2>2 DEF Consume
    <3>2. /\ g.epsilon \in Nat /\ g.delta \in Nat
          /\ grade.epsilon \in 0..MaxU64 /\ grade.delta \in 0..MaxU64
          /\ spent.epsilon \in Nat /\ spent.delta \in Nat
      BY BudgetAssumption DEF GradeInv, Grade
    <3>3. grade' \in Grade
      BY <3>1, <3>2, SaturatingGrows DEF AddGrade, Grade
    <3>4. spent' \in [epsilon : Nat, delta : Nat]
      BY <3>1, <3>2
    <3>5. /\ grade.epsilon = Cut(spent.epsilon)
          /\ grade.delta = Cut(spent.delta)
      BY DEF GradeInv, GradeIsTrueSum
    <3>6. /\ SaturatingAdd(grade.epsilon, g.epsilon) = Cut(spent'.epsilon)
          /\ SaturatingAdd(grade.delta, g.delta) = Cut(spent'.delta)
      BY <3>1, <3>2, <3>5, SaturatingAssoc
    <3>7. GradeIsTrueSum'
      BY <3>1, <3>6 DEF GradeIsTrueSum, AddGrade
    <3> QED BY <3>3, <3>4, <3>7 DEF GradeInv
  <2>3. ASSUME UNCHANGED vars
        PROVE  GradeInv'
    BY <2>3 DEF GradeInv, GradeIsTrueSum, vars
  <2> QED BY <2>1, <2>2, <2>3 DEF Next
<1> QED BY <1>1, <1>2, PTL DEF Spec

\* The grade never wraps: it is the true sum of what was consumed, cut at the
\* type's maximum (obligation.rs, graded.rs).
THEOREM GradeNeverWraps == Spec => []GradeIsTrueSum
BY GradeInductive, PTL DEF GradeInv

\* Once over its ceiling a graded value is refused for ever, and counit only
\* releases what consumed nothing (graded.rs within_budget and counit).
THEOREM OverspendingStays == Spec => OverspendingIsPermanent
<1>1. GradeInv /\ GradeInv' /\ [Next]_vars
        => [/\ ~WithinBudget => ~WithinBudget'
            /\ Counit' => spent' = ZERO]_vars
  <2> SUFFICES ASSUME GradeInv, GradeInv', [Next]_vars
               PROVE  /\ ~WithinBudget => ~WithinBudget'
                      /\ Counit' => spent' = ZERO
    OBVIOUS
  <2>1. /\ grade'.epsilon \in Nat /\ grade'.delta \in Nat
        /\ grade.epsilon \in 0..MaxU64 /\ grade.delta \in 0..MaxU64
        /\ Ceiling.epsilon \in Nat /\ Ceiling.delta \in Nat
        /\ spent'.epsilon \in Nat /\ spent'.delta \in Nat
    BY BudgetAssumption DEF GradeInv, Grade
  <2>2. grade'.epsilon >= grade.epsilon /\ grade'.delta >= grade.delta
    <3>1. CASE \E extra \in 1..MaxU32 : Charge(extra)
      BY <3>1, <2>1 DEF Charge
    <3>2. ASSUME NEW g \in Grade, Consume(g)
          PROVE  grade'.epsilon >= grade.epsilon /\ grade'.delta >= grade.delta
      <4>1. g.epsilon \in Nat /\ g.delta \in Nat
        BY BudgetAssumption DEF Grade
      <4>2. grade' = AddGrade(grade, g)
        BY <3>2 DEF Consume
      <4> QED BY <4>1, <4>2, <2>1, SaturatingGrows DEF AddGrade
    <3>3. CASE UNCHANGED vars
      BY <3>3, <2>1 DEF vars
    <3> QED BY <3>1, <3>2, <3>3 DEF Next
  <2>3. ~WithinBudget => ~WithinBudget'
    BY <2>1, <2>2, BudgetAssumption DEF WithinBudget, Leq
  <2>4. ASSUME Counit'
        PROVE  spent' = ZERO
    <3>1. grade'.epsilon = 0 /\ grade'.delta = 0
      BY <2>4 DEF Counit, ZERO
    <3>2. Cut(spent'.epsilon) = 0 /\ Cut(spent'.delta) = 0
      BY <3>1 DEF GradeInv, GradeIsTrueSum
    <3>3. spent'.epsilon = 0 /\ spent'.delta = 0
      BY <3>2, <2>1, BudgetAssumption DEF Cut
    <3> QED BY <3>3 DEF GradeInv, ZERO
  <2> QED BY <2>3, <2>4
<1> QED BY <1>1, GradeInductive, PTL DEF Spec, OverspendingIsPermanent

-----------------------------------------------------------------------------
\* Below the type's maximum the machine's addition is the mathematical one.
LEMMA NoWrapBelowMaximum ==
  ASSUME NEW a \in Nat, NEW b \in Nat, a + b <= MaxU32
  PROVE  WrappingAdd(a, b) = a + b
BY BudgetAssumption DEF WrappingAdd

\* Until a checked build panics, the budget holds exactly what was charged.
CheckedInv ==
  /\ budget.maxFaults = MaxFaults
  /\ DOMAIN budget = {"maxFaults", "fairDelivery", "consumed"}
  /\ charged \in Nat
  /\ ~halted => budget.consumed = charged

\* A debug build never reports as kept a contract that the charges exceeded
\* (rsm.rs, saturating_add and within_contract).
THEOREM CheckedBuildSound ==
  ASSUME OverflowChecks
  PROVE  Spec => []CheckedBuildKeepsContract
<1>1. Init => CheckedInv
  BY BudgetAssumption DEF Init, CheckedInv
<1>2. CheckedInv /\ [Next]_vars => CheckedInv'
  <2> SUFFICES ASSUME CheckedInv, [Next]_vars
               PROVE  CheckedInv'
    OBVIOUS
  <2>1. ASSUME NEW extra \in 1..MaxU32, Charge(extra)
        PROVE  CheckedInv'
    <3>1. extra \in Nat /\ charged' = charged + extra /\ charged \in Nat
      BY <2>1, BudgetAssumption DEF Charge, CheckedInv
    <3>2. CASE budget.consumed + extra > MaxU32
      BY <3>1, <3>2, <2>1 DEF Charge, CheckedInv
    <3>3. CASE ~(budget.consumed + extra > MaxU32)
      <4>1. /\ budget' = [budget EXCEPT !.consumed = WrappingAdd(@, extra)]
            /\ halted' = halted /\ ~halted
        BY <3>3, <2>1 DEF Charge
      <4>2. budget.consumed = charged /\ charged + extra <= MaxU32
        BY <4>1, <3>3, <3>1, BudgetAssumption DEF CheckedInv
      <4>3. WrappingAdd(charged, extra) = charged + extra
        BY <4>2, <3>1, NoWrapBelowMaximum
      <4> QED BY <4>1, <4>2, <4>3, <3>1 DEF CheckedInv
    <3> QED BY <3>2, <3>3
  <2>2. ASSUME NEW g \in Grade, Consume(g)
        PROVE  CheckedInv'
    BY <2>2 DEF CheckedInv, Consume
  <2>3. CASE UNCHANGED vars
    BY <2>3 DEF CheckedInv, vars
  <2> QED BY <2>1, <2>2, <2>3 DEF Next
<1>3. CheckedInv => CheckedBuildKeepsContract
  BY DEF CheckedInv, CheckedBuildKeepsContract, WithinContract, Le
<1> QED BY <1>1, <1>2, <1>3, PTL DEF Spec

-----------------------------------------------------------------------------
(* The laws of the quantale. *)

\* Within the type, one component of a sum reaches c exactly when the other
\* reaches what is left of c (u64 saturating_add and saturating_sub).
LEMMA MonusIsResidual ==
  ASSUME NEW a \in 0..MaxU64, NEW b \in 0..MaxU64, NEW c \in 0..MaxU64
  PROVE  c <= SaturatingAdd(a, b) <=> Monus(c, a) <= b
BY BudgetAssumption DEF SaturatingAdd, Monus

\* Below the type's maximum it stays within c exactly when it fits in what is
\* left.
LEMMA FitsInWhatIsLeft ==
  ASSUME NEW a \in 0..MaxU64, NEW b \in 0..MaxU64, NEW c \in 0..MaxU64,
         a <= c, c < MaxU64
  PROVE  SaturatingAdd(a, b) <= c <=> b <= Monus(c, a)
BY BudgetAssumption DEF SaturatingAdd, Monus

\* The components of a grade.
LEMMA GradeComponents ==
  ASSUME NEW g \in Grade
  PROVE  g.epsilon \in 0..MaxU64 /\ g.delta \in 0..MaxU64
BY DEF Grade

\* The residual is right adjoint to the tensor, at machine width and with
\* saturation on both sides (ResiduatedQuantale for Spend).
THEOREM Residuation ==
  ASSUME NEW a \in Grade, NEW b \in Grade, NEW c \in Grade
  PROVE  SpendLeq(Tensor(a, b), c) <=> SpendLeq(b, Residual(a, c))
<1>1. /\ c.epsilon <= SaturatingAdd(a.epsilon, b.epsilon) <=> Monus(c.epsilon, a.epsilon) <= b.epsilon
      /\ c.delta <= SaturatingAdd(a.delta, b.delta) <=> Monus(c.delta, a.delta) <= b.delta
  BY MonusIsResidual, GradeComponents
<1> QED BY <1>1 DEF SpendLeq, Leq, Tensor, AddGrade, Residual

\* Meet and Join are the infimum and supremum of the spend order (Lattice for
\* Spend), with ZERO on top and EXHAUSTED at the bottom.
THEOREM SpendIsALattice ==
  ASSUME NEW a \in Grade, NEW b \in Grade, NEW c \in Grade
  PROVE  /\ SpendLeq(c, Meet(a, b)) <=> SpendLeq(c, a) /\ SpendLeq(c, b)
         /\ SpendLeq(Join(a, b), c) <=> SpendLeq(a, c) /\ SpendLeq(b, c)
         /\ SpendLeq(EXHAUSTED, a) /\ SpendLeq(a, ZERO)
<1>1. /\ a.epsilon \in Nat /\ a.delta \in Nat /\ b.epsilon \in Nat /\ b.delta \in Nat
      /\ c.epsilon \in Nat /\ c.delta \in Nat /\ MaxU64 \in Nat
      /\ a.epsilon <= MaxU64 /\ a.delta <= MaxU64
  BY BudgetAssumption, GradeComponents
<1>2. SpendLeq(c, Meet(a, b)) <=> SpendLeq(c, a) /\ SpendLeq(c, b)
  BY <1>1 DEF SpendLeq, Leq, Meet, Greatest
<1>3. SpendLeq(Join(a, b), c) <=> SpendLeq(a, c) /\ SpendLeq(b, c)
  BY <1>1 DEF SpendLeq, Leq, Join, Least
<1>4. SpendLeq(EXHAUSTED, a) /\ SpendLeq(a, ZERO)
  BY <1>1 DEF SpendLeq, Leq, EXHAUSTED, ZERO
<1> QED BY <1>2, <1>3, <1>4

\* Consuming after choosing the cheaper of two ways costs the cheaper of the two
\* totals, saturation included: the tensor distributes over the join.
THEOREM TensorDistributesOverJoin ==
  ASSUME NEW a \in Grade, NEW b \in Grade, NEW c \in Grade
  PROVE  Tensor(a, Join(b, c)) = Join(Tensor(a, b), Tensor(a, c))
<1>1. ASSUME NEW x \in 0..MaxU64, NEW y \in 0..MaxU64, NEW z \in 0..MaxU64
      PROVE  SaturatingAdd(x, Least(y, z)) = Least(SaturatingAdd(x, y), SaturatingAdd(x, z))
  BY BudgetAssumption DEF SaturatingAdd, Least
<1>2. /\ SaturatingAdd(a.epsilon, Least(b.epsilon, c.epsilon))
           = Least(SaturatingAdd(a.epsilon, b.epsilon), SaturatingAdd(a.epsilon, c.epsilon))
      /\ SaturatingAdd(a.delta, Least(b.delta, c.delta))
           = Least(SaturatingAdd(a.delta, b.delta), SaturatingAdd(a.delta, c.delta))
  BY <1>1, GradeComponents
<1> QED BY <1>2 DEF Tensor, AddGrade, Join

\* Re-grading risk as a privacy budget is a homomorphism: composing and then
\* re-grading is re-grading and then composing (MonotoneMap for Tau).
THEOREM TauIsHomomorphism ==
  ASSUME NEW r \in 0..MaxU64, NEW s \in 0..MaxU64
  PROVE  /\ Tau(0) = ZERO
         /\ Tau(RiskTensor(r, s)) = Tensor(Tau(r), Tau(s))
         /\ r >= s <=> SpendLeq(Tau(r), Tau(s))
<1>1. SaturatingAdd(0, 0) = 0
  BY BudgetAssumption DEF SaturatingAdd
<1> QED BY <1>1, BudgetAssumption DEF Tau, ZERO, RiskTensor, Tensor, AddGrade, SpendLeq, Leq

\* Below the type's maximum the headroom decides what the kernel admits, for
\* every ceiling and every history of consumption (Spend::remaining).
THEOREM HeadroomDecides == Spec => []HeadroomIsExact
<1>1. GradeInv => HeadroomIsExact
  <2> SUFFICES ASSUME GradeInv, WithinBudget,
                      Ceiling.epsilon < MaxU64, Ceiling.delta < MaxU64,
                      NEW want \in Grade
               PROVE  Leq(AddGrade(grade, want), Ceiling) <=> Leq(want, Residual(grade, Ceiling))
    BY DEF HeadroomIsExact
  <2>1. /\ grade.epsilon \in 0..MaxU64 /\ grade.delta \in 0..MaxU64
        /\ want.epsilon \in 0..MaxU64 /\ want.delta \in 0..MaxU64
        /\ Ceiling.epsilon \in 0..MaxU64 /\ Ceiling.delta \in 0..MaxU64
    BY GradeComponents, BudgetAssumption DEF GradeInv
  <2>2. grade.epsilon <= Ceiling.epsilon /\ grade.delta <= Ceiling.delta
    BY DEF WithinBudget, Leq
  <2>3. /\ SaturatingAdd(grade.epsilon, want.epsilon) <= Ceiling.epsilon
             <=> want.epsilon <= Monus(Ceiling.epsilon, grade.epsilon)
        /\ SaturatingAdd(grade.delta, want.delta) <= Ceiling.delta
             <=> want.delta <= Monus(Ceiling.delta, grade.delta)
    BY <2>1, <2>2, FitsInWhatIsLeft
  <2> QED BY <2>3 DEF Leq, AddGrade, Residual
<1> QED BY <1>1, GradeInductive, PTL

\* The bound on the ceiling is needed: under a ceiling at the type's maximum a
\* grade that has consumed anything is granted more than its headroom, because
\* the saturated sum never exceeds that ceiling (Spend::remaining claims the
\* equivalence for every within-budget grade).
THEOREM HeadroomInexactAtTheTop ==
  ASSUME NEW g \in Grade, g.epsilon > 0
  PROVE  \E want \in Grade :
           /\ Leq(AddGrade(g, want), EXHAUSTED)
           /\ ~Leq(want, Residual(g, EXHAUSTED))
<1> DEFINE want == EXHAUSTED
<1>1. want \in Grade
  BY BudgetAssumption DEF EXHAUSTED, Grade
<1>2. /\ g.epsilon \in 0..MaxU64 /\ g.delta \in 0..MaxU64 /\ MaxU64 \in Nat
  BY BudgetAssumption, GradeComponents
<1>3. Leq(AddGrade(g, want), EXHAUSTED)
  BY <1>2 DEF Leq, AddGrade, SaturatingAdd, EXHAUSTED
<1>4. ~Leq(want, Residual(g, EXHAUSTED))
  BY <1>2 DEF Leq, Residual, Monus, EXHAUSTED
<1> QED BY <1>1, <1>3, <1>4
=============================================================================
