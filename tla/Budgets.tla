------------------------------ MODULE Budgets ------------------------------
(***************************************************************************)
(* The two consumable budgets of dlc-core at their machine widths: the     *)
(* failure contract FailureBudget of rsm.rs, a u32, and the differential-  *)
(* privacy grade of obligation.rs and graded.rs, a pair of u64.  The two   *)
(* are written as the same template, and both additions are called         *)
(* saturating_add.                                                         *)
(***************************************************************************)
EXTENDS Naturals

CONSTANTS MaxU32, MaxU64,  \* the largest values of the two types
          OverflowChecks,  \* TRUE: a debug build, `+` panics; FALSE: release, it wraps
          MaxFaults,       \* the tolerated crash faults, f
          Ceiling,         \* the grade a Graded value is compared with
          SpendCap         \* bound on what is ever charged, for model checking

Grade == [epsilon : 0..MaxU64, delta : 0..MaxU64]
ZERO == [epsilon |-> 0, delta |-> 0]

ASSUME BudgetAssumption ==
  /\ MaxU32 \in Nat /\ MaxU64 \in Nat \ {0} /\ SpendCap \in Nat
  /\ OverflowChecks \in BOOLEAN
  /\ MaxFaults \in 0..MaxU32
  /\ Ceiling \in Grade

VARIABLES
  budget,   \* FailureBudget: max_faults, fair_delivery, consumed
  halted,   \* a panic ended the program
  grade,    \* the grade of a Graded value
  charged,  \* history: the faults charged, as a mathematical sum
  spent     \* history: the epsilon and delta consumed, as mathematical sums

vars == <<budget, halted, grade, charged, spent>>

-----------------------------------------------------------------------------
\* u32 `+` of a release build.
WrappingAdd(a, b) == (a + b) % (MaxU32 + 1)

\* A mistake the checks must notice: u64 `+` instead of saturating_add.
WrappingAdd64(a, b) == (a + b) % (MaxU64 + 1)

\* u64::saturating_add.
SaturatingAdd(a, b) == IF a + b > MaxU64 THEN MaxU64 ELSE a + b

\* DpBudget::saturating_add and leq, componentwise.
AddGrade(g, h) ==
  [epsilon |-> SaturatingAdd(g.epsilon, h.epsilon),
   delta   |-> SaturatingAdd(g.delta, h.delta)]

Leq(g, h) == g.epsilon <= h.epsilon /\ g.delta <= h.delta

\* FailureBudget::le and within_contract.
Le(b) == b.consumed <= b.maxFaults
WithinContract(b) == b.fairDelivery /\ Le(b)

-----------------------------------------------------------------------------
\* A mistake the checks must notice: a checked build that wraps all the same.
ChargeUnchecked(extra) ==
  /\ ~halted
  /\ charged + extra <= SpendCap
  /\ budget' = [budget EXCEPT !.consumed = WrappingAdd(@, extra)]
  /\ charged' = charged + extra
  /\ UNCHANGED <<halted, grade, spent>>

\* FailureBudget::saturating_add: `consumed + extra` on u32.
Charge(extra) ==
  /\ ~halted
  /\ charged + extra <= SpendCap
  /\ IF OverflowChecks /\ budget.consumed + extra > MaxU32
     THEN halted' = TRUE /\ UNCHANGED budget
     ELSE /\ budget' = [budget EXCEPT !.consumed = WrappingAdd(@, extra)]
          /\ UNCHANGED halted
  /\ charged' = charged + extra
  /\ UNCHANGED <<grade, spent>>

\* Graded::consume.
Consume(g) ==
  /\ ~halted
  /\ spent.epsilon + g.epsilon <= SpendCap /\ spent.delta + g.delta <= SpendCap
  /\ grade' = AddGrade(grade, g)
  /\ spent' = [epsilon |-> spent.epsilon + g.epsilon, delta |-> spent.delta + g.delta]
  /\ UNCHANGED <<budget, halted, charged>>

\* Graded::counit gives the value up only at grade zero, within_budget compares.
Counit == grade = ZERO
WithinBudget == Leq(grade, Ceiling)

\* FailureBudget::zero and Graded::pure.
Init ==
  /\ budget = [maxFaults |-> MaxFaults, fairDelivery |-> TRUE, consumed |-> 0]
  /\ halted = FALSE
  /\ grade = ZERO
  /\ charged = 0
  /\ spent = ZERO

Next ==
  \/ \E extra \in 1..MaxU32 : Charge(extra)
  \/ \E g \in Grade : Consume(g)

Spec == Init /\ [][Next]_vars

-----------------------------------------------------------------------------
\* The grade is a grade and the failure budget a u32.
TypeOK ==
  /\ budget \in [maxFaults : {MaxFaults}, fairDelivery : {TRUE}, consumed : 0..MaxU32]
  /\ halted \in BOOLEAN
  /\ grade \in Grade
  /\ charged \in Nat
  /\ spent \in [epsilon : Nat, delta : Nat]

Cut(x) == IF x > MaxU64 THEN MaxU64 ELSE x

\* The grade is the true sum of what was consumed, cut at the type's maximum
\* (obligation.rs: sequential composition, never wrapping).
GradeIsTrueSum == grade = [epsilon |-> Cut(spent.epsilon), delta |-> Cut(spent.delta)]

\* A value whose ceiling lies below the type's maximum and that overspent it is
\* refused for good, and counit releases only what never consumed anything.
OverspendingIsPermanent ==
  [][/\ ~WithinBudget => ~WithinBudget'
     /\ Counit' => spent' = ZERO]_vars

\* A debug build never reports a contract as kept that the charges exceeded:
\* the panic comes before the wrap.
CheckedBuildKeepsContract == WithinContract(budget) /\ ~halted => charged <= MaxFaults

\* NOT a property of the release build: rsm.rs calls the charge monotone and
\* saturating like the DP grade, but u32 `+` wraps.
ChargesAreMonotone == [][budget'.consumed >= budget.consumed]_vars
=============================================================================
