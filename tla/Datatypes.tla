------------------------------ MODULE Datatypes ------------------------------
(***************************************************************************)
(* The values of the Rust types behind a proof term, as the parts of a set *)
(* of terms: what a field of a variant may hold, and how deep values nest. *)
(***************************************************************************)
EXTENDS Syntax

\* 2^8, 2^32 and 2^64: u8, u32 and u64 hold the integers below them.
\* Every tag of the wire format is a u64.
CONSTANTS W8, W32, W64

ASSUME WidthAssumption ==
  {W8, W32, W64} \subseteq Nat \ {0} /\ W8 <= W32 /\ W32 <= W64 /\ 25 < W64

CONSTANTS Universe(_),  \* the values considered of each enum and struct
          Size(_, _)    \* how large such a value is

\* The variants of each type and the kinds of their fields.
Variants ==
  [principal |-> PrincipalFields, obligation |-> ObligationFields, prop |-> PropFields,
   term |-> TermFields, budget |-> DpBudgetFields, signature |-> SignatureFields]

\* What a field of a kind holds.  Names, keys and signatures are plain values.
HasKind(kind, v) ==
  CASE kind = "u8" -> v \in 0..(W8 - 1)
    [] kind = "u32" -> v \in 0..(W32 - 1)
    [] kind \in {"u64", "time"} -> v \in 0..(W64 - 1)
    [] kind = "label" -> v \in Seq(0..(W32 - 1))
    [] kind \in {"pid", "bytes"} -> TRUE
    [] OTHER -> v \in Universe(kind)

\* Every value is a variant of its type, with fields of their kinds that are
\* smaller: the parts of a value considered are considered, and nest finitely.
ASSUME UniverseAssumption ==
  \A kind \in DOMAIN Variants : \A v \in Universe(kind) :
    /\ Size(kind, v) \in Nat
    /\ v[1] \in DOMAIN Variants[kind]
    /\ LET kinds == Variants[kind][v[1]]
       IN  /\ v = <<v[1]>> \o [i \in DOMAIN kinds |-> v[i + 1]]
           /\ \A i \in DOMAIN kinds :
                /\ HasKind(kinds[i], v[i + 1])
                /\ kinds[i] \in DOMAIN Variants => Size(kinds[i], v[i + 1]) < Size(kind, v)
=============================================================================
