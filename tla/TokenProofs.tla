----------------------------- MODULE TokenProofs -----------------------------
(***************************************************************************)
(* Proofs about Token, for terms of any depth: the wire format undoes      *)
(* itself; what a relying party accepts; substitution captures nothing;    *)
(* what a step does to the free variables, to the constructors and to the  *)
(* signatures of a term; progress; and its type: weakening and subject     *)
(* reduction.                                                              *)
(***************************************************************************)
EXTENDS Token, SequenceTheorems, NaturalsInduction, WellFoundedInduction, TLAPS

\* Every set of naturals with a member has a least one.
LEMMA LeastNat ==
  ASSUME NEW T \in SUBSET Nat, T # {}
  PROVE  \E x \in T : \A y \in T : x <= y
<1>1. PICK R : R = {p \in Nat \X Nat : p[1] < p[2]}
  OBVIOUS
<1>2. IsWellFoundedOn(R, Nat)
  <2>1. OpToRel(<, Nat) = R
    BY <1>1 DEF OpToRel
  <2> QED BY <2>1, NatLessThanWellFounded
<1>3. \E x \in T : \A y \in T : ~(<<y, x>> \in R)
  <2> HIDE DEF IsWellFoundedOn
  <2> QED BY <1>2, WFMin
<1>4. PICK x \in T : \A y \in T : ~(<<y, x>> \in R)
  BY <1>3
<1>5. \A y \in T : ~(y < x)
  BY <1>1, <1>4
<1> QED BY <1>5

\* What a sequence holds anywhere.
LEMMA MemberOfSeq ==
  ASSUME NEW S, NEW s \in Seq(S), NEW i \in DOMAIN s
  PROVE  s[i] \in S
<1>1. DOMAIN s = 1..Len(s)
  BY LenProperties
<1> QED BY <1>1, ElementOfSeq

\* A sequence behind one more element.
LEMMA ConsProperties ==
  ASSUME NEW S, NEW x \in S, NEW s \in Seq(S)
  PROVE  /\ <<x>> \o s \in Seq(S)
         /\ Len(<<x>> \o s) = Len(s) + 1
         /\ <<x>> \o s # << >>
         /\ Head(<<x>> \o s) = x /\ (<<x>> \o s)[1] = x
         /\ Tail(<<x>> \o s) = s
         /\ \A i \in 1..Len(s) : (<<x>> \o s)[i + 1] = s[i]
  OBVIOUS

\* A finite sequence given by its members.
LEMMA SeqOfMembers ==
  ASSUME NEW S, NEW s, NEW k \in Nat, s = [i \in 1..k |-> s[i]], \A i \in 1..k : s[i] \in S
  PROVE  s \in Seq(S) /\ Len(s) = k
  OBVIOUS

-----------------------------------------------------------------------------
(* The tables of variants and tags. *)

Types == {"principal", "obligation", "prop", "term", "budget", "signature"}
FieldKinds ==
  {"u8", "u32", "u64", "time", "pid", "bytes", "label",
   "principal", "obligation", "prop", "term", "budget", "signature"}

\* The types of values are those with a table of variants.
LEMMA TypesHaveVariants == DOMAIN Variants = Types
  BY DEF Variants, Types

\* After the tag that the encoder writes for a variant, the decoder reads that variant
\* and its fields, which are a sequence of kinds.
Agrees(reads, tags, fields, op) ==
  /\ fields[op] \in Seq(FieldKinds)
  /\ tags[op] \in 0..25
  /\ tags[op] < Len(reads)
  /\ reads[tags[op] + 1] = <<op>> \o fields[op]

\* The tables of principals agree.
LEMMA PrincipalTablesAgree == \A op \in DOMAIN PrincipalFields : Agrees(PrincipalReads, PrincipalTags, PrincipalFields, op)
<1> DEFINE A(op) == Agrees(PrincipalReads, PrincipalTags, PrincipalFields, op)
<1>1. A("Atom") /\ A("And") /\ A("Or") /\ A("Acting")
  BY DEF Agrees, FieldKinds, PrincipalTags, PrincipalReads, PrincipalFields
<1>2. DOMAIN PrincipalFields = {"Atom", "And", "Or", "Acting"}
  BY DEF PrincipalFields
<1> QED BY <1>1, <1>2

\* The tables of obligations agree.
LEMMA ObligationTablesAgree == \A op \in DOMAIN ObligationFields : Agrees(ObligationReads, ObligationTags, ObligationFields, op)
<1> DEFINE A(op) == Agrees(ObligationReads, ObligationTags, ObligationFields, op)
<1>1. A("Top") /\ A("Bot") /\ A("ActOf") /\ A("Within") /\ A("Tensor") /\ A("Lolli")
        /\ A("DpBudget")
  BY DEF Agrees, FieldKinds, ObligationTags, ObligationReads, ObligationFields
<1>2. DOMAIN ObligationFields =
        {"Top", "Bot", "ActOf", "Within", "Tensor", "Lolli", "DpBudget"}
  BY DEF ObligationFields
<1> QED BY <1>1, <1>2

\* The tables of propositions agree.
LEMMA PropTablesAgree == \A op \in DOMAIN PropFields : Agrees(PropReads, PropTags, PropFields, op)
<1> DEFINE A(op) == Agrees(PropReads, PropTags, PropFields, op)
<1>1. A("Top") /\ A("Bot") /\ A("Atom") /\ A("Imp") /\ A("And") /\ A("Or") /\ A("Says")
  BY DEF Agrees, FieldKinds, PropTags, PropReads, PropFields
<1>2. A("SpeaksFor") /\ A("At") /\ A("Boxed") /\ A("Within") /\ A("Tensor") /\ A("Lolli")
        /\ A("Replicated")
  BY DEF Agrees, FieldKinds, PropTags, PropReads, PropFields
<1>3. DOMAIN PropFields =
        {"Top", "Bot", "Atom", "Imp", "And", "Or", "Says", "SpeaksFor", "At", "Boxed",
         "Within", "Tensor", "Lolli", "Replicated"}
  BY DEF PropFields
<1> QED BY <1>1, <1>2, <1>3

\* The tables of proof terms agree.
LEMMA TermTablesAgree == \A op \in DOMAIN TermFields : Agrees(TermReads, TermTags, TermFields, op)
<1> DEFINE A(op) == Agrees(TermReads, TermTags, TermFields, op)
<1>1. A("Var") /\ A("Lam") /\ A("App") /\ A("Sign") /\ A("Verify") /\ A("Delegate")
        /\ A("Attenuate")
  BY DEF Agrees, FieldKinds, TermTags, TermReads, TermFields
<1>2. A("SaysBind") /\ A("Boxed") /\ A("Discharge") /\ A("LiftLabel") /\ A("Declassify")
        /\ A("Now") /\ A("WithinIntro")
  BY DEF Agrees, FieldKinds, TermTags, TermReads, TermFields
<1>3. A("Pair") /\ A("Fst") /\ A("Snd") /\ A("Inl") /\ A("Inr") /\ A("Case")
  BY DEF Agrees, FieldKinds, TermTags, TermReads, TermFields
<1>4. A("TensorIntro") /\ A("LetTensor") /\ A("LetSays") /\ A("SfExtract") /\ A("Command")
        /\ A("RunCmd")
  BY DEF Agrees, FieldKinds, TermTags, TermReads, TermFields
<1>5. DOMAIN TermFields =
        {"Var", "Lam", "App", "Sign", "Verify", "Delegate", "Attenuate", "SaysBind", "Boxed",
         "Discharge", "LiftLabel", "Declassify", "Now", "WithinIntro", "Pair", "Fst", "Snd",
         "Inl", "Inr", "Case", "TensorIntro", "LetTensor", "LetSays", "SfExtract", "Command",
         "RunCmd"}
  BY DEF TermFields
<1> QED BY <1>1, <1>2, <1>3, <1>4, <1>5

\* The two lists of tags of wire.rs agree on every variant of every enum.
THEOREM TagTablesAgree ==
  \A kind \in DOMAIN Tags : \A op \in DOMAIN Variants[kind] :
    Agrees(Reads[kind], Tags[kind], Variants[kind], op)
<1>1. DOMAIN Tags = {"principal", "obligation", "prop", "term"}
  BY DEF Tags
<1>2. /\ Variants["principal"] = PrincipalFields
      /\ Variants["obligation"] = ObligationFields
      /\ Variants["prop"] = PropFields
      /\ Variants["term"] = TermFields
  BY DEF Variants
<1>3. /\ Tags["principal"] = PrincipalTags /\ Reads["principal"] = PrincipalReads
      /\ Tags["obligation"] = ObligationTags /\ Reads["obligation"] = ObligationReads
      /\ Tags["prop"] = PropTags /\ Reads["prop"] = PropReads
      /\ Tags["term"] = TermTags /\ Reads["term"] = TermReads
  BY DEF Tags, Reads
<1> QED BY <1>1, <1>2, <1>3, PrincipalTablesAgree, ObligationTablesAgree, PropTablesAgree,
           TermTablesAgree

\* The fields of every variant of every type are a sequence of kinds.
LEMMA FieldsAreKinds ==
  \A kind \in Types : \A op \in DOMAIN Variants[kind] : Variants[kind][op] \in Seq(FieldKinds)
<1>1. \A op \in DOMAIN DpBudgetFields : DpBudgetFields[op] \in Seq(FieldKinds)
  <2>1. DpBudgetFields["DpBudget"] \in Seq(FieldKinds)
    BY DEF DpBudgetFields, FieldKinds
  <2> QED BY <2>1 DEF DpBudgetFields
<1>2. \A op \in DOMAIN SignatureFields : SignatureFields[op] \in Seq(FieldKinds)
  <2>1. SignatureFields["Signature"] \in Seq(FieldKinds)
    BY DEF SignatureFields, FieldKinds
  <2> QED BY <2>1 DEF SignatureFields
<1>3. /\ Variants["budget"] = DpBudgetFields
      /\ Variants["signature"] = SignatureFields
  BY DEF Variants
<1>4. \A kind \in DOMAIN Tags : \A op \in DOMAIN Variants[kind] :
        Variants[kind][op] \in Seq(FieldKinds)
  BY TagTablesAgree DEF Agrees
<1>5. Types = DOMAIN Tags \cup {"budget", "signature"}
  BY DEF Types, Tags
<1> QED BY <1>1, <1>2, <1>3, <1>4, <1>5

-----------------------------------------------------------------------------
(* Values: variants of their types, with fields of their kinds. *)

\* What the assumption on values gives for one of them.
LEMMA ValueIsNode ==
  ASSUME NEW kind \in Types, NEW v \in Universe(kind)
  PROVE  /\ Size(kind, v) \in Nat
         /\ v[1] \in DOMAIN Variants[kind]
         /\ Variants[kind][v[1]] \in Seq(FieldKinds)
         /\ v = <<v[1]>> \o [i \in DOMAIN Variants[kind][v[1]] |-> v[i + 1]]
<1>1. kind \in DOMAIN Variants
  BY TypesHaveVariants
<1>2. /\ Size(kind, v) \in Nat
      /\ v[1] \in DOMAIN Variants[kind]
      /\ v = <<v[1]>> \o [i \in DOMAIN Variants[kind][v[1]] |-> v[i + 1]]
  BY <1>1, UniverseAssumption
<1> QED BY <1>2, FieldsAreKinds

\* A field that is a value of a type is a smaller one.
LEMMA FieldIsSmaller ==
  ASSUME NEW kind \in Types, NEW v \in Universe(kind), NEW i \in DOMAIN Variants[kind][v[1]]
  PROVE  /\ HasKind(Variants[kind][v[1]][i], v[i + 1])
         /\ Variants[kind][v[1]][i] \in Types =>
              Size(Variants[kind][v[1]][i], v[i + 1]) < Size(kind, v)
  BY TypesHaveVariants, UniverseAssumption

\* Values of a type: the case of HasKind for the kinds that are types.
LEMMA TypedFieldIsValue ==
  ASSUME NEW kind \in Types, NEW v, HasKind(kind, v)
  PROVE  v \in Universe(kind)
  BY DEF HasKind, Types

\* Induction on values: what some value lacks, a smallest one lacks.
LEMMA SmallestValue ==
  ASSUME NEW Bad, NEW kind \in Types, NEW v \in Universe(kind), <<kind, v>> \in Bad
  PROVE  \E k \in Types : \E u \in Universe(k) :
           /\ <<k, u>> \in Bad
           /\ \A m \in Types : \A w \in Universe(m) : Size(m, w) < Size(k, u) => <<m, w>> \notin Bad
<1> DEFINE Sizes == {s \in Nat : \E k \in Types : \E u \in Universe(k) :
                                   <<k, u>> \in Bad /\ s = Size(k, u)}
<1>1. Size(kind, v) \in Sizes
  BY ValueIsNode
<1>2. PICK s \in Sizes : \A r \in Sizes : s <= r
  <2> HIDE DEF Sizes
  <2>1. Sizes \in SUBSET Nat /\ Sizes # {}
    BY <1>1 DEF Sizes
  <2> QED BY <2>1, LeastNat
<1>3. PICK k \in Types : \E u \in Universe(k) : <<k, u>> \in Bad /\ s = Size(k, u)
  BY <1>2
<1>4. PICK u \in Universe(k) : <<k, u>> \in Bad /\ s = Size(k, u)
  BY <1>3
<1>5. ASSUME NEW m \in Types, NEW w \in Universe(m), Size(m, w) < Size(k, u), <<m, w>> \in Bad
      PROVE  FALSE
  <2>1. Size(m, w) \in Sizes
    BY <1>5, ValueIsNode
  <2>2. s <= Size(m, w)
    BY <2>1, <1>2
  <2>3. s \in Nat /\ Size(m, w) \in Nat
    BY <1>2, ValueIsNode
  <2> QED BY <2>2, <2>3, <1>4, <1>5
<1> QED BY <1>4, <1>5

-----------------------------------------------------------------------------
(* The wire format. *)

\* Results that are all Ok are collected behind the head.
LEMMA CollectOk ==
  ASSUME NEW head, NEW values, NEW results,
         DOMAIN results = DOMAIN values,
         \A i \in DOMAIN values : results[i] = Ok(values[i])
  PROVE  Collect(head, results) = Ok(head \o [i \in DOMAIN values |-> values[i]])
<1>1. \A i \in DOMAIN results : results[i][1] = "ok" /\ results[i][2] = values[i]
  BY DEF Ok
<1>2. {i \in DOMAIN results : results[i][1] # "ok"} = {}
  BY <1>1
<1>3. [i \in DOMAIN results |-> results[i][2]] = [i \in DOMAIN values |-> values[i]]
  BY <1>1
<1> QED BY <1>2, <1>3 DEF Collect

\* An integer that fits its width survives being narrowed to it.
LEMMA NarrowFits ==
  /\ \A i \in 0..(W8 - 1) : Narrow("u8", i) = i
  /\ \A i \in 0..(W32 - 1) : Narrow("u32", i) = i
  /\ \A i \in 0..(W64 - 1) : Narrow("u64", i) = i /\ Narrow("time", i) = i
<1>1. /\ W8 \in Nat \ {0} /\ W32 \in Nat \ {0} /\ W64 \in Nat \ {0}
      /\ W8 <= W32 /\ W32 <= W64
  BY WidthAssumption
<1>2. ASSUME NEW w \in Nat \ {0}, NEW i \in 0..(w - 1) PROVE i % w = i
  BY <1>2
<1>3. \A i \in 0..(W8 - 1) : (i % W32) % W8 = i
  <2> TAKE i \in 0..(W8 - 1)
  <2>1. i \in 0..(W32 - 1)
    BY <1>1
  <2>2. i % W32 = i
    BY <1>1, <1>2, <2>1
  <2>3. i % W8 = i
    BY <1>1, <1>2
  <2> QED BY <2>2, <2>3
<1>4. \A i \in 0..(W32 - 1) : i % W32 = i
  BY <1>1, <1>2
<1>5. \A i \in 0..(W64 - 1) : i % W64 = i
  BY <1>1, <1>2
<1> QED BY <1>3, <1>4, <1>5 DEF Narrow

\* A value is read back from what it is written as.
RoundTrips(kind, v) == Dec(kind, Enc(kind, v)) = Ok(v)

\* A field is read back when the values among the fields are.
LEMMA FieldRoundTrips ==
  ASSUME NEW kind \in FieldKinds, NEW v, HasKind(kind, v), kind \in Types => RoundTrips(kind, v)
  PROVE  DecField(kind, EncField(kind, v)) = Ok(v)
<1>1. CASE kind \in {"u8", "u32", "u64", "time"}
  <2>1. Narrow(kind, v) = v
    BY <1>1, NarrowFits DEF HasKind
  <2>2. EncField(kind, v) = CborInt(v)
    BY <1>1 DEF EncField
  <2>3. DecField(kind, CborInt(v)) = Ok(Narrow(kind, v))
    BY <1>1 DEF DecField, DecInt, CborInt
  <2> QED BY <2>1, <2>2, <2>3
<1>2. CASE kind \in {"pid", "bytes"}
  BY <1>2 DEF EncField, DecField, Bytes
<1>3. CASE kind = "label"
  <2>1. v \in Seq(0..(W32 - 1))
    BY <1>3 DEF HasKind
  <2> DEFINE items == [i \in DOMAIN v |-> CborInt(v[i])]
             results == [i \in DOMAIN items |-> DecInt("u32", items[i])]
  <2>2. EncField(kind, v) = Arr(items)
    BY <1>3 DEF EncField
  <2>3. DecField(kind, Arr(items)) = Collect(<< >>, results)
    BY <1>3 DEF DecField, Arr
  <2>4. \A i \in DOMAIN v : results[i] = Ok(v[i])
    <3> TAKE i \in DOMAIN v
    <3>1. v[i] \in 0..(W32 - 1)
      BY <2>1, MemberOfSeq
    <3> QED BY <3>1, NarrowFits DEF DecInt, CborInt
  <2>5. Collect(<< >>, results) = Ok(<< >> \o [i \in DOMAIN v |-> v[i]])
    <3> HIDE DEF results
    <3>1. DOMAIN results = DOMAIN v
      BY DEF results
    <3> QED BY <2>4, <3>1, CollectOk
  <2>6. << >> \o [i \in DOMAIN v |-> v[i]] = v
    BY <2>1
  <2> QED BY <2>2, <2>3, <2>5, <2>6
<1>4. CASE kind \in Types
  BY <1>4 DEF EncField, DecField, Types, RoundTrips
<1> QED BY <1>1, <1>2, <1>3, <1>4 DEF FieldKinds, Types

\* The fields of a value, decoded from where they were encoded.
LEMMA FieldsRoundTrip ==
  ASSUME NEW kind \in Types, NEW v \in Universe(kind), NEW items, NEW from \in Nat,
         \A i \in DOMAIN Variants[kind][v[1]] :
           Variants[kind][v[1]][i] \in Types => RoundTrips(Variants[kind][v[1]][i], v[i + 1]),
         \A i \in DOMAIN Variants[kind][v[1]] :
           /\ from + i <= Len(items) /\ Len(items) \in Nat
           /\ items[from + i] = EncField(Variants[kind][v[1]][i], v[i + 1])
  PROVE  DecFields(<<v[1]>>, Variants[kind][v[1]], items, from) = Ok(v)
<1> DEFINE kinds == Variants[kind][v[1]]
           Result(i) == IF from + i > Len(items) THEN Panic ELSE DecField(kinds[i], items[from + i])
           results == [i \in DOMAIN kinds |-> Result(i)]
           values == [i \in DOMAIN kinds |-> v[i + 1]]
<1>1. kinds \in Seq(FieldKinds) /\ v = <<v[1]>> \o values
  BY ValueIsNode
<1>2. ASSUME NEW i \in DOMAIN kinds PROVE Result(i) = Ok(v[i + 1])
  <2>1. kinds[i] \in FieldKinds
    BY <1>1, MemberOfSeq
  <2>2. HasKind(kinds[i], v[i + 1])
    BY FieldIsSmaller
  <2>3. DecField(kinds[i], EncField(kinds[i], v[i + 1])) = Ok(v[i + 1])
    BY <2>1, <2>2, FieldRoundTrips
  <2>4. i \in Nat
    BY <1>1, LenProperties
  <2>5. from + i <= Len(items) /\ Len(items) \in Nat
    OBVIOUS
  <2>6. ~(from + i > Len(items))
    BY <2>4, <2>5
  <2> QED BY <2>3, <2>6
<1>3. Collect(<<v[1]>>, results) = Ok(<<v[1]>> \o [i \in DOMAIN values |-> values[i]])
  <2>1. DOMAIN results = DOMAIN values /\ \A i \in DOMAIN values : results[i] = Ok(values[i])
    <3> HIDE DEF Result
    <3> QED BY <1>2
  <2> HIDE DEF results, values
  <2> QED BY <2>1, CollectOk
<1>4. [i \in DOMAIN values |-> values[i]] = values
  OBVIOUS
<1>5. DecFields(<<v[1]>>, kinds, items, from) = Collect(<<v[1]>>, results)
  BY DEF DecFields
<1> QED BY <1>1, <1>3, <1>4, <1>5

\* A value is read back when the values among its fields are: one level of
\* enc_term and dec_term.
LEMMA NodeRoundTrips ==
  ASSUME NEW kind \in Types, NEW v \in Universe(kind),
         \A i \in DOMAIN Variants[kind][v[1]] :
           Variants[kind][v[1]][i] \in Types => RoundTrips(Variants[kind][v[1]][i], v[i + 1])
  PROVE  RoundTrips(kind, v)
<1> DEFINE op == v[1]
           kinds == Variants[kind][op]
           fields == [i \in DOMAIN kinds |-> EncField(kinds[i], v[i + 1])]
           Encoded == {fields[i] : i \in DOMAIN kinds}
<1>1. op \in DOMAIN Variants[kind] /\ kinds \in Seq(FieldKinds)
  BY ValueIsNode
<1>2. DOMAIN kinds = 1..Len(kinds) /\ Len(kinds) \in Nat
  BY <1>1, LenProperties
<1>3. Dec(kind, Enc(kind, v)) = DecRule(kind, EncRule(kind, v))
  BY CodecAssumption, TypesHaveVariants
<1>4. fields = [i \in 1..Len(kinds) |-> fields[i]] /\ \A i \in 1..Len(kinds) : fields[i] \in Encoded
  BY <1>2
<1>5. \A i \in DOMAIN kinds : fields[i] = EncField(kinds[i], v[i + 1])
  OBVIOUS
<1>6. CASE kind \in DOMAIN Tags
  <2> DEFINE tag == Tags[kind][op]
             head == CborInt(tag)
             items == <<head>> \o fields
  <2>1. Agrees(Reads[kind], Tags[kind], Variants[kind], op)
    BY <1>1, <1>6, TagTablesAgree
  <2>2. EncRule(kind, v) = Arr(items)
    BY <1>6 DEF EncRule
  <2>3. kind \notin {"budget", "signature"}
    BY <1>6 DEF Tags
  <2>4. DecRule(kind, Arr(items)) = DecTagged(Reads[kind], items)
    BY <2>3 DEF DecRule, Arr
  <2>5. /\ Len(items) = Len(kinds) + 1 /\ items # << >> /\ items[1] = head
        /\ \A i \in 1..Len(kinds) : items[i + 1] = fields[i]
    <3> DEFINE S == Encoded \cup {head}
    <3>1. fields \in Seq(S) /\ Len(fields) = Len(kinds)
      <4> HIDE DEF fields
      <4> QED BY <1>2, <1>4, SeqOfMembers
    <3>2. head \in S
      OBVIOUS
    <3> HIDE DEF S, fields, head
    <3> QED BY <3>1, <3>2, ConsProperties
  <2>6. Narrow("u64", tag) = tag
    <3>1. tag \in 0..25
      BY <2>1 DEF Agrees
    <3>2. W64 \in Nat /\ 25 < W64
      BY WidthAssumption
    <3>3. tag \in 0..(W64 - 1)
      BY <3>1, <3>2
    <3> QED BY <3>3, NarrowFits
  <2>7. items[1][1] = "int" /\ items[1][2] = tag
    BY <2>5 DEF CborInt
  <2>8. Head(Reads[kind][tag + 1]) = op /\ Tail(Reads[kind][tag + 1]) = kinds
    <3> DEFINE S == FieldKinds \cup {op}
    <3>1. kinds \in Seq(S)
      BY <1>1, SeqMonotonic
    <3>2. op \in S
      OBVIOUS
    <3>3. Reads[kind][tag + 1] = <<op>> \o kinds
      BY <2>1 DEF Agrees
    <3> HIDE DEF S, kinds, op
    <3> QED BY <3>1, <3>2, <3>3, ConsProperties
  <2>9. tag < Len(Reads[kind])
    BY <2>1 DEF Agrees
  <2>10. DecTagged(Reads[kind], items) = DecFields(<<op>>, kinds, items, 1)
    <3> HIDE DEF items, kinds, op, tag
    <3> QED BY <2>5, <2>6, <2>7, <2>8, <2>9 DEF DecTagged
  <2>11. DecFields(<<op>>, kinds, items, 1) = Ok(v)
    <3>1. \A i \in DOMAIN kinds :
            /\ 1 + i <= Len(items) /\ Len(items) \in Nat
            /\ items[1 + i] = EncField(kinds[i], v[i + 1])
      <4> TAKE i \in DOMAIN kinds
      <4>1. i \in 1..Len(kinds) /\ i + 1 = 1 + i
        BY <1>2
      <4>2. items[i + 1] = EncField(kinds[i], v[i + 1])
        BY <2>5, <1>5, <4>1
      <4>3. 1 + i <= Len(items) /\ Len(items) \in Nat
        BY <2>5, <1>2, <4>1
      <4> QED BY <4>1, <4>2, <4>3
    <3> HIDE DEF items
    <3> QED BY <3>1, FieldsRoundTrip
  <2> QED BY <1>3, <2>2, <2>4, <2>10, <2>11 DEF RoundTrips
<1>7. CASE kind \in {"budget", "signature"}
  <2>1. EncRule(kind, v) = Arr(fields)
    <3>1. kind \notin DOMAIN Tags
      BY <1>7 DEF Tags
    <3>2. << >> \o fields = fields
      <4>1. fields \in Seq(Encoded)
        <5> HIDE DEF fields
        <5> QED BY <1>2, <1>4, SeqOfMembers
      <4> QED BY <4>1, ConcatEmptySeq
    <3> QED BY <3>1, <3>2 DEF EncRule
  <2>2. Len(fields) = Len(kinds)
    <3> HIDE DEF fields
    <3> QED BY <1>2, <1>4, SeqOfMembers
  <2>3. DecRule(kind, Arr(fields)) = DecFields(<<op>>, kinds, fields, 0)
    <3>1. CASE kind = "budget"
      <4>1. Variants[kind] = DpBudgetFields
        BY <3>1 DEF Variants
      <4>2. op = "DpBudget" /\ kinds = <<"u64", "u64">>
        <5> HIDE DEF op
        <5> QED BY <4>1, <1>1 DEF DpBudgetFields
      <4> HIDE DEF fields, kinds, op
      <4> QED BY <3>1, <4>2 DEF DecRule, Arr
    <3>2. CASE kind = "signature"
      <4>1. Variants[kind] = SignatureFields
        BY <3>2 DEF Variants
      <4>2. op = "Signature" /\ kinds = <<"u8", "bytes">>
        <5> HIDE DEF op
        <5> QED BY <4>1, <1>1 DEF SignatureFields
      <4> HIDE DEF fields, kinds, op
      <4> QED BY <3>2, <4>2 DEF DecRule, Arr
    <3> QED BY <1>7, <3>1, <3>2
  <2>4. DecFields(<<op>>, kinds, fields, 0) = Ok(v)
    <3>1. \A i \in DOMAIN kinds :
            /\ 0 + i <= Len(fields) /\ Len(fields) \in Nat
            /\ fields[0 + i] = EncField(kinds[i], v[i + 1])
      <4> TAKE i \in DOMAIN kinds
      <4>1. i \in 1..Len(kinds) /\ 0 + i = i
        BY <1>2
      <4> QED BY <4>1, <1>2, <1>5, <2>2
    <3> HIDE DEF fields
    <3> QED BY <3>1, FieldsRoundTrip
  <2> QED BY <1>3, <2>1, <2>3, <2>4 DEF RoundTrips
<1> QED BY <1>6, <1>7 DEF Types, Tags

\* decode undoes encode, on a value of any type and of any depth (wire.rs: "the
\* round-trip property").
THEOREM ValuesRoundTrip ==
  \A kind \in Types : \A v \in Universe(kind) : Dec(kind, Enc(kind, v)) = Ok(v)
<1> DEFINE Bad == {b \in UNION {{k} \X Universe(k) : k \in Types} : ~RoundTrips(b[1], b[2])}
<1>1. SUFFICES ASSUME NEW kind \in Types, NEW v \in Universe(kind), ~RoundTrips(kind, v)
               PROVE  FALSE
  BY DEF RoundTrips
<1>2. \A k \in Types : \A u \in Universe(k) : <<k, u>> \in Bad <=> ~RoundTrips(k, u)
  OBVIOUS
<1>3. <<kind, v>> \in Bad
  BY <1>1, <1>2
<1>4. PICK k \in Types : \E u \in Universe(k) :
             /\ <<k, u>> \in Bad
             /\ \A m \in Types : \A w \in Universe(m) : Size(m, w) < Size(k, u) => <<m, w>> \notin Bad
  <2> HIDE DEF Bad
  <2> QED BY <1>3, SmallestValue
<1>5. PICK u \in Universe(k) :
             /\ <<k, u>> \in Bad
             /\ \A m \in Types : \A w \in Universe(m) : Size(m, w) < Size(k, u) => <<m, w>> \notin Bad
  BY <1>4
<1>6. ASSUME NEW i \in DOMAIN Variants[k][u[1]], Variants[k][u[1]][i] \in Types
      PROVE  RoundTrips(Variants[k][u[1]][i], u[i + 1])
  <2>1. u[i + 1] \in Universe(Variants[k][u[1]][i])
    BY <1>6, FieldIsSmaller, TypedFieldIsValue
  <2>2. Size(Variants[k][u[1]][i], u[i + 1]) < Size(k, u)
    BY <1>6, FieldIsSmaller
  <2> HIDE DEF Bad
  <2> QED BY <1>2, <1>5, <1>6, <2>1, <2>2
<1>7. RoundTrips(k, u)
  BY <1>6, NodeRoundTrips
<1> HIDE DEF Bad
<1> QED BY <1>2, <1>5, <1>7

\* A keyring is read back: its rows pass the length and range checks.
LEMMA KeyringRoundTrips ==
  ASSUME NEW k \in Keyrings
  PROVE  DecodeKeyring(EncodeKeyring(k)) = Ok(k)
<1> DEFINE Rows == [principal : {k[i].principal : i \in DOMAIN k}, alg : 0..(W8 - 1),
                    public_key : {k[i].public_key : i \in DOMAIN k}]
           Row(i) == Arr(<<Bytes(k[i].principal), CborInt(k[i].alg), Bytes(k[i].public_key)>>)
           items == [i \in DOMAIN k |-> Row(i)]
           Read(i) == [principal |-> items[i][2][1][2], alg |-> items[i][2][2][2],
                       public_key |-> items[i][2][3][2]]
<1>1. k \in Seq(Rows)
  BY RelyingPartyAssumption
<1>2. \A i \in DOMAIN k : k[i] \in Rows
  <2> HIDE DEF Rows
  <2> QED BY <1>1, MemberOfSeq
<1>3. ASSUME NEW i \in DOMAIN k
      PROVE  /\ items[i][1] = "arr" /\ Len(items[i][2]) = 3
             /\ items[i][2][1][1] = "bytes" /\ items[i][2][2][1] = "int"
             /\ items[i][2][3][1] = "bytes"
             /\ items[i][2][1][2] = k[i].principal
             /\ items[i][2][2][2] = k[i].alg
             /\ items[i][2][3][2] = k[i].public_key
  BY DEF Arr, Bytes, CborInt
<1>4. \A i \in DOMAIN k : items[i][2][2][2] \in 0..(W8 - 1)
  BY <1>2, <1>3
<1>5. \A i \in DOMAIN k : Read(i) = k[i]
  BY <1>2, <1>3
<1>6. [i \in DOMAIN items |-> Read(i)] = k
  <2>1. k = [i \in DOMAIN k |-> k[i]]
    <3> HIDE DEF Rows
    <3> QED BY <1>1
  <2>2. DOMAIN items = DOMAIN k
    OBVIOUS
  <2> HIDE DEF items, Read
  <2>3. DOMAIN items = DOMAIN k /\ \A i \in DOMAIN k : Read(i) = k[i]
    BY <2>2, <1>5
  <2> QED BY <2>1, <2>3
<1>7. EncodeKeyring(k) = <<"arr", items>>
  BY DEF EncodeKeyring, Arr
<1>8. DOMAIN items = DOMAIN k
  OBVIOUS
<1>9. DecodeKeyring(<<"arr", items>>) = Ok([i \in DOMAIN items |-> Read(i)])
  <2> HIDE DEF items
  <2> QED BY <1>3, <1>4, <1>8 DEF DecodeKeyring
<1> QED BY <1>6, <1>7, <1>9

-----------------------------------------------------------------------------
(* Reduction stays among the programs. *)

\* What is reduced is a program, reduced at most Fuel times.
ReducesPrograms ==
  /\ ctx \in Contexts /\ origin \in Programs /\ cur \in Programs
  /\ n \in 0..Fuel

\* reduce_with_fuel takes programs to programs and never runs past its fuel.
THEOREM ProgramsReduced == Spec => []ReducesPrograms
<1>1. Init => ReducesPrograms
  BY FuelAssumption DEF Init, ReducesPrograms
<1>2. ReducesPrograms /\ [Next]_vars => ReducesPrograms'
  <2> SUFFICES ASSUME ReducesPrograms, [Next]_vars PROVE ReducesPrograms'
    OBVIOUS
  <2>1. CASE Reduce
    BY <2>1, FuelAssumption, ProgramAssumption DEF Reduce, ReducesPrograms
  <2>2. CASE UNCHANGED vars
    BY <2>2 DEF vars, ReducesPrograms
  <2> QED BY <2>1, <2>2 DEF Next, Returned
<1> QED BY <1>1, <1>2, PTL DEF Spec

\* decode undoes encode on the term, on the type inferred for it and on keyrings,
\* whatever they are.
THEOREM WireFormatRoundTrips == Spec => []DecodeInvertsEncode
<1>1. ReducesPrograms => DecodeInvertsEncode
  <2> SUFFICES ASSUME ReducesPrograms PROVE DecodeInvertsEncode
    OBVIOUS
  <2>1. cur \in Universe("term")
    BY ProgramAssumption DEF ReducesPrograms
  <2>2. Decode(Encode(cur)) = Ok(cur)
    BY <2>1, ValuesRoundTrip DEF Decode, Encode, Types
  <2>3. ASSUME Infer(ctx, cur) # NoProp
        PROVE  DecodeProp(EncodeProp(Infer(ctx, cur))) = Ok(Infer(ctx, cur))
    <3>1. Infer(ctx, cur) \in Universe("prop")
      BY <2>3, TypeAssumption DEF ReducesPrograms
    <3> QED BY <3>1, ValuesRoundTrip DEF DecodeProp, EncodeProp, Types
  <2> QED BY <2>2, <2>3, KeyringRoundTrips DEF DecodeInvertsEncode
<1> QED BY <1>1, ProgramsReduced, PTL

-----------------------------------------------------------------------------
(* Terms and their subterms. *)

\* A term is as long as the table of its constructor says.
LEMMA TermLength ==
  ASSUME NEW t \in Universe("term")
  PROVE  /\ t[1] \in DOMAIN TermFields
         /\ Len(t) = Len(TermFields[t[1]]) + 1 /\ DOMAIN t = 1..Len(t)
         /\ TermFields[t[1]] \in Seq(FieldKinds)
<1> DEFINE kinds == TermFields[t[1]]
           fields == [i \in DOMAIN kinds |-> t[i + 1]]
           S == {t[1]} \cup {fields[i] : i \in DOMAIN kinds}
<1>1. /\ t[1] \in DOMAIN TermFields /\ kinds \in Seq(FieldKinds)
      /\ t = <<t[1]>> \o fields
  <2>1. "term" \in Types /\ Variants["term"] = TermFields
    BY DEF Types, Variants
  <2> QED BY <2>1, ValueIsNode
<1>2. DOMAIN kinds = 1..Len(kinds) /\ Len(kinds) \in Nat
  BY <1>1, LenProperties
<1>3. fields = [i \in 1..Len(kinds) |-> fields[i]] /\ \A i \in 1..Len(kinds) : fields[i] \in S
  BY <1>2
<1>4. fields \in Seq(S) /\ Len(fields) = Len(kinds)
  <2> HIDE DEF fields, S
  <2> QED BY <1>2, <1>3, SeqOfMembers
<1>5. t[1] \in S
  OBVIOUS
<1>6. /\ <<t[1]>> \o fields \in Seq(S)
      /\ Len(<<t[1]>> \o fields) = Len(kinds) + 1
  <2> HIDE DEF fields, S, kinds
  <2> QED BY <1>4, <1>5, ConsProperties
<1>7. DOMAIN t = 1..Len(t)
  <2> HIDE DEF fields, S, kinds
  <2> QED BY <1>1, <1>6, LenProperties
<1> QED BY <1>1, <1>6, <1>7

\* Where the subterms of each constructor are.
SubtermsOf(op) == {i \in 2..(Len(TermFields[op]) + 1) : TermFields[op][i - 1] = "term"}

\* The positions of the subterms depend on the constructor only.
LEMMA SubtermsByConstructor ==
  ASSUME NEW t \in Universe("term")
  PROVE  Subterms(t) = SubtermsOf(t[1])
  BY TermLength DEF Subterms, SubtermsOf

\* They are those of the arms of the traversals in subst.rs, check.rs and reduce.rs.
LEMMA SubtermTable ==
  /\ \A op \in {"Var", "Now"} : SubtermsOf(op) = {}
  /\ \A op \in {"Fst", "Snd", "SfExtract", "Attenuate"} : SubtermsOf(op) = {2}
  /\ \A op \in {"Lam", "Sign", "Verify", "LiftLabel", "WithinIntro", "Inl", "Inr"} :
       SubtermsOf(op) = {3}
  /\ \A op \in {"App", "Delegate", "Discharge", "Pair", "TensorIntro", "LetTensor", "Command",
                "RunCmd"} : SubtermsOf(op) = {2, 3}
  /\ \A op \in {"Boxed", "Declassify", "SaysBind", "LetSays"} : SubtermsOf(op) = {3, 4}
  /\ SubtermsOf("Case") = {2, 3, 4}
<1> USE DEF SubtermsOf, TermFields
<1>1. SubtermsOf("Var") = {} /\ SubtermsOf("Now") = {}
  OBVIOUS
<1>2. /\ SubtermsOf("Fst") = {2} /\ SubtermsOf("Snd") = {2}
      /\ SubtermsOf("SfExtract") = {2} /\ SubtermsOf("Attenuate") = {2}
  OBVIOUS
<1>3. /\ SubtermsOf("Lam") = {3} /\ SubtermsOf("Sign") = {3} /\ SubtermsOf("Verify") = {3}
      /\ SubtermsOf("LiftLabel") = {3} /\ SubtermsOf("WithinIntro") = {3}
      /\ SubtermsOf("Inl") = {3} /\ SubtermsOf("Inr") = {3}
  OBVIOUS
<1>4. /\ SubtermsOf("App") = {2, 3} /\ SubtermsOf("Delegate") = {2, 3}
      /\ SubtermsOf("Discharge") = {2, 3} /\ SubtermsOf("Pair") = {2, 3}
  OBVIOUS
<1>5. /\ SubtermsOf("TensorIntro") = {2, 3} /\ SubtermsOf("LetTensor") = {2, 3}
      /\ SubtermsOf("Command") = {2, 3} /\ SubtermsOf("RunCmd") = {2, 3}
  OBVIOUS
<1>6. /\ SubtermsOf("Boxed") = {3, 4} /\ SubtermsOf("Declassify") = {3, 4}
      /\ SubtermsOf("SaysBind") = {3, 4} /\ SubtermsOf("LetSays") = {3, 4}
  OBVIOUS
<1>7. SubtermsOf("Case") = {2, 3, 4}
  OBVIOUS
<1> HIDE DEF SubtermsOf, TermFields
<1> QED BY <1>1, <1>2, <1>3, <1>4, <1>5, <1>6, <1>7

\* The walk of check.rs descends into every subterm.
LEMMA WalkedAreSubterms ==
  ASSUME NEW t \in Universe("term")
  PROVE  Walked(t) = Subterms(t)
<1> DEFINE op == t[1]
<1>1. Subterms(t) = SubtermsOf(op) /\ op \in DOMAIN TermFields
  BY SubtermsByConstructor, TermLength
<1>2. CASE op \in {"Var", "Now"}
  <2>1. Walked(t) = {}
    BY <1>2 DEF Walked, Is
  <2>2. SubtermsOf(op) = {}
    BY <1>2, SubtermTable
  <2> QED BY <1>1, <2>1, <2>2
<1>3. CASE op \in {"Fst", "Snd", "SfExtract", "Attenuate"}
  <2>1. Walked(t) = {2}
    BY <1>3 DEF Walked, Is
  <2>2. SubtermsOf(op) = {2}
    BY <1>3, SubtermTable
  <2> QED BY <1>1, <2>1, <2>2
<1>4. CASE op \in {"Lam", "Sign", "Verify", "LiftLabel", "WithinIntro", "Inl", "Inr"}
  <2>1. Walked(t) = {3}
    BY <1>4 DEF Walked, Is
  <2>2. SubtermsOf(op) = {3}
    BY <1>4, SubtermTable
  <2> QED BY <1>1, <2>1, <2>2
<1>5. CASE op \in {"App", "Delegate", "Discharge", "Pair", "TensorIntro", "LetTensor", "Command",
                   "RunCmd"}
  <2>1. Walked(t) = {2, 3}
    BY <1>5 DEF Walked, Is
  <2>2. SubtermsOf(op) = {2, 3}
    BY <1>5, SubtermTable
  <2> QED BY <1>1, <2>1, <2>2
<1>6. CASE op \in {"Boxed", "Declassify", "SaysBind", "LetSays"}
  <2>1. Walked(t) = {3, 4}
    BY <1>6 DEF Walked, Is
  <2>2. SubtermsOf(op) = {3, 4}
    BY <1>6, SubtermTable
  <2> QED BY <1>1, <2>1, <2>2
<1>7. CASE op \in {"Case"}
  <2>1. Walked(t) = {2, 3, 4}
    BY <1>7 DEF Walked, Is
  <2>2. SubtermsOf(op) = {2, 3, 4}
    BY <1>7, SubtermTable
  <2> QED BY <1>1, <2>1, <2>2
<1> QED BY <1>1, <1>2, <1>3, <1>4, <1>5, <1>6, <1>7 DEF TermFields

\* A subterm is a smaller term.
LEMMA SubtermIsSmaller ==
  ASSUME NEW t \in Universe("term"), NEW i \in Subterms(t)
  PROVE  /\ t[i] \in Universe("term")
         /\ Size("term", t) \in Nat /\ Size("term", t[i]) \in Nat
         /\ Size("term", t[i]) < Size("term", t)
         /\ i \in 2..Len(t)
<1> DEFINE kinds == TermFields[t[1]]
<1>1. "term" \in Types /\ Variants["term"] = TermFields
  BY DEF Types, Variants
<1>2. i \in 2..Len(t) /\ kinds[i - 1] = "term"
  BY DEF Subterms
<1>3. i - 1 \in DOMAIN kinds /\ (i - 1) + 1 = i
  <2>1. DOMAIN kinds = 1..Len(kinds) /\ Len(kinds) \in Nat
    BY TermLength, LenProperties
  <2>2. Len(t) = Len(kinds) + 1
    BY TermLength
  <2> HIDE DEF kinds
  <2> QED BY <1>2, <2>1, <2>2
<1>4. HasKind("term", t[i]) /\ Size("term", t[i]) < Size("term", t)
  <2> HIDE DEF kinds
  <2> QED BY <1>1, <1>2, <1>3, FieldIsSmaller DEF kinds
<1>5. t[i] \in Universe("term")
  BY <1>1, <1>4, TypedFieldIsValue
<1> QED BY <1>1, <1>2, <1>4, <1>5, ValueIsNode

\* Induction on terms: of the terms that lack something, one has no subterm that does.
LEMMA SmallestTerm ==
  ASSUME NEW Bad, NEW t \in Universe("term"), t \in Bad
  PROVE  \E u \in Universe("term") : u \in Bad /\ \A i \in Subterms(u) : u[i] \notin Bad
<1> DEFINE Sizes == {Size("term", u) : u \in Bad \cap Universe("term")}
<1>1. "term" \in Types
  BY DEF Types
<1>2. Sizes \in SUBSET Nat /\ Sizes # {}
  BY <1>1, ValueIsNode
<1>3. PICK s \in Sizes : \A r \in Sizes : s <= r
  <2> HIDE DEF Sizes
  <2> QED BY <1>2, LeastNat
<1>4. PICK u \in Bad \cap Universe("term") : s = Size("term", u)
  BY <1>3
<1>5. ASSUME NEW i \in Subterms(u), u[i] \in Bad PROVE FALSE
  <2>1. u[i] \in Bad \cap Universe("term") /\ Size("term", u[i]) < Size("term", u)
    BY <1>5, SubtermIsSmaller
  <2>2. Size("term", u[i]) \in Sizes
    BY <2>1
  <2>3. s <= Size("term", u[i])
    BY <2>2, <1>3
  <2>4. s \in Nat /\ Size("term", u[i]) \in Nat
    BY <1>4, SubtermIsSmaller, <1>5
  <2> QED BY <2>1, <2>3, <2>4, <1>4
<1> QED BY <1>4, <1>5

-----------------------------------------------------------------------------
(* What a relying party accepts. *)

\* The row check.rs finds is the row of the key: both are the first of the principal.
LEMMA FirstRowHoldsKey ==
  ASSUME NEW k \in Keyrings, NEW pid
  PROVE  KeyOf(k, pid) = {k[i] : i \in FirstRow(k, pid)}
<1> DEFINE rows == {i \in DOMAIN k : k[i].principal = pid}
<1>1. DOMAIN k = 1..Len(k) /\ Len(k) \in Nat
  BY RelyingPartyAssumption, LenProperties
<1>2. CASE rows = {}
  <2>1. FirstRow(k, pid) = {}
    BY <1>2 DEF FirstRow
  <2> QED BY <1>2, <2>1 DEF KeyOf
<1>3. CASE rows # {}
  <2>1. rows \in SUBSET Nat
    BY <1>1
  <2>2. PICK m \in rows : \A j \in rows : m <= j
    <3> HIDE DEF rows
    <3> QED BY <1>3, <2>1, LeastNat
  <2>3. \A i \in rows : (\A j \in rows : i <= j) => i = m
    BY <2>1, <2>2
  <2>4. (CHOOSE i \in rows : \A j \in rows : i <= j) = m
    <3> HIDE DEF rows
    <3> QED BY <2>2, <2>3
  <2>5. FirstRow(k, pid) = {m}
    <3>1. m \in FirstRow(k, pid)
      BY <1>1, <2>2 DEF FirstRow
    <3>2. ASSUME NEW i \in FirstRow(k, pid) PROVE i = m
      <4>1. i \in rows /\ \A j \in 1..(i - 1) : k[j].principal # pid
        BY DEF FirstRow
      <4>2. \A j \in rows : ~(j < i)
        BY <1>1, <4>1
      <4>3. \A j \in rows : i <= j
        BY <2>1, <4>1, <4>2
      <4> QED BY <4>1, <4>3, <2>3
    <3> QED BY <3>1, <3>2
  <2>6. KeyOf(k, pid) = {k[m]}
    BY <1>3, <2>4 DEF KeyOf
  <2> QED BY <2>5, <2>6
<1> QED BY <1>2, <1>3

\* A signature is an algorithm and bytes.
LEMMA SignatureIsPair ==
  ASSUME NEW s \in Universe("signature")
  PROVE  s = <<"Signature", s[2], s[3]>>
<1> DEFINE kinds == Variants["signature"][s[1]]
<1>1. Variants["signature"] = SignatureFields /\ "signature" \in Types
  BY DEF Variants, Types
<1>2. s[1] \in DOMAIN SignatureFields /\ s = <<s[1]>> \o [i \in DOMAIN kinds |-> s[i + 1]]
  BY <1>1, ValueIsNode
<1>3. s[1] = "Signature" /\ kinds = <<"u8", "bytes">>
  BY <1>1, <1>2 DEF SignatureFields
<1>4. [i \in DOMAIN kinds |-> s[i + 1]] = <<s[2], s[3]>>
  <2> HIDE DEF kinds
  <2>1. DOMAIN kinds = 1..2
    BY <1>3
  <2> QED BY <2>1
<1>5. s = <<"Signature">> \o <<s[2], s[3]>>
  BY <1>2, <1>3, <1>4
<1>6. ASSUME NEW a, NEW x, NEW y PROVE <<a>> \o <<x, y>> = <<a, x, y>>
  <2> DEFINE S == {a, x, y}
  <2>1. <<a>> \in Seq(S) /\ <<x, y>> \in Seq(S) /\ <<a, x, y>> \in Seq(S)
    OBVIOUS
  <2>2. <<a>> \o <<x, y>> \in Seq(S) /\ Len(<<a>> \o <<x, y>>) = 3
    <3> HIDE DEF S
    <3> QED BY <2>1, ConcatProperties
  <2>3. \A i \in 1..3 : (<<a>> \o <<x, y>>)[i] = <<a, x, y>>[i]
    OBVIOUS
  <2> HIDE DEF S
  <2> QED BY <2>1, <2>2, <2>3, SeqEqual
<1> QED BY <1>5, <1>6

\* The keyring check of a Sign node: its principal's key, over its proof.
LEMMA SignNodeCheck ==
  ASSUME NEW t \in Universe("term"), t[1] = "Sign", NEW k \in Keyrings
  PROVE  VerifyInKeyring(k, t[2], CanonicalBytes(t[3]), t[4]) <=> SignedByItsPrincipal(t, k)
<1>1. t[4] \in Universe("signature")
  <2>1. "term" \in Types /\ Variants["term"] = TermFields /\ "signature" \in Types
    BY DEF Types, Variants
  <2>2. 3 \in DOMAIN TermFields["Sign"] /\ TermFields["Sign"][3] = "signature"
    BY DEF TermFields
  <2>3. HasKind("signature", t[3 + 1])
    BY <2>1, <2>2, FieldIsSmaller
  <2>4. 3 + 1 = 4
    OBVIOUS
  <2> QED BY <2>1, <2>3, <2>4, TypedFieldIsValue
<1>2. \A msg : t[4] = <<"Signature", 0, msg>> <=> t[4][2] = 0 /\ t[4][3] = msg
  <2>1. t[4] = <<"Signature", t[4][2], t[4][3]>>
    BY <1>1, SignatureIsPair
  <2>2. \A s, a, b, msg : s = <<"Signature", a, b>> =>
                          (s = <<"Signature", 0, msg>> <=> a = 0 /\ b = msg)
    OBVIOUS
  <2> QED BY <2>1, <2>2
<1>3. KeyOf(k, t[2][2]) = {k[i] : i \in FirstRow(k, t[2][2])}
  BY FirstRowHoldsKey
<1>4. SignedByItsPrincipal(t, k) <=>
        /\ Is(t[2], "Atom")
        /\ \E i \in FirstRow(k, t[2][2]) :
             k[i].alg = 0 /\ t[4] = <<"Signature", 0, SignatureOver(k[i].public_key, Encode(t[3]))>>
  BY <1>3 DEF SignedByItsPrincipal
<1>5. \A i \in FirstRow(k, t[2][2]) :
        t[4] = <<"Signature", 0, SignatureOver(k[i].public_key, Encode(t[3]))>> <=>
          t[4][2] = 0 /\ t[4][3] = SignatureOver(k[i].public_key, Encode(t[3]))
  BY <1>2
<1> QED BY <1>4, <1>5 DEF VerifyInKeyring, CanonicalBytes, ALG_ED25519, Ed25519Verify

\* What a Sign node's own check and the walk below it come to.
SignaturesVerify(t, k) == \A s \in SignNodes(t) : SignedByItsPrincipal(s, k)

\* One level of the walk.
LEMMA WalkStep ==
  ASSUME NEW t \in Universe("term"), NEW k \in Keyrings,
         \A i \in Subterms(t) : AllSigsVerify(t[i], k) <=> SignaturesVerify(t[i], k)
  PROVE  AllSigsVerify(t, k) <=> SignaturesVerify(t, k)
<1>1. AllSigsVerify(t, k) <=>
        /\ Is(t, "Sign") => VerifyInKeyring(k, t[2], CanonicalBytes(t[3]), t[4])
        /\ \A i \in Subterms(t) : AllSigsVerify(t[i], k)
  BY SignaturesAssumption, WalkedAreSubterms DEF SigsRule
<1>2. SignNodes(t) = (IF Is(t, "Sign") THEN {t} ELSE {})
                       \cup UNION {SignNodes(t[i]) : i \in Subterms(t)}
  BY SignaturesAssumption DEF SignNodesRule
<1>3. SignaturesVerify(t, k) <=>
        /\ Is(t, "Sign") => SignedByItsPrincipal(t, k)
        /\ \A i \in Subterms(t) : SignaturesVerify(t[i], k)
  BY <1>2 DEF SignaturesVerify
<1>4. Is(t, "Sign") => (VerifyInKeyring(k, t[2], CanonicalBytes(t[3]), t[4])
                          <=> SignedByItsPrincipal(t, k))
  BY SignNodeCheck DEF Is
<1> QED BY <1>1, <1>3, <1>4

\* check.rs finds every Sign node of a term, however deep and under whatever
\* constructor, and asks for the signature of its principal's key over its proof.
THEOREM WalkFindsEverySignature ==
  \A t \in Universe("term") : \A k \in Keyrings :
    AllSigsVerify(t, k) <=> SignaturesVerify(t, k)
<1>1. SUFFICES ASSUME NEW k \in Keyrings
               PROVE  \A t \in Universe("term") : AllSigsVerify(t, k) <=> SignaturesVerify(t, k)
  OBVIOUS
<1> DEFINE Bad == {t \in Universe("term") : ~(AllSigsVerify(t, k) <=> SignaturesVerify(t, k))}
<1>2. ASSUME NEW t \in Bad PROVE FALSE
  <2>1. PICK u \in Universe("term") : u \in Bad /\ \A i \in Subterms(u) : u[i] \notin Bad
    <3>1. t \in Universe("term")
      OBVIOUS
    <3> HIDE DEF Bad
    <3> QED BY <1>2, <3>1, SmallestTerm
  <2>2. \A i \in Subterms(u) : AllSigsVerify(u[i], k) <=> SignaturesVerify(u[i], k)
    BY <2>1, SubtermIsSmaller
  <2>3. AllSigsVerify(u, k) <=> SignaturesVerify(u, k)
    BY <2>2, WalkStep
  <2> QED BY <2>1, <2>3
<1> QED BY <1>2

\* The envelope opens exactly for a presenter whose key the keyring lists first.
LEMMA EnvelopeOpens ==
  ASSUME NEW token, NEW pid, NEW key, NEW k \in Keyrings
  PROVE  LET opened == UnwrapSign1(WrapSign1(token, pid, key), k)
             listed == \E row \in KeyOf(k, pid) : row.alg = 0 /\ row.public_key = key
         IN  /\ opened[1] = "ok" <=> listed
             /\ listed => opened[2] = token
<1> DEFINE opened == UnwrapSign1(WrapSign1(token, pid, key), k)
           listed == \E row \in KeyOf(k, pid) : row.alg = 0 /\ row.public_key = key
           good == \E i \in FirstRow(k, pid) :
                     k[i].alg = 0 /\ SignatureOver(key, token) = SignatureOver(k[i].public_key, token)
<1>1. opened = IF good THEN Ok(token) ELSE Error
  BY DEF UnwrapSign1, WrapSign1, Ed25519Verify, ALG_ED25519
<1>2. \A a, b : SignatureOver(a, token) = SignatureOver(b, token) <=> a = b
  BY DEF SignatureOver
<1>3. good <=> listed
  BY <1>2, FirstRowHoldsKey
<1>4. Ok(token)[1] = "ok" /\ Ok(token)[2] = token /\ Error[1] # "ok"
  BY DEF Ok, Error
<1> HIDE DEF opened, listed, good
<1>5. (opened[1] = "ok" <=> listed) /\ (listed => opened[2] = token)
  BY <1>1, <1>3, <1>4
<1> QED BY <1>5 DEF opened, listed

\* verify_with_assumptions accepts a token exactly when it has the claimed type and
\* every Sign node in it is signed, and the envelope only adds the presenter's
\* signature: for terms of any depth and any keyrings.
THEOREM RelyingPartyAccepts == Spec => []AcceptedIffTypedAndSigned
<1>1. ReducesPrograms => AcceptedIffTypedAndSigned
  <2> SUFFICES ASSUME ReducesPrograms, ctx \in Anchors, NEW k \in Keyrings
               PROVE  LET signed == \A t \in SignNodes(cur) : SignedByItsPrincipal(t, k)
                          token == Encode(cur)
                          type == Infer(ctx, cur)
                      IN  /\ \A claimed \in {type, <<"Bot">>} :
                               Verified(token, claimed, k, ctx.additive)
                                 <=> claimed = type /\ signed
                          /\ \A who \in Presenters :
                               AcceptedFrom(WrapSign1(token, who[1], who[2]), type, k, ctx.additive)
                                 <=> signed /\ \E row \in KeyOf(k, who[1]) :
                                                row.alg = 0 /\ row.public_key = who[2]
    BY DEF AcceptedIffTypedAndSigned
  <2> DEFINE signed == \A t \in SignNodes(cur) : SignedByItsPrincipal(t, k)
             token == Encode(cur)
             type == Infer(ctx, cur)
             Listed(who) == \E row \in KeyOf(k, who[1]) : row.alg = 0 /\ row.public_key = who[2]
  <2>1. cur \in Universe("term")
    BY ProgramAssumption DEF ReducesPrograms
  <2>2. Decode(token) = Ok(cur)
    BY <2>1, ValuesRoundTrip DEF Decode, Encode, Types
  <2>3. AllSigsVerify(cur, k) <=> signed
    BY <2>1, WalkFindsEverySignature DEF SignaturesVerify
  <2>4. Infer(Ctx(ctx.additive, << >>), cur) = type
    BY RelyingPartyAssumption
  <2>5. ASSUME NEW claimed
        PROVE  Verified(token, claimed, k, ctx.additive) <=> claimed = type /\ signed
    <3>1. Ok(cur)[1] = "ok" /\ Ok(cur)[2] = cur
      BY DEF Ok
    <3> HIDE DEF signed, type, token
    <3> QED BY <2>2, <2>3, <2>4, <3>1 DEF Verified
  <2>6. ASSUME NEW who \in Presenters
        PROVE  AcceptedFrom(WrapSign1(token, who[1], who[2]), type, k, ctx.additive)
                 <=> signed /\ Listed(who)
    <3> DEFINE opened == UnwrapSign1(WrapSign1(token, who[1], who[2]), k)
    <3>1. (opened[1] = "ok" <=> Listed(who)) /\ (Listed(who) => opened[2] = token)
      BY EnvelopeOpens
    <3>2. Verified(token, type, k, ctx.additive) <=> signed
      BY <2>5
    <3>3. AcceptedFrom(WrapSign1(token, who[1], who[2]), type, k, ctx.additive) <=>
            opened[1] = "ok" /\ Verified(opened[2], type, k, ctx.additive)
      BY DEF AcceptedFrom
    <3> HIDE DEF opened, Listed, signed, type, token
    <3> QED BY <3>1, <3>2, <3>3
  <2> QED BY <2>5, <2>6
<1> QED BY <1>1, ProgramsReduced, PTL

-----------------------------------------------------------------------------
(* Shifting and substitution, one node at a time. *)

\* A variable is its index.
LEMMA VariableIsIndex ==
  ASSUME NEW t \in Universe("term"), t[1] = "Var"
  PROVE  t = <<"Var", t[2]>> /\ t[2] \in Nat /\ Subterms(t) = {}
<1> DEFINE kinds == Variants["term"][t[1]]
<1>1. "term" \in Types /\ Variants["term"] = TermFields
  BY DEF Types, Variants
<1>2. kinds = <<"u32">>
  BY <1>1 DEF TermFields
<1>3. t = <<"Var">> \o [i \in DOMAIN kinds |-> t[i + 1]]
  BY <1>1, ValueIsNode
<1>4. [i \in DOMAIN kinds |-> t[i + 1]] = <<t[2]>>
  <2> HIDE DEF kinds
  <2> QED BY <1>2
<1>5. ASSUME NEW a, NEW x PROVE <<a>> \o <<x>> = <<a, x>>
  <2> DEFINE S == {a, x}
  <2>1. <<a>> \in Seq(S) /\ <<x>> \in Seq(S) /\ <<a, x>> \in Seq(S)
    OBVIOUS
  <2>2. <<a>> \o <<x>> \in Seq(S) /\ Len(<<a>> \o <<x>>) = 2
    <3> HIDE DEF S
    <3> QED BY <2>1, ConcatProperties
  <2>3. \A i \in 1..2 : (<<a>> \o <<x>>)[i] = <<a, x>>[i]
    OBVIOUS
  <2> HIDE DEF S
  <2> QED BY <2>1, <2>2, <2>3, SeqEqual
<1>6. t[2] \in Nat
  <2>1. 1 \in DOMAIN kinds /\ kinds[1] = "u32" /\ 1 + 1 = 2
    <3> HIDE DEF kinds
    <3> QED BY <1>2
  <2>2. HasKind("u32", t[2])
    BY <1>1, <2>1, FieldIsSmaller
  <2> QED BY <2>2, WidthAssumption DEF HasKind
<1>7. Subterms(t) = {}
  BY SubtermsByConstructor, SubtermTable
<1> QED BY <1>3, <1>4, <1>5, <1>6, <1>7

\* How many variables a node binds depends on its constructor.
LEMMA BindsByConstructor ==
  \A t, i : /\ Binds(t, i) \in Nat
            /\ \A r : r[1] = t[1] => Binds(r, i) = Binds(t, i)
  BY DEF Binds

\* A node rebuilt around other subterms.
LEMMA RebuiltNode ==
  ASSUME NEW t \in Universe("term"), NEW r \in Universe("term"), NEW f,
         r = [i \in 1..Len(t) |-> IF i \in Subterms(t) THEN f[i] ELSE t[i]]
  PROVE  /\ r[1] = t[1]
         /\ Subterms(r) = Subterms(t)
         /\ \A i \in Subterms(t) : r[i] = f[i]
         /\ \A i \in (1..Len(t)) \ Subterms(t) : r[i] = t[i]
<1>1. Subterms(t) \subseteq 2..Len(t)
  BY DEF Subterms
<1>2. 1 \in 1..Len(t) /\ 1 \notin Subterms(t)
  <2>1. Len(t) = Len(TermFields[t[1]]) + 1 /\ Len(TermFields[t[1]]) \in Nat
    BY TermLength, LenProperties
  <2> QED BY <1>1, <2>1
<1>3. r[1] = t[1]
  BY <1>2
<1>4. Subterms(r) = Subterms(t)
  BY <1>3, SubtermsByConstructor
<1>5. \A i \in Subterms(t) : r[i] = f[i]
  <2> TAKE i \in Subterms(t)
  <2>1. i \in 1..Len(t)
    BY <1>1
  <2> QED BY <2>1
<1> QED BY <1>3, <1>4, <1>5

\* What shift answers for a node.
LEMMA ShiftedNode ==
  ASSUME NEW s \in Shifts
  PROVE  LET t == s[1]
             r == Shift(s[1], s[2], s[3])
         IN  /\ t \in Universe("term") /\ r \in Universe("term")
             /\ s[2] \in Nat /\ s[3] \in Nat
             /\ t[1] = "Var" => r = IF t[2] < s[3] THEN t ELSE <<"Var", t[2] + s[2]>>
             /\ r[1] = t[1] /\ Subterms(r) = Subterms(t)
             /\ \A i \in Subterms(t) :
                  /\ <<t[i], s[2], s[3] + Binds(t, i)>> \in Shifts
                  /\ r[i] = Shift(t[i], s[2], s[3] + Binds(t, i))
             /\ \A i \in (2..Len(t)) \ Subterms(t) : t[1] # "Var" => r[i] = t[i]
<1> DEFINE t == s[1]
           r == Shift(s[1], s[2], s[3])
           f == [i \in Subterms(t) |-> Shift(t[i], s[2], s[3] + Binds(t, i))]
<1>1. /\ t \in Universe("term") /\ r \in Universe("term")
      /\ s[2] \in Nat /\ s[3] \in Nat
      /\ r = ShiftRule(t, s[2], s[3])
      /\ \A i \in Subterms(t) : <<t[i], s[2], s[3] + Binds(t, i)>> \in Shifts
  BY ShiftAssumption
<1>2. CASE t[1] = "Var"
  <2>1. t[2] \in Nat /\ Subterms(t) = {}
    BY <1>1, <1>2, VariableIsIndex
  <2>2. r = IF t[2] < s[3] THEN t ELSE <<"Var", t[2] + s[2]>>
    <3>1. ~(t[2] + s[2] < 0)
      BY <1>1, <2>1
    <3> HIDE DEF t, r
    <3> QED BY <1>1, <1>2, <3>1 DEF ShiftRule, Is
  <2>3. r[1] = t[1]
    BY <1>2, <2>2
  <2>4. Subterms(r) = Subterms(t)
    <3> HIDE DEF t, r
    <3> QED BY <1>1, <2>3, SubtermsByConstructor
  <2> QED BY <1>1, <1>2, <2>1, <2>2, <2>3, <2>4
<1>3. CASE t[1] # "Var"
  <2>1. r = [i \in 1..Len(t) |-> IF i \in Subterms(t) THEN f[i] ELSE t[i]]
    <3>1. \A i \in Subterms(t) : f[i] = Shift(t[i], s[2], s[3] + Binds(t, i))
      OBVIOUS
    <3> HIDE DEF t, r, f
    <3> QED BY <1>1, <1>3, <3>1 DEF ShiftRule, Is
  <2>2. /\ r[1] = t[1] /\ Subterms(r) = Subterms(t)
        /\ \A i \in Subterms(t) : r[i] = f[i]
        /\ \A i \in (1..Len(t)) \ Subterms(t) : r[i] = t[i]
    <3> HIDE DEF t, r, f
    <3> QED BY <1>1, <2>1, RebuiltNode
  <2> QED BY <1>1, <1>3, <2>2
<1> QED BY <1>2, <1>3

\* What subst_at answers for a node.
LEMMA SubstitutedNode ==
  ASSUME NEW s \in Substitutions
  PROVE  LET t == s[1]
             r == SubstAt(s[1], s[2], s[3])
         IN  /\ t \in Universe("term") /\ r \in Universe("term")
             /\ s[2] \in Universe("term") /\ s[3] \in Nat
             /\ t[1] = "Var" =>
                  /\ t[2] = s[3] => <<s[2], s[3], 0>> \in Shifts /\ r = Shift(s[2], s[3], 0)
                  /\ t[2] > s[3] => r = <<"Var", t[2] - 1>>
                  /\ t[2] < s[3] => r = t
             /\ t[1] # "Var" => r[1] = t[1] /\ Subterms(r) = Subterms(t)
             /\ \A i \in Subterms(t) :
                  /\ <<t[i], s[2], s[3] + Binds(t, i)>> \in Substitutions
                  /\ r[i] = SubstAt(t[i], s[2], s[3] + Binds(t, i))
             /\ \A i \in (2..Len(t)) \ Subterms(t) : t[1] # "Var" => r[i] = t[i]
<1> DEFINE t == s[1]
           r == SubstAt(s[1], s[2], s[3])
           f == [i \in Subterms(t) |-> SubstAt(t[i], s[2], s[3] + Binds(t, i))]
<1>1. /\ t \in Universe("term") /\ r \in Universe("term")
      /\ s[2] \in Universe("term") /\ s[3] \in Nat
      /\ r = SubstAtRule(t, s[2], s[3])
      /\ Is(t, "Var") /\ t[2] = s[3] => <<s[2], s[3], 0>> \in Shifts
      /\ \A i \in Subterms(t) : <<t[i], s[2], s[3] + Binds(t, i)>> \in Substitutions
  BY SubstitutionAssumption
<1>2. CASE t[1] = "Var"
  <2>1. t[2] \in Nat /\ Subterms(t) = {}
    BY <1>1, <1>2, VariableIsIndex
  <2>2. /\ t[2] = s[3] => r = Shift(s[2], s[3], 0)
        /\ t[2] > s[3] => r = <<"Var", t[2] - 1>>
        /\ t[2] < s[3] => r = t
    <3> HIDE DEF t, r
    <3> QED BY <1>1, <1>2, <2>1 DEF SubstAtRule, Hit, Is
  <2> QED BY <1>1, <1>2, <2>1, <2>2 DEF Is
<1>3. CASE t[1] # "Var"
  <2>1. r = [i \in 1..Len(t) |-> IF i \in Subterms(t) THEN f[i] ELSE t[i]]
    <3>1. \A i \in Subterms(t) : f[i] = SubstAt(t[i], s[2], s[3] + Binds(t, i))
      OBVIOUS
    <3> HIDE DEF t, r, f
    <3> QED BY <1>1, <1>3, <3>1 DEF SubstAtRule, Is
  <2>2. /\ r[1] = t[1] /\ Subterms(r) = Subterms(t)
        /\ \A i \in Subterms(t) : r[i] = f[i]
        /\ \A i \in (1..Len(t)) \ Subterms(t) : r[i] = t[i]
    <3> HIDE DEF t, r, f
    <3> QED BY <1>1, <2>1, RebuiltNode
  <2> QED BY <1>1, <1>3, <2>2
<1> QED BY <1>2, <1>3

\* Induction on the first argument of shift or subst_at: of the calls that lack
\* something, one makes no call that does.
LEMMA SmallestCall ==
  ASSUME NEW Bad, NEW s \in Bad, \A b \in Bad : b[1] \in Universe("term")
  PROVE  \E b \in Bad : \A i \in Subterms(b[1]) : \A c \in Bad : c[1] # b[1][i]
<1> DEFINE Firsts == {b[1] : b \in Bad}
<1>1. s[1] \in Firsts /\ s[1] \in Universe("term")
  OBVIOUS
<1>2. PICK u \in Universe("term") : u \in Firsts /\ \A i \in Subterms(u) : u[i] \notin Firsts
  <2> HIDE DEF Firsts
  <2> QED BY <1>1, SmallestTerm
<1>3. PICK b \in Bad : u = b[1]
  BY <1>2
<1> QED BY <1>2, <1>3

-----------------------------------------------------------------------------
(* What the variables of a term stand for. *)

\* The occurrences of variables, and one of them by its parts.
Occurrence == [path : Seq(Nat), depth : Nat, means : {"bound", "free"} \X Nat]
At(path, depth, kind, k) == [path |-> path, depth |-> depth, means |-> <<kind, k>>]

\* An occurrence is its parts.
LEMMA OccurrenceParts ==
  ASSUME NEW o \in Occurrence
  PROVE  /\ o = At(o.path, o.depth, o.means[1], o.means[2])
         /\ o.path \in Seq(Nat) /\ o.depth \in Nat
         /\ o.means[1] \in {"bound", "free"} /\ o.means[2] \in Nat
  BY DEF Occurrence, At

\* What the parts make is an occurrence.
LEMMA PartsMakeOccurrence ==
  ASSUME NEW p \in Seq(Nat), NEW d \in Nat, NEW kind \in {"bound", "free"}, NEW k \in Nat
  PROVE  /\ At(p, d, kind, k) \in Occurrence
         /\ At(p, d, kind, k).path = p /\ At(p, d, kind, k).depth = d
         /\ At(p, d, kind, k).means = <<kind, k>>
         /\ At(p, d, kind, k).means[1] = kind /\ At(p, d, kind, k).means[2] = k
  BY DEF Occurrence, At

\* An occurrence seen from one node further up.
LEMMA OutwardParts ==
  ASSUME NEW p \in Seq(Nat), NEW d \in Nat, NEW m \in Nat, NEW i \in Nat, NEW k \in Nat
  PROVE  /\ <<i>> \o p \in Seq(Nat)
         /\ Outward(At(p, d, "bound", m), i, k) = At(<<i>> \o p, d + k, "bound", m + k)
         /\ m < k => Outward(At(p, d, "free", m), i, k) = At(<<i>> \o p, d + k, "bound", k - m)
         /\ ~(m < k) => Outward(At(p, d, "free", m), i, k) = At(<<i>> \o p, d + k, "free", m - k)
<1>1. <<i>> \o p \in Seq(Nat)
  BY ConsProperties
<1>2. \A kind : /\ At(p, d, kind, m).path = p /\ At(p, d, kind, m).depth = d
                /\ At(p, d, kind, m).means = <<kind, m>>
                /\ At(p, d, kind, m).means[1] = kind /\ At(p, d, kind, m).means[2] = m
  BY DEF At
<1>3. Outward(At(p, d, "bound", m), i, k) = At(<<i>> \o p, d + k, "bound", m + k)
  BY <1>2 DEF Outward, At
<1>4. ASSUME m < k
      PROVE  Outward(At(p, d, "free", m), i, k) = At(<<i>> \o p, d + k, "bound", k - m)
  BY <1>2, <1>4 DEF Outward, At
<1>5. ASSUME ~(m < k)
      PROVE  Outward(At(p, d, "free", m), i, k) = At(<<i>> \o p, d + k, "free", m - k)
  BY <1>2, <1>5 DEF Outward, At
<1> QED BY <1>1, <1>3, <1>4, <1>5

\* It is still an occurrence.
LEMMA OutwardIsOccurrence ==
  ASSUME NEW o \in Occurrence, NEW i \in Nat, NEW k \in Nat
  PROVE  Outward(o, i, k) \in Occurrence
<1> DEFINE p == o.path
           d == o.depth
           kind == o.means[1]
           m == o.means[2]
<1>1. o = At(p, d, kind, m) /\ p \in Seq(Nat) /\ d \in Nat /\ kind \in {"bound", "free"} /\ m \in Nat
  BY OccurrenceParts
<1> HIDE DEF p, d, kind, m
<1>2. <<i>> \o p \in Seq(Nat) /\ d + k \in Nat /\ m + k \in Nat
  BY <1>1, OutwardParts
<1>3. CASE kind = "bound"
  <2>1. Outward(o, i, k) = At(<<i>> \o p, d + k, "bound", m + k)
    BY <1>1, <1>3, OutwardParts
  <2>2. At(<<i>> \o p, d + k, "bound", m + k) \in Occurrence
    BY <1>2, PartsMakeOccurrence
  <2> QED BY <2>1, <2>2
<1>4. CASE kind = "free" /\ m < k
  <2>1. k - m \in Nat
    BY <1>1, <1>4
  <2>2. Outward(o, i, k) = At(<<i>> \o p, d + k, "bound", k - m)
    BY <1>1, <1>4, OutwardParts
  <2>3. At(<<i>> \o p, d + k, "bound", k - m) \in Occurrence
    BY <1>2, <2>1, PartsMakeOccurrence
  <2> QED BY <2>2, <2>3
<1>5. CASE kind = "free" /\ ~(m < k)
  <2>1. m - k \in Nat
    BY <1>1, <1>5
  <2>2. Outward(o, i, k) = At(<<i>> \o p, d + k, "free", m - k)
    BY <1>1, <1>5, OutwardParts
  <2>3. At(<<i>> \o p, d + k, "free", m - k) \in Occurrence
    BY <1>2, <2>1, PartsMakeOccurrence
  <2> QED BY <2>2, <2>3
<1> QED BY <1>1, <1>3, <1>4, <1>5

\* The variables of a node are those of its subterms.
LEMMA OccurrencesOfNode ==
  ASSUME NEW t \in Universe("term")
  PROVE  /\ t[1] = "Var" => Occurrences(t) = {At(<< >>, 0, "free", t[2])}
         /\ t[1] # "Var" =>
              \A o : o \in Occurrences(t) <=>
                       \E i \in Subterms(t) : \E p \in Occurrences(t[i]) :
                         o = Outward(p, i, Binds(t, i))
<1>1. Occurrences(t) = OccurrencesRule(t)
  BY StructureAssumption
<1>2. t[1] = "Var" => Occurrences(t) = {At(<< >>, 0, "free", t[2])}
  BY <1>1 DEF OccurrencesRule, Is, At
<1>3. ASSUME t[1] # "Var"
      PROVE  Occurrences(t) =
               UNION {{Outward(p, i, Binds(t, i)) : p \in Occurrences(t[i])} : i \in Subterms(t)}
  BY <1>1, <1>3 DEF OccurrencesRule, Is
<1> QED BY <1>2, <1>3

\* All variables of a term are occurrences.
LEMMA OccurrencesTyped ==
  \A t \in Universe("term") : \A o \in Occurrences(t) : o \in Occurrence
<1> DEFINE Bad == {t \in Universe("term") : \E o \in Occurrences(t) : o \notin Occurrence}
<1>1. ASSUME NEW t \in Bad PROVE FALSE
  <2>1. PICK u \in Universe("term") : u \in Bad /\ \A i \in Subterms(u) : u[i] \notin Bad
    <3>1. t \in Universe("term")
      OBVIOUS
    <3> HIDE DEF Bad
    <3> QED BY <1>1, <3>1, SmallestTerm
  <2>2. \A i \in Subterms(u) : \A o \in Occurrences(u[i]) : o \in Occurrence
    BY <2>1, SubtermIsSmaller
  <2>3. CASE u[1] = "Var"
    <3>1. << >> \in Seq(Nat)
      OBVIOUS
    <3>2. At(<< >>, 0, "free", u[2]) \in Occurrence
      BY <2>3, <3>1, VariableIsIndex, PartsMakeOccurrence
    <3> QED BY <2>1, <2>3, <3>2, OccurrencesOfNode
  <2>4. CASE u[1] # "Var"
    <3>1. ASSUME NEW i \in Subterms(u), NEW p \in Occurrences(u[i])
          PROVE  Outward(p, i, Binds(u, i)) \in Occurrence
      <4>1. i \in Nat
        BY SubtermIsSmaller
      <4>2. Binds(u, i) \in Nat
        BY BindsByConstructor
      <4> QED BY <2>2, <4>1, <4>2, OutwardIsOccurrence
    <3> QED BY <2>1, <2>4, <3>1, OccurrencesOfNode
  <2> QED BY <2>3, <2>4
<1> QED BY <1>1

\* Shifting by delta above a cutoff lifts the free variables that are above it.
Lifted(o, delta, cutoff) ==
  IF o.means[1] = "bound" \/ o.means[2] < cutoff THEN o
  ELSE At(o.path, o.depth, "free", o.means[2] + delta)

\* Lifting commutes with looking from one node further up, where the cutoff is lower.
LEMMA LiftedOutward ==
  ASSUME NEW o \in Occurrence, NEW i \in Nat, NEW k \in Nat, NEW delta \in Nat, NEW c \in Nat
  PROVE  Outward(Lifted(o, delta, c + k), i, k) = Lifted(Outward(o, i, k), delta, c)
<1>1. PICK p \in Seq(Nat), d \in Nat, kind \in {"bound", "free"}, m \in Nat : o = At(p, d, kind, m)
  BY OccurrenceParts
<1>2. <<i>> \o p \in Seq(Nat) /\ d + k \in Nat
  BY OutwardParts
<1> DEFINE up == <<i>> \o p
           e == d + k
<1> HIDE DEF up, e
<1>3. \A kk \in {"bound", "free"} : \A mm \in Nat :
        /\ At(p, d, kk, mm).path = p /\ At(p, d, kk, mm).depth = d
        /\ At(p, d, kk, mm).means[1] = kk /\ At(p, d, kk, mm).means[2] = mm
        /\ At(up, e, kk, mm).path = up /\ At(up, e, kk, mm).depth = e
        /\ At(up, e, kk, mm).means[1] = kk /\ At(up, e, kk, mm).means[2] = mm
  BY DEF At
<1>4. CASE kind = "bound"
  <2>1. Lifted(o, delta, c + k) = o
    BY <1>1, <1>3, <1>4 DEF Lifted
  <2>2. Outward(o, i, k) = At(up, e, "bound", m + k)
    BY <1>1, <1>4, OutwardParts DEF up, e
  <2>3. Lifted(At(up, e, "bound", m + k), delta, c) = At(up, e, "bound", m + k)
    BY <1>3 DEF Lifted
  <2> QED BY <2>1, <2>2, <2>3
<1>5. CASE kind = "free" /\ m < k
  <2>1. Lifted(o, delta, c + k) = o
    BY <1>1, <1>3, <1>5 DEF Lifted
  <2>2. Outward(o, i, k) = At(up, e, "bound", k - m)
    BY <1>1, <1>5, OutwardParts DEF up, e
  <2>3. Lifted(At(up, e, "bound", k - m), delta, c) = At(up, e, "bound", k - m)
    BY <1>3, <1>5 DEF Lifted
  <2> QED BY <2>1, <2>2, <2>3
<1>6. CASE kind = "free" /\ ~(m < k) /\ m < c + k
  <2>1. Lifted(o, delta, c + k) = o
    BY <1>1, <1>3, <1>6 DEF Lifted
  <2>2. Outward(o, i, k) = At(up, e, "free", m - k)
    BY <1>1, <1>6, OutwardParts DEF up, e
  <2>3. Lifted(At(up, e, "free", m - k), delta, c) = At(up, e, "free", m - k)
    <3>1. m - k \in Nat /\ m - k < c
      BY <1>6
    <3> QED BY <1>3, <3>1 DEF Lifted
  <2> QED BY <2>1, <2>2, <2>3
<1>7. CASE kind = "free" /\ ~(m < k) /\ ~(m < c + k)
  <2>1. Lifted(o, delta, c + k) = At(p, d, "free", m + delta)
    BY <1>1, <1>3, <1>7 DEF Lifted
  <2>2. Outward(o, i, k) = At(up, e, "free", m - k)
    BY <1>1, <1>7, OutwardParts DEF up, e
  <2>3. Lifted(At(up, e, "free", m - k), delta, c) = At(up, e, "free", (m - k) + delta)
    <3>1. m - k \in Nat /\ ~(m - k < c)
      BY <1>7
    <3> QED BY <1>3, <3>1 DEF Lifted
  <2>4. Outward(At(p, d, "free", m + delta), i, k) = At(up, e, "free", (m + delta) - k)
    <3>1. m + delta \in Nat /\ ~(m + delta < k)
      BY <1>7
    <3> QED BY <3>1, OutwardParts DEF up, e
  <2>5. (m + delta) - k = (m - k) + delta
    OBVIOUS
  <2> QED BY <2>1, <2>2, <2>3, <2>4, <2>5
<1> QED BY <1>1, <1>4, <1>5, <1>6, <1>7

\* The variables of a shifted term are those of the term, lifted.
ShiftLifts(s) ==
  \A o : o \in Occurrences(Shift(s[1], s[2], s[3])) <=>
           \E p \in Occurrences(s[1]) : o = Lifted(p, s[2], s[3])

\* One node of a shift.
LEMMA ShiftLiftsNode ==
  ASSUME NEW s \in Shifts,
         \A i \in Subterms(s[1]) : ShiftLifts(<<s[1][i], s[2], s[3] + Binds(s[1], i)>>)
  PROVE  ShiftLifts(s)
<1> DEFINE t == s[1]
           r == Shift(s[1], s[2], s[3])
<1>1. /\ t \in Universe("term") /\ r \in Universe("term")
      /\ s[2] \in Nat /\ s[3] \in Nat
      /\ t[1] = "Var" => r = IF t[2] < s[3] THEN t ELSE <<"Var", t[2] + s[2]>>
      /\ r[1] = t[1] /\ Subterms(r) = Subterms(t)
      /\ \A i \in Subterms(t) : r[i] = Shift(t[i], s[2], s[3] + Binds(t, i))
  BY ShiftedNode
<1>2. ASSUME NEW i \in Subterms(t), NEW p
      PROVE  p \in Occurrences(r[i]) <=>
               \E q \in Occurrences(t[i]) : p = Lifted(q, s[2], s[3] + Binds(t, i))
  <2>1. ShiftLifts(<<t[i], s[2], s[3] + Binds(t, i)>>)
    OBVIOUS
  <2> HIDE DEF t, r
  <2> QED BY <1>1, <2>1 DEF ShiftLifts
<1>3. ASSUME NEW i \in Subterms(t), NEW q \in Occurrences(t[i])
      PROVE  Outward(Lifted(q, s[2], s[3] + Binds(t, i)), i, Binds(t, i))
               = Lifted(Outward(q, i, Binds(t, i)), s[2], s[3])
  <2>1. q \in Occurrence /\ i \in Nat
    BY <1>1, OccurrencesTyped, SubtermIsSmaller
  <2>2. Binds(t, i) \in Nat
    BY BindsByConstructor
  <2>3. s[2] \in Nat /\ s[3] \in Nat
    BY <1>1
  <2>4. \A k, delta, c \in Nat :
          Outward(Lifted(q, delta, c + k), i, k) = Lifted(Outward(q, i, k), delta, c)
    BY <2>1, LiftedOutward
  <2> QED BY <2>2, <2>3, <2>4
<1>4. \A i : Binds(r, i) = Binds(t, i)
  BY <1>1, BindsByConstructor
<1> HIDE DEF t, r
<1>5. CASE t[1] = "Var"
  <2>1. t[2] \in Nat /\ t = <<"Var", t[2]>>
    BY <1>1, <1>5, VariableIsIndex
  <2>2. r[2] = IF t[2] < s[3] THEN t[2] ELSE t[2] + s[2]
    <3>1. t[2] < s[3] => r[2] = t[2]
      BY <1>1, <1>5
    <3>2. ~(t[2] < s[3]) => r[2] = t[2] + s[2]
      BY <1>1, <1>5
    <3> QED BY <3>1, <3>2
  <2>3. Occurrences(t) = {At(<< >>, 0, "free", t[2])} /\ Occurrences(r) = {At(<< >>, 0, "free", r[2])}
    BY <1>1, <1>5, OccurrencesOfNode
  <2>4. Lifted(At(<< >>, 0, "free", t[2]), s[2], s[3]) = At(<< >>, 0, "free", r[2])
    BY <2>1, <2>2, PartsMakeOccurrence DEF Lifted, At
  <2> QED BY <2>3, <2>4 DEF ShiftLifts, t, r
<1>6. CASE t[1] # "Var"
  <2>1. ASSUME NEW o
        PROVE  o \in Occurrences(r) <=> \E p \in Occurrences(t) : o = Lifted(p, s[2], s[3])
    <3>1. o \in Occurrences(r) <=>
            \E i \in Subterms(t) : \E p \in Occurrences(r[i]) : o = Outward(p, i, Binds(t, i))
      BY <1>1, <1>4, <1>6, OccurrencesOfNode
    <3>2. o \in Occurrences(r) <=>
            \E i \in Subterms(t) : \E q \in Occurrences(t[i]) :
              o = Outward(Lifted(q, s[2], s[3] + Binds(t, i)), i, Binds(t, i))
      BY <1>2, <3>1
    <3>3. o \in Occurrences(r) <=>
            \E i \in Subterms(t) : \E q \in Occurrences(t[i]) :
              o = Lifted(Outward(q, i, Binds(t, i)), s[2], s[3])
      BY <1>3, <3>2
    <3>4. \A p : p \in Occurrences(t) <=>
            \E i \in Subterms(t) : \E q \in Occurrences(t[i]) : p = Outward(q, i, Binds(t, i))
      BY <1>1, <1>6, OccurrencesOfNode
    <3> QED BY <3>3, <3>4
  <2> QED BY <2>1 DEF ShiftLifts, t, r
<1> QED BY <1>5, <1>6

\* Shifting a term of any depth lifts its free variables and no others.
LEMMA ShiftsLift == \A s \in Shifts : ShiftLifts(s)
<1> DEFINE Bad == {s \in Shifts : ~ShiftLifts(s)}
<1>1. ASSUME NEW s \in Bad PROVE FALSE
  <2>1. \A b \in Bad : b[1] \in Universe("term")
    BY ShiftedNode
  <2>2. PICK b \in Bad : \A i \in Subterms(b[1]) : \A c \in Bad : c[1] # b[1][i]
    <3> HIDE DEF Bad
    <3> QED BY <1>1, <2>1, SmallestCall
  <2>3. \A i \in Subterms(b[1]) : ShiftLifts(<<b[1][i], b[2], b[3] + Binds(b[1], i)>>)
    <3> TAKE i \in Subterms(b[1])
    <3> DEFINE c == <<b[1][i], b[2], b[3] + Binds(b[1], i)>>
    <3>1. c \in Shifts /\ c[1] = b[1][i]
      BY ShiftedNode
    <3>2. c \notin Bad
      BY <2>2, <3>1
    <3> QED BY <3>1, <3>2
  <2> QED BY <2>3, ShiftLiftsNode
<1> QED BY <1>1

\* A variable w of a value put in place of the variable o, d binders down.
Placed(o, w, d) ==
  At(o.path \o w.path, o.depth + w.depth, w.means[1],
     IF w.means[1] = "bound" THEN o.depth + w.means[2] ELSE w.means[2] + d)

\* What becomes of a variable of a body when v is substituted d binders down.
Replaced(o, v, d) ==
  IF o.means[1] = "bound" \/ o.means[2] < d THEN {o}
  ELSE IF o.means[2] = d THEN {Placed(o, w, d) : w \in Occurrences(v)}
  ELSE {At(o.path, o.depth, "free", o.means[2] - 1)}

\* Replacing, by the kind of the variable.
LEMMA ReplacedParts ==
  ASSUME NEW p, NEW e, NEW m \in Nat, NEW v, NEW d \in Nat
  PROVE  /\ Replaced(At(p, e, "bound", m), v, d) = {At(p, e, "bound", m)}
         /\ m < d => Replaced(At(p, e, "free", m), v, d) = {At(p, e, "free", m)}
         /\ m = d => Replaced(At(p, e, "free", m), v, d) =
                       {Placed(At(p, e, "free", m), w, d) : w \in Occurrences(v)}
         /\ m > d => Replaced(At(p, e, "free", m), v, d) = {At(p, e, "free", m - 1)}
<1>1. \A kind : /\ At(p, e, kind, m).path = p /\ At(p, e, kind, m).depth = e
                /\ At(p, e, kind, m).means[1] = kind /\ At(p, e, kind, m).means[2] = m
  BY DEF At
<1>2. "free" # "bound"
  OBVIOUS
<1>3. Replaced(At(p, e, "bound", m), v, d) = {At(p, e, "bound", m)}
  BY <1>1 DEF Replaced
<1>4. ASSUME m < d PROVE Replaced(At(p, e, "free", m), v, d) = {At(p, e, "free", m)}
  BY <1>1, <1>4 DEF Replaced
<1>5. ASSUME m = d
      PROVE  Replaced(At(p, e, "free", m), v, d) =
               {Placed(At(p, e, "free", m), w, d) : w \in Occurrences(v)}
  <2>1. ~(m < d)
    BY <1>5
  <2> QED BY <1>1, <1>2, <1>5, <2>1, Zenon DEF Replaced
<1>6. ASSUME m > d PROVE Replaced(At(p, e, "free", m), v, d) = {At(p, e, "free", m - 1)}
  <2>1. ~(m < d) /\ m # d
    BY <1>6
  <2> QED BY <1>1, <1>2, <2>1, Zenon DEF Replaced
<1> QED BY <1>3, <1>4, <1>5, <1>6

\* Placing commutes with looking from one node further up.
LEMMA PlacedOutward ==
  ASSUME NEW p \in Seq(Nat), NEW e \in Nat, NEW w \in Occurrence, NEW i \in Nat, NEW k \in Nat,
         NEW d \in Nat
  PROVE  Outward(Placed(At(p, e, "free", d + k), w, d + k), i, k) =
           Placed(At(<<i>> \o p, e + k, "free", d), w, d)
<1>1. PICK q \in Seq(Nat), f \in Nat, kind \in {"bound", "free"}, m \in Nat : w = At(q, f, kind, m)
  BY OccurrenceParts
<1>2. /\ w.path = q /\ w.depth = f /\ w.means[1] = kind /\ w.means[2] = m
  BY <1>1 DEF At
<1>3. \A pp, ee, mm : At(pp, ee, "free", mm).path = pp /\ At(pp, ee, "free", mm).depth = ee
  BY DEF At
<1>4. p \o q \in Seq(Nat) /\ <<i>> \o (p \o q) = (<<i>> \o p) \o q
  <2>1. <<i>> \in Seq(Nat) /\ p \in Seq(Nat) /\ q \in Seq(Nat)
    OBVIOUS
  <2>2. p \o q \in Seq(Nat)
    BY <2>1, ConcatProperties
  <2>3. (<<i>> \o p) \o q = <<i>> \o (p \o q)
    BY <2>1, ConcatAssociative
  <2> QED BY <2>2, <2>3
<1>5. e + f \in Nat /\ (e + k) + f = (e + f) + k
  OBVIOUS
<1>6. CASE kind = "bound"
  <2>1. Placed(At(p, e, "free", d + k), w, d + k) = At(p \o q, e + f, "bound", e + m)
    BY <1>2, <1>3, <1>6 DEF Placed
  <2>2. Placed(At(<<i>> \o p, e + k, "free", d), w, d) =
          At((<<i>> \o p) \o q, (e + k) + f, "bound", (e + k) + m)
    BY <1>2, <1>3, <1>6 DEF Placed
  <2>3. e + m \in Nat /\ (e + m) + k = (e + k) + m
    OBVIOUS
  <2>4. Outward(At(p \o q, e + f, "bound", e + m), i, k) =
          At(<<i>> \o (p \o q), (e + f) + k, "bound", (e + m) + k)
    <3> DEFINE path == p \o q
               depth == e + f
               x == e + m
    <3>1. path \in Seq(Nat) /\ depth \in Nat /\ x \in Nat
      BY <1>4, <1>5, <2>3
    <3> HIDE DEF path, depth, x
    <3>2. Outward(At(path, depth, "bound", x), i, k) =
            At(<<i>> \o path, depth + k, "bound", x + k)
      BY <3>1, OutwardParts
    <3> QED BY <3>2 DEF path, depth, x
  <2> QED BY <1>4, <1>5, <2>1, <2>2, <2>3, <2>4
<1>7. CASE kind = "free"
  <2>1. Placed(At(p, e, "free", d + k), w, d + k) = At(p \o q, e + f, "free", m + (d + k))
    BY <1>2, <1>3, <1>7 DEF Placed
  <2>2. Placed(At(<<i>> \o p, e + k, "free", d), w, d) =
          At((<<i>> \o p) \o q, (e + k) + f, "free", m + d)
    BY <1>2, <1>3, <1>7 DEF Placed
  <2>3. m + (d + k) \in Nat /\ ~(m + (d + k) < k) /\ (m + (d + k)) - k = m + d
    OBVIOUS
  <2>4. Outward(At(p \o q, e + f, "free", m + (d + k)), i, k) =
          At(<<i>> \o (p \o q), (e + f) + k, "free", (m + (d + k)) - k)
    <3> DEFINE path == p \o q
               depth == e + f
               x == m + (d + k)
    <3>1. path \in Seq(Nat) /\ depth \in Nat /\ x \in Nat /\ ~(x < k)
      BY <1>4, <1>5, <2>3
    <3> HIDE DEF path, depth, x
    <3>2. Outward(At(path, depth, "free", x), i, k) =
            At(<<i>> \o path, depth + k, "free", x - k)
      BY <3>1, OutwardParts
    <3> QED BY <3>2 DEF path, depth, x
  <2> QED BY <1>4, <1>5, <2>1, <2>2, <2>3, <2>4
<1> QED BY <1>1, <1>6, <1>7

\* So does replacing.
LEMMA ReplacedOutward ==
  ASSUME NEW o \in Occurrence, NEW v \in Universe("term"), NEW i \in Nat, NEW k \in Nat,
         NEW d \in Nat
  PROVE  Replaced(Outward(o, i, k), v, d) = {Outward(p, i, k) : p \in Replaced(o, v, d + k)}
<1>1. PICK p \in Seq(Nat), e \in Nat, kind \in {"bound", "free"}, m \in Nat : o = At(p, e, kind, m)
  BY OccurrenceParts
<1>2. d + k \in Nat /\ m + k \in Nat
  OBVIOUS
<1>3. CASE kind = "bound"
  <2>1. Replaced(o, v, d + k) = {o}
    BY <1>1, <1>2, <1>3, ReplacedParts
  <2>2. Outward(o, i, k) = At(<<i>> \o p, e + k, "bound", m + k)
    BY <1>1, <1>3, OutwardParts
  <2>3. Replaced(At(<<i>> \o p, e + k, "bound", m + k), v, d) =
          {At(<<i>> \o p, e + k, "bound", m + k)}
    BY <1>2, ReplacedParts
  <2> QED BY <2>1, <2>2, <2>3
<1>4. CASE kind = "free" /\ m < k
  <2>1. m < d + k /\ k - m \in Nat
    BY <1>4
  <2>2. Replaced(o, v, d + k) = {o}
    BY <1>1, <1>2, <1>4, <2>1, ReplacedParts
  <2>3. Outward(o, i, k) = At(<<i>> \o p, e + k, "bound", k - m)
    BY <1>1, <1>4, OutwardParts
  <2>4. Replaced(At(<<i>> \o p, e + k, "bound", k - m), v, d) =
          {At(<<i>> \o p, e + k, "bound", k - m)}
    BY <2>1, ReplacedParts
  <2> QED BY <2>2, <2>3, <2>4
<1>5. CASE kind = "free" /\ ~(m < k) /\ m < d + k
  <2>1. m - k < d /\ m - k \in Nat
    BY <1>5
  <2>2. Replaced(o, v, d + k) = {o}
    BY <1>1, <1>2, <1>5, ReplacedParts
  <2>3. Outward(o, i, k) = At(<<i>> \o p, e + k, "free", m - k)
    BY <1>1, <1>5, OutwardParts
  <2>4. Replaced(At(<<i>> \o p, e + k, "free", m - k), v, d) =
          {At(<<i>> \o p, e + k, "free", m - k)}
    BY <2>1, ReplacedParts
  <2> QED BY <2>2, <2>3, <2>4
<1>6. CASE kind = "free" /\ m = d + k
  <2>1. ~(m < k) /\ m - k = d
    BY <1>6
  <2>2. Replaced(o, v, d + k) = {Placed(o, w, d + k) : w \in Occurrences(v)}
    BY <1>1, <1>2, <1>6, ReplacedParts
  <2>3. Outward(o, i, k) = At(<<i>> \o p, e + k, "free", d)
    BY <1>1, <1>6, <2>1, OutwardParts
  <2>4. Replaced(At(<<i>> \o p, e + k, "free", d), v, d) =
          {Placed(At(<<i>> \o p, e + k, "free", d), w, d) : w \in Occurrences(v)}
    BY ReplacedParts
  <2>5. \A w \in Occurrences(v) :
          Outward(Placed(o, w, d + k), i, k) = Placed(At(<<i>> \o p, e + k, "free", d), w, d)
    BY <1>1, <1>6, OccurrencesTyped, PlacedOutward
  <2> QED BY <2>2, <2>3, <2>4, <2>5
<1>7. CASE kind = "free" /\ m > d + k
  <2>1. /\ m - 1 \in Nat /\ ~(m - 1 < k) /\ ~(m < k) /\ m - k \in Nat /\ m - k > d
        /\ (m - 1) - k = (m - k) - 1
    BY <1>7
  <2>2. Replaced(o, v, d + k) = {At(p, e, "free", m - 1)}
    BY <1>1, <1>2, <1>7, ReplacedParts
  <2>3. Outward(o, i, k) = At(<<i>> \o p, e + k, "free", m - k)
    BY <1>1, <1>7, <2>1, OutwardParts
  <2>4. Replaced(At(<<i>> \o p, e + k, "free", m - k), v, d) =
          {At(<<i>> \o p, e + k, "free", (m - k) - 1)}
    BY <2>1, ReplacedParts
  <2>5. Outward(At(p, e, "free", m - 1), i, k) = At(<<i>> \o p, e + k, "free", (m - 1) - k)
    BY <1>1, <2>1, OutwardParts
  <2> QED BY <2>1, <2>2, <2>3, <2>4, <2>5
<1> QED BY <1>1, <1>2, <1>3, <1>4, <1>5, <1>6, <1>7

\* The variables of a substituted term are those of the body, replaced.
SubstReplaces(s) ==
  \A q : q \in Occurrences(SubstAt(s[1], s[2], s[3])) <=>
           \E o \in Occurrences(s[1]) : q \in Replaced(o, s[2], s[3])

\* At the variable substituted for, the value is shifted to where it stands.
LEMMA SubstReplacesHit ==
  ASSUME NEW v \in Universe("term"), NEW d \in Nat, <<v, d, 0>> \in Shifts
  PROVE  Occurrences(Shift(v, d, 0)) = Replaced(At(<< >>, 0, "free", d), v, d)
<1> DEFINE here == At(<< >>, 0, "free", d)
<1>1. ShiftLifts(<<v, d, 0>>)
  BY ShiftsLift
<1>2. \A o : o \in Occurrences(Shift(v, d, 0)) <=>
               \E w \in Occurrences(v) : o = Lifted(w, d, 0)
  BY <1>1 DEF ShiftLifts
<1>3. Replaced(here, v, d) = {Placed(here, w, d) : w \in Occurrences(v)}
  BY ReplacedParts
<1>4. ASSUME NEW w \in Occurrences(v) PROVE Lifted(w, d, 0) = Placed(here, w, d)
  <2>1. PICK q \in Seq(Nat), f \in Nat, kind \in {"bound", "free"}, m \in Nat :
          w = At(q, f, kind, m)
    BY OccurrencesTyped, OccurrenceParts
  <2>2. /\ w.path = q /\ w.depth = f /\ w.means[1] = kind /\ w.means[2] = m
    BY <2>1 DEF At
  <2>3. << >> \o q = q /\ 0 + f = f /\ 0 + m = m /\ ~(m < 0)
    OBVIOUS
  <2>4. here.path = << >> /\ here.depth = 0
    BY DEF At
  <2> HIDE DEF here
  <2>5. CASE kind = "bound"
    <3>1. Lifted(w, d, 0) = w
      BY <2>2, <2>5 DEF Lifted
    <3>2. Placed(here, w, d) = At(<< >> \o q, 0 + f, "bound", 0 + m)
      BY <2>2, <2>4, <2>5 DEF Placed
    <3> QED BY <2>1, <2>3, <2>5, <3>1, <3>2
  <2>6. CASE kind = "free"
    <3>1. Lifted(w, d, 0) = At(q, f, "free", m + d)
      BY <2>2, <2>3, <2>6 DEF Lifted
    <3>2. Placed(here, w, d) = At(<< >> \o q, 0 + f, "free", m + d)
      BY <2>2, <2>4, <2>6 DEF Placed
    <3> QED BY <2>3, <3>1, <3>2
  <2> QED BY <2>1, <2>5, <2>6
<1> HIDE DEF here
<1>5. Replaced(here, v, d) = {Lifted(w, d, 0) : w \in Occurrences(v)}
  BY <1>3, <1>4
<1>6. Occurrences(Shift(v, d, 0)) = {Lifted(w, d, 0) : w \in Occurrences(v)}
  BY <1>2
<1> QED BY <1>5, <1>6 DEF here

\* One node of a substitution.
LEMMA SubstReplacesNode ==
  ASSUME NEW s \in Substitutions,
         \A i \in Subterms(s[1]) : SubstReplaces(<<s[1][i], s[2], s[3] + Binds(s[1], i)>>)
  PROVE  SubstReplaces(s)
<1> DEFINE t == s[1]
           v == s[2]
           d == s[3]
           r == SubstAt(s[1], s[2], s[3])
<1>1. /\ t \in Universe("term") /\ r \in Universe("term")
      /\ v \in Universe("term") /\ d \in Nat
      /\ t[1] = "Var" =>
           /\ t[2] = d => <<v, d, 0>> \in Shifts /\ r = Shift(v, d, 0)
           /\ t[2] > d => r = <<"Var", t[2] - 1>>
           /\ t[2] < d => r = t
      /\ t[1] # "Var" => r[1] = t[1] /\ Subterms(r) = Subterms(t)
      /\ \A i \in Subterms(t) : r[i] = SubstAt(t[i], v, d + Binds(t, i))
  BY SubstitutedNode
<1>2. ASSUME NEW i \in Subterms(t), NEW q
      PROVE  q \in Occurrences(r[i]) <=>
               \E o \in Occurrences(t[i]) : q \in Replaced(o, v, d + Binds(t, i))
  <2>1. SubstReplaces(<<t[i], v, d + Binds(t, i)>>)
    OBVIOUS
  <2> HIDE DEF t, r, v, d
  <2> QED BY <1>1, <2>1 DEF SubstReplaces
<1>3. ASSUME NEW i \in Subterms(t), NEW o \in Occurrences(t[i])
      PROVE  Replaced(Outward(o, i, Binds(t, i)), v, d) =
               {Outward(p, i, Binds(t, i)) : p \in Replaced(o, v, d + Binds(t, i))}
  <2>1. o \in Occurrence /\ i \in Nat
    BY <1>1, OccurrencesTyped, SubtermIsSmaller
  <2> DEFINE k == Binds(t, i)
  <2>2. k \in Nat
    BY BindsByConstructor
  <2> HIDE DEF t, r, v, d, k
  <2>3. Replaced(Outward(o, i, k), v, d) = {Outward(p, i, k) : p \in Replaced(o, v, d + k)}
    BY <1>1, <2>1, <2>2, ReplacedOutward
  <2> QED BY <2>3 DEF k
<1>4. t[1] # "Var" => \A i : Binds(r, i) = Binds(t, i)
  BY <1>1, BindsByConstructor
<1> HIDE DEF t, r, v, d
<1>5. CASE t[1] = "Var"
  <2> DEFINE here == At(<< >>, 0, "free", t[2])
  <2>1. t[2] \in Nat /\ Occurrences(t) = {here}
    BY <1>1, <1>5, VariableIsIndex, OccurrencesOfNode
  <2>2. CASE t[2] = d
    BY <1>1, <1>5, <2>1, <2>2, SubstReplacesHit DEF SubstReplaces, t, r, v, d
  <2>3. CASE t[2] > d
    <3>1. r[1] = "Var" /\ r[2] = t[2] - 1
      BY <1>1, <1>5, <2>3
    <3>2. Occurrences(r) = {At(<< >>, 0, "free", t[2] - 1)}
      BY <1>1, <3>1, OccurrencesOfNode
    <3>3. Replaced(here, v, d) = {At(<< >>, 0, "free", t[2] - 1)}
      BY <1>1, <2>1, <2>3, ReplacedParts
    <3> HIDE DEF here
    <3> QED BY <2>1, <3>2, <3>3 DEF SubstReplaces, t, r, v, d
  <2>4. CASE t[2] < d
    <3>1. r = t
      BY <1>1, <1>5, <2>4
    <3>2. Replaced(here, v, d) = {here}
      BY <1>1, <2>1, <2>4, ReplacedParts
    <3> HIDE DEF here
    <3> QED BY <2>1, <3>1, <3>2 DEF SubstReplaces, t, r, v, d
  <2> QED BY <1>1, <2>1, <2>2, <2>3, <2>4
<1>6. CASE t[1] # "Var"
  <2>1. ASSUME NEW q
        PROVE  q \in Occurrences(r) <=> \E o \in Occurrences(t) : q \in Replaced(o, v, d)
    <3>1. q \in Occurrences(r) <=>
            \E i \in Subterms(t) : \E p \in Occurrences(r[i]) : q = Outward(p, i, Binds(t, i))
      BY <1>1, <1>4, <1>6, OccurrencesOfNode
    <3>2. q \in Occurrences(r) <=>
            \E i \in Subterms(t) : \E o \in Occurrences(t[i]) :
              \E p \in Replaced(o, v, d + Binds(t, i)) : q = Outward(p, i, Binds(t, i))
      BY <1>2, <3>1
    <3>3. q \in Occurrences(r) <=>
            \E i \in Subterms(t) : \E o \in Occurrences(t[i]) :
              q \in Replaced(Outward(o, i, Binds(t, i)), v, d)
      BY <1>3, <3>2
    <3>4. \A p : p \in Occurrences(t) <=>
            \E i \in Subterms(t) : \E o \in Occurrences(t[i]) : p = Outward(o, i, Binds(t, i))
      BY <1>1, <1>6, OccurrencesOfNode
    <3> QED BY <3>3, <3>4
  <2> QED BY <2>1 DEF SubstReplaces, t, r, v, d
<1> QED BY <1>5, <1>6

\* Substituting in a term of any depth replaces its variables.
LEMMA SubstitutionsReplace == \A s \in Substitutions : SubstReplaces(s)
<1> DEFINE Bad == {s \in Substitutions : ~SubstReplaces(s)}
<1>1. ASSUME NEW s \in Bad PROVE FALSE
  <2>1. \A b \in Bad : b[1] \in Universe("term")
    BY SubstitutedNode
  <2>2. PICK b \in Bad : \A i \in Subterms(b[1]) : \A c \in Bad : c[1] # b[1][i]
    <3> HIDE DEF Bad
    <3> QED BY <1>1, <2>1, SmallestCall
  <2>3. \A i \in Subterms(b[1]) : SubstReplaces(<<b[1][i], b[2], b[3] + Binds(b[1], i)>>)
    <3> TAKE i \in Subterms(b[1])
    <3> DEFINE c == <<b[1][i], b[2], b[3] + Binds(b[1], i)>>
    <3>1. c \in Substitutions /\ c[1] = b[1][i]
      BY SubstitutedNode
    <3>2. c \notin Bad
      BY <2>2, <3>1
    <3> QED BY <3>1, <3>2
  <2> QED BY <2>3, SubstReplacesNode
<1> QED BY <1>1

\* What becomes of a variable when values stand for the first free variables, as
\* Substituted says it.
Becomes(o, values) ==
  CASE o.means[1] = "bound" -> {o}
    [] o.means[1] = "free" /\ o.means[2] < Len(values) ->
         {[path |-> o.path \o w.path, depth |-> o.depth + w.depth,
           means |-> IF w.means[1] = "bound" THEN <<"bound", o.depth + w.means[2]>> ELSE w.means]
            : w \in Occurrences(values[o.means[2] + 1])}
    [] OTHER -> {[o EXCEPT !.means = <<"free", @[2] - Len(values)>>]}

\* Substituted, variable by variable.
LEMMA SubstitutedPoints ==
  ASSUME NEW body, NEW values
  PROVE  Substituted(body, values) = UNION {Becomes(o, values) : o \in Occurrences(body)}
  BY DEF Substituted, Becomes

\* A bound variable stays; one the values do not reach moves down.
LEMMA BecomesOther ==
  ASSUME NEW p \in Seq(Nat), NEW e \in Nat, NEW m \in Nat, NEW values, Len(values) \in Nat
  PROVE  /\ Becomes(At(p, e, "bound", m), values) = {At(p, e, "bound", m)}
         /\ m >= Len(values) =>
              Becomes(At(p, e, "free", m), values) = {At(p, e, "free", m - Len(values))}
<1>1. \A kind : /\ At(p, e, kind, m).means[1] = kind /\ At(p, e, kind, m).means[2] = m
                /\ At(p, e, kind, m) = [path |-> p, depth |-> e, means |-> <<kind, m>>]
  BY DEF At
<1>2. Becomes(At(p, e, "bound", m), values) = {At(p, e, "bound", m)}
  BY <1>1 DEF Becomes
<1>3. ASSUME m >= Len(values)
      PROVE  Becomes(At(p, e, "free", m), values) = {At(p, e, "free", m - Len(values))}
  <2> DEFINE o == At(p, e, "free", m)
             k == Len(values)
  <2>1. o.means[1] = "free" /\ o.means[2] = m /\ ~(m < k) /\ "free" # "bound"
    BY <1>1, <1>3
  <2>2. Becomes(o, values) = {[o EXCEPT !.means = <<"free", @[2] - k>>]}
    <3> HIDE DEF o
    <3> QED BY <2>1 DEF Becomes
  <2>3. [o EXCEPT !.means = <<"free", @[2] - k>>] = At(p, e, "free", m - k)
    <3> HIDE DEF k
    <3> QED BY DEF At
  <2> QED BY <2>2, <2>3
<1> QED BY <1>2, <1>3

\* Where a value stands, its variables are placed.
LEMMA BecomesPlaced ==
  ASSUME NEW p \in Seq(Nat), NEW e \in Nat, NEW m \in Nat, NEW values, Len(values) \in Nat,
         m < Len(values), values[m + 1] \in Universe("term")
  PROVE  Becomes(At(p, e, "free", m), values) =
           {Placed(At(p, e, "free", m), w, 0) : w \in Occurrences(values[m + 1])}
<1> DEFINE o == At(p, e, "free", m)
           v == values[m + 1]
           InPlace(w) ==
             [path |-> o.path \o w.path, depth |-> o.depth + w.depth,
              means |-> IF w.means[1] = "bound" THEN <<"bound", o.depth + w.means[2]>> ELSE w.means]
<1>1. o.means[1] = "free" /\ o.means[2] = m /\ "free" # "bound" /\ o.path = p /\ o.depth = e
  BY DEF At
<1>2. Becomes(o, values) = {InPlace(w) : w \in Occurrences(v)}
  <2> HIDE DEF o
  <2> QED BY <1>1, Zenon DEF Becomes
<1>3. ASSUME NEW w \in Occurrences(v) PROVE InPlace(w) = Placed(o, w, 0)
  <2>1. PICK q \in Seq(Nat), f \in Nat, kind \in {"bound", "free"}, n0 \in Nat :
          w = At(q, f, kind, n0)
    BY OccurrencesTyped, OccurrenceParts
  <2>2. /\ w.path = q /\ w.depth = f /\ w.means[1] = kind /\ w.means[2] = n0
        /\ w.means = <<kind, n0>> /\ n0 + 0 = n0
    BY <2>1 DEF At
  <2> HIDE DEF o
  <2>3. CASE kind = "bound"
    BY <2>2, <2>3 DEF Placed, At
  <2>4. CASE kind = "free"
    BY <2>2, <2>4 DEF Placed, At
  <2> QED BY <2>3, <2>4
<1> HIDE DEF o, InPlace, v
<1>4. Becomes(o, values) = {Placed(o, w, 0) : w \in Occurrences(v)}
  BY <1>2, <1>3
<1> QED BY <1>4 DEF o, v

\* One substitution does what substituting one value at once does.
LEMMA SubstIsSubstituted ==
  ASSUME NEW body, NEW v, <<body, v, 0>> \in Substitutions
  PROVE  Occurrences(Subst(body, v)) = Substituted(body, <<v>>)
<1>1. body \in Universe("term") /\ v \in Universe("term")
  BY SubstitutedNode
<1>2. SubstReplaces(<<body, v, 0>>)
  BY SubstitutionsReplace
<1>3. \A q : q \in Occurrences(Subst(body, v)) <=>
               \E o \in Occurrences(body) : q \in Replaced(o, v, 0)
  BY <1>2 DEF SubstReplaces, Subst
<1> DEFINE values == <<v>>
<1>4. Len(values) = 1 /\ Len(values) \in Nat /\ values[1] = v /\ 0 + 1 = 1
  OBVIOUS
<1> HIDE DEF values
<1>5. ASSUME NEW o \in Occurrences(body) PROVE Replaced(o, v, 0) = Becomes(o, values)
  <2>1. PICK p \in Seq(Nat), e \in Nat, kind \in {"bound", "free"}, m \in Nat :
          o = At(p, e, kind, m)
    BY <1>1, OccurrencesTyped, OccurrenceParts
  <2>2. CASE kind = "bound"
    <3>1. Replaced(At(p, e, "bound", m), v, 0) = {At(p, e, "bound", m)}
      BY ReplacedParts
    <3>2. Becomes(At(p, e, "bound", m), values) = {At(p, e, "bound", m)}
      BY <1>4, BecomesOther
    <3> QED BY <2>1, <2>2, <3>1, <3>2
  <2>3. CASE kind = "free" /\ m = 0
    <3>1. Replaced(At(p, e, "free", 0), v, 0) =
            {Placed(At(p, e, "free", 0), w, 0) : w \in Occurrences(v)}
      BY ReplacedParts
    <3>2. Becomes(At(p, e, "free", 0), values) =
            {Placed(At(p, e, "free", 0), w, 0) : w \in Occurrences(values[0 + 1])}
      <4>1. 0 < Len(values) /\ values[0 + 1] \in Universe("term") /\ Len(values) \in Nat
        BY <1>1, <1>4
      <4>2. 0 \in Nat
        OBVIOUS
      <4> QED BY <4>1, <4>2, BecomesPlaced
    <3>3. Replaced(At(p, e, "free", 0), v, 0) = Becomes(At(p, e, "free", 0), values)
      <4>1. values[0 + 1] = v
        BY <1>4
      <4> QED BY <3>1, <3>2, <4>1
    <3>4. o = At(p, e, "free", 0)
      BY <2>1, <2>3
    <3> QED BY <3>3, <3>4
  <2>4. CASE kind = "free" /\ m > 0
    <3>1. m >= Len(values) /\ Len(values) \in Nat
      BY <1>4, <2>4
    <3>2. Replaced(At(p, e, "free", m), v, 0) = {At(p, e, "free", m - 1)}
      BY <2>4, ReplacedParts
    <3>3. Becomes(At(p, e, "free", m), values) = {At(p, e, "free", m - Len(values))}
      BY <3>1, BecomesOther
    <3> QED BY <1>4, <2>1, <2>4, <3>2, <3>3
  <2> QED BY <2>1, <2>2, <2>3, <2>4
<1>6. \A q : q \in Occurrences(Subst(body, v)) <=>
               \E o \in Occurrences(body) : q \in Becomes(o, values)
  BY <1>3, <1>5
<1>7. Occurrences(Subst(body, v)) = UNION {Becomes(o, values) : o \in Occurrences(body)}
  BY <1>6
<1> QED BY <1>7, SubstitutedPoints DEF values

\* A variable of the first component of a tensor, lifted over the second variable and
\* back down when that is substituted, ends where it would have been placed.
LEMMA PlacedTwice ==
  ASSUME NEW p \in Seq(Nat), NEW e \in Nat, NEW w \in Occurrence, NEW b
  PROVE  Replaced(Placed(At(p, e, "free", 0), Lifted(w, 1, 0), 0), b, 0) =
           {Placed(At(p, e, "free", 0), w, 0)}
<1> DEFINE o == At(p, e, "free", 0)
<1>1. PICK q \in Seq(Nat), f \in Nat, kind \in {"bound", "free"}, m \in Nat : w = At(q, f, kind, m)
  BY OccurrenceParts
<1>2. /\ w.path = q /\ w.depth = f /\ w.means[1] = kind /\ w.means[2] = m
  BY <1>1 DEF At
<1>3. o.path = p /\ o.depth = e
  BY DEF At
<1> HIDE DEF o
<1>4. CASE kind = "bound"
  <2>1. Lifted(w, 1, 0) = w
    BY <1>2, <1>4 DEF Lifted
  <2>2. Placed(o, w, 0) = At(p \o q, e + f, "bound", e + m)
    BY <1>2, <1>3, <1>4 DEF Placed
  <2>3. e + m \in Nat
    OBVIOUS
  <2>4. Replaced(At(p \o q, e + f, "bound", e + m), b, 0) = {At(p \o q, e + f, "bound", e + m)}
    BY <2>3, ReplacedParts
  <2> QED BY <2>1, <2>2, <2>4 DEF o
<1>5. CASE kind = "free"
  <2> DEFINE x == Lifted(w, 1, 0)
  <2>1. x = At(q, f, "free", m + 1)
    BY <1>2, <1>5 DEF Lifted
  <2>2. x.path = q /\ x.depth = f /\ x.means[1] = "free" /\ x.means[2] = m + 1
    BY <2>1 DEF At
  <2> HIDE DEF x
  <2>3. Placed(o, x, 0) = At(p \o q, e + f, "free", m + 1)
    BY <1>3, <2>2 DEF Placed
  <2>4. Placed(o, w, 0) = At(p \o q, e + f, "free", m)
    BY <1>2, <1>3, <1>5 DEF Placed
  <2>5. m + 1 \in Nat /\ m + 1 > 0 /\ (m + 1) - 1 = m
    OBVIOUS
  <2>6. Replaced(At(p \o q, e + f, "free", m + 1), b, 0) =
          {At(p \o q, e + f, "free", (m + 1) - 1)}
    BY <2>5, ReplacedParts
  <2> QED BY <2>3, <2>4, <2>5, <2>6 DEF o, x
<1> QED BY <1>1, <1>4, <1>5

\* The two substitutions of let-tensor do what substituting both components at once
\* does.
LEMMA TensorIsSubstituted ==
  ASSUME NEW body, NEW a, NEW b,
         <<a, 1, 0>> \in Shifts,
         <<body, Shift(a, 1, 0), 0>> \in Substitutions,
         <<Subst(body, Shift(a, 1, 0)), b, 0>> \in Substitutions
  PROVE  Occurrences(BindTensor(body, a, b)) = Substituted(body, <<a, b>>)
<1> DEFINE lifted == Shift(a, 1, 0)
           first == Subst(body, lifted)
           values == <<a, b>>
<1>1. body \in Universe("term") /\ lifted \in Universe("term") /\ b \in Universe("term")
  BY SubstitutedNode
<1>2. a \in Universe("term")
  BY ShiftedNode
<1>3. \A w : w \in Occurrences(lifted) <=> \E x \in Occurrences(a) : w = Lifted(x, 1, 0)
  BY ShiftsLift DEF ShiftLifts
<1>4. \A q : q \in Occurrences(first) <=>
               \E o \in Occurrences(body) : q \in Replaced(o, lifted, 0)
  BY SubstitutionsReplace DEF SubstReplaces, Subst
<1>5. \A q : q \in Occurrences(Subst(first, b)) <=>
               \E o \in Occurrences(first) : q \in Replaced(o, b, 0)
  BY SubstitutionsReplace DEF SubstReplaces, Subst
<1>6. Len(values) = 2 /\ Len(values) \in Nat /\ values[1] = a /\ values[2] = b
        /\ 0 + 1 = 1 /\ 1 + 1 = 2
  OBVIOUS
<1>7. BindTensor(body, a, b) = Subst(first, b)
  BY DEF BindTensor
<1> HIDE DEF lifted, first, values
<1>8. ASSUME NEW o \in Occurrences(body)
      PROVE  UNION {Replaced(x, b, 0) : x \in Replaced(o, lifted, 0)} = Becomes(o, values)
  <2>1. PICK p \in Seq(Nat), e \in Nat, kind \in {"bound", "free"}, m \in Nat :
          o = At(p, e, kind, m)
    BY <1>1, OccurrencesTyped, OccurrenceParts
  <2>2. CASE kind = "bound"
    <3>1. Replaced(o, lifted, 0) = {o} /\ Replaced(o, b, 0) = {o}
      BY <2>1, <2>2, ReplacedParts
    <3>2. Becomes(o, values) = {o}
      BY <1>6, <2>1, <2>2, BecomesOther
    <3> QED BY <3>1, <3>2
  <2>3. CASE kind = "free" /\ m = 0
    <3> DEFINE here == At(p, e, "free", 0)
    <3>1. Replaced(here, lifted, 0) = {Placed(here, w, 0) : w \in Occurrences(lifted)}
      BY ReplacedParts
    <3>2. Becomes(here, values) = {Placed(here, w, 0) : w \in Occurrences(a)}
      <4>1. 0 < Len(values) /\ values[0 + 1] \in Universe("term") /\ Len(values) \in Nat
        BY <1>2, <1>6
      <4>2. Becomes(here, values) = {Placed(here, w, 0) : w \in Occurrences(values[0 + 1])}
        BY <4>1, BecomesPlaced
      <4> HIDE DEF here
      <4> QED BY <1>6, <4>2
    <3>3. ASSUME NEW w \in Occurrences(a)
          PROVE  Replaced(Placed(here, Lifted(w, 1, 0), 0), b, 0) = {Placed(here, w, 0)}
      BY <1>2, OccurrencesTyped, PlacedTwice
    <3> HIDE DEF here
    <3>4. Replaced(here, lifted, 0) = {Placed(here, Lifted(w, 1, 0), 0) : w \in Occurrences(a)}
      BY <1>3, <3>1
    <3>5. UNION {Replaced(x, b, 0) : x \in Replaced(here, lifted, 0)} =
            {Placed(here, w, 0) : w \in Occurrences(a)}
      <4> DEFINE Both == UNION {Replaced(x, b, 0) : x \in Replaced(here, lifted, 0)}
      <4>1. \A q : q \in Both <=> \E x \in Replaced(here, lifted, 0) : q \in Replaced(x, b, 0)
        OBVIOUS
      <4>2. \A x : x \in Replaced(here, lifted, 0) <=>
                    \E w \in Occurrences(a) : x = Placed(here, Lifted(w, 1, 0), 0)
        BY <3>4
      <4> HIDE DEF Both
      <4>3. \A q : q \in Both <=> \E w \in Occurrences(a) : q = Placed(here, w, 0)
        <5>1. \A q : q \in Both <=>
                      \E w \in Occurrences(a) :
                        q \in Replaced(Placed(here, Lifted(w, 1, 0), 0), b, 0)
          BY <4>1, <4>2
        <5>2. ASSUME NEW w \in Occurrences(a), NEW q
              PROVE  q \in Replaced(Placed(here, Lifted(w, 1, 0), 0), b, 0) <=> q = Placed(here, w, 0)
          BY <3>3
        <5> QED BY <5>1, <5>2
      <4>4. Both = {Placed(here, w, 0) : w \in Occurrences(a)}
        BY <4>3
      <4> QED BY <4>4 DEF Both
    <3> QED BY <2>1, <2>3, <3>2, <3>5 DEF here
  <2>4. CASE kind = "free" /\ m = 1
    <3> DEFINE here == At(p, e, "free", 1)
               next == At(p, e, "free", 0)
    <3>1. 1 > 0 /\ 1 - 1 = 0
      OBVIOUS
    <3>2. Replaced(here, lifted, 0) = {next}
      BY <3>1, ReplacedParts
    <3>3. Replaced(next, b, 0) = {Placed(next, w, 0) : w \in Occurrences(b)}
      BY ReplacedParts
    <3>4. Becomes(here, values) = {Placed(here, w, 0) : w \in Occurrences(b)}
      <4>1. 1 < Len(values) /\ values[1 + 1] \in Universe("term") /\ Len(values) \in Nat
        BY <1>1, <1>6
      <4>2. Becomes(here, values) = {Placed(here, w, 0) : w \in Occurrences(values[1 + 1])}
        BY <4>1, BecomesPlaced
      <4> HIDE DEF here
      <4> QED BY <1>6, <4>2
    <3>5. \A w : Placed(here, w, 0) = Placed(next, w, 0)
      BY DEF Placed, At
    <3> HIDE DEF here, next
    <3> QED BY <2>1, <2>4, <3>2, <3>3, <3>4, <3>5 DEF here
  <2>5. CASE kind = "free" /\ m > 1
    <3>1. m > 0 /\ m - 1 \in Nat /\ m - 1 > 0 /\ (m - 1) - 1 = m - 2
      BY <2>5
    <3>2. Replaced(At(p, e, "free", m), lifted, 0) = {At(p, e, "free", m - 1)}
      BY <3>1, ReplacedParts
    <3>3. Replaced(At(p, e, "free", m - 1), b, 0) = {At(p, e, "free", (m - 1) - 1)}
      BY <3>1, ReplacedParts
    <3>4. Becomes(At(p, e, "free", m), values) = {At(p, e, "free", m - Len(values))}
      <4>1. m >= Len(values) /\ Len(values) \in Nat
        BY <1>6, <2>5
      <4> QED BY <4>1, BecomesOther
    <3> QED BY <1>6, <2>1, <2>5, <3>1, <3>2, <3>3, <3>4
  <2> QED BY <2>1, <2>2, <2>3, <2>4, <2>5
<1>9. \A q : q \in Occurrences(Subst(first, b)) <=>
               \E o \in Occurrences(body) : \E x \in Replaced(o, lifted, 0) : q \in Replaced(x, b, 0)
  BY <1>4, <1>5
<1>10. \A q : q \in Occurrences(Subst(first, b)) <=>
                \E o \in Occurrences(body) : q \in Becomes(o, values)
  BY <1>8, <1>9
<1>11. Occurrences(Subst(first, b)) = UNION {Becomes(o, values) : o \in Occurrences(body)}
  BY <1>10
<1> QED BY <1>7, <1>11, SubstitutedPoints DEF values

\* subst.rs captures nothing and step's let-tensor binds both variables at once: for
\* bodies and values of any depth, in every reduct.
THEOREM SubstitutionIsCaptureAvoiding == Spec => []SubstitutionKeepsBindings
<1>1. ReducesPrograms => SubstitutionKeepsBindings
  <2> SUFFICES ASSUME ReducesPrograms PROVE SubstitutionKeepsBindings
    OBVIOUS
  <2>1. cur \in Programs
    BY DEF ReducesPrograms
  <2>2. ASSUME NEW v \in Values PROVE Occurrences(Subst(cur, v)) = Substituted(cur, <<v>>)
    <3>1. <<cur, v, 0>> \in Substitutions
      BY <2>1, ProgramAssumption
    <3> QED BY <3>1, SubstIsSubstituted
  <2>3. ASSUME Is(cur, "LetTensor") /\ Is(cur[2], "TensorIntro")
        PROVE  Occurrences(Step(cur)) = Substituted(cur[3], <<cur[2][2], cur[2][3]>>)
    <3> DEFINE body == cur[3]
               a == cur[2][2]
               b == cur[2][3]
    <3>1. Step(cur) = BindTensor(body, a, b)
      <4>1. Step(cur) = StepRule(cur)
        BY <2>1, ProgramAssumption
      <4>2. StepRule(cur) = BindTensor(body, a, b)
        BY <2>3 DEF StepRule, Contract, Awaits, Is
      <4> QED BY <4>1, <4>2
    <3>2. Substitutes(cur) \subseteq Substitutions /\ Lifts(cur) \subseteq Shifts
      BY <2>1, ProgramAssumption
    <3>3. Substitutes(cur) = {<<body, Shift(a, 1, 0), 0>>, <<Subst(body, Shift(a, 1, 0)), b, 0>>}
      BY <2>3 DEF Substitutes, Is
    <3>4. Lifts(cur) = {<<a, 1, 0>>}
      BY <2>3 DEF Lifts
    <3> HIDE DEF body, a, b
    <3>5. Occurrences(BindTensor(body, a, b)) = Substituted(body, <<a, b>>)
      BY <3>2, <3>3, <3>4, TensorIsSubstituted
    <3> QED BY <3>1, <3>5 DEF body, a, b
  <2> QED BY <2>2, <2>3 DEF SubstitutionKeepsBindings
<1> QED BY <1>1, ProgramsReduced, PTL

-----------------------------------------------------------------------------
(* What a step makes of a term. *)

\* u is in t, one or two nodes down, with k variables of t's nodes bound there.
Below(t, u, k) ==
  \E i \in Subterms(t) :
    \/ u = t[i] /\ k = Binds(t, i)
    \/ \E j \in Subterms(t[i]) : u = t[i][j] /\ k = Binds(t, i) + Binds(t[i], j)

\* r is a part of t in which a part of t was substituted.
Substituting(t, r) ==
  \E body, v : /\ Below(t, body, 1) /\ Below(t, v, 0)
               /\ <<body, v, 0>> \in Substitutions /\ r = Subst(body, v)

\* r is a part of t in which both components of a tensor were substituted.
BindingTensor(t, r) ==
  \E body, a, b :
    /\ Below(t, body, 2) /\ Below(t, a, 0) /\ Below(t, b, 0)
    /\ <<a, 1, 0>> \in Shifts
    /\ <<body, Shift(a, 1, 0), 0>> \in Substitutions
    /\ <<Subst(body, Shift(a, 1, 0)), b, 0>> \in Substitutions
    /\ r = BindTensor(body, a, b)

\* r is a command of t applied to an argument of t.
Running(t, r) ==
  \E f, x, l : Below(t, f, 0) /\ Below(t, x, 0) /\ r = <<"LiftLabel", l, <<"App", f, x>>>>

\* r is a proof of t signed for a delegation.
Delegating(t, r) ==
  t[1] = "Delegate" /\ \E p, m, sig : Below(t, m, 0) /\ r = <<"Sign", p, m, sig>>

\* t with s in field i.
InPlace(t, i, s) == [t EXCEPT ![i] = s]

\* r is t with a subterm reduced.
Reducing(t, r) ==
  \E i \in Subterms(t) :
    Binds(t, i) = 0 /\ Step(t[i]) # NoTerm /\ r = InPlace(t, i, Step(t[i]))

StepForms(t, r) ==
  \/ Substituting(t, r) \/ Below(t, r, 0) \/ BindingTensor(t, r)
  \/ Running(t, r) \/ Delegating(t, r) \/ Reducing(t, r)

\* The congruence rule reduces a subterm.
LEMMA CongruenceReduces ==
  ASSUME NEW t, NEW i \in Subterms(t), Binds(t, i) = 0, Congruence(t, i) # NoTerm
  PROVE  Reducing(t, Congruence(t, i))
  BY DEF Congruence, Reducing, InPlace

\* Where terms bind variables: on the principal argument of an elimination, nowhere.
LEMMA BindsTable ==
  ASSUME NEW t, NEW i \in Nat
  PROVE  /\ t[1] \notin {"Lam", "Case", "LetTensor", "SaysBind", "LetSays"} => Binds(t, i) = 0
         /\ t[1] # "Lam" /\ i = 2 => Binds(t, i) = 0
         /\ t[1] \in {"SaysBind", "LetSays"} => Binds(t, 3) = 0 /\ Binds(t, 4) = 1
         /\ t[1] = "Lam" => Binds(t, 3) = 1
         /\ t[1] = "Case" => Binds(t, 3) = 1 /\ Binds(t, 4) = 1
         /\ t[1] = "LetTensor" => Binds(t, 3) = 2
  BY DEF Binds

\* The terms one and two nodes down, by constructor.
LEMMA PartsBelow ==
  ASSUME NEW t \in Universe("term")
  PROVE  /\ \A i \in Subterms(t) : Below(t, t[i], Binds(t, i))
         /\ \A i \in Subterms(t) : \A j \in Subterms(t[i]) :
              Below(t, t[i][j], Binds(t, i) + Binds(t[i], j))
  BY DEF Below

\* A term is one of its constructor's arity, with subterms that are terms.
LEMMA SubtermsAre ==
  ASSUME NEW t \in Universe("term")
  PROVE  /\ t[1] \in {"Var", "Now"} => Subterms(t) = {}
         /\ t[1] \in {"Fst", "Snd", "SfExtract", "Attenuate"} => Subterms(t) = {2}
         /\ t[1] \in {"Lam", "Sign", "Verify", "LiftLabel", "WithinIntro", "Inl", "Inr"} =>
              Subterms(t) = {3}
         /\ t[1] \in {"App", "Delegate", "Discharge", "Pair", "TensorIntro", "LetTensor",
                      "Command", "RunCmd"} => Subterms(t) = {2, 3}
         /\ t[1] \in {"Boxed", "Declassify", "SaysBind", "LetSays"} => Subterms(t) = {3, 4}
         /\ t[1] = "Case" => Subterms(t) = {2, 3, 4}
         /\ \A i \in Subterms(t) : t[i] \in Universe("term") /\ i \in Nat
<1>1. Subterms(t) = SubtermsOf(t[1])
  BY SubtermsByConstructor
<1>2. \A i \in Subterms(t) : t[i] \in Universe("term") /\ i \in Nat
  BY SubtermIsSmaller
<1> QED BY <1>1, <1>2, SubtermTable

\* What the head rules make of a term.
LEMMA ContractForms ==
  ASSUME NEW t \in Programs, t[1] \in DOMAIN Awaits, t[2][1] \in Awaits[t[1]]
  PROVE  StepForms(t, Contract(t))
<1> DEFINE m == t[2]
           r == Contract(t)
<1>1. /\ t \in Universe("term")
      /\ Substitutes(t) \subseteq Substitutions /\ Lifts(t) \subseteq Shifts
  BY ProgramAssumption
<1>2. t[1] \in {"App", "Fst", "Snd", "Case", "LetTensor", "SfExtract", "Discharge", "RunCmd"}
  BY DEF Awaits
<1>3. 2 \in Subterms(t) /\ Binds(t, 2) = 0 /\ m \in Universe("term")
  <2>1. 2 \in Subterms(t)
    BY <1>1, <1>2, SubtermsAre
  <2>2. Binds(t, 2) = 0
    BY <1>2, BindsTable
  <2> QED BY <1>1, <2>1, <2>2, SubtermsAre
<1>4. \A j \in Subterms(m) : Below(t, m[j], Binds(m, j))
  <2>1. \A j \in Subterms(m) : Below(t, m[j], 0 + Binds(m, j))
    BY <1>1, <1>3, PartsBelow
  <2>2. \A j : 0 + Binds(m, j) = Binds(m, j)
    BY BindsByConstructor
  <2> QED BY <2>1, <2>2
<1>5. \A i \in Subterms(t) : Below(t, t[i], Binds(t, i))
  BY <1>1, PartsBelow
<1> HIDE DEF r
<1>6. CASE t[1] = "App"
  <2>1. m[1] = "Lam" /\ r = Subst(m[3], t[3]) /\ Substitutes(t) = {<<m[3], t[3], 0>>}
    BY <1>6 DEF r, Contract, Awaits, Substitutes, Is
  <2>2. Below(t, m[3], 1) /\ Below(t, t[3], 0)
    <3>1. Subterms(m) = {3} /\ Binds(m, 3) = 1 /\ Subterms(t) = {2, 3} /\ Binds(t, 3) = 0
      BY <1>1, <1>3, <1>6, <2>1, SubtermsAre, BindsTable
    <3> QED BY <1>4, <1>5, <3>1
  <2> HIDE DEF m
  <2> QED BY <1>1, <2>1, <2>2 DEF r, StepForms, Substituting
<1>7. CASE t[1] \in {"Fst", "Snd", "SfExtract", "Discharge"}
  <2>1. \E j \in Subterms(m) : r = m[j] /\ Binds(m, j) = 0
    <3>1. CASE t[1] = "Fst"
      <4>1. m[1] = "Pair" /\ r = m[2]
        BY <3>1 DEF r, Contract, Awaits, Is
      <4> QED BY <1>3, <4>1, SubtermsAre, BindsTable
    <3>2. CASE t[1] = "Snd"
      <4>1. m[1] = "Pair" /\ r = m[3]
        BY <3>2 DEF r, Contract, Awaits, Is
      <4> QED BY <1>3, <4>1, SubtermsAre, BindsTable
    <3>3. CASE t[1] = "SfExtract"
      <4>1. m[1] = "Sign" /\ r = m[3]
        BY <3>3 DEF r, Contract, Awaits, Is
      <4> QED BY <1>3, <4>1, SubtermsAre, BindsTable
    <3>4. CASE t[1] = "Discharge"
      <4>1. m[1] = "Boxed" /\ r = m[3]
        BY <3>4 DEF r, Contract, Awaits, Is
      <4> QED BY <1>3, <4>1, SubtermsAre, BindsTable
    <3> QED BY <1>7, <3>1, <3>2, <3>3, <3>4
  <2> QED BY <1>4, <2>1 DEF r, StepForms
<1>8. CASE t[1] = "Case"
  <2>1. PICK j \in {3, 4} : r = Subst(t[j], m[3]) /\ Substitutes(t) = {<<t[j], m[3], 0>>}
                              /\ m[1] \in {"Inl", "Inr"}
    <3>1. CASE m[1] = "Inl"
      BY <1>8, <3>1 DEF r, Contract, Awaits, Substitutes, Is
    <3>2. CASE m[1] = "Inr"
      BY <1>8, <3>2 DEF r, Contract, Awaits, Substitutes, Is
    <3>3. m[1] \in {"Inl", "Inr"}
      BY <1>8 DEF Awaits
    <3> QED BY <3>1, <3>2, <3>3
  <2>2. Below(t, t[j], 1) /\ Below(t, m[3], 0)
    <3>1. Subterms(m) = {3} /\ Binds(m, 3) = 0 /\ j \in Subterms(t) /\ Binds(t, j) = 1
      BY <1>1, <1>3, <1>8, <2>1, SubtermsAre, BindsTable
    <3> QED BY <1>4, <1>5, <3>1
  <2> HIDE DEF m
  <2> QED BY <1>1, <2>1, <2>2 DEF r, StepForms, Substituting
<1>9. CASE t[1] = "LetTensor"
  <2> DEFINE a == Shift(m[2], 1, 0)
  <2>1. /\ m[1] = "TensorIntro" /\ r = BindTensor(t[3], m[2], m[3])
        /\ Substitutes(t) = {<<t[3], a, 0>>, <<Subst(t[3], a), m[3], 0>>}
        /\ Lifts(t) = {<<m[2], 1, 0>>}
    BY <1>9 DEF r, Contract, Awaits, Substitutes, Lifts, Is
  <2>2. Below(t, t[3], 2) /\ Below(t, m[2], 0) /\ Below(t, m[3], 0)
    <3>1. Subterms(m) = {2, 3} /\ Binds(m, 2) = 0 /\ Binds(m, 3) = 0
      BY <1>3, <2>1, SubtermsAre, BindsTable
    <3>2. 3 \in Subterms(t) /\ Binds(t, 3) = 2
      BY <1>1, <1>9, SubtermsAre, BindsTable
    <3> QED BY <1>4, <1>5, <3>1, <3>2
  <2> HIDE DEF m
  <2>3. BindingTensor(t, r)
    BY <1>1, <2>1, <2>2 DEF BindingTensor
  <2> QED BY <2>3 DEF r, StepForms
<1>10. CASE t[1] = "RunCmd"
  <2>1. m[1] = "Command" /\ r = <<"LiftLabel", m[4], <<"App", m[2], t[3]>>>>
    BY <1>10 DEF r, Contract, Awaits, Is
  <2>2. Below(t, m[2], 0) /\ Below(t, t[3], 0)
    <3>1. Subterms(m) = {2, 3} /\ Binds(m, 2) = 0
      BY <1>3, <2>1, SubtermsAre, BindsTable
    <3>2. 3 \in Subterms(t) /\ Binds(t, 3) = 0
      BY <1>1, <1>10, SubtermsAre, BindsTable
    <3> QED BY <1>4, <1>5, <3>1, <3>2
  <2> HIDE DEF m
  <2> QED BY <2>1, <2>2 DEF r, StepForms, Running
<1> QED BY <1>2, <1>6, <1>7, <1>8, <1>9, <1>10 DEF r

\* What step makes of a program.
LEMMA StepHasForm ==
  ASSUME NEW t \in Programs, Step(t) # NoTerm
  PROVE  StepForms(t, Step(t))
<1>1. /\ t \in Universe("term") /\ Step(t) = StepRule(t)
      /\ Substitutes(t) \subseteq Substitutions
  BY ProgramAssumption
<1>2. \A i \in Subterms(t) : Below(t, t[i], Binds(t, i))
  BY <1>1, PartsBelow
<1>3. ASSUME NEW i \in Subterms(t), Binds(t, i) = 0, Step(t) = Congruence(t, i)
      PROVE  StepForms(t, Step(t))
  BY <1>3, CongruenceReduces DEF StepForms
<1>4. CASE t[1] \in DOMAIN Awaits
  <2>1. CASE t[2][1] \in Awaits[t[1]]
    <3>1. Step(t) = Contract(t)
      BY <1>1, <1>4, <2>1 DEF StepRule, Awaits, Is
    <3> QED BY <1>4, <2>1, <3>1, ContractForms
  <2>2. CASE t[2][1] \notin Awaits[t[1]]
    <3>1. Step(t) = Congruence(t, 2)
      BY <1>1, <1>4, <2>2 DEF StepRule, Awaits, Is
    <3>2. t[1] \in {"App", "Fst", "Snd", "Case", "LetTensor", "SfExtract", "Discharge", "RunCmd"}
      BY <1>4 DEF Awaits
    <3>3. 2 \in Subterms(t) /\ Binds(t, 2) = 0
      BY <1>1, <3>2, SubtermsAre, BindsTable
    <3> QED BY <1>3, <3>1, <3>3
  <2> QED BY <2>1, <2>2
<1>5. CASE t[1] \in {"SaysBind", "LetSays"}
  <2>1. Step(t) = OpenSays(t)
    BY <1>1, <1>5 DEF StepRule, Awaits, Is
  <2>2. Subterms(t) = {3, 4} /\ Binds(t, 3) = 0 /\ Binds(t, 4) = 1
    BY <1>1, <1>5, SubtermsAre, BindsTable
  <2>3. CASE t[3][1] = "Sign"
    <3> DEFINE m == t[3]
    <3>1. m \in Universe("term") /\ Subterms(m) = {3} /\ Binds(m, 3) = 0
      BY <1>1, <2>2, <2>3, SubtermsAre, BindsTable
    <3>2. Below(t, m[3], 0)
      <4>1. Below(t, m[3], Binds(t, 3) + Binds(m, 3))
        BY <1>1, <2>2, <3>1, PartsBelow
      <4> QED BY <2>2, <3>1, <4>1
    <3>3. Below(t, t[4], 1)
      BY <1>2, <2>2
    <3>4. Step(t) = Subst(t[4], m[3])
      BY <2>1, <2>3 DEF OpenSays, Is
    <3>5. <<t[4], m[3], 0>> \in Substitutions
      <4>1. Substitutes(t) = {<<t[4], m[3], 0>>}
        BY <1>5, <2>3 DEF Substitutes, Is
      <4> QED BY <1>1, <4>1
    <3> HIDE DEF m
    <3>6. Substituting(t, Step(t))
      BY <3>2, <3>3, <3>4, <3>5 DEF Substituting
    <3> QED BY <3>6 DEF StepForms
  <2>4. CASE t[3][1] # "Sign"
    <3>1. Step(t) = Congruence(t, 3)
      BY <2>1, <2>4 DEF OpenSays, Is
    <3> QED BY <1>3, <2>2, <3>1
  <2> QED BY <2>3, <2>4
<1>6. CASE t[1] = "Delegate"
  <2>1. Step(t) = DelegateStep(t)
    BY <1>1, <1>6 DEF StepRule, Awaits, Is
  <2>2. Subterms(t) = {2, 3} /\ Binds(t, 2) = 0 /\ Binds(t, 3) = 0
    BY <1>1, <1>6, SubtermsAre, BindsTable
  <2>3. CASE t[2][1] = "Sign" /\ t[3][1] = "Sign"
    <3> DEFINE m == t[3]
    <3>1. m \in Universe("term") /\ Subterms(m) = {3} /\ Binds(m, 3) = 0
      BY <1>1, <2>2, <2>3, SubtermsAre, BindsTable
    <3>2. Below(t, m[3], 0)
      <4>1. Below(t, m[3], Binds(t, 3) + Binds(m, 3))
        BY <1>1, <2>2, <3>1, PartsBelow
      <4> QED BY <2>2, <3>1, <4>1
    <3>3. Step(t) = <<"Sign", <<"Acting", t[2][2], m[2]>>, m[3], m[4]>>
      BY <2>1, <2>3 DEF DelegateStep, Is
    <3> HIDE DEF m
    <3>4. Delegating(t, Step(t))
      BY <1>6, <3>2, <3>3 DEF Delegating
    <3> QED BY <3>4 DEF StepForms
  <2>4. CASE t[2][1] = "Sign" /\ t[3][1] # "Sign"
    <3>1. Step(t) = Congruence(t, 3)
      BY <2>1, <2>4 DEF DelegateStep, Is
    <3> QED BY <1>3, <2>2, <3>1
  <2>5. CASE t[2][1] # "Sign"
    <3>1. Step(t) = Congruence(t, 2)
      BY <2>1, <2>5 DEF DelegateStep, Is
    <3> QED BY <1>3, <2>2, <3>1
  <2> QED BY <2>3, <2>4, <2>5
<1>7. CASE /\ t[1] \notin DOMAIN Awaits /\ t[1] # "Delegate"
           /\ t[1] \notin {"SaysBind", "LetSays"}
  <2>1. StepRule(t) = NoTerm
    BY <1>7 DEF StepRule, Is
  <2> QED BY <1>1, <2>1
<1> QED BY <1>4, <1>5, <1>6, <1>7

-----------------------------------------------------------------------------
(* The free variables of a reduct. *)

\* A free variable is one some occurrence stands for.
LEMMA FreeVariables ==
  ASSUME NEW t \in Universe("term"), NEW m
  PROVE  /\ m \in Free(t) <=> \E o \in Occurrences(t) : o.means[1] = "free" /\ o.means[2] = m
         /\ m \in Free(t) => m \in Nat
<1>1. m \in Free(t) <=> \E o \in Occurrences(t) : o.means[1] = "free" /\ o.means[2] = m
  BY DEF Free
<1>2. \A o \in Occurrences(t) : o.means[2] \in Nat
  BY OccurrencesTyped, OccurrenceParts
<1> QED BY <1>1, <1>2

\* Seen from further up, a variable is still free when no binder on the way is its own.
LEMMA OutwardFree ==
  ASSUME NEW o \in Occurrence, NEW i \in Nat, NEW k \in Nat, NEW m \in Nat
  PROVE  Outward(o, i, k).means[1] = "free" /\ Outward(o, i, k).means[2] = m <=>
           o.means[1] = "free" /\ o.means[2] = m + k
<1>1. o.means[1] \in {"bound", "free"} /\ o.means[2] \in Nat
  BY OccurrenceParts
<1>2. CASE o.means[1] = "bound"
  BY <1>1, <1>2 DEF Outward
<1>3. CASE o.means[1] = "free" /\ o.means[2] < k
  BY <1>1, <1>3 DEF Outward
<1>4. CASE o.means[1] = "free" /\ ~(o.means[2] < k)
  <2>1. Outward(o, i, k).means = <<"free", o.means[2] - k>>
    BY <1>4 DEF Outward
  <2>2. o.means[2] - k = m <=> o.means[2] = m + k
    BY <1>1
  <2> QED BY <1>1, <1>4, <2>1, <2>2
<1> QED BY <1>1, <1>2, <1>3, <1>4

\* The free variables of a node are those its subterms have beyond its binders.
LEMMA FreeOfNode ==
  ASSUME NEW t \in Universe("term"), NEW m \in Nat
  PROVE  /\ t[1] = "Var" => (m \in Free(t) <=> m = t[2])
         /\ t[1] # "Var" => (m \in Free(t) <=> \E i \in Subterms(t) : m + Binds(t, i) \in Free(t[i]))
<1> DEFINE Stands(occ, index) == occ.means[1] = "free" /\ occ.means[2] = index
<1>1. CASE t[1] = "Var"
  <2>1. Occurrences(t) = {At(<< >>, 0, "free", t[2])}
    BY <1>1, OccurrencesOfNode
  <2>2. At(<< >>, 0, "free", t[2]).means = <<"free", t[2]>>
    BY DEF At
  <2> QED BY <1>1, <2>1, <2>2, FreeVariables
<1>2. CASE t[1] # "Var"
  <2>1. m \in Free(t) <=> \E i \in Subterms(t) : \E o \in Occurrences(t[i]) :
                            Stands(Outward(o, i, Binds(t, i)), m)
    <3>1. m \in Free(t) <=> \E o \in Occurrences(t) : Stands(o, m)
      BY FreeVariables
    <3>2. \A o : o \in Occurrences(t) <=> \E i \in Subterms(t) : \E p \in Occurrences(t[i]) :
                   o = Outward(p, i, Binds(t, i))
      BY <1>2, OccurrencesOfNode
    <3> HIDE DEF Stands
    <3> QED BY <3>1, <3>2
  <2>2. ASSUME NEW i \in Subterms(t)
        PROVE  m + Binds(t, i) \in Free(t[i]) <=>
                 \E o \in Occurrences(t[i]) : Stands(Outward(o, i, Binds(t, i)), m)
    <3> DEFINE k == Binds(t, i)
               u == t[i]
    <3>1. i \in Nat /\ k \in Nat /\ u \in Universe("term")
      BY SubtermIsSmaller, BindsByConstructor
    <3> HIDE DEF k, u
    <3>2. m + k \in Free(u) <=> \E o \in Occurrences(u) : Stands(o, m + k)
      BY <3>1, FreeVariables
    <3>3. ASSUME NEW o \in Occurrences(u) PROVE Stands(Outward(o, i, k), m) <=> Stands(o, m + k)
      <4>1. o \in Occurrence
        BY <3>1, OccurrencesTyped
      <4> QED BY <3>1, <4>1, OutwardFree
    <3> HIDE DEF Stands
    <3>4. m + k \in Free(u) <=> \E o \in Occurrences(u) : Stands(Outward(o, i, k), m)
      BY <3>2, <3>3
    <3> QED BY <3>4 DEF k, u
  <2> QED BY <1>2, <2>1, <2>2
<1> QED BY <1>1, <1>2

\* A variable free in a part of a term, beyond the binders above it, is free in the term.
LEMMA BelowFree ==
  ASSUME NEW t \in Universe("term"), NEW u, NEW k \in Nat, Below(t, u, k), NEW m \in Nat,
         m + k \in Free(u)
  PROVE  m \in Free(t)
<1>1. ASSUME NEW x \in Universe("term"), NEW i \in Subterms(x), NEW l \in Nat,
             l + Binds(x, i) \in Free(x[i])
      PROVE  l \in Free(x)
  <2>1. x[1] # "Var"
    BY VariableIsIndex
  <2> QED BY <1>1, <2>1, FreeOfNode
<1>2. PICK i \in Subterms(t) :
        \/ u = t[i] /\ k = Binds(t, i)
        \/ \E j \in Subterms(t[i]) : u = t[i][j] /\ k = Binds(t, i) + Binds(t[i], j)
  BY DEF Below
<1>3. t[i] \in Universe("term")
  BY SubtermIsSmaller
<1>4. CASE u = t[i] /\ k = Binds(t, i)
  BY <1>1, <1>4
<1>5. CASE \E j \in Subterms(t[i]) : u = t[i][j] /\ k = Binds(t, i) + Binds(t[i], j)
  <2> DEFINE w == t[i]
  <2>1. PICK j \in Subterms(w) : u = w[j] /\ k = Binds(t, i) + Binds(w, j)
    BY <1>5
  <2>2. Binds(t, i) \in Nat /\ Binds(w, j) \in Nat
    BY BindsByConstructor
  <2>3. (m + Binds(t, i)) + Binds(w, j) = m + k /\ m + Binds(t, i) \in Nat
    BY <2>1, <2>2
  <2>4. m + Binds(t, i) \in Free(w)
    BY <1>1, <1>3, <2>1, <2>3
  <2> QED BY <1>1, <2>4
<1> QED BY <1>2, <1>4, <1>5

\* Substituting frees no variable.
LEMMA FreeOfSubst ==
  ASSUME NEW body, NEW v, <<body, v, 0>> \in Substitutions, NEW m \in Free(Subst(body, v))
  PROVE  m \in Nat /\ (m + 1 \in Free(body) \/ m \in Free(v))
<1>1. /\ body \in Universe("term") /\ v \in Universe("term")
      /\ Subst(body, v) \in Universe("term")
  BY SubstitutedNode DEF Subst
<1>2. m \in Nat
  BY <1>1, FreeVariables
<1>3. PICK q \in Occurrences(Subst(body, v)) : q.means[1] = "free" /\ q.means[2] = m
  BY <1>1, FreeVariables
<1>4. PICK o \in Occurrences(body) : q \in Replaced(o, v, 0)
  BY <1>3, SubstitutionsReplace DEF SubstReplaces, Subst
<1>5. PICK p \in Seq(Nat), e \in Nat, kind \in {"bound", "free"}, k \in Nat : o = At(p, e, kind, k)
  BY <1>1, OccurrencesTyped, OccurrenceParts
<1>6. \A l, c : At(p, e, c, l).means[1] = c /\ At(p, e, c, l).means[2] = l
  BY DEF At
<1>7. CASE kind = "bound"
  <2>1. Replaced(At(p, e, "bound", k), v, 0) = {At(p, e, "bound", k)}
    BY ReplacedParts
  <2>2. q = At(p, e, "bound", k)
    BY <1>4, <1>5, <1>7, <2>1
  <2>3. q.means[1] = "bound"
    BY <1>6, <2>2
  <2> QED BY <1>3, <2>3
<1>8. CASE kind = "free" /\ k = 0
  <2>1. PICK w \in Occurrences(v) : q = Placed(o, w, 0)
    <3>1. Replaced(At(p, e, "free", 0), v, 0) = {Placed(At(p, e, "free", 0), w, 0) : w \in Occurrences(v)}
      BY ReplacedParts
    <3> QED BY <1>4, <1>5, <1>8, <3>1
  <2>2. w \in Occurrence /\ q.means[1] = w.means[1]
    BY <1>1, <2>1, OccurrencesTyped DEF Placed, At
  <2>3. q.means[2] = w.means[2] + 0
    BY <1>3, <2>1, <2>2 DEF Placed, At
  <2>4. w.means[2] = m
    BY <1>3, <2>2, <2>3, OccurrenceParts
  <2> QED BY <1>1, <1>2, <1>3, <2>2, <2>4, FreeVariables
<1>9. CASE kind = "free" /\ k > 0
  <2>1. q = At(p, e, "free", k - 1)
    BY <1>4, <1>5, <1>9, ReplacedParts
  <2>2. m = k - 1
    BY <1>3, <2>1 DEF At
  <2>3. k = m + 1
    BY <2>2
  <2>4. o.means[1] = "free" /\ o.means[2] = m + 1
    BY <1>5, <1>6, <1>9, <2>3
  <2> QED BY <1>1, <1>2, <2>4, FreeVariables
<1> QED BY <1>5, <1>7, <1>8, <1>9

\* Lifting a term lifts its free variables.
LEMMA FreeOfLift ==
  ASSUME NEW a, <<a, 1, 0>> \in Shifts, NEW m \in Nat, m + 1 \in Free(Shift(a, 1, 0))
  PROVE  m \in Free(a)
<1>1. a \in Universe("term") /\ Shift(a, 1, 0) \in Universe("term")
  BY ShiftedNode
<1>2. PICK q \in Occurrences(Shift(a, 1, 0)) : q.means[1] = "free" /\ q.means[2] = m + 1
  BY <1>1, FreeVariables
<1>3. PICK p \in Occurrences(a) : q = Lifted(p, 1, 0)
  BY <1>2, ShiftsLift DEF ShiftLifts
<1>4. p.means[1] \in {"bound", "free"} /\ p.means[2] \in Nat
  BY <1>1, OccurrencesTyped, OccurrenceParts
<1>5. p.means[1] = "free"
  BY <1>2, <1>3, <1>4 DEF Lifted
<1>6. q.means[2] = p.means[2] + 1
  BY <1>3, <1>4, <1>5 DEF Lifted, At
<1>7. p.means[2] = m
  BY <1>2, <1>4, <1>6
<1> QED BY <1>1, <1>5, <1>7, FreeVariables

\* Nor does substituting both components of a tensor.
LEMMA FreeOfTensor ==
  ASSUME NEW body, NEW a, NEW b, <<a, 1, 0>> \in Shifts,
         <<body, Shift(a, 1, 0), 0>> \in Substitutions,
         <<Subst(body, Shift(a, 1, 0)), b, 0>> \in Substitutions,
         NEW m \in Free(BindTensor(body, a, b))
  PROVE  m \in Nat /\ (m + 2 \in Free(body) \/ m \in Free(a) \/ m \in Free(b))
<1> DEFINE lifted == Shift(a, 1, 0)
           first == Subst(body, lifted)
<1>1. BindTensor(body, a, b) = Subst(first, b)
  BY DEF BindTensor
<1> HIDE DEF first
<1>2. m \in Nat /\ (m + 1 \in Free(first) \/ m \in Free(b))
  BY <1>1, FreeOfSubst DEF first
<1>3. ASSUME m + 1 \in Free(first) PROVE m + 2 \in Free(body) \/ m \in Free(a)
  <2>1. (m + 1) + 1 \in Free(body) \/ m + 1 \in Free(lifted)
    <3> DEFINE l == m + 1
    <3>1. l \in Free(Subst(body, lifted))
      BY <1>3 DEF first
    <3> HIDE DEF l, lifted
    <3>2. l + 1 \in Free(body) \/ l \in Free(lifted)
      BY <3>1, FreeOfSubst DEF lifted
    <3> QED BY <3>2 DEF l
  <2>2. (m + 1) + 1 = m + 2
    BY <1>2
  <2>3. ASSUME m + 1 \in Free(lifted) PROVE m \in Free(a)
    BY <1>2, <2>3, FreeOfLift
  <2> HIDE DEF lifted
  <2> QED BY <2>1, <2>2, <2>3
<1> QED BY <1>2, <1>3

\* A term with a subterm replaced.
LEMMA ReplacedNode ==
  ASSUME NEW t \in Universe("term"), NEW i \in Subterms(t), NEW s, NEW r \in Universe("term"),
         r = InPlace(t, i, s)
  PROVE  /\ r[1] = t[1] /\ r[i] = s
         /\ Subterms(r) = Subterms(t)
         /\ \A j \in Subterms(t) \ {i} : r[j] = t[j]
         /\ \A j : Binds(r, j) = Binds(t, j)
<1>1. DOMAIN t = 1..Len(t) /\ Len(t) \in Nat
  <2>1. TermFields[t[1]] \in Seq(FieldKinds) /\ Len(t) = Len(TermFields[t[1]]) + 1
    BY TermLength
  <2>2. Len(TermFields[t[1]]) \in Nat
    BY <2>1, LenProperties
  <2> QED BY <2>1, <2>2, TermLength
<1>2. Subterms(t) \subseteq 2..Len(t)
  BY DEF Subterms
<1>3. i \in DOMAIN t /\ 1 \in DOMAIN t /\ i # 1 /\ Subterms(t) \subseteq DOMAIN t
  BY <1>1, <1>2
<1>4. r[1] = t[1] /\ r[i] = s /\ \A j \in Subterms(t) \ {i} : r[j] = t[j]
  BY <1>3 DEF InPlace
<1>5. Subterms(r) = Subterms(t)
  BY <1>4, SubtermsByConstructor
<1>6. \A j : Binds(r, j) = Binds(t, j)
  BY <1>4, BindsByConstructor
<1> QED BY <1>4, <1>5, <1>6

\* A command applied to an argument has their variables.
LEMMA FreeOfRunning ==
  ASSUME NEW f, NEW x, NEW l, <<"LiftLabel", l, <<"App", f, x>>>> \in Universe("term"),
         NEW m \in Free(<<"LiftLabel", l, <<"App", f, x>>>>)
  PROVE  m \in Nat /\ (m \in Free(f) \/ m \in Free(x))
<1> DEFINE u == <<"App", f, x>>
           r == <<"LiftLabel", l, u>>
<1>1. r[1] = "LiftLabel" /\ r[3] = u /\ u[1] = "App" /\ u[2] = f /\ u[3] = x
  OBVIOUS
<1> HIDE DEF u, r
<1>2. r \in Universe("term") /\ m \in Free(r)
  BY DEF u, r
<1>3. Subterms(r) = {3} /\ Binds(r, 3) = 0 /\ u \in Universe("term")
  BY <1>1, <1>2, SubtermsAre, BindsTable
<1>4. Subterms(u) = {2, 3} /\ Binds(u, 2) = 0 /\ Binds(u, 3) = 0
  BY <1>1, <1>3, SubtermsAre, BindsTable
<1>5. m \in Nat /\ m + 0 = m
  BY <1>2, FreeVariables
<1>6. m \in Free(u)
  BY <1>1, <1>2, <1>3, <1>5, FreeOfNode
<1>7. m \in Free(u[2]) \/ m \in Free(u[3])
  BY <1>1, <1>3, <1>4, <1>5, <1>6, FreeOfNode
<1> QED BY <1>1, <1>5, <1>7

\* step frees no variable.
LEMMA FreeOfStep ==
  \A t \in Programs : Step(t) # NoTerm => Free(Step(t)) \subseteq Free(t)
<1> DEFINE Bad == {t \in Programs : Step(t) # NoTerm /\ ~(Free(Step(t)) \subseteq Free(t))}
<1>1. ASSUME NEW b \in Bad PROVE FALSE
  <2>1. PICK t \in Universe("term") : t \in Bad /\ \A i \in Subterms(t) : t[i] \notin Bad
    <3>1. b \in Universe("term")
      BY ProgramAssumption
    <3> HIDE DEF Bad
    <3> QED BY <1>1, <3>1, SmallestTerm
  <2> DEFINE r == Step(t)
  <2>2. t \in Programs /\ r # NoTerm
    BY <2>1
  <2>3. r \in Universe("term") /\ \A i \in Subterms(t) : t[i] \in Programs
    BY <2>2, ProgramAssumption
  <2>4. StepForms(t, r)
    BY <2>2, StepHasForm
  <2>5. \A i \in Subterms(t) : Step(t[i]) # NoTerm => Free(Step(t[i])) \subseteq Free(t[i])
    BY <2>1, <2>3
  <2>6. PICK m \in Free(r) : m \notin Free(t)
    BY <2>1
  <2>7. m \in Nat
    BY <2>3, <2>6, FreeVariables
  <2> HIDE DEF r, Bad
  <2>8. \A u, k : k \in Nat /\ Below(t, u, k) /\ m + k \in Free(u) => m \in Free(t)
    BY <2>7, BelowFree
  <2>9. \A u : Below(t, u, 0) /\ m \in Free(u) => m \in Free(t)
    <3>1. m + 0 = m /\ 0 \in Nat
      BY <2>7
    <3> QED BY <2>8, <3>1
  <2>10. CASE Substituting(t, r)
    <3>1. PICK body, v : /\ Below(t, body, 1) /\ Below(t, v, 0)
                         /\ <<body, v, 0>> \in Substitutions /\ r = Subst(body, v)
      BY <2>10 DEF Substituting
    <3>2. m + 1 \in Free(body) \/ m \in Free(v)
      BY <2>6, <3>1, FreeOfSubst
    <3>3. 1 \in Nat
      OBVIOUS
    <3> QED BY <2>6, <2>8, <2>9, <3>1, <3>2, <3>3
  <2>11. CASE Below(t, r, 0)
    BY <2>6, <2>9, <2>11
  <2>12. CASE BindingTensor(t, r)
    <3>1. PICK body, a, c :
            /\ Below(t, body, 2) /\ Below(t, a, 0) /\ Below(t, c, 0)
            /\ <<a, 1, 0>> \in Shifts
            /\ <<body, Shift(a, 1, 0), 0>> \in Substitutions
            /\ <<Subst(body, Shift(a, 1, 0)), c, 0>> \in Substitutions
            /\ r = BindTensor(body, a, c)
      BY <2>12 DEF BindingTensor
    <3>2. m + 2 \in Free(body) \/ m \in Free(a) \/ m \in Free(c)
      BY <2>6, <3>1, FreeOfTensor
    <3>3. 2 \in Nat
      OBVIOUS
    <3> QED BY <2>6, <2>8, <2>9, <3>1, <3>2, <3>3
  <2>13. CASE Running(t, r)
    <3>1. PICK f, x, l : Below(t, f, 0) /\ Below(t, x, 0) /\ r = <<"LiftLabel", l, <<"App", f, x>>>>
      BY <2>13 DEF Running
    <3>2. m \in Free(f) \/ m \in Free(x)
      BY <2>3, <2>6, <3>1, FreeOfRunning
    <3> QED BY <2>6, <2>9, <3>1, <3>2
  <2>14. CASE Delegating(t, r)
    <3>1. PICK p, u, sig : Below(t, u, 0) /\ r = <<"Sign", p, u, sig>>
      BY <2>14 DEF Delegating
    <3>2. r[1] = "Sign" /\ r[3] = u
      BY <3>1
    <3>3. Subterms(r) = {3} /\ Binds(r, 3) = 0 /\ m + 0 = m
      BY <2>3, <2>7, <3>2, SubtermsAre, BindsTable
    <3>4. m \in Free(u)
      BY <2>3, <2>6, <2>7, <3>2, <3>3, FreeOfNode
    <3> QED BY <2>6, <2>9, <3>1, <3>4
  <2>15. CASE Reducing(t, r)
    <3>1. PICK i \in Subterms(t) : Step(t[i]) # NoTerm /\ r = InPlace(t, i, Step(t[i]))
      BY <2>15 DEF Reducing
    <3> DEFINE s == Step(t[i])
    <3>2. /\ r[1] = t[1] /\ r[i] = s /\ Subterms(r) = Subterms(t)
          /\ \A j \in Subterms(t) \ {i} : r[j] = t[j]
          /\ \A j : Binds(r, j) = Binds(t, j)
      BY <2>3, <3>1, ReplacedNode
    <3>3. Free(s) \subseteq Free(t[i])
      BY <2>5, <3>1
    <3>4. r[1] # "Var" /\ t[1] # "Var"
      BY <3>1, <3>2, VariableIsIndex
    <3>5. PICK j \in Subterms(r) : m + Binds(r, j) \in Free(r[j])
      BY <2>3, <2>6, <2>7, <3>4, FreeOfNode
    <3>6. m + Binds(t, j) \in Free(t[j])
      BY <3>2, <3>3, <3>5
    <3>7. m \in Free(t)
      BY <2>7, <3>2, <3>4, <3>5, <3>6, FreeOfNode
    <3> QED BY <2>6, <3>7
  <2> QED BY <2>4, <2>10, <2>11, <2>12, <2>13, <2>14, <2>15 DEF StepForms
<1> QED BY <1>1

\* No variable is freed: whatever a reduct mentions, the term mentioned, wherever in it
\* the step was made.
THEOREM NothingIsFreed == Spec => NoNewFreeVariables
<1>1. ReducesPrograms /\ [Next]_vars => [Free(cur') \subseteq Free(cur)]_vars
  <2> SUFFICES ASSUME ReducesPrograms, Next PROVE UNCHANGED vars \/ Free(cur') \subseteq Free(cur)
    OBVIOUS
  <2>1. CASE Reduce
    BY <2>1, FreeOfStep DEF Reduce, ReducesPrograms
  <2>2. CASE Returned
    BY <2>2 DEF Returned
  <2> QED BY <2>1, <2>2 DEF Next
<1> QED BY <1>1, ProgramsReduced, PTL DEF Spec, NoNewFreeVariables

-----------------------------------------------------------------------------
(* The constructors of a reduct. *)

\* The constructors of a node.
LEMMA ConstructorsOfNode ==
  ASSUME NEW t \in Universe("term"), NEW c
  PROVE  c \in Constructors(t) <=> c = t[1] \/ \E i \in Subterms(t) : c \in Constructors(t[i])
  BY StructureAssumption DEF ConstructorsRule

\* Those of a part are the term's.
LEMMA BelowConstructors ==
  ASSUME NEW t \in Universe("term"), NEW u, NEW k, Below(t, u, k), NEW c \in Constructors(u)
  PROVE  c \in Constructors(t)
<1>1. PICK i \in Subterms(t) :
        \/ u = t[i] /\ k = Binds(t, i)
        \/ \E j \in Subterms(t[i]) : u = t[i][j] /\ k = Binds(t, i) + Binds(t[i], j)
  BY DEF Below
<1>2. t[i] \in Universe("term")
  BY SubtermIsSmaller
<1>3. c \in Constructors(t[i])
  BY <1>1, <1>2, ConstructorsOfNode
<1> QED BY <1>3, ConstructorsOfNode

\* shift keeps the constructors.
LEMMA ConstructorsOfShift ==
  \A s \in Shifts : Constructors(Shift(s[1], s[2], s[3])) = Constructors(s[1])
<1> DEFINE Bad == {s \in Shifts : Constructors(Shift(s[1], s[2], s[3])) # Constructors(s[1])}
<1>1. ASSUME NEW b \in Bad PROVE FALSE
  <2>1. PICK s \in Bad : \A i \in Subterms(s[1]) : \A c \in Bad : c[1] # s[1][i]
    <3>1. \A c \in Bad : c[1] \in Universe("term")
      BY ShiftedNode
    <3> HIDE DEF Bad
    <3> QED BY <1>1, <3>1, SmallestCall
  <2> DEFINE t == s[1]
             r == Shift(s[1], s[2], s[3])
  <2>2. /\ t \in Universe("term") /\ r \in Universe("term")
        /\ r[1] = t[1] /\ Subterms(r) = Subterms(t)
        /\ \A i \in Subterms(t) :
             /\ <<t[i], s[2], s[3] + Binds(t, i)>> \in Shifts
             /\ r[i] = Shift(t[i], s[2], s[3] + Binds(t, i))
    BY ShiftedNode
  <2>3. ASSUME NEW i \in Subterms(t) PROVE Constructors(r[i]) = Constructors(t[i])
    <3> DEFINE call == <<t[i], s[2], s[3] + Binds(t, i)>>
    <3>1. call \in Shifts /\ call[1] = t[i] /\ r[i] = Shift(call[1], call[2], call[3])
      BY <2>2
    <3>2. call \notin Bad
      BY <2>1, <3>1
    <3> HIDE DEF call, r, t
    <3> QED BY <3>1, <3>2
  <2>4. Constructors(r) # Constructors(t)
    BY <2>1
  <2> HIDE DEF r, t, Bad
  <2>5. \A c : c \in Constructors(r) <=> c \in Constructors(t)
    BY <2>2, <2>3, ConstructorsOfNode
  <2> QED BY <2>4, <2>5
<1> QED BY <1>1

\* subst_at brings in those of the value only.
LEMMA ConstructorsOfSubst ==
  \A s \in Substitutions :
    Constructors(SubstAt(s[1], s[2], s[3])) \subseteq Constructors(s[1]) \cup Constructors(s[2])
<1> DEFINE Keeps(s) ==
             Constructors(SubstAt(s[1], s[2], s[3])) \subseteq Constructors(s[1]) \cup Constructors(s[2])
           Bad == {s \in Substitutions : ~Keeps(s)}
<1>1. ASSUME NEW b \in Bad PROVE FALSE
  <2>1. PICK s \in Bad : \A i \in Subterms(s[1]) : \A c \in Bad : c[1] # s[1][i]
    <3>1. \A c \in Bad : c[1] \in Universe("term")
      BY SubstitutedNode
    <3> HIDE DEF Bad
    <3> QED BY <1>1, <3>1, SmallestCall
  <2> DEFINE t == s[1]
             v == s[2]
             r == SubstAt(s[1], s[2], s[3])
  <2>2. /\ t \in Universe("term") /\ r \in Universe("term") /\ s[3] \in Nat
        /\ t[1] = "Var" =>
             /\ t[2] = s[3] => <<v, s[3], 0>> \in Shifts /\ r = Shift(v, s[3], 0)
             /\ t[2] > s[3] => r = <<"Var", t[2] - 1>>
             /\ t[2] < s[3] => r = t
        /\ t[1] # "Var" => r[1] = t[1] /\ Subterms(r) = Subterms(t)
        /\ \A i \in Subterms(t) :
             /\ <<t[i], v, s[3] + Binds(t, i)>> \in Substitutions
             /\ r[i] = SubstAt(t[i], v, s[3] + Binds(t, i))
    BY SubstitutedNode
  <2>3. ASSUME NEW i \in Subterms(t)
        PROVE  Constructors(r[i]) \subseteq Constructors(t[i]) \cup Constructors(v)
    <3> DEFINE call == <<t[i], v, s[3] + Binds(t, i)>>
    <3>1. /\ call \in Substitutions /\ call[1] = t[i] /\ call[2] = v
          /\ r[i] = SubstAt(call[1], call[2], call[3])
      BY <2>2
    <3>2. call \notin Bad
      BY <2>1, <3>1
    <3> HIDE DEF call, r, t, v
    <3> QED BY <3>1, <3>2
  <2>4. ~(Constructors(r) \subseteq Constructors(t) \cup Constructors(v))
    BY <2>1
  <2> HIDE DEF r, t, v, Bad
  <2>5. CASE t[1] # "Var"
    <3>1. \A c : c \in Constructors(r) => c \in Constructors(t) \cup Constructors(v)
      BY <2>2, <2>3, <2>5, ConstructorsOfNode
    <3> QED BY <2>4, <3>1
  <2>6. CASE t[1] = "Var" /\ t[2] = s[3]
    <3> DEFINE call == <<v, s[3], 0>>
    <3>1. call \in Shifts /\ r = Shift(call[1], call[2], call[3]) /\ call[1] = v
      BY <2>2, <2>6
    <3> HIDE DEF call
    <3>2. Constructors(r) = Constructors(v)
      BY <3>1, ConstructorsOfShift
    <3> QED BY <2>4, <3>2
  <2>7. CASE t[1] = "Var" /\ t[2] # s[3]
    <3>1. t[2] \in Nat /\ Subterms(t) = {}
      BY <2>2, <2>7, VariableIsIndex
    <3>2. r[1] = "Var"
      BY <2>2, <2>7, <3>1
    <3>3. Subterms(r) = {}
      BY <2>2, <3>2, VariableIsIndex
    <3>4. \A c : c \in Constructors(r) <=> c \in Constructors(t)
      BY <2>2, <2>7, <3>1, <3>2, <3>3, ConstructorsOfNode
    <3> QED BY <2>4, <3>4
  <2> QED BY <2>5, <2>6, <2>7
<1> QED BY <1>1

\* The case of subst.
LEMMA SubstConstructors ==
  ASSUME NEW body, NEW v, <<body, v, 0>> \in Substitutions
  PROVE  Constructors(Subst(body, v)) \subseteq Constructors(body) \cup Constructors(v)
<1> DEFINE s == <<body, v, 0>>
<1>1. s \in Substitutions /\ s[1] = body /\ s[2] = v /\ s[3] = 0
  OBVIOUS
<1> HIDE DEF s
<1> QED BY <1>1, ConstructorsOfSubst DEF Subst

\* step brings in the constructors of its own head rules only.
LEMMA ConstructorsOfStep ==
  ASSUME NEW c, c \notin {"LiftLabel", "App", "Sign"}
  PROVE  \A t \in Programs : Step(t) # NoTerm /\ c \in Constructors(Step(t)) => c \in Constructors(t)
<1> DEFINE Bad == {t \in Programs : Step(t) # NoTerm /\ c \in Constructors(Step(t))
                                      /\ c \notin Constructors(t)}
<1>1. ASSUME NEW b \in Bad PROVE FALSE
  <2>1. PICK t \in Universe("term") : t \in Bad /\ \A i \in Subterms(t) : t[i] \notin Bad
    <3>1. b \in Universe("term")
      BY ProgramAssumption
    <3> HIDE DEF Bad
    <3> QED BY <1>1, <3>1, SmallestTerm
  <2> DEFINE r == Step(t)
  <2>2. t \in Programs /\ r # NoTerm /\ c \in Constructors(r) /\ c \notin Constructors(t)
    BY <2>1
  <2>3. r \in Universe("term") /\ \A i \in Subterms(t) : t[i] \in Programs
    BY <2>2, ProgramAssumption
  <2>4. StepForms(t, r)
    BY <2>2, StepHasForm
  <2>5. \A i \in Subterms(t) :
          Step(t[i]) # NoTerm /\ c \in Constructors(Step(t[i])) => c \in Constructors(t[i])
    BY <2>1, <2>3
  <2> HIDE DEF r, Bad
  <2>6. \A u, k : Below(t, u, k) => c \notin Constructors(u)
    BY <2>2, BelowConstructors
  <2>7. CASE Substituting(t, r)
    <3>1. PICK body, v : /\ Below(t, body, 1) /\ Below(t, v, 0)
                         /\ <<body, v, 0>> \in Substitutions /\ r = Subst(body, v)
      BY <2>7 DEF Substituting
    <3> QED BY <2>2, <2>6, <3>1, SubstConstructors
  <2>8. CASE Below(t, r, 0)
    BY <2>2, <2>6, <2>8
  <2>9. CASE BindingTensor(t, r)
    <3>1. PICK body, a, d :
            /\ Below(t, body, 2) /\ Below(t, a, 0) /\ Below(t, d, 0)
            /\ <<a, 1, 0>> \in Shifts
            /\ <<body, Shift(a, 1, 0), 0>> \in Substitutions
            /\ <<Subst(body, Shift(a, 1, 0)), d, 0>> \in Substitutions
            /\ r = BindTensor(body, a, d)
      BY <2>9 DEF BindingTensor
    <3> DEFINE lifted == Shift(a, 1, 0)
               first == Subst(body, lifted)
               s == <<a, 1, 0>>
    <3>2. Constructors(lifted) = Constructors(a)
      <4>1. s \in Shifts /\ s[1] = a /\ lifted = Shift(s[1], s[2], s[3])
        BY <3>1
      <4> HIDE DEF s, lifted
      <4> QED BY <4>1, ConstructorsOfShift
    <3>3. Constructors(first) \subseteq Constructors(body) \cup Constructors(lifted)
      BY <3>1, SubstConstructors
    <3>4. Constructors(r) \subseteq Constructors(first) \cup Constructors(d)
      BY <3>1, SubstConstructors DEF BindTensor
    <3> HIDE DEF lifted, first
    <3> QED BY <2>2, <2>6, <3>1, <3>2, <3>3, <3>4
  <2>10. CASE Running(t, r)
    <3>1. PICK f, x, l : Below(t, f, 0) /\ Below(t, x, 0) /\ r = <<"LiftLabel", l, <<"App", f, x>>>>
      BY <2>10 DEF Running
    <3> DEFINE u == <<"App", f, x>>
    <3>2. r[1] = "LiftLabel" /\ r[3] = u /\ u[1] = "App" /\ u[2] = f /\ u[3] = x
      BY <3>1
    <3> HIDE DEF u
    <3>3. Subterms(r) = {3} /\ u \in Universe("term") /\ Subterms(u) = {2, 3}
      BY <2>3, <3>2, SubtermsAre
    <3>4. c \in Constructors(u)
      BY <2>2, <2>3, <3>2, <3>3, ConstructorsOfNode
    <3>5. c \in Constructors(f) \/ c \in Constructors(x)
      BY <3>2, <3>3, <3>4, ConstructorsOfNode
    <3> QED BY <2>6, <3>1, <3>5
  <2>11. CASE Delegating(t, r)
    <3>1. PICK p, u, sig : Below(t, u, 0) /\ r = <<"Sign", p, u, sig>>
      BY <2>11 DEF Delegating
    <3>2. r[1] = "Sign" /\ r[3] = u
      BY <3>1
    <3>3. Subterms(r) = {3}
      BY <2>3, <3>2, SubtermsAre
    <3>4. c \in Constructors(u)
      BY <2>2, <2>3, <3>2, <3>3, ConstructorsOfNode
    <3> QED BY <2>6, <3>1, <3>4
  <2>12. CASE Reducing(t, r)
    <3>1. PICK i \in Subterms(t) : Step(t[i]) # NoTerm /\ r = InPlace(t, i, Step(t[i]))
      BY <2>12 DEF Reducing
    <3> DEFINE s == Step(t[i])
    <3>2. /\ r[1] = t[1] /\ r[i] = s /\ Subterms(r) = Subterms(t)
          /\ \A j \in Subterms(t) \ {i} : r[j] = t[j]
      BY <2>3, <3>1, ReplacedNode
    <3>3. c \in Constructors(s) => c \in Constructors(t[i])
      BY <2>5, <3>1
    <3>4. c # t[1] /\ \A j \in Subterms(t) : c \notin Constructors(t[j])
      BY <2>2, ConstructorsOfNode
    <3>5. \A j \in Subterms(r) : c \notin Constructors(r[j])
      BY <3>2, <3>3, <3>4
    <3> QED BY <2>2, <2>3, <3>2, <3>4, <3>5, ConstructorsOfNode
  <2> QED BY <2>4, <2>7, <2>8, <2>9, <2>10, <2>11, <2>12 DEF StepForms
<1> QED BY <1>1

-----------------------------------------------------------------------------
(* Progress. *)

\* None is no term.
LEMMA NoTermIsNone == NoTerm \notin Universe("term")
<1>1. NoTerm[1] = "None" /\ "None" \notin DOMAIN TermFields
  BY DEF NoTerm, TermFields
<1> QED BY <1>1, TermLength

\* What a step makes of a term is a term.
LEMMA FormsAreTerms ==
  ASSUME NEW t \in Universe("term"), NEW r, StepForms(t, r)
  PROVE  r # NoTerm
<1>1. ASSUME NEW u, NEW k, Below(t, u, k) PROVE u \in Universe("term")
  BY <1>1, SubtermIsSmaller DEF Below
<1>2. NoTerm[1] = "None"
  BY DEF NoTerm
<1>3. CASE Substituting(t, r)
  <2>1. PICK body, v : <<body, v, 0>> \in Substitutions /\ r = Subst(body, v)
    BY <1>3 DEF Substituting
  <2>2. r \in Universe("term")
    BY <2>1, SubstitutedNode DEF Subst
  <2> QED BY <2>2, NoTermIsNone
<1>4. CASE Below(t, r, 0)
  BY <1>1, <1>4, NoTermIsNone
<1>5. CASE BindingTensor(t, r)
  <2>1. PICK first, b : <<first, b, 0>> \in Substitutions /\ r = Subst(first, b)
    BY <1>5 DEF BindingTensor, BindTensor
  <2>2. r \in Universe("term")
    BY <2>1, SubstitutedNode DEF Subst
  <2> QED BY <2>2, NoTermIsNone
<1>6. CASE Running(t, r)
  <2>1. r[1] = "LiftLabel"
    BY <1>6 DEF Running
  <2> QED BY <1>2, <2>1
<1>7. CASE Delegating(t, r)
  <2>1. r[1] = "Sign"
    BY <1>7 DEF Delegating
  <2> QED BY <1>2, <2>1
<1>8. CASE Reducing(t, r)
  <2>1. PICK i \in Subterms(t) : \E s : r = InPlace(t, i, s)
    BY <1>8 DEF Reducing
  <2>2. DOMAIN r = DOMAIN t
    BY <2>1 DEF InPlace
  <2>3. DOMAIN t = 1..Len(t) /\ i \in 2..Len(t)
    BY TermLength DEF Subterms
  <2>4. i \in DOMAIN t /\ i # 1
    BY <2>3
  <2>5. DOMAIN NoTerm = {1}
    BY DEF NoTerm
  <2> QED BY <2>2, <2>4, <2>5
<1> QED BY <1>3, <1>4, <1>5, <1>6, <1>7, <1>8 DEF StepForms

\* A congruence rule steps when the subterm does.
LEMMA CongruenceSteps ==
  ASSUME NEW t \in Universe("term"), NEW i \in Subterms(t), Binds(t, i) = 0, Step(t[i]) # NoTerm
  PROVE  Congruence(t, i) # NoTerm
<1>1. Congruence(t, i) = InPlace(t, i, Step(t[i]))
  BY DEF Congruence, InPlace
<1>2. Reducing(t, Congruence(t, i))
  BY <1>1 DEF Reducing
<1> QED BY <1>2, FormsAreTerms DEF StepForms

\* What each elimination eliminates.
Eliminates ==
  [App |-> "Imp", Fst |-> "And", Snd |-> "And", Case |-> "Or", LetTensor |-> "Tensor",
   SfExtract |-> "Says", Discharge |-> "Boxed", RunCmd |-> "Replicated"]

\* A typed elimination has a principal argument of the type it eliminates.
LEMMA PrincipalType ==
  ASSUME NEW c, NEW t, InferRule(c, t) # NoProp
  PROVE  /\ t[1] \in DOMAIN Eliminates => Infer(c, t[2])[1] = Eliminates[t[1]]
         /\ t[1] \in {"SaysBind", "LetSays"} =>
              Infer(c, t[3])[1] = "Says" /\ Infer(c, t[3])[2] = t[2]
         /\ t[1] = "Delegate" => Infer(c, t[2])[1] = "Says" /\ Infer(c, t[3])[1] = "Says"
<1> USE DEF Is, Guarded, NoProp, Eliminates
<1>1. CASE t[1] \in {"App", "Delegate"}
  <2>1. InferRule(c, t) = InferLogical(c, t)
    BY <1>1 DEF InferRule, Logical, Modal, Structural, Binding
  <2>2. CASE t[1] = "App"
    BY <2>1, <2>2 DEF InferLogical
  <2>3. CASE t[1] = "Delegate"
    BY <2>1, <2>3 DEF InferLogical, DelegateType
  <2> QED BY <1>1, <2>2, <2>3
<1>2. CASE t[1] = "Discharge"
  <2>1. InferRule(c, t) = InferModal(c, t)
    BY <1>2 DEF InferRule, Logical, Modal, Structural, Binding
  <2> QED BY <1>2, <2>1 DEF InferModal
<1>3. CASE t[1] \in {"Fst", "Snd", "Case", "LetTensor"}
  <2>1. InferRule(c, t) = InferStructural(c, t)
    BY <1>3 DEF InferRule, Logical, Modal, Structural, Binding
  <2>2. CASE t[1] = "Fst"
    BY <2>1, <2>2 DEF InferStructural
  <2>3. CASE t[1] = "Snd"
    BY <2>1, <2>3 DEF InferStructural
  <2>4. CASE t[1] = "Case"
    BY <2>1, <2>4 DEF InferStructural
  <2>5. CASE t[1] = "LetTensor"
    BY <2>1, <2>5 DEF InferStructural
  <2> QED BY <1>3, <2>2, <2>3, <2>4, <2>5
<1>4. CASE t[1] \in {"SaysBind", "LetSays", "SfExtract", "RunCmd"}
  <2>1. InferRule(c, t) = InferBinding(c, t)
    BY <1>4 DEF InferRule, Logical, Modal, Structural, Binding
  <2>2. CASE t[1] = "SaysBind"
    BY <2>1, <2>2 DEF InferBinding, SaysBody
  <2>3. CASE t[1] = "LetSays"
    BY <2>1, <2>3 DEF InferBinding, SaysBody
  <2>4. CASE t[1] = "SfExtract"
    BY <2>1, <2>4 DEF InferBinding
  <2>5. CASE t[1] = "RunCmd"
    BY <2>1, <2>5 DEF InferBinding
  <2> QED BY <1>4, <2>2, <2>3, <2>4, <2>5
<1> QED BY <1>1, <1>2, <1>3, <1>4

\* What each value introduces.
Introduces ==
  [Lam |-> "Imp", Sign |-> "Says", Pair |-> "And", Inl |-> "Or", Inr |-> "Or",
   TensorIntro |-> "Tensor", Now |-> "Top", Boxed |-> "Boxed", Command |-> "Replicated",
   LiftLabel |-> "At", WithinIntro |-> "Within"]

\* A typed value has the type it introduces.
LEMMA ValueType ==
  ASSUME NEW c, NEW t, t[1] \in DOMAIN Introduces, InferRule(c, t) # NoProp
  PROVE  /\ InferRule(c, t)[1] = Introduces[t[1]]
         /\ t[1] = "Sign" => InferRule(c, t)[2] = t[2]
<1> USE DEF Is, Guarded, NoProp, Introduces
<1>1. CASE t[1] \in {"Lam", "Sign"}
  <2>1. InferRule(c, t) = InferLogical(c, t)
    BY <1>1 DEF InferRule, Logical, Modal, Structural, Binding
  <2>2. CASE t[1] = "Lam"
    BY <2>1, <2>2 DEF InferLogical
  <2>3. CASE t[1] = "Sign"
    BY <2>1, <2>3 DEF InferLogical
  <2> QED BY <1>1, <2>2, <2>3
<1>2. CASE t[1] \in {"Now", "Boxed", "LiftLabel", "WithinIntro"}
  <2>1. InferRule(c, t) = InferModal(c, t)
    BY <1>2 DEF InferRule, Logical, Modal, Structural, Binding
  <2>2. CASE t[1] = "Now"
    BY <2>1, <2>2 DEF InferModal
  <2>3. CASE t[1] = "Boxed"
    BY <2>1, <2>3 DEF InferModal
  <2>4. CASE t[1] = "LiftLabel"
    BY <2>1, <2>4 DEF InferModal
  <2>5. CASE t[1] = "WithinIntro"
    BY <2>1, <2>5 DEF InferModal
  <2> QED BY <1>2, <2>2, <2>3, <2>4, <2>5
<1>3. CASE t[1] \in {"Pair", "Inl", "Inr", "TensorIntro"}
  <2>1. InferRule(c, t) = InferStructural(c, t)
    BY <1>3 DEF InferRule, Logical, Modal, Structural, Binding
  <2>2. CASE t[1] = "Pair"
    BY <2>1, <2>2 DEF InferStructural
  <2>3. CASE t[1] = "Inl"
    BY <2>1, <2>3 DEF InferStructural
  <2>4. CASE t[1] = "Inr"
    BY <2>1, <2>4 DEF InferStructural
  <2>5. CASE t[1] = "TensorIntro"
    BY <2>1, <2>5 DEF InferStructural
  <2> QED BY <1>3, <2>2, <2>3, <2>4, <2>5
<1>4. CASE t[1] = "Command"
  <2>1. InferRule(c, t) = InferBinding(c, t)
    BY <1>4 DEF InferRule, Logical, Modal, Structural, Binding
  <2> QED BY <1>4, <2>1 DEF InferBinding
<1> QED BY <1>1, <1>2, <1>3, <1>4

\* Canonical forms: a value of the type an elimination eliminates is what its head rule
\* waits for.
LEMMA CanonicalForms ==
  ASSUME NEW op \in DOMAIN Eliminates, NEW form \in DOMAIN Introduces,
         Introduces[form] = Eliminates[op]
  PROVE  form \in Awaits[op]
  BY DEF Eliminates, Introduces, Awaits

\* Programs are typed by the rules, in the contexts terms are checked in.
LEMMA RuledTypes ==
  ASSUME NEW c \in Contexts, NEW t \in Programs
  PROVE  <<c, t>> \in Judgments /\ Infer(c, t) = InferRule(c, t)
<1> DEFINE j == <<c, t>>
<1>1. j \in Judgments /\ j[1] = c /\ j[2] = t
  BY JudgmentAssumption
<1> HIDE DEF j
<1> QED BY <1>1, JudgmentAssumption DEF j

\* A closed typed program without frozen eliminations is a value or steps.
LEMMA ProgramsProgress ==
  \A t \in Programs :
    Constructors(t) \cap FrozenEliminations = {} /\ Infer(EmptyCtx, t) # NoProp =>
      IsValue(t) \/ Step(t) # NoTerm
<1> DEFINE Stuck == {t \in Programs : /\ Constructors(t) \cap FrozenEliminations = {}
                                      /\ Infer(EmptyCtx, t) # NoProp
                                      /\ ~IsValue(t) /\ Step(t) = NoTerm}
<1>1. ASSUME NEW b \in Stuck PROVE FALSE
  <2>1. PICK t \in Universe("term") : t \in Stuck /\ \A i \in Subterms(t) : t[i] \notin Stuck
    <3>1. b \in Universe("term")
      BY ProgramAssumption
    <3> HIDE DEF Stuck
    <3> QED BY <1>1, <3>1, SmallestTerm
  <2>2. /\ t \in Programs /\ Constructors(t) \cap FrozenEliminations = {}
        /\ Infer(EmptyCtx, t) # NoProp /\ ~IsValue(t) /\ Step(t) = NoTerm
    BY <2>1
  <2>3. /\ InferRule(EmptyCtx, t) # NoProp /\ StepRule(t) = NoTerm
        /\ \A i \in Subterms(t) : t[i] \in Programs
    BY <2>2, ProgramAssumption, JudgmentAssumption, RuledTypes
  <2>4. ASSUME NEW i \in Subterms(t), Infer(EmptyCtx, t[i])[1] # "None", Step(t[i]) = NoTerm
        PROVE  /\ t[i][1] \in DOMAIN Introduces
               /\ Infer(EmptyCtx, t[i])[1] = Introduces[t[i][1]]
               /\ t[i][1] = "Sign" => Infer(EmptyCtx, t[i])[2] = t[i][2]
    <3> DEFINE u == t[i]
    <3>1. u \in Universe("term") /\ u \in Programs
      BY <2>3, SubtermIsSmaller
    <3>2. \A c : c \in Constructors(u) => c \in Constructors(t)
      BY ConstructorsOfNode
    <3>3. Constructors(u) \cap FrozenEliminations = {}
      BY <2>2, <3>2
    <3>4. Infer(EmptyCtx, u) # NoProp
      BY <2>4 DEF NoProp
    <3>5. IsValue(u)
      BY <2>1, <2>4, <3>1, <3>3, <3>4
    <3> HIDE DEF u, Stuck
    <3>6. u[1] \in Constructors(u)
      BY <3>1, ConstructorsOfNode
    <3>7. u[1] \in DOMAIN Introduces
      BY <3>3, <3>5, <3>6 DEF IsValue, FrozenEliminations, Introduces
    <3>8. Infer(EmptyCtx, u) = InferRule(EmptyCtx, u)
      BY <3>1, JudgmentAssumption, RuledTypes
    <3>9. Infer(EmptyCtx, u)[1] = Introduces[u[1]] /\ (u[1] = "Sign" => Infer(EmptyCtx, u)[2] = u[2])
      BY <3>4, <3>7, <3>8, ValueType
    <3> QED BY <3>7, <3>9 DEF u
  <2> HIDE DEF Stuck
  <2>5. CASE t[1] \in DOMAIN Awaits
    <3>1. 2 \in Subterms(t) /\ Binds(t, 2) = 0
      <4>1. t[1] \in {"App", "Fst", "Snd", "Case", "LetTensor", "SfExtract", "Discharge", "RunCmd"}
        BY <2>5 DEF Awaits
      <4> QED BY <4>1, SubtermsAre, BindsTable
    <3>2. CASE t[2][1] \in Awaits[t[1]]
      <4>1. StepRule(t) = Contract(t)
        BY <2>5, <3>2 DEF StepRule, Awaits, Is
      <4>2. Contract(t) # NoTerm
        BY <2>2, <2>5, <3>2, ContractForms, FormsAreTerms
      <4> QED BY <2>3, <4>1, <4>2
    <3>3. CASE t[2][1] \notin Awaits[t[1]]
      <4>1. StepRule(t) = Congruence(t, 2)
        BY <2>5, <3>3 DEF StepRule, Awaits, Is
      <4>2. Step(t[2]) = NoTerm
        BY <2>3, <3>1, <4>1, CongruenceSteps
      <4>3. t[1] \in DOMAIN Eliminates
        BY <2>5 DEF Awaits, Eliminates
      <4>4. Infer(EmptyCtx, t[2])[1] = Eliminates[t[1]]
        BY <2>3, <4>3, PrincipalType
      <4>5. Eliminates[t[1]] # "None"
        BY <4>3 DEF Eliminates
      <4>6. t[2][1] \in DOMAIN Introduces /\ Introduces[t[2][1]] = Eliminates[t[1]]
        BY <2>4, <3>1, <4>2, <4>4, <4>5
      <4> QED BY <3>3, <4>3, <4>6, CanonicalForms
    <3> QED BY <3>2, <3>3
  <2>6. CASE t[1] \in {"SaysBind", "LetSays"}
    <3>1. 3 \in Subterms(t) /\ Binds(t, 3) = 0
      BY <2>6, SubtermsAre, BindsTable
    <3>2. StepRule(t) = OpenSays(t)
      BY <2>6 DEF StepRule, Awaits, Is
    <3>3. Infer(EmptyCtx, t[3])[1] = "Says" /\ Infer(EmptyCtx, t[3])[2] = t[2]
      BY <2>3, <2>6, PrincipalType
    <3>4. CASE t[3][1] = "Sign" /\ t[3][2] = t[2]
      <4>1. StepRule(t) = Subst(t[4], t[3][3])
        BY <3>2, <3>4 DEF OpenSays, Is
      <4>2. <<t[4], t[3][3], 0>> \in Substitutions
        <5>1. Substitutes(t) = {<<t[4], t[3][3], 0>>}
          BY <2>6, <3>4 DEF Substitutes, Is
        <5> QED BY <2>2, <5>1, ProgramAssumption
      <4>3. Subst(t[4], t[3][3]) \in Universe("term")
        BY <4>2, SubstitutedNode DEF Subst
      <4> QED BY <2>3, <4>1, <4>3, NoTermIsNone
    <3>5. CASE t[3][1] # "Sign"
      <4>1. StepRule(t) = Congruence(t, 3)
        BY <3>2, <3>5 DEF OpenSays, Is
      <4>2. Step(t[3]) = NoTerm
        BY <2>3, <3>1, <4>1, CongruenceSteps
      <4>3. t[3][1] \in DOMAIN Introduces /\ Introduces[t[3][1]] = "Says"
        BY <2>4, <3>1, <3>3, <4>2
      <4> QED BY <3>5, <4>3 DEF Introduces
    <3>6. CASE t[3][1] = "Sign" /\ t[3][2] # t[2]
      <4> DEFINE u == t[3]
      <4>1. u \in Programs
        BY <2>3, <3>1
      <4>2. InferRule(EmptyCtx, u)[1] = "Says" /\ InferRule(EmptyCtx, u)[2] = t[2]
        BY <3>3, <4>1, JudgmentAssumption, RuledTypes
      <4> HIDE DEF u
      <4>3. InferRule(EmptyCtx, u) # NoProp /\ "Sign" \in DOMAIN Introduces
        BY <4>2 DEF NoProp, Introduces
      <4>4. InferRule(EmptyCtx, u)[2] = u[2]
        BY <3>6, <4>3, ValueType DEF u
      <4> QED BY <3>6, <4>2, <4>4 DEF u
    <3> QED BY <3>4, <3>5, <3>6
  <2>7. CASE t[1] = "Delegate"
    <3>1. 2 \in Subterms(t) /\ 3 \in Subterms(t) /\ Binds(t, 2) = 0 /\ Binds(t, 3) = 0
      BY <2>7, SubtermsAre, BindsTable
    <3>2. StepRule(t) = DelegateStep(t)
      BY <2>7 DEF StepRule, Awaits, Is
    <3>3. Infer(EmptyCtx, t[2])[1] = "Says" /\ Infer(EmptyCtx, t[3])[1] = "Says"
      BY <2>3, <2>7, PrincipalType
    <3>4. ASSUME NEW i \in {2, 3}, Step(t[i]) = NoTerm PROVE t[i][1] = "Sign"
      <4>1. t[i][1] \in DOMAIN Introduces /\ Introduces[t[i][1]] = "Says"
        BY <2>4, <3>1, <3>3, <3>4
      <4> QED BY <4>1 DEF Introduces
    <3>5. CASE t[2][1] = "Sign" /\ t[3][1] = "Sign"
      <4>1. StepRule(t)[1] = "Sign"
        BY <3>2, <3>5 DEF DelegateStep, Is
      <4> QED BY <2>3, <4>1 DEF NoTerm
    <3>6. CASE t[2][1] = "Sign" /\ t[3][1] # "Sign"
      <4>1. StepRule(t) = Congruence(t, 3)
        BY <3>2, <3>6 DEF DelegateStep, Is
      <4> QED BY <2>3, <3>1, <3>4, <3>6, <4>1, CongruenceSteps
    <3>7. CASE t[2][1] # "Sign"
      <4>1. StepRule(t) = Congruence(t, 2)
        BY <3>2, <3>7 DEF DelegateStep, Is
      <4> QED BY <2>3, <3>1, <3>4, <3>7, <4>1, CongruenceSteps
    <3> QED BY <3>5, <3>6, <3>7
  <2>8. CASE t[1] = "Var"
    <3>1. InferRule(EmptyCtx, t) = Lookup(EmptyCtx, t[2])
      BY <2>8 DEF InferRule, Logical, Modal, Structural, Binding, Is
    <3>2. t[2] \in Nat
      BY <2>8, VariableIsIndex
    <3>3. Lookup(EmptyCtx, t[2]) = NoProp
      BY <3>2 DEF Lookup, EmptyCtx, Ctx, Guarded
    <3> QED BY <2>3, <3>1, <3>3
  <2>9. t[1] \in DOMAIN Awaits \/ t[1] \in {"SaysBind", "LetSays", "Delegate", "Var"}
    BY <2>2, TermLength DEF IsValue, Awaits, TermFields
  <2> QED BY <2>5, <2>6, <2>7, <2>8, <2>9
<1> QED BY <1>1

\* A run of a term without frozen eliminations meets none.
StaysUnfrozen ==
  Constructors(origin) \cap FrozenEliminations = {} =>
    Constructors(cur) \cap FrozenEliminations = {}

\* typing-rules.md section 11: step never gets stuck on a closed typed term whose run
\* started without frozen eliminations.
THEOREM ReductionProgresses == Spec => []CoreProgress
<1>1. Init => StaysUnfrozen
  BY DEF Init, StaysUnfrozen
<1>2. ReducesPrograms /\ StaysUnfrozen /\ [Next]_vars => StaysUnfrozen'
  <2> SUFFICES ASSUME ReducesPrograms, StaysUnfrozen, [Next]_vars PROVE StaysUnfrozen'
    OBVIOUS
  <2>1. CASE Reduce
    <3>1. \A c \in FrozenEliminations : c \in Constructors(cur') => c \in Constructors(cur)
      <4>1. \A c \in FrozenEliminations : c \notin {"LiftLabel", "App", "Sign"}
        BY DEF FrozenEliminations
      <4> QED BY <2>1, <4>1, ConstructorsOfStep DEF Reduce, ReducesPrograms
    <3> QED BY <2>1, <3>1 DEF Reduce, StaysUnfrozen
  <2>2. CASE UNCHANGED vars
    BY <2>2 DEF vars, StaysUnfrozen
  <2> QED BY <2>1, <2>2 DEF Next, Returned
<1>3. ReducesPrograms /\ StaysUnfrozen => CoreProgress
  BY ProgramsProgress DEF ReducesPrograms, StaysUnfrozen, CoreProgress
<1> QED BY <1>1, <1>2, <1>3, ProgramsReduced, PTL DEF Spec

-----------------------------------------------------------------------------
(* The signatures of a reduct. *)

\* Two terms of one constructor with the same fields are the same.
LEMMA SameFields ==
  ASSUME NEW t \in Universe("term"), NEW r \in Universe("term"), r[1] = t[1],
         \A i \in 2..Len(t) : r[i] = t[i]
  PROVE  r = t
<1> DEFINE kinds == TermFields[t[1]]
<1>1. "term" \in Types /\ Variants["term"] = TermFields
  BY DEF Types, Variants
<1>2. /\ t = <<t[1]>> \o [i \in DOMAIN kinds |-> t[i + 1]]
      /\ r = <<t[1]>> \o [i \in DOMAIN kinds |-> r[i + 1]]
  <2>1. t = <<t[1]>> \o [i \in DOMAIN kinds |-> t[i + 1]]
    BY <1>1, ValueIsNode
  <2>2. r = <<r[1]>> \o [i \in DOMAIN TermFields[r[1]] |-> r[i + 1]]
    BY <1>1, ValueIsNode
  <2> QED BY <2>1, <2>2
<1>3. DOMAIN kinds = 1..Len(kinds) /\ Len(kinds) \in Nat /\ Len(t) = Len(kinds) + 1
  BY TermLength, LenProperties
<1> HIDE DEF kinds
<1>4. \A i \in DOMAIN kinds : r[i + 1] = t[i + 1]
  BY <1>3
<1>5. [i \in DOMAIN kinds |-> r[i + 1]] = [i \in DOMAIN kinds |-> t[i + 1]]
  BY <1>4
<1> QED BY <1>2, <1>5

\* What is free in a subterm is bound by the node or free in the term.
LEMMA FreeBelow ==
  ASSUME NEW t \in Universe("term"), NEW d \in Nat, \A m \in Free(t) : m < d,
         NEW i \in Subterms(t)
  PROVE  \A m \in Free(t[i]) : m < d + Binds(t, i)
<1> SUFFICES ASSUME NEW m \in Free(t[i]) PROVE m < d + Binds(t, i)
  OBVIOUS
<1> DEFINE k == Binds(t, i)
<1>1. m \in Nat /\ k \in Nat
  BY SubtermIsSmaller, FreeVariables, BindsByConstructor
<1>2. ASSUME m >= k PROVE m - k < d
  <2>1. m - k \in Nat /\ (m - k) + k = m
    BY <1>1, <1>2
  <2>2. t[1] # "Var"
    BY VariableIsIndex
  <2>3. m - k \in Free(t)
    BY <2>1, <2>2, FreeOfNode
  <2> QED BY <2>3
<1> QED BY <1>1, <1>2

\* shift leaves a term alone whose free variables are all below the cutoff.
LEMMA ShiftFixes ==
  \A s \in Shifts : (\A m \in Free(s[1]) : m < s[3]) => Shift(s[1], s[2], s[3]) = s[1]
<1> DEFINE Bad == {s \in Shifts : (\A m \in Free(s[1]) : m < s[3]) /\ Shift(s[1], s[2], s[3]) # s[1]}
<1>1. ASSUME NEW b \in Bad PROVE FALSE
  <2>1. PICK s \in Bad : \A i \in Subterms(s[1]) : \A c \in Bad : c[1] # s[1][i]
    <3>1. \A c \in Bad : c[1] \in Universe("term")
      BY ShiftedNode
    <3> HIDE DEF Bad
    <3> QED BY <1>1, <3>1, SmallestCall
  <2> DEFINE t == s[1]
             r == Shift(s[1], s[2], s[3])
  <2>2. /\ t \in Universe("term") /\ r \in Universe("term") /\ s[3] \in Nat
        /\ t[1] = "Var" => r = IF t[2] < s[3] THEN t ELSE <<"Var", t[2] + s[2]>>
        /\ r[1] = t[1]
        /\ \A i \in Subterms(t) :
             /\ <<t[i], s[2], s[3] + Binds(t, i)>> \in Shifts
             /\ r[i] = Shift(t[i], s[2], s[3] + Binds(t, i))
        /\ \A i \in (2..Len(t)) \ Subterms(t) : t[1] # "Var" => r[i] = t[i]
    BY ShiftedNode
  <2>3. (\A m \in Free(t) : m < s[3]) /\ r # t
    BY <2>1
  <2>4. ASSUME NEW i \in Subterms(t) PROVE r[i] = t[i]
    <3> DEFINE d == s[3] + Binds(t, i)
               call == <<t[i], s[2], d>>
    <3>1. /\ call \in Shifts /\ call[1] = t[i] /\ call[3] = d
          /\ r[i] = Shift(call[1], call[2], call[3])
      BY <2>2
    <3>2. \A m \in Free(t[i]) : m < d
      <4> HIDE DEF t
      <4> QED BY <2>2, <2>3, FreeBelow
    <3>3. call \notin Bad
      BY <2>1, <3>1
    <3> HIDE DEF call, d, r, t
    <3> QED BY <3>1, <3>2, <3>3
  <2> HIDE DEF t, r, Bad
  <2>5. CASE t[1] = "Var"
    <3>1. t[2] \in Free(t)
      BY <2>2, <2>5, VariableIsIndex, FreeOfNode
    <3> QED BY <2>2, <2>3, <2>5, <3>1
  <2>6. CASE t[1] # "Var"
    <3>1. \A i \in 2..Len(t) : r[i] = t[i]
      BY <2>2, <2>4, <2>6
    <3> QED BY <2>2, <2>3, <3>1, SameFields
  <2> QED BY <2>5, <2>6
<1> QED BY <1>1

\* subst_at leaves a term alone whose free variables are all below the depth.
LEMMA SubstFixes ==
  \A s \in Substitutions : (\A m \in Free(s[1]) : m < s[3]) => SubstAt(s[1], s[2], s[3]) = s[1]
<1> DEFINE Bad == {s \in Substitutions :
                     (\A m \in Free(s[1]) : m < s[3]) /\ SubstAt(s[1], s[2], s[3]) # s[1]}
<1>1. ASSUME NEW b \in Bad PROVE FALSE
  <2>1. PICK s \in Bad : \A i \in Subterms(s[1]) : \A c \in Bad : c[1] # s[1][i]
    <3>1. \A c \in Bad : c[1] \in Universe("term")
      BY SubstitutedNode
    <3> HIDE DEF Bad
    <3> QED BY <1>1, <3>1, SmallestCall
  <2> DEFINE t == s[1]
             r == SubstAt(s[1], s[2], s[3])
  <2>2. /\ t \in Universe("term") /\ r \in Universe("term") /\ s[3] \in Nat
        /\ t[1] = "Var" => (t[2] < s[3] => r = t)
        /\ t[1] # "Var" => r[1] = t[1]
        /\ \A i \in Subterms(t) :
             /\ <<t[i], s[2], s[3] + Binds(t, i)>> \in Substitutions
             /\ r[i] = SubstAt(t[i], s[2], s[3] + Binds(t, i))
        /\ \A i \in (2..Len(t)) \ Subterms(t) : t[1] # "Var" => r[i] = t[i]
    BY SubstitutedNode
  <2>3. (\A m \in Free(t) : m < s[3]) /\ r # t
    BY <2>1
  <2>4. ASSUME NEW i \in Subterms(t) PROVE r[i] = t[i]
    <3> DEFINE d == s[3] + Binds(t, i)
               call == <<t[i], s[2], d>>
    <3>1. /\ call \in Substitutions /\ call[1] = t[i] /\ call[3] = d
          /\ r[i] = SubstAt(call[1], call[2], call[3])
      BY <2>2
    <3>2. \A m \in Free(t[i]) : m < d
      <4> HIDE DEF t
      <4> QED BY <2>2, <2>3, FreeBelow
    <3>3. call \notin Bad
      BY <2>1, <3>1
    <3> HIDE DEF call, d, r, t
    <3> QED BY <3>1, <3>2, <3>3
  <2> HIDE DEF t, r, Bad
  <2>5. CASE t[1] = "Var"
    <3>1. t[2] \in Free(t)
      BY <2>2, <2>5, VariableIsIndex, FreeOfNode
    <3> QED BY <2>2, <2>3, <2>5, <3>1
  <2>6. CASE t[1] # "Var"
    <3>1. \A i \in 2..Len(t) : r[i] = t[i]
      BY <2>2, <2>4, <2>6
    <3> QED BY <2>2, <2>3, <2>6, <3>1, SameFields
  <2> QED BY <2>5, <2>6
<1> QED BY <1>1

\* The signed nodes of a term are itself and those of its subterms.
LEMMA SignNodesOfNode ==
  ASSUME NEW t \in Universe("term"), NEW x
  PROVE  x \in SignNodes(t) <=> \/ x = t /\ t[1] = "Sign"
                                \/ \E i \in Subterms(t) : x \in SignNodes(t[i])
  BY SignaturesAssumption DEF SignNodesRule, Is

\* What a term signs is closed.
SignsClosed(t) == \A s \in SignNodes(t) : Free(s[3]) = {}

\* So do its parts.
LEMMA BelowSigns ==
  ASSUME NEW t \in Universe("term"), NEW u, NEW k, Below(t, u, k)
  PROVE  SignNodes(u) \subseteq SignNodes(t) /\ (SignsClosed(t) => SignsClosed(u))
<1>1. PICK i \in Subterms(t) :
        \/ u = t[i] /\ k = Binds(t, i)
        \/ \E j \in Subterms(t[i]) : u = t[i][j] /\ k = Binds(t, i) + Binds(t[i], j)
  BY DEF Below
<1>2. t[i] \in Universe("term")
  BY SubtermIsSmaller
<1>3. \A x \in SignNodes(u) : x \in SignNodes(t[i])
  BY <1>1, <1>2, SignNodesOfNode
<1>4. SignNodes(u) \subseteq SignNodes(t)
  BY <1>3, SignNodesOfNode
<1> QED BY <1>4 DEF SignsClosed

\* A signed node over a closed proof, taken apart and put together again, is the same.
LEMMA SignKept ==
  ASSUME NEW t \in Universe("term"), NEW r \in Universe("term"), t[1] = "Sign", r[1] = "Sign",
         r[3] = t[3], \A i \in (2..Len(t)) \ Subterms(t) : r[i] = t[i]
  PROVE  r = t
<1>1. Subterms(t) = {3}
  BY SubtermsAre
<1>2. \A i \in 2..Len(t) : r[i] = t[i]
  BY <1>1
<1> QED BY <1>2, SameFields

\* shift keeps the signed nodes of a term that signs closed proofs only.
LEMMA SignsOfShift ==
  \A s \in Shifts : SignsClosed(s[1]) => SignNodes(Shift(s[1], s[2], s[3])) \subseteq SignNodes(s[1])
<1> DEFINE Bad == {s \in Shifts : /\ SignsClosed(s[1])
                                  /\ ~(SignNodes(Shift(s[1], s[2], s[3])) \subseteq SignNodes(s[1]))}
<1>1. ASSUME NEW b \in Bad PROVE FALSE
  <2>1. PICK s \in Bad : \A i \in Subterms(s[1]) : \A c \in Bad : c[1] # s[1][i]
    <3>1. \A c \in Bad : c[1] \in Universe("term")
      BY ShiftedNode
    <3> HIDE DEF Bad
    <3> QED BY <1>1, <3>1, SmallestCall
  <2> DEFINE t == s[1]
             r == Shift(s[1], s[2], s[3])
  <2>2. /\ t \in Universe("term") /\ r \in Universe("term") /\ s[3] \in Nat
        /\ r[1] = t[1] /\ Subterms(r) = Subterms(t)
        /\ \A i \in Subterms(t) :
             /\ <<t[i], s[2], s[3] + Binds(t, i)>> \in Shifts
             /\ r[i] = Shift(t[i], s[2], s[3] + Binds(t, i))
        /\ \A i \in (2..Len(t)) \ Subterms(t) : t[1] # "Var" => r[i] = t[i]
    BY ShiftedNode
  <2>3. SignsClosed(t) /\ ~(SignNodes(r) \subseteq SignNodes(t))
    BY <2>1
  <2>4. ASSUME NEW i \in Subterms(t) PROVE SignNodes(r[i]) \subseteq SignNodes(t[i])
    <3> DEFINE call == <<t[i], s[2], s[3] + Binds(t, i)>>
    <3>1. /\ call \in Shifts /\ call[1] = t[i] /\ r[i] = Shift(call[1], call[2], call[3])
      BY <2>2
    <3>2. SignsClosed(t[i])
      <4>1. Below(t, t[i], Binds(t, i))
        BY <2>2, PartsBelow
      <4> HIDE DEF t
      <4> QED BY <2>2, <2>3, <4>1, BelowSigns
    <3>3. call \notin Bad
      BY <2>1, <3>1
    <3> HIDE DEF call, r, t
    <3> QED BY <3>1, <3>2, <3>3
  <2> HIDE DEF r, Bad
  <2>5. ASSUME t[1] = "Sign" PROVE r = t
    <3>1. 3 \in Subterms(t) /\ Binds(t, 3) = 0
      BY <2>2, <2>5, SubtermsAre, BindsTable
    <3> DEFINE call == <<t[3], s[2], s[3] + Binds(t, 3)>>
    <3>2. Free(t[3]) = {}
      BY <2>2, <2>3, <2>5, SignNodesOfNode DEF SignsClosed
    <3>3. call \in Shifts /\ call[1] = t[3] /\ r[3] = Shift(call[1], call[2], call[3])
      BY <2>2, <3>1
    <3> HIDE DEF call, t
    <3>4. r[3] = t[3]
      BY <3>2, <3>3, ShiftFixes
    <3> QED BY <2>2, <2>5, <3>4, SignKept
  <2> HIDE DEF t
  <2>6. \A x : x \in SignNodes(r) => x \in SignNodes(t)
    BY <2>2, <2>4, <2>5, SignNodesOfNode
  <2> QED BY <2>3, <2>6
<1> QED BY <1>1

\* subst_at brings in the signed nodes of the value only.
LEMMA SignsOfSubst ==
  \A s \in Substitutions :
    SignsClosed(s[1]) /\ SignsClosed(s[2]) =>
      SignNodes(SubstAt(s[1], s[2], s[3])) \subseteq SignNodes(s[1]) \cup SignNodes(s[2])
<1> DEFINE Bad == {s \in Substitutions :
                     /\ SignsClosed(s[1]) /\ SignsClosed(s[2])
                     /\ ~(SignNodes(SubstAt(s[1], s[2], s[3]))
                            \subseteq SignNodes(s[1]) \cup SignNodes(s[2]))}
<1>1. ASSUME NEW b \in Bad PROVE FALSE
  <2>1. PICK s \in Bad : \A i \in Subterms(s[1]) : \A c \in Bad : c[1] # s[1][i]
    <3>1. \A c \in Bad : c[1] \in Universe("term")
      BY SubstitutedNode
    <3> HIDE DEF Bad
    <3> QED BY <1>1, <3>1, SmallestCall
  <2> DEFINE t == s[1]
             v == s[2]
             r == SubstAt(s[1], s[2], s[3])
  <2>2. /\ t \in Universe("term") /\ r \in Universe("term") /\ s[3] \in Nat
        /\ t[1] = "Var" =>
             /\ t[2] = s[3] => <<v, s[3], 0>> \in Shifts /\ r = Shift(v, s[3], 0)
             /\ t[2] > s[3] => r = <<"Var", t[2] - 1>>
             /\ t[2] < s[3] => r = t
        /\ t[1] # "Var" => r[1] = t[1] /\ Subterms(r) = Subterms(t)
        /\ \A i \in Subterms(t) :
             /\ <<t[i], v, s[3] + Binds(t, i)>> \in Substitutions
             /\ r[i] = SubstAt(t[i], v, s[3] + Binds(t, i))
        /\ \A i \in (2..Len(t)) \ Subterms(t) : t[1] # "Var" => r[i] = t[i]
    BY SubstitutedNode
  <2>3. /\ SignsClosed(t) /\ SignsClosed(v)
        /\ ~(SignNodes(r) \subseteq SignNodes(t) \cup SignNodes(v))
    BY <2>1
  <2>4. ASSUME NEW i \in Subterms(t)
        PROVE  SignNodes(r[i]) \subseteq SignNodes(t[i]) \cup SignNodes(v)
    <3> DEFINE call == <<t[i], v, s[3] + Binds(t, i)>>
    <3>1. /\ call \in Substitutions /\ call[1] = t[i] /\ call[2] = v
          /\ r[i] = SubstAt(call[1], call[2], call[3])
      BY <2>2
    <3>2. SignsClosed(t[i])
      <4>1. Below(t, t[i], Binds(t, i))
        BY <2>2, PartsBelow
      <4> HIDE DEF t
      <4> QED BY <2>2, <2>3, <4>1, BelowSigns
    <3>3. call \notin Bad
      BY <2>1, <3>1
    <3> HIDE DEF call, r, t, v
    <3> QED BY <2>3, <3>1, <3>2, <3>3
  <2> HIDE DEF r, Bad
  <2>5. ASSUME t[1] = "Sign" PROVE r = t
    <3>1. 3 \in Subterms(t) /\ Binds(t, 3) = 0
      BY <2>2, <2>5, SubtermsAre, BindsTable
    <3> DEFINE call == <<t[3], v, s[3] + Binds(t, 3)>>
    <3>2. Free(t[3]) = {}
      BY <2>2, <2>3, <2>5, SignNodesOfNode DEF SignsClosed
    <3>3. call \in Substitutions /\ call[1] = t[3] /\ r[3] = SubstAt(call[1], call[2], call[3])
      BY <2>2, <3>1
    <3> HIDE DEF call, t, v
    <3>4. r[3] = t[3]
      BY <3>2, <3>3, SubstFixes
    <3> QED BY <2>2, <2>5, <3>4, SignKept
  <2> HIDE DEF t, v
  <2>6. CASE t[1] # "Var"
    <3>1. \A x : x \in SignNodes(r) => x \in SignNodes(t) \cup SignNodes(v)
      BY <2>2, <2>4, <2>5, <2>6, SignNodesOfNode
    <3> QED BY <2>3, <3>1
  <2>7. CASE t[1] = "Var" /\ t[2] = s[3]
    <3> DEFINE call == <<v, s[3], 0>>
    <3>1. call \in Shifts /\ r = Shift(call[1], call[2], call[3]) /\ call[1] = v
      BY <2>2, <2>7
    <3> HIDE DEF call
    <3>2. SignNodes(r) \subseteq SignNodes(v)
      BY <2>3, <3>1, SignsOfShift
    <3> QED BY <2>3, <3>2
  <2>8. CASE t[1] = "Var" /\ t[2] # s[3]
    <3>1. t[2] \in Nat
      BY <2>2, <2>8, VariableIsIndex
    <3>2. r[1] = "Var"
      BY <2>2, <2>8, <3>1
    <3>3. Subterms(r) = {}
      BY <2>2, <3>2, VariableIsIndex
    <3>4. \A x : x \notin SignNodes(r)
      BY <2>2, <3>2, <3>3, SignNodesOfNode
    <3> QED BY <2>3, <3>4
  <2> QED BY <2>6, <2>7, <2>8
<1> QED BY <1>1

\* The case of subst.
LEMMA SubstSigns ==
  ASSUME NEW body, NEW v, <<body, v, 0>> \in Substitutions, SignsClosed(body), SignsClosed(v)
  PROVE  SignNodes(Subst(body, v)) \subseteq SignNodes(body) \cup SignNodes(v)
<1> DEFINE s == <<body, v, 0>>
<1>1. s \in Substitutions /\ s[1] = body /\ s[2] = v /\ s[3] = 0
  OBVIOUS
<1> HIDE DEF s
<1> QED BY <1>1, SignsOfSubst DEF Subst

\* Without delegations, step makes no signed node out of closed ones.
LEMMA SignsOfStep ==
  \A t \in Programs :
    Step(t) # NoTerm /\ SignsClosed(t) /\ "Delegate" \notin Constructors(t) =>
      SignNodes(Step(t)) \subseteq SignNodes(t)
<1> DEFINE Bad == {t \in Programs : /\ Step(t) # NoTerm /\ SignsClosed(t)
                                    /\ "Delegate" \notin Constructors(t)
                                    /\ ~(SignNodes(Step(t)) \subseteq SignNodes(t))}
<1>1. ASSUME NEW b \in Bad PROVE FALSE
  <2>1. PICK t \in Universe("term") : t \in Bad /\ \A i \in Subterms(t) : t[i] \notin Bad
    <3>1. b \in Universe("term")
      BY ProgramAssumption
    <3> HIDE DEF Bad
    <3> QED BY <1>1, <3>1, SmallestTerm
  <2> DEFINE r == Step(t)
  <2>2. /\ t \in Programs /\ r # NoTerm /\ SignsClosed(t) /\ "Delegate" \notin Constructors(t)
        /\ ~(SignNodes(r) \subseteq SignNodes(t))
    BY <2>1
  <2>3. r \in Universe("term") /\ \A i \in Subterms(t) : t[i] \in Programs
    BY <2>2, ProgramAssumption
  <2>4. StepForms(t, r)
    BY <2>2, StepHasForm
  <2>5. \A u, k : Below(t, u, k) => SignNodes(u) \subseteq SignNodes(t) /\ SignsClosed(u)
    BY <2>2, BelowSigns
  <2>6. ASSUME NEW i \in Subterms(t), Step(t[i]) # NoTerm
        PROVE  SignNodes(Step(t[i])) \subseteq SignNodes(t)
    <3>1. SignNodes(t[i]) \subseteq SignNodes(t) /\ SignsClosed(t[i])
      BY <2>5, PartsBelow
    <3>2. "Delegate" \notin Constructors(t[i])
      BY <2>2, ConstructorsOfNode
    <3> QED BY <2>1, <2>3, <2>6, <3>1, <3>2
  <2>7. t[1] # "Sign"
    <3>1. ASSUME t[1] = "Sign" PROVE StepRule(t) = NoTerm
      BY <3>1 DEF StepRule, Awaits, Is
    <3> QED BY <2>2, <3>1, ProgramAssumption
  <2> HIDE DEF r, Bad
  <2>8. CASE Substituting(t, r)
    <3>1. PICK body, v : /\ Below(t, body, 1) /\ Below(t, v, 0)
                         /\ <<body, v, 0>> \in Substitutions /\ r = Subst(body, v)
      BY <2>8 DEF Substituting
    <3>2. SignNodes(r) \subseteq SignNodes(body) \cup SignNodes(v)
      BY <2>5, <3>1, SubstSigns
    <3>3. SignNodes(body) \subseteq SignNodes(t) /\ SignNodes(v) \subseteq SignNodes(t)
      BY <2>5, <3>1
    <3> QED BY <2>2, <3>2, <3>3
  <2>9. CASE Below(t, r, 0)
    BY <2>2, <2>5, <2>9
  <2>10. CASE BindingTensor(t, r)
    <3>1. PICK body, a, d :
            /\ Below(t, body, 2) /\ Below(t, a, 0) /\ Below(t, d, 0)
            /\ <<a, 1, 0>> \in Shifts
            /\ <<body, Shift(a, 1, 0), 0>> \in Substitutions
            /\ <<Subst(body, Shift(a, 1, 0)), d, 0>> \in Substitutions
            /\ r = BindTensor(body, a, d)
      BY <2>10 DEF BindingTensor
    <3> DEFINE lifted == Shift(a, 1, 0)
               first == Subst(body, lifted)
               s == <<a, 1, 0>>
    <3>2. /\ SignNodes(body) \subseteq SignNodes(t) /\ SignsClosed(body)
          /\ SignNodes(a) \subseteq SignNodes(t) /\ SignsClosed(a)
          /\ SignNodes(d) \subseteq SignNodes(t) /\ SignsClosed(d)
      BY <2>5, <3>1
    <3>3. SignNodes(lifted) \subseteq SignNodes(a)
      <4>1. s \in Shifts /\ s[1] = a /\ lifted = Shift(s[1], s[2], s[3])
        BY <3>1
      <4> HIDE DEF s, lifted
      <4> QED BY <3>2, <4>1, SignsOfShift
    <3>4. SignsClosed(lifted)
      BY <3>2, <3>3 DEF SignsClosed
    <3>5. SignNodes(first) \subseteq SignNodes(body) \cup SignNodes(lifted)
      BY <3>1, <3>2, <3>4, SubstSigns
    <3> HIDE DEF lifted
    <3>6. SignNodes(first) \subseteq SignNodes(t)
      BY <3>2, <3>3, <3>5
    <3> HIDE DEF first
    <3>7. SignsClosed(first)
      BY <2>2, <3>6 DEF SignsClosed
    <3>8. SignNodes(r) \subseteq SignNodes(first) \cup SignNodes(d)
      BY <3>1, <3>2, <3>7, SubstSigns DEF BindTensor, first, lifted
    <3> QED BY <2>2, <3>2, <3>6, <3>8
  <2>11. CASE Running(t, r)
    <3>1. PICK f, x, l : Below(t, f, 0) /\ Below(t, x, 0) /\ r = <<"LiftLabel", l, <<"App", f, x>>>>
      BY <2>11 DEF Running
    <3> DEFINE u == <<"App", f, x>>
    <3>2. r[1] = "LiftLabel" /\ r[3] = u /\ u[1] = "App" /\ u[2] = f /\ u[3] = x
      BY <3>1
    <3> HIDE DEF u
    <3>3. Subterms(r) = {3} /\ u \in Universe("term") /\ Subterms(u) = {2, 3}
      BY <2>3, <3>2, SubtermsAre
    <3>4. \A y : y \in SignNodes(r) => y \in SignNodes(u)
      BY <2>3, <3>2, <3>3, SignNodesOfNode
    <3>5. \A y : y \in SignNodes(u) => y \in SignNodes(f) \/ y \in SignNodes(x)
      BY <3>2, <3>3, SignNodesOfNode
    <3> QED BY <2>2, <2>5, <3>1, <3>4, <3>5
  <2>12. CASE Delegating(t, r)
    <3>1. t[1] = "Delegate"
      BY <2>12 DEF Delegating
    <3> QED BY <2>2, <3>1, ConstructorsOfNode
  <2>13. CASE Reducing(t, r)
    <3>1. PICK i \in Subterms(t) : Step(t[i]) # NoTerm /\ r = InPlace(t, i, Step(t[i]))
      BY <2>13 DEF Reducing
    <3> DEFINE s == Step(t[i])
    <3>2. /\ r[1] = t[1] /\ r[i] = s /\ Subterms(r) = Subterms(t)
          /\ \A j \in Subterms(t) \ {i} : r[j] = t[j]
      BY <2>3, <3>1, ReplacedNode
    <3>3. SignNodes(s) \subseteq SignNodes(t)
      BY <2>6, <3>1
    <3>4. \A j \in Subterms(r) : SignNodes(r[j]) \subseteq SignNodes(t)
      <4>1. \A j \in Subterms(t) : SignNodes(t[j]) \subseteq SignNodes(t)
        BY <2>5, PartsBelow
      <4> QED BY <3>2, <3>3, <4>1
    <3>5. \A y : y \in SignNodes(r) => y \in SignNodes(t)
      BY <2>3, <2>7, <3>2, <3>4, SignNodesOfNode
    <3> QED BY <2>2, <3>5
  <2> QED BY <2>4, <2>8, <2>9, <2>10, <2>11, <2>12, <2>13 DEF StepForms
<1> QED BY <1>1

\* The signatures of a run are the ones its term came with.
KeepsSignatures ==
  SignsClosed(origin) /\ "Delegate" \notin Constructors(origin) =>
    SignNodes(cur) \subseteq SignNodes(origin) /\ "Delegate" \notin Constructors(cur)

\* reduce.rs and check.rs: what a relying party verified of a token without
\* delegations, whose signed proofs are closed, it verifies of every reduct.
THEOREM VerifiedStaysVerified == Spec => []ReductionKeepsSignatures
<1>1. Init => KeepsSignatures
  BY DEF Init, KeepsSignatures
<1>2. ReducesPrograms /\ KeepsSignatures /\ [Next]_vars => KeepsSignatures'
  <2> SUFFICES ASSUME ReducesPrograms, KeepsSignatures, [Next]_vars PROVE KeepsSignatures'
    OBVIOUS
  <2>1. CASE Reduce
    <3>1. cur' = Step(cur) /\ Step(cur) # NoTerm /\ origin' = origin /\ cur \in Programs
      BY <2>1 DEF Reduce, ReducesPrograms
    <3>2. ASSUME SignsClosed(origin), "Delegate" \notin Constructors(origin)
          PROVE  SignNodes(Step(cur)) \subseteq SignNodes(origin)
                   /\ "Delegate" \notin Constructors(Step(cur))
      <4>1. SignNodes(cur) \subseteq SignNodes(origin) /\ "Delegate" \notin Constructors(cur)
        BY <3>2 DEF KeepsSignatures
      <4>2. SignsClosed(cur)
        BY <3>2, <4>1 DEF SignsClosed
      <4>3. SignNodes(Step(cur)) \subseteq SignNodes(cur)
        BY <3>1, <4>1, <4>2, SignsOfStep
      <4>4. "Delegate" \notin {"LiftLabel", "App", "Sign"}
        OBVIOUS
      <4>5. "Delegate" \notin Constructors(Step(cur))
        BY <3>1, <4>1, <4>4, ConstructorsOfStep
      <4> QED BY <4>1, <4>3, <4>5
    <3> QED BY <3>1, <3>2 DEF KeepsSignatures
  <2>2. CASE UNCHANGED vars
    BY <2>2 DEF vars, KeepsSignatures
  <2> QED BY <2>1, <2>2 DEF Next, Returned
<1>3. ReducesPrograms /\ KeepsSignatures => ReductionKeepsSignatures
  <2> SUFFICES ASSUME ReducesPrograms, KeepsSignatures, NEW k \in Keyrings,
                      AllSigsVerify(origin, k), SignsClosed(origin),
                      "Delegate" \notin Constructors(origin)
               PROVE  AllSigsVerify(cur, k)
    BY DEF ReductionKeepsSignatures, SignsClosed
  <2>1. cur \in Universe("term") /\ origin \in Universe("term")
    BY ProgramAssumption DEF ReducesPrograms
  <2>2. SignNodes(cur) \subseteq SignNodes(origin)
    BY DEF KeepsSignatures
  <2>3. SignaturesVerify(origin, k)
    BY <2>1, WalkFindsEverySignature
  <2>4. SignaturesVerify(cur, k)
    BY <2>2, <2>3 DEF SignaturesVerify
  <2> QED BY <2>1, <2>4, WalkFindsEverySignature
<1> QED BY <1>1, <1>2, <1>3, ProgramsReduced, PTL DEF Spec

-----------------------------------------------------------------------------
(* The calls of infer. *)

\* What a binder adds to a context.
LEMMA AddedIs ==
  ASSUME NEW c
  PROVE  /\ Added(c, Nothing) = c
         /\ \A phi : Added(c, <<"A", phi>>) = ConsA(c, phi)
         /\ \A phi, psi : Added(c, <<"L", phi, psi>>) = ConsL(ConsL(c, phi), psi)
  BY DEF Added, Nothing

\* r has in field i, seen under what a binder adds, the type that t has there, if any.
SameType(c, t, d, r, new, i) ==
  Infer(Added(c, new), t[i]) # NoProp =>
    Infer(Added(d, new), r[i]) = Infer(Added(c, new), t[i])

\* So it has for every call of infer made for both.
SameCalls(c, t, d, r) ==
  \A call \in InferCalls(c, t) : call \in InferCalls(d, r) => SameType(c, t, d, r, call[1], call[2])

\* infer calls itself on subterms, with as many more hypotheses as the node binds there.
LEMMA CallsDescend ==
  ASSUME NEW c, NEW t \in Universe("term"), t[1] # "Var", NEW call \in InferCalls(c, t)
  PROVE  /\ call[2] \in Subterms(t)
         /\ \/ call[1] = Nothing /\ Binds(t, call[2]) = 0
            \/ \E phi : call[1] = <<"A", phi>> /\ Binds(t, call[2]) = 1
            \/ t[1] = "LetTensor" /\ \E phi, psi : call[1] = <<"L", phi, psi>>
<1> USE DEF Is
<1>1. CASE t[1] = "Lam"
  <2>1. call = <<<<"A", t[2]>>, 3>>
    BY <1>1 DEF InferCalls
  <2> QED BY <1>1, <2>1, SubtermsAre, BindsTable
<1>2. CASE t[1] = "Case"
  <2> DEFINE m == Infer(c, t[2])
  <2>1. call \in {<<Nothing, 2>>, <<<<"A", m[2]>>, 3>>, <<<<"A", m[3]>>, 4>>}
    BY <1>2 DEF InferCalls
  <2> HIDE DEF m
  <2> QED BY <1>2, <2>1, SubtermsAre, BindsTable
<1>3. CASE t[1] = "LetTensor"
  <2> DEFINE m == Infer(c, t[2])
  <2>1. call \in {<<Nothing, 2>>, <<<<"L", m[2], m[3]>>, 3>>}
    BY <1>3 DEF InferCalls
  <2> HIDE DEF m
  <2> QED BY <1>3, <2>1, SubtermsAre, BindsTable
<1>4. CASE t[1] \in {"SaysBind", "LetSays"}
  <2> DEFINE m == Infer(c, t[3])
  <2>1. call \in {<<Nothing, 3>>, <<<<"A", m[3]>>, 4>>}
    BY <1>4 DEF InferCalls
  <2> HIDE DEF m
  <2> QED BY <1>4, <2>1, SubtermsAre, BindsTable
<1>5. CASE t[1] \in {"Boxed", "Declassify"}
  <2>1. call = <<Nothing, 3>>
    BY <1>5 DEF InferCalls
  <2> QED BY <1>5, <2>1, SubtermsAre, BindsTable
<1>6. CASE t[1] = "Discharge"
  <2>1. call = <<Nothing, 2>>
    BY <1>6 DEF InferCalls
  <2> QED BY <1>6, <2>1, SubtermsAre, BindsTable
<1>7. CASE t[1] \notin {"Lam", "Case", "LetTensor", "SaysBind", "LetSays", "Boxed", "Declassify",
                        "Discharge"}
  <2>1. PICK i \in Subterms(t) : call = <<Nothing, i>>
    BY <1>7 DEF InferCalls
  <2>2. i \in Nat
    BY SubtermsAre
  <2> QED BY <1>7, <2>1, <2>2, BindsTable
<1> QED BY <1>1, <1>2, <1>3, <1>4, <1>5, <1>6, <1>7

\* The same for what is typed in the context itself, and under one or two binders.
SameHere(c, t, d, r, i) == Infer(c, t[i]) # NoProp => Infer(d, r[i]) = Infer(c, t[i])
SameUnder(c, t, d, r, phi, i) == SameHere(ConsA(c, phi), t, ConsA(d, phi), r, i)
SameUnderTwo(c, t, d, r, phi, psi, i) ==
  SameHere(ConsL(ConsL(c, phi), psi), t, ConsL(ConsL(d, phi), psi), r, i)

\* What the calls of infer tell of two terms of one constructor.
LEMMA CallsAgree ==
  ASSUME NEW c, NEW t \in Universe("term"), NEW d, NEW r \in Universe("term"),
         t[1] # "Var", r[1] = t[1], SameCalls(c, t, d, r)
  PROVE  LET first == Infer(c, t[2])
             second == Infer(c, t[3])
         IN  /\ t[1] \notin {"Lam", "Case", "LetTensor", "SaysBind", "LetSays", "Boxed",
                             "Declassify", "Discharge"} =>
                  \A i \in Subterms(t) : SameHere(c, t, d, r, i)
             /\ t[1] \in {"Case", "LetTensor", "Discharge"} => SameHere(c, t, d, r, 2)
             /\ t[1] \in {"Boxed", "Declassify", "SaysBind", "LetSays"} => SameHere(c, t, d, r, 3)
             /\ t[1] = "Lam" /\ r[2] = t[2] => SameUnder(c, t, d, r, t[2], 3)
             /\ t[1] = "Case" /\ first[1] = "Or" /\ Infer(d, r[2]) = first =>
                  SameUnder(c, t, d, r, first[2], 3) /\ SameUnder(c, t, d, r, first[3], 4)
             /\ t[1] = "LetTensor" /\ first[1] = "Tensor" /\ Infer(d, r[2]) = first =>
                  SameUnderTwo(c, t, d, r, first[2], first[3], 3)
             /\ t[1] \in {"SaysBind", "LetSays"} /\ r[2] = t[2] /\ Infer(d, r[3]) = second =>
                  (second[1] = "Says" /\ second[2] = t[2] => SameUnder(c, t, d, r, second[3], 4))
<1> USE DEF Is
<1> DEFINE first == Infer(c, t[2])
           second == Infer(c, t[3])
<1>1. ASSUME NEW new, NEW i, <<new, i>> \in InferCalls(c, t), <<new, i>> \in InferCalls(d, r)
      PROVE  SameType(c, t, d, r, new, i)
  <2> DEFINE call == <<new, i>>
  <2>1. call[1] = new /\ call[2] = i
    OBVIOUS
  <2>2. call \in InferCalls(c, t) /\ call \in InferCalls(d, r)
    BY <1>1
  <2> HIDE DEF call
  <2> QED BY <2>1, <2>2 DEF SameCalls
<1>2. ASSUME NEW i, <<Nothing, i>> \in InferCalls(c, t), <<Nothing, i>> \in InferCalls(d, r)
      PROVE  SameHere(c, t, d, r, i)
  BY <1>1, <1>2, AddedIs DEF SameType, SameHere
<1>3. ASSUME NEW phi, NEW i, <<<<"A", phi>>, i>> \in InferCalls(c, t),
             <<<<"A", phi>>, i>> \in InferCalls(d, r)
      PROVE  SameUnder(c, t, d, r, phi, i)
  <2>1. SameType(c, t, d, r, <<"A", phi>>, i)
    BY <1>1, <1>3
  <2>2. Added(c, <<"A", phi>>) = ConsA(c, phi) /\ Added(d, <<"A", phi>>) = ConsA(d, phi)
    BY AddedIs
  <2> QED BY <2>1, <2>2 DEF SameType, SameHere, SameUnder
<1>4. ASSUME NEW phi, NEW psi, NEW i, <<<<"L", phi, psi>>, i>> \in InferCalls(c, t),
             <<<<"L", phi, psi>>, i>> \in InferCalls(d, r)
      PROVE  SameUnderTwo(c, t, d, r, phi, psi, i)
  <2> DEFINE new == <<"L", phi, psi>>
  <2>1. SameType(c, t, d, r, new, i)
    <3>1. <<new, i>> \in InferCalls(c, t) /\ <<new, i>> \in InferCalls(d, r)
      BY <1>4
    <3> HIDE DEF new
    <3> QED BY <1>1, <3>1
  <2>2. Added(c, new) = ConsL(ConsL(c, phi), psi) /\ Added(d, new) = ConsL(ConsL(d, phi), psi)
    BY AddedIs
  <2> HIDE DEF new
  <2> QED BY <2>1, <2>2 DEF SameType, SameHere, SameUnderTwo
<1>5. ASSUME t[1] \notin {"Lam", "Case", "LetTensor", "SaysBind", "LetSays", "Boxed",
                          "Declassify", "Discharge"},
             NEW i \in Subterms(t)
      PROVE  SameHere(c, t, d, r, i)
  <2>1. Subterms(r) = Subterms(t)
    BY SubtermsByConstructor
  <2>2. <<Nothing, i>> \in InferCalls(c, t)
    BY <1>5 DEF InferCalls
  <2>3. <<Nothing, i>> \in InferCalls(d, r)
    BY <1>5, <2>1 DEF InferCalls
  <2> QED BY <1>2, <2>2, <2>3
<1>6. ASSUME t[1] \in {"Case", "LetTensor", "Discharge"} PROVE SameHere(c, t, d, r, 2)
  <2>1. <<Nothing, 2>> \in InferCalls(c, t) /\ <<Nothing, 2>> \in InferCalls(d, r)
    BY <1>6 DEF InferCalls
  <2> QED BY <1>2, <2>1
<1>7. ASSUME t[1] \in {"Boxed", "Declassify", "SaysBind", "LetSays"} PROVE SameHere(c, t, d, r, 3)
  <2>1. <<Nothing, 3>> \in InferCalls(c, t) /\ <<Nothing, 3>> \in InferCalls(d, r)
    BY <1>7 DEF InferCalls
  <2> QED BY <1>2, <2>1
<1>8. ASSUME t[1] = "Lam", r[2] = t[2] PROVE SameUnder(c, t, d, r, t[2], 3)
  <2>1. <<<<"A", t[2]>>, 3>> \in InferCalls(c, t)
    BY <1>8 DEF InferCalls
  <2>2. <<<<"A", t[2]>>, 3>> \in InferCalls(d, r)
    BY <1>8 DEF InferCalls
  <2> QED BY <1>3, <2>1, <2>2
<1>9. ASSUME t[1] = "Case", first[1] = "Or", Infer(d, r[2]) = first
      PROVE  SameUnder(c, t, d, r, first[2], 3) /\ SameUnder(c, t, d, r, first[3], 4)
  <2>1. <<<<"A", first[2]>>, 3>> \in InferCalls(c, t) /\ <<<<"A", first[3]>>, 4>> \in InferCalls(c, t)
    BY <1>9 DEF InferCalls
  <2>2. <<<<"A", first[2]>>, 3>> \in InferCalls(d, r) /\ <<<<"A", first[3]>>, 4>> \in InferCalls(d, r)
    BY <1>9 DEF InferCalls
  <2> HIDE DEF first
  <2> QED BY <1>3, <2>1, <2>2
<1>10. ASSUME t[1] = "LetTensor", first[1] = "Tensor", Infer(d, r[2]) = first
       PROVE  SameUnderTwo(c, t, d, r, first[2], first[3], 3)
  <2>1. <<<<"L", first[2], first[3]>>, 3>> \in InferCalls(c, t)
    BY <1>10 DEF InferCalls
  <2>2. <<<<"L", first[2], first[3]>>, 3>> \in InferCalls(d, r)
    BY <1>10 DEF InferCalls
  <2> HIDE DEF first
  <2> QED BY <1>4, <2>1, <2>2
<1>11. t[1] \in {"SaysBind", "LetSays"} /\ r[2] = t[2] /\ Infer(d, r[3]) = second =>
         (second[1] = "Says" /\ second[2] = t[2] => SameUnder(c, t, d, r, second[3], 4))
  <2> SUFFICES ASSUME t[1] \in {"SaysBind", "LetSays"}, r[2] = t[2], second[1] = "Says",
                      second[2] = t[2], Infer(d, r[3]) = second
               PROVE  SameUnder(c, t, d, r, second[3], 4)
    OBVIOUS
  <2>1. <<<<"A", second[3]>>, 4>> \in InferCalls(c, t)
    BY DEF InferCalls
  <2>2. <<<<"A", second[3]>>, 4>> \in InferCalls(d, r)
    BY DEF InferCalls
  <2> HIDE DEF second
  <2> QED BY <1>3, <2>1, <2>2
<1> HIDE DEF first, second
<1>12. t[1] = "Case" /\ first[1] = "Or" /\ Infer(d, r[2]) = first =>
         SameUnder(c, t, d, r, first[2], 3) /\ SameUnder(c, t, d, r, first[3], 4)
  BY <1>9
<1>13. t[1] = "LetTensor" /\ first[1] = "Tensor" /\ Infer(d, r[2]) = first =>
         SameUnderTwo(c, t, d, r, first[2], first[3], 3)
  BY <1>10
<1> QED BY <1>5, <1>6, <1>7, <1>8, <1>12, <1>13, <1>11 DEF first, second

\* The fields of a term that are not terms.
LEMMA OtherFields ==
  ASSUME NEW t \in Universe("term")
  PROVE  /\ t[1] \in {"Lam", "Sign", "Verify", "Boxed", "LiftLabel", "Declassify", "WithinIntro",
                      "Inl", "Inr", "SaysBind", "LetSays"} => 2 \in (2..Len(t)) \ Subterms(t)
         /\ t[1] = "Attenuate" => 3 \in (2..Len(t)) \ Subterms(t)
         /\ t[1] = "Command" => 4 \in (2..Len(t)) \ Subterms(t)
<1>1. Len(t) = Len(TermFields[t[1]]) + 1
  BY TermLength
<1>2. CASE t[1] \in {"Lam", "LiftLabel", "WithinIntro", "Inl", "Inr"}
  <2>1. Len(TermFields[t[1]]) = 2
    BY <1>2 DEF TermFields
  <2>2. Subterms(t) = {3}
    BY <1>2, SubtermsAre
  <2> QED BY <1>1, <1>2, <2>1, <2>2
<1>3. CASE t[1] \in {"Sign", "Verify"}
  <2>1. Len(TermFields[t[1]]) = 3
    BY <1>3 DEF TermFields
  <2>2. Subterms(t) = {3}
    BY <1>3, SubtermsAre
  <2> QED BY <1>1, <1>3, <2>1, <2>2
<1>4. CASE t[1] \in {"Boxed", "Declassify", "SaysBind", "LetSays"}
  <2>1. Len(TermFields[t[1]]) = 3
    BY <1>4 DEF TermFields
  <2>2. Subterms(t) = {3, 4}
    BY <1>4, SubtermsAre
  <2> QED BY <1>1, <1>4, <2>1, <2>2
<1>5. CASE t[1] = "Attenuate"
  <2>1. Len(TermFields[t[1]]) = 2
    BY <1>5 DEF TermFields
  <2>2. Subterms(t) = {2}
    BY <1>5, SubtermsAre
  <2> QED BY <1>1, <1>5, <2>1, <2>2
<1>6. CASE t[1] = "Command"
  <2>1. Len(TermFields[t[1]]) = 3
    BY <1>6 DEF TermFields
  <2>2. Subterms(t) = {2, 3}
    BY <1>6, SubtermsAre
  <2> QED BY <1>1, <1>6, <2>1, <2>2
<1> QED BY <1>2, <1>3, <1>4, <1>5, <1>6

\* The type of a term is made of the types that the calls of infer find: a term with the
\* same constructor and other fields, whose subterms have the same types where they are
\* typed, has the same type.
LEMMA SameTyping ==
  ASSUME NEW c, NEW t \in Universe("term"), NEW d, NEW r \in Universe("term"),
         t[1] # "Var", r[1] = t[1],
         \A i \in (2..Len(t)) \ Subterms(t) : r[i] = t[i],
         SameCalls(c, t, d, r), InferRule(c, t) # NoProp
  PROVE  InferRule(d, r) = InferRule(c, t)
<1> DEFINE op == t[1]
<1> USE DEF Is, Guarded, NoProp
<1>1. \A i \in Subterms(t) : i \in Nat
  BY SubtermsAre
<1>2. CASE op \in Logical
  <2>1. InferRule(c, t) = InferLogical(c, t) /\ InferRule(d, r) = InferLogical(d, r)
    BY <1>2 DEF InferRule, Logical, Modal, Structural, Binding
  <2>2. CASE op = "Lam"
    <3>1. r[2] = t[2]
      BY <2>2, OtherFields
    <3>2. SameUnder(c, t, d, r, t[2], 3)
      BY <2>2, <3>1, CallsAgree
    <3> QED BY <2>1, <2>2, <3>1, <3>2 DEF InferLogical, SameHere, SameUnder, SameUnderTwo
  <2>3. CASE op \in {"App", "Delegate"}
    <3>1. SameHere(c, t, d, r, 2) /\ SameHere(c, t, d, r, 3)
      <4>1. 2 \in Subterms(t) /\ 3 \in Subterms(t)
        BY <2>3, SubtermsAre
      <4> QED BY <2>3, <4>1, CallsAgree
    <3>2. CASE op = "App"
      BY <2>1, <3>1, <3>2 DEF InferLogical, SameHere, SameUnder, SameUnderTwo
    <3>3. CASE op = "Delegate"
      BY <2>1, <3>1, <3>3 DEF InferLogical, SameHere, SameUnder, SameUnderTwo, DelegateType
    <3> QED BY <2>3, <3>2, <3>3
  <2>4. CASE op \in {"Sign", "Verify"}
    <3>1. r[2] = t[2]
      BY <2>4, OtherFields
    <3>2. SameHere(c, t, d, r, 3)
      <4>1. 3 \in Subterms(t)
        BY <2>4, SubtermsAre
      <4> QED BY <2>4, <4>1, CallsAgree
    <3> QED BY <2>1, <2>4, <3>1, <3>2 DEF InferLogical, SameHere, SameUnder, SameUnderTwo
  <2>5. CASE op = "Attenuate"
    <3>1. r[3] = t[3]
      BY <2>5, OtherFields
    <3>2. SameHere(c, t, d, r, 2)
      <4>1. 2 \in Subterms(t)
        BY <2>5, SubtermsAre
      <4> QED BY <2>5, <4>1, CallsAgree
    <3> QED BY <2>1, <2>5, <3>1, <3>2 DEF InferLogical, SameHere, SameUnder, SameUnderTwo
  <2> QED BY <1>2, <2>2, <2>3, <2>4, <2>5 DEF Logical
<1>3. CASE op \in Modal
  <2>1. InferRule(c, t) = InferModal(c, t) /\ InferRule(d, r) = InferModal(d, r)
    BY <1>3 DEF InferRule, Logical, Modal, Structural, Binding
  <2>2. CASE op = "Now"
    BY <2>1, <2>2 DEF InferModal, SameHere, SameUnder, SameUnderTwo
  <2>3. CASE op = "Discharge"
    <3>1. SameHere(c, t, d, r, 2)
      BY <2>3, CallsAgree
    <3> QED BY <2>1, <2>3, <3>1 DEF InferModal, SameHere, SameUnder, SameUnderTwo
  <2>4. CASE op \in {"Boxed", "LiftLabel", "Declassify", "WithinIntro"}
    <3>1. r[2] = t[2]
      BY <2>4, OtherFields
    <3>2. SameHere(c, t, d, r, 3)
      <4>1. 3 \in Subterms(t)
        BY <2>4, SubtermsAre
      <4> QED BY <2>4, <4>1, CallsAgree
    <3> QED BY <2>1, <2>4, <3>1, <3>2 DEF InferModal, SameHere, SameUnder, SameUnderTwo
  <2> QED BY <1>3, <2>2, <2>3, <2>4 DEF Modal
<1>4. CASE op \in Structural
  <2>1. InferRule(c, t) = InferStructural(c, t) /\ InferRule(d, r) = InferStructural(d, r)
    BY <1>4 DEF InferRule, Logical, Modal, Structural, Binding
  <2>2. CASE op \in {"Pair", "TensorIntro"}
    <3>1. SameHere(c, t, d, r, 2) /\ SameHere(c, t, d, r, 3)
      <4>1. 2 \in Subterms(t) /\ 3 \in Subterms(t)
        BY <2>2, SubtermsAre
      <4> QED BY <2>2, <4>1, CallsAgree
    <3> QED BY <2>1, <2>2, <3>1 DEF InferStructural, SameHere, SameUnder, SameUnderTwo
  <2>3. CASE op \in {"Fst", "Snd"}
    <3>1. SameHere(c, t, d, r, 2)
      <4>1. 2 \in Subterms(t)
        BY <2>3, SubtermsAre
      <4> QED BY <2>3, <4>1, CallsAgree
    <3> QED BY <2>1, <2>3, <3>1 DEF InferStructural, SameHere, SameUnder, SameUnderTwo
  <2>4. CASE op \in {"Inl", "Inr"}
    <3>1. r[2] = t[2]
      BY <2>4, OtherFields
    <3>2. SameHere(c, t, d, r, 3)
      <4>1. 3 \in Subterms(t)
        BY <2>4, SubtermsAre
      <4> QED BY <2>4, <4>1, CallsAgree
    <3> QED BY <2>1, <2>4, <3>1, <3>2 DEF InferStructural, SameHere, SameUnder, SameUnderTwo
  <2>5. CASE op = "Case"
    <3> DEFINE first == Infer(c, t[2])
    <3>1. first[1] = "Or" /\ SameHere(c, t, d, r, 2)
      BY <2>1, <2>5, CallsAgree DEF InferStructural, SameHere, SameUnder, SameUnderTwo
    <3>2. Infer(d, r[2]) = first
      BY <3>1 DEF SameHere
    <3>3. SameUnder(c, t, d, r, first[2], 3) /\ SameUnder(c, t, d, r, first[3], 4)
      BY <2>5, <3>1, <3>2, CallsAgree
    <3> QED BY <2>1, <2>5, <3>1, <3>2, <3>3 DEF InferStructural, SameHere, SameUnder, SameUnderTwo
  <2>6. CASE op = "LetTensor"
    <3> DEFINE first == Infer(c, t[2])
    <3>1. first[1] = "Tensor" /\ SameHere(c, t, d, r, 2)
      BY <2>1, <2>6, CallsAgree DEF InferStructural, SameHere, SameUnder, SameUnderTwo
    <3>2. Infer(d, r[2]) = first
      BY <3>1 DEF SameHere
    <3>3. SameUnderTwo(c, t, d, r, first[2], first[3], 3)
      BY <2>6, <3>1, <3>2, CallsAgree
    <3> QED BY <2>1, <2>6, <3>1, <3>2, <3>3 DEF InferStructural, SameHere, SameUnder, SameUnderTwo
  <2> QED BY <1>4, <2>2, <2>3, <2>4, <2>5, <2>6 DEF Structural
<1>5. CASE op \in Binding
  <2>1. InferRule(c, t) = InferBinding(c, t) /\ InferRule(d, r) = InferBinding(d, r)
    BY <1>5 DEF InferRule, Logical, Modal, Structural, Binding
  <2>2. CASE op \in {"SaysBind", "LetSays"}
    <3> DEFINE second == Infer(c, t[3])
    <3>1. r[2] = t[2]
      BY <2>2, OtherFields
    <3>2. second[1] = "Says" /\ second[2] = t[2] /\ SameHere(c, t, d, r, 3)
      BY <2>1, <2>2, CallsAgree DEF InferBinding, SameHere, SameUnder, SameUnderTwo, SaysBody
    <3>3. Infer(d, r[3]) = second
      BY <3>2 DEF SameHere
    <3>4. SameUnder(c, t, d, r, second[3], 4)
      BY <2>2, <3>1, <3>2, <3>3, CallsAgree
    <3>5. Infer(ConsA(c, second[3]), t[4]) # NoProp
      BY <2>1, <2>2 DEF InferBinding, SameHere, SameUnder, SameUnderTwo, SaysBody
    <3>6. SaysBody(d, r[2], Infer(d, r[3]), r[4]) = SaysBody(c, t[2], second, t[4])
      BY <3>1, <3>2, <3>3, <3>4, <3>5 DEF SaysBody, SameHere, SameUnder
    <3> QED BY <2>1, <2>2, <3>1, <3>6 DEF InferBinding, SameHere, SameUnder, SameUnderTwo
  <2>3. CASE op = "SfExtract"
    <3>1. SameHere(c, t, d, r, 2)
      <4>1. 2 \in Subterms(t)
        BY <2>3, SubtermsAre
      <4> QED BY <2>3, <4>1, CallsAgree
    <3> QED BY <2>1, <2>3, <3>1 DEF InferBinding, SameHere, SameUnder, SameUnderTwo
  <2>4. CASE op = "Command"
    <3>1. r[4] = t[4]
      BY <2>4, OtherFields
    <3>2. SameHere(c, t, d, r, 2) /\ SameHere(c, t, d, r, 3)
      <4>1. 2 \in Subterms(t) /\ 3 \in Subterms(t)
        BY <2>4, SubtermsAre
      <4> QED BY <2>4, <4>1, CallsAgree
    <3> QED BY <2>1, <2>4, <3>1, <3>2 DEF InferBinding, SameHere, SameUnder, SameUnderTwo
  <2>5. CASE op = "RunCmd"
    <3>1. SameHere(c, t, d, r, 2) /\ SameHere(c, t, d, r, 3)
      <4>1. 2 \in Subterms(t) /\ 3 \in Subterms(t)
        BY <2>5, SubtermsAre
      <4> QED BY <2>5, <4>1, CallsAgree
    <3> QED BY <2>1, <2>5, <3>1 DEF InferBinding, SameHere, SameUnder, SameUnderTwo
  <2> QED BY <1>5, <2>2, <2>3, <2>4, <2>5 DEF Binding
<1>6. op \in Logical \cup Modal \cup Structural \cup Binding
  BY TermLength DEF TermFields, Logical, Modal, Structural, Binding
<1> QED BY <1>2, <1>3, <1>4, <1>5, <1>6

-----------------------------------------------------------------------------
(* Weakening. *)

\* Induction on the terms judged: of the judgments that lack something, one has a term
\* none of whose subterms has such a judgment.
LEMMA SmallestJudgment ==
  ASSUME NEW Bad, NEW b \in Bad, Bad \subseteq Judgments
  PROVE  \E j \in Bad : \A i \in Subterms(j[2]) : \A k \in Bad : k[2] # j[2][i]
<1> DEFINE Terms == {j[2] : j \in Bad}
<1>1. b[2] \in Terms /\ b[2] \in Universe("term")
  BY JudgmentAssumption
<1>2. PICK u \in Universe("term") : u \in Terms /\ \A i \in Subterms(u) : u[i] \notin Terms
  <2> HIDE DEF Terms
  <2> QED BY <1>1, SmallestTerm
<1>3. PICK j \in Bad : u = j[2]
  BY <1>2
<1> QED BY <1>2, <1>3

\* The additive hypotheses of a context.
LEMMA ContextParts ==
  ASSUME NEW c, IsContext(c)
  PROVE  /\ c = Ctx(c.additive, c.linear)
         /\ \E S : c.additive \in Seq(S)
         /\ \E S : c.linear \in Seq(S)
         /\ Len(c.linear) # 1
<1>1. c.additive \in Seq({c.additive[i] : i \in DOMAIN c.additive})
  BY DEF IsContext
<1>2. c.linear \in Seq({c.linear[i] : i \in DOMAIN c.linear})
  BY DEF IsContext
<1> QED BY <1>1, <1>2 DEF IsContext

\* Adding to a context at either end.
LEMMA ConsIs ==
  ASSUME NEW g, NEW l
  PROVE  /\ \A phi : ConsA(Ctx(g, l), phi) = Ctx(<<phi>> \o g, l)
         /\ \A phi : ConsL(Ctx(g, l), phi) = Ctx(g, <<phi>> \o l)
         /\ Weakened(Ctx(g, l)) = Ctx(Append(g, <<"Bot">>), l)
         /\ Ctx(g, l).additive = g /\ Ctx(g, l).linear = l
<1>1. Ctx(g, l).additive = g /\ Ctx(g, l).linear = l
  BY DEF Ctx
<1>2. \A phi : ConsA(Ctx(g, l), phi) = Ctx(<<phi>> \o g, l)
  <2> TAKE phi
  <2> DEFINE more == <<phi>> \o g
  <2>1. ConsA(Ctx(g, l), phi) = [Ctx(g, l) EXCEPT !.additive = more]
    BY <1>1 DEF ConsA
  <2> HIDE DEF more
  <2>2. [Ctx(g, l) EXCEPT !.additive = more] = Ctx(more, l)
    BY DEF Ctx
  <2> QED BY <2>1, <2>2 DEF more
<1>3. \A phi : ConsL(Ctx(g, l), phi) = Ctx(g, <<phi>> \o l)
  <2> TAKE phi
  <2> DEFINE more == <<phi>> \o l
  <2>1. ConsL(Ctx(g, l), phi) = [Ctx(g, l) EXCEPT !.linear = more]
    BY <1>1 DEF ConsL
  <2> HIDE DEF more
  <2>2. [Ctx(g, l) EXCEPT !.linear = more] = Ctx(g, more)
    BY DEF Ctx
  <2> QED BY <2>1, <2>2 DEF more
<1>4. Weakened(Ctx(g, l)) = Ctx(Append(g, <<"Bot">>), l)
  <2> DEFINE bot == <<"Bot">>
             more == Append(g, bot)
  <2>1. Weakened(Ctx(g, l)) = [Ctx(g, l) EXCEPT !.additive = more]
    BY <1>1 DEF Weakened
  <2> HIDE DEF more
  <2>2. [Ctx(g, l) EXCEPT !.additive = more] = Ctx(more, l)
    BY DEF Ctx
  <2> QED BY <2>1, <2>2 DEF more
<1> QED BY <1>1, <1>2, <1>3, <1>4

\* One in front and one behind, in either order.
LEMMA ConsAppend ==
  ASSUME NEW S, NEW g \in Seq(S), NEW phi, NEW bot
  PROVE  <<phi>> \o Append(g, bot) = Append(<<phi>> \o g, bot)
<1> DEFINE T == S \cup {phi, bot}
<1>1. g \in Seq(T) /\ <<phi>> \in Seq(T) /\ bot \in T
  BY MemberOfSeq
<1> HIDE DEF T
<1>2. Append(g, bot) = g \o <<bot>> /\ Append(<<phi>> \o g, bot) = (<<phi>> \o g) \o <<bot>>
  BY <1>1, AppendIsConcat
<1>3. <<bot>> \in Seq(T)
  BY <1>1
<1> QED BY <1>1, <1>2, <1>3, ConcatAssociative

\* What a binder adds comes in front of the one hypothesis more.
LEMMA AddedWeakened ==
  ASSUME NEW c, IsContext(c), NEW phi, NEW psi
  PROVE  /\ ConsA(Weakened(c), phi) = Weakened(ConsA(c, phi))
         /\ ConsL(ConsL(Weakened(c), phi), psi) = Weakened(ConsL(ConsL(c, phi), psi))
<1> DEFINE g == c.additive
           l == c.linear
           bot == <<"Bot">>
<1>1. PICK S : g \in Seq(S)
  BY ContextParts
<1>2. c = Ctx(g, l)
  BY ContextParts
<1>3. <<phi>> \o Append(g, bot) = Append(<<phi>> \o g, bot)
  <2> HIDE DEF g, bot
  <2> QED BY <1>1, ConsAppend
<1> HIDE DEF g, l
<1>4. ConsA(Weakened(c), phi) = Weakened(ConsA(c, phi))
  <2>1. ConsA(Weakened(c), phi) = Ctx(<<phi>> \o Append(g, bot), l)
    BY <1>2, ConsIs
  <2>2. Weakened(ConsA(c, phi)) = Ctx(Append(<<phi>> \o g, bot), l)
    BY <1>2, ConsIs
  <2> QED BY <1>3, <2>1, <2>2
<1>5. ConsL(ConsL(Weakened(c), phi), psi) = Weakened(ConsL(ConsL(c, phi), psi))
  <2>1. ConsL(ConsL(Weakened(c), phi), psi) = Ctx(Append(g, bot), <<psi>> \o (<<phi>> \o l))
    BY <1>2, ConsIs
  <2>2. Weakened(ConsL(ConsL(c, phi), psi)) = Ctx(Append(g, bot), <<psi>> \o (<<phi>> \o l))
    BY <1>2, ConsIs
  <2> QED BY <2>1, <2>2
<1> QED BY <1>4, <1>5

\* A variable is looked up among the additive hypotheses.
LEMMA VariableType ==
  ASSUME NEW c, IsContext(c), NEW t \in Universe("term"), t[1] = "Var"
  PROVE  /\ InferRule(c, t) = IF t[2] < Len(c.additive) THEN c.additive[t[2] + 1] ELSE NoProp
         /\ t[2] \in Nat /\ Len(c.additive) \in Nat
<1>1. InferRule(c, t) = Lookup(c, t[2])
  BY DEF InferRule, Logical, Modal, Structural, Binding, Is
<1>2. Len(c.linear) # 1
  BY ContextParts
<1>3. t[2] \in Nat
  BY VariableIsIndex
<1>4. Len(c.additive) \in Nat
  BY ContextParts, LenProperties
<1> QED BY <1>1, <1>2, <1>3, <1>4 DEF Lookup, Guarded

\* The rule, and the calls, of a judgment.
LEMMA Judged ==
  ASSUME NEW c, NEW t, <<c, t>> \in Judgments
  PROVE  /\ IsContext(c) /\ t \in Universe("term")
         /\ Infer(c, t) = InferRule(c, t)
         /\ Infer(Weakened(c), t) = InferRule(Weakened(c), t)
         /\ \A call \in InferCalls(c, t) : <<Added(c, call[1]), t[call[2]]>> \in Judgments
<1> DEFINE j == <<c, t>>
<1>1. j \in Judgments /\ j[1] = c /\ j[2] = t
  OBVIOUS
<1> HIDE DEF j
<1> QED BY <1>1, JudgmentAssumption

\* One more hypothesis behind the others changes the type of no typed term.
LEMMA JudgmentsWeaken ==
  \A j \in Judgments : Infer(j[1], j[2]) # NoProp =>
    Infer(Weakened(j[1]), j[2]) = Infer(j[1], j[2])
<1> DEFINE Bad == {j \in Judgments : /\ Infer(j[1], j[2]) # NoProp
                                     /\ Infer(Weakened(j[1]), j[2]) # Infer(j[1], j[2])}
<1>1. ASSUME NEW b \in Bad PROVE FALSE
  <2>1. PICK j \in Bad : \A i \in Subterms(j[2]) : \A k \in Bad : k[2] # j[2][i]
    <3>1. Bad \subseteq Judgments
      OBVIOUS
    <3> HIDE DEF Bad
    <3> QED BY <1>1, <3>1, SmallestJudgment
  <2> DEFINE c == j[1]
             t == j[2]
             d == Weakened(c)
  <2>2. /\ j \in Judgments /\ Infer(c, t) # NoProp /\ Infer(d, t) # Infer(c, t)
    BY <2>1
  <2>3. /\ IsContext(c) /\ t \in Universe("term")
        /\ Infer(c, t) = InferRule(c, t) /\ Infer(d, t) = InferRule(d, t)
        /\ \A call \in InferCalls(c, t) : <<Added(c, call[1]), t[call[2]]>> \in Judgments
    BY <2>2, JudgmentAssumption
  <2>4. ASSUME NEW g, NEW i \in Subterms(t), <<g, t[i]>> \in Judgments, Infer(g, t[i]) # NoProp
        PROVE  Infer(Weakened(g), t[i]) = Infer(g, t[i])
    <3> DEFINE k == <<g, t[i]>>
    <3>1. k \in Judgments /\ k[1] = g /\ k[2] = t[i]
      BY <2>4
    <3>2. k \notin Bad
      <4> HIDE DEF k, Bad
      <4> QED BY <2>1, <2>4, <3>1
    <3> HIDE DEF k
    <3> QED BY <2>4, <3>1, <3>2
  <2> HIDE DEF Bad, c, t, d
  <2>5. CASE t[1] = "Var"
    <3> DEFINE g == c.additive
    <3>1. c = Ctx(g, c.linear) /\ d = Ctx(Append(g, <<"Bot">>), c.linear)
      BY <2>3, ContextParts, ConsIs DEF d
    <3>2. /\ InferRule(c, t) = IF t[2] < Len(g) THEN g[t[2] + 1] ELSE NoProp
          /\ t[2] \in Nat /\ Len(g) \in Nat
      BY <2>3, <2>5, VariableType
    <3>3. t[2] < Len(g)
      BY <2>2, <2>3, <3>2
    <3>4. PICK S : g \in Seq(S)
      BY <2>3, ContextParts
    <3> HIDE DEF g
    <3>5. /\ Len(Append(g, <<"Bot">>)) = Len(g) + 1
          /\ Append(g, <<"Bot">>)[t[2] + 1] = g[t[2] + 1]
      <4> DEFINE T == S \cup {<<"Bot">>}
                 bot == <<"Bot">>
      <4>1. g \in Seq(T) /\ bot \in T
        BY <3>4, MemberOfSeq
      <4> HIDE DEF T, bot
      <4>2. t[2] + 1 \in 1..Len(g)
        BY <3>2, <3>3
      <4> QED BY <4>1, <4>2, AppendProperties DEF bot
    <3>6. d.additive = Append(g, <<"Bot">>)
      BY <3>1, ConsIs
    <3>7. InferRule(d, t) = Lookup(d, t[2])
      BY <2>5 DEF InferRule, Logical, Modal, Structural, Binding, Is
    <3>8. Lookup(d, t[2]) = g[t[2] + 1]
      BY <3>2, <3>3, <3>5, <3>6 DEF Lookup
    <3> QED BY <2>2, <2>3, <3>2, <3>3, <3>7, <3>8
  <2>6. CASE t[1] # "Var"
    <3>1. ASSUME NEW call \in InferCalls(c, t)
          PROVE  SameType(c, t, d, t, call[1], call[2])
      <4> DEFINE new == call[1]
                 i == call[2]
                 g == Added(c, new)
      <4>1. i \in Subterms(t) /\ <<g, t[i]>> \in Judgments
        BY <2>3, <2>6, CallsDescend
      <4>2. Added(d, new) = Weakened(g)
        <5>1. \/ new = Nothing \/ \E phi : new = <<"A", phi>>
              \/ \E phi, psi : new = <<"L", phi, psi>>
          BY <2>3, <2>6, CallsDescend
        <5> HIDE DEF new
        <5>2. CASE new = Nothing
          BY <5>2, AddedIs DEF d
        <5>3. ASSUME NEW phi, new = <<"A", phi>> PROVE Added(d, new) = Weakened(g)
          BY <2>3, <5>3, AddedIs, AddedWeakened DEF d
        <5>4. ASSUME NEW phi, NEW psi, new = <<"L", phi, psi>> PROVE Added(d, new) = Weakened(g)
          <6>1. /\ Added(d, new) = ConsL(ConsL(d, phi), psi)
                /\ g = ConsL(ConsL(c, phi), psi)
            BY <5>4, AddedIs
          <6> QED BY <2>3, <6>1, AddedWeakened DEF d
        <5> QED BY <5>1, <5>2, <5>3, <5>4
      <4> HIDE DEF new, i, g
      <4>3. Infer(g, t[i]) # NoProp => Infer(Weakened(g), t[i]) = Infer(g, t[i])
        BY <2>4, <4>1
      <4>4. SameType(c, t, d, t, new, i)
        BY <4>2, <4>3 DEF SameType, g
      <4> QED BY <4>4 DEF new, i
    <3>2. SameCalls(c, t, d, t)
      BY <3>1 DEF SameCalls
    <3> QED BY <2>2, <2>3, <2>6, <3>2, SameTyping
  <2> QED BY <2>5, <2>6
<1> QED BY <1>1

\* decide.rs, Lookup: a typed term keeps its type, wherever it is in its reduction, when
\* the context it was checked in has one hypothesis more.
THEOREM TypingWeakens == Spec => []WeakeningKeepsType
<1>1. ReducesPrograms => WeakeningKeepsType
  <2> SUFFICES ASSUME ReducesPrograms PROVE WeakeningKeepsType
    OBVIOUS
  <2> DEFINE j == <<ctx, cur>>
  <2>1. j \in Judgments /\ j[1] = ctx /\ j[2] = cur
    BY RuledTypes DEF ReducesPrograms
  <2> HIDE DEF j
  <2> QED BY <2>1, JudgmentsWeaken DEF WeakeningKeepsType
<1> QED BY <1>1, ProgramsReduced, PTL

-----------------------------------------------------------------------------
(* Subject reduction. *)

\* Every hypothesis of g is in c, `delta` places further from the cutoff on.
Moved(g, c, delta, cutoff) ==
  \A i \in Nat : i < Len(g.additive) =>
    LET k == IF i < cutoff THEN i ELSE i + delta
    IN  k < Len(c.additive) /\ c.additive[k + 1] = g.additive[i + 1]

\* The hypothesis of g at `depth` is phi, and every other one is in c, without it.
Without(g, c, depth, phi) ==
  \A i \in Nat : i < Len(g.additive) =>
    /\ i = depth => g.additive[i + 1] = phi
    /\ i < depth => i < Len(c.additive) /\ c.additive[i + 1] = g.additive[i + 1]
    /\ i > depth => i - 1 < Len(c.additive) /\ c.additive[i] = g.additive[i + 1]

\* The additive hypotheses under a binder.
LEMMA UnderBinder ==
  ASSUME NEW c, IsContext(c), NEW phi
  PROVE  /\ Len(c.additive) \in Nat
         /\ Len(ConsA(c, phi).additive) = Len(c.additive) + 1
         /\ ConsA(c, phi).additive[1] = phi
         /\ \A i \in Nat : 1 <= i /\ i <= Len(c.additive) =>
              ConsA(c, phi).additive[i + 1] = c.additive[i]
<1> DEFINE g == c.additive
<1>1. PICK S : g \in Seq(S)
  BY ContextParts
<1>2. ConsA(c, phi).additive = <<phi>> \o g
  <2> DEFINE l == c.linear
  <2>1. c = Ctx(g, l)
    BY ContextParts
  <2> HIDE DEF g, l
  <2>2. ConsA(Ctx(g, l), phi) = Ctx(<<phi>> \o g, l)
    BY ConsIs
  <2>3. Ctx(<<phi>> \o g, l).additive = <<phi>> \o g
    BY ConsIs
  <2> QED BY <2>1, <2>2, <2>3
<1> HIDE DEF g
<1>3. /\ Len(<<phi>> \o g) = Len(g) + 1
      /\ (<<phi>> \o g)[1] = phi
      /\ \A i \in 1..Len(g) : (<<phi>> \o g)[i + 1] = g[i]
  <2> DEFINE T == S \cup {phi}
  <2>1. g \in Seq(T) /\ phi \in T
    BY <1>1, MemberOfSeq
  <2> HIDE DEF T
  <2> QED BY <2>1, ConsProperties
<1>4. Len(g) \in Nat
  BY <1>1, LenProperties
<1> QED BY <1>2, <1>3, <1>4 DEF g

\* The first relation holds under a binder, one place further.
LEMMA MovedUnderBinder ==
  ASSUME NEW g, NEW c, IsContext(g), IsContext(c), NEW phi, NEW delta \in Nat, NEW cutoff \in Nat,
         Moved(g, c, delta, cutoff)
  PROVE  Moved(ConsA(g, phi), ConsA(c, phi), delta, cutoff + 1)
<1> DEFINE gs == g.additive
           cs == c.additive
           gp == ConsA(g, phi).additive
           cp == ConsA(c, phi).additive
<1>1. /\ Len(gs) \in Nat /\ Len(gp) = Len(gs) + 1 /\ gp[1] = phi
      /\ \A i \in Nat : 1 <= i /\ i <= Len(gs) => gp[i + 1] = gs[i]
  BY UnderBinder
<1>2. /\ Len(cs) \in Nat /\ Len(cp) = Len(cs) + 1 /\ cp[1] = phi
      /\ \A i \in Nat : 1 <= i /\ i <= Len(cs) => cp[i + 1] = cs[i]
  BY UnderBinder
<1>3. \A i \in Nat : i < Len(gs) =>
        LET k == IF i < cutoff THEN i ELSE i + delta
        IN  k < Len(cs) /\ cs[k + 1] = gs[i + 1]
  BY DEF Moved
<1> HIDE DEF gs, cs, gp, cp
<1>4. ASSUME NEW i \in Nat, i < Len(gp)
      PROVE  LET k == IF i < cutoff + 1 THEN i ELSE i + delta
             IN  k < Len(cp) /\ cp[k + 1] = gp[i + 1]
  <2>1. CASE i = 0
    BY <1>1, <1>2, <2>1
  <2>2. CASE i > 0
    <3> DEFINE h == i - 1
               k == IF h < cutoff THEN h ELSE h + delta
    <3>1. h \in Nat /\ i = h + 1 /\ h < Len(gs)
      BY <1>1, <1>4, <2>2
    <3>2. k \in Nat /\ k < Len(cs) /\ cs[k + 1] = gs[h + 1]
      <4> HIDE DEF h
      <4> QED BY <1>3, <3>1
    <3>3. gp[i + 1] = gs[h + 1]
      <4> HIDE DEF h
      <4>1. h + 1 \in Nat /\ 1 <= h + 1 /\ h + 1 <= Len(gs)
        BY <1>1, <3>1
      <4> QED BY <1>1, <3>1, <4>1
    <3>4. (IF i < cutoff + 1 THEN i ELSE i + delta) = k + 1
      BY <3>1
    <3> HIDE DEF h, k
    <3>5. k + 1 \in Nat /\ 1 <= k + 1 /\ k + 1 <= Len(cs)
      BY <1>2, <3>2
    <3>6. cp[(k + 1) + 1] = cs[k + 1]
      BY <1>2, <3>5
    <3> QED BY <1>2, <3>2, <3>3, <3>4, <3>5, <3>6
  <2> QED BY <2>1, <2>2
<1> QED BY <1>4 DEF Moved, gp, cp

\* So does the second.
LEMMA WithoutUnderBinder ==
  ASSUME NEW g, NEW c, IsContext(g), IsContext(c), NEW psi, NEW phi, NEW depth \in Nat,
         Without(g, c, depth, phi)
  PROVE  Without(ConsA(g, psi), ConsA(c, psi), depth + 1, phi)
<1> DEFINE gs == g.additive
           cs == c.additive
           gp == ConsA(g, psi).additive
           cp == ConsA(c, psi).additive
<1>1. /\ Len(gs) \in Nat /\ Len(gp) = Len(gs) + 1 /\ gp[1] = psi
      /\ \A i \in Nat : 1 <= i /\ i <= Len(gs) => gp[i + 1] = gs[i]
  BY UnderBinder
<1>2. /\ Len(cs) \in Nat /\ Len(cp) = Len(cs) + 1 /\ cp[1] = psi
      /\ \A i \in Nat : 1 <= i /\ i <= Len(cs) => cp[i + 1] = cs[i]
  BY UnderBinder
<1>3. \A i \in Nat : i < Len(gs) =>
        /\ i = depth => gs[i + 1] = phi
        /\ i < depth => i < Len(cs) /\ cs[i + 1] = gs[i + 1]
        /\ i > depth => i - 1 < Len(cs) /\ cs[i] = gs[i + 1]
  BY DEF Without
<1> HIDE DEF gs, cs, gp, cp
<1>4. ASSUME NEW i \in Nat, i < Len(gp)
      PROVE  /\ i = depth + 1 => gp[i + 1] = phi
             /\ i < depth + 1 => i < Len(cp) /\ cp[i + 1] = gp[i + 1]
             /\ i > depth + 1 => i - 1 < Len(cp) /\ cp[i] = gp[i + 1]
  <2>1. CASE i = 0
    BY <1>1, <1>2, <2>1
  <2>2. CASE i > 0
    <3>1. PICK h \in Nat : i = h + 1 /\ h < Len(gs)
      <4>1. i - 1 \in Nat /\ i = (i - 1) + 1 /\ i - 1 < Len(gs)
        BY <1>1, <1>4, <2>2
      <4> QED BY <4>1
    <3>2. gp[i + 1] = gs[h + 1]
      <4>1. h + 1 \in Nat /\ 1 <= h + 1 /\ h + 1 <= Len(gs)
        BY <1>1, <3>1
      <4> QED BY <1>1, <3>1, <4>1
    <3>3. CASE h = depth
      BY <1>3, <3>1, <3>2, <3>3
    <3>4. CASE h < depth
      <4>1. h < Len(cs) /\ cs[h + 1] = gs[h + 1]
        BY <1>3, <3>1, <3>4
      <4>2. h + 1 \in Nat /\ 1 <= h + 1 /\ h + 1 <= Len(cs)
        BY <1>2, <4>1
      <4>3. cp[(h + 1) + 1] = cs[h + 1]
        BY <1>2, <4>2
      <4> QED BY <1>2, <3>1, <3>2, <3>4, <4>1, <4>2, <4>3
    <3>5. CASE h > depth
      <4>1. h - 1 < Len(cs) /\ cs[h] = gs[h + 1]
        BY <1>3, <3>1, <3>5
      <4>2. 1 <= h /\ h <= Len(cs)
        BY <1>2, <3>5, <4>1
      <4>3. cp[h + 1] = cs[h]
        BY <1>2, <4>2
      <4> QED BY <1>2, <3>1, <3>2, <3>5, <4>1, <4>2, <4>3
    <3> QED BY <3>3, <3>4, <3>5
  <2> QED BY <2>1, <2>2
<1> QED BY <1>4 DEF Without, gp, cp

\* The context of a value, seen from under one more binder.
LEMMA LiftedUnderBinder ==
  ASSUME NEW h, NEW c, IsContext(h), IsContext(c), NEW psi, NEW depth \in Nat,
         Moved(h, c, depth, 0)
  PROVE  Moved(h, ConsA(c, psi), depth + 1, 0)
<1> DEFINE hs == h.additive
           cs == c.additive
           cp == ConsA(c, psi).additive
<1>1. /\ Len(cs) \in Nat /\ Len(cp) = Len(cs) + 1
      /\ \A i \in Nat : 1 <= i /\ i <= Len(cs) => cp[i + 1] = cs[i]
  BY UnderBinder
<1>2. \A i \in Nat : i < Len(hs) => i + depth < Len(cs) /\ cs[i + depth + 1] = hs[i + 1]
  BY DEF Moved
<1> HIDE DEF hs, cs, cp
<1>3. ASSUME NEW i \in Nat, i < Len(hs)
      PROVE  i + (depth + 1) < Len(cp) /\ cp[i + (depth + 1) + 1] = hs[i + 1]
  <2> DEFINE k == i + depth + 1
  <2>1. i + depth < Len(cs) /\ cs[k] = hs[i + 1]
    BY <1>2, <1>3
  <2>2. k \in Nat /\ 1 <= k /\ k <= Len(cs) /\ k = i + (depth + 1)
    BY <1>1, <2>1
  <2> HIDE DEF k
  <2>3. cp[k + 1] = cs[k]
    BY <1>1, <2>2
  <2> QED BY <1>1, <2>1, <2>2, <2>3
<1>4. ASSUME NEW i \in Nat PROVE ~(i < 0)
  OBVIOUS
<1> QED BY <1>3, <1>4 DEF Moved, hs, cp

\* r has the other fields of t.
SameOthers(t, r) == r[1] = t[1] /\ \A i \in (2..Len(t)) \ Subterms(t) : r[i] = t[i]

\* The judged subterms of r have the types those of t have, where nothing is bound, and
\* under a binder.
HereSame(g, t, c, r) ==
  \A i \in Subterms(t) :
    Binds(t, i) = 0 /\ <<g, t[i]>> \in Judgments /\ <<c, r[i]>> \in Judgments =>
      SameHere(g, t, c, r, i)

UnderSame(g, t, c, r) ==
  \A i \in Subterms(t) : \A phi :
    Binds(t, i) = 1 =>
      (<<ConsA(g, phi), t[i]>> \in Judgments /\ <<ConsA(c, phi), r[i]>> \in Judgments =>
         SameUnder(g, t, c, r, phi, i))

\* A typed term, and one with the same constructor and other fields whose subterms have
\* the same types where they are typed.
LEMMA NodeTypes ==
  ASSUME NEW g, NEW t, NEW c, NEW r, <<g, t>> \in Judgments, <<c, r>> \in Judgments,
         t[1] \notin {"Var", "LetTensor"}, SameOthers(t, r), Infer(g, t) # NoProp,
         HereSame(g, t, c, r), UnderSame(g, t, c, r)
  PROVE  Infer(c, r) = Infer(g, t)
<1>0. r[1] = t[1] /\ \A i \in (2..Len(t)) \ Subterms(t) : r[i] = t[i]
  BY DEF SameOthers
<1>1. /\ t \in Universe("term") /\ Infer(g, t) = InferRule(g, t)
      /\ \A call \in InferCalls(g, t) : <<Added(g, call[1]), t[call[2]]>> \in Judgments
  BY Judged
<1>2. /\ r \in Universe("term") /\ Infer(c, r) = InferRule(c, r)
      /\ \A call \in InferCalls(c, r) : <<Added(c, call[1]), r[call[2]]>> \in Judgments
  BY Judged
<1>3. ASSUME NEW call \in InferCalls(g, t), call \in InferCalls(c, r)
      PROVE  SameType(g, t, c, r, call[1], call[2])
  <2> DEFINE new == call[1]
             i == call[2]
  <2>1. i \in Subterms(t)
    BY <1>1, CallsDescend
  <2>2. \/ new = Nothing /\ Binds(t, i) = 0
        \/ \E phi : new = <<"A", phi>> /\ Binds(t, i) = 1
    BY <1>1, CallsDescend
  <2>3. <<Added(g, new), t[i]>> \in Judgments /\ <<Added(c, new), r[i]>> \in Judgments
    BY <1>1, <1>2, <1>3
  <2> HIDE DEF new, i
  <2>4. CASE new = Nothing /\ Binds(t, i) = 0
    <3>1. Added(g, new) = g /\ Added(c, new) = c
      BY <2>4, AddedIs
    <3>2. SameHere(g, t, c, r, i)
      BY <2>1, <2>3, <2>4, <3>1 DEF HereSame
    <3>3. SameType(g, t, c, r, new, i)
      BY <3>1, <3>2 DEF SameType, SameHere
    <3> QED BY <3>3 DEF new, i
  <2>5. ASSUME NEW phi, new = <<"A", phi>>, Binds(t, i) = 1
        PROVE  SameType(g, t, c, r, call[1], call[2])
    <3>1. Added(g, new) = ConsA(g, phi) /\ Added(c, new) = ConsA(c, phi)
      BY <2>5, AddedIs
    <3>2. SameUnder(g, t, c, r, phi, i)
      BY <2>1, <2>3, <2>5, <3>1 DEF UnderSame
    <3>3. SameType(g, t, c, r, new, i)
      BY <3>1, <3>2 DEF SameType, SameHere, SameUnder
    <3> QED BY <3>3 DEF new, i
  <2> QED BY <2>2, <2>4, <2>5
<1>4. SameCalls(g, t, c, r)
  BY <1>3 DEF SameCalls
<1> QED BY <1>0, <1>1, <1>2, <1>4, SameTyping

\* A call of shift whose term is typed in g, and what it answers judged in c, where the
\* hypotheses moved as the variables do.
ShiftJudged(s, g, c) ==
  /\ "LetTensor" \notin Constructors(s[1])
  /\ <<g, s[1]>> \in Judgments /\ <<c, Shift(s[1], s[2], s[3])>> \in Judgments
  /\ Moved(g, c, s[2], s[3]) /\ Infer(g, s[1]) # NoProp

\* Shifting changes no type: the shifted term, among hypotheses that moved as its variables
\* did, has the type of the term.
LEMMA ShiftTypes ==
  \A s \in Shifts : \A g, c :
    ShiftJudged(s, g, c) => Infer(c, Shift(s[1], s[2], s[3])) = Infer(g, s[1])
<1> DEFINE Keeps(s) ==
      \A g, c : ShiftJudged(s, g, c) => Infer(c, Shift(s[1], s[2], s[3])) = Infer(g, s[1])
    Bad == {s \in Shifts : ~Keeps(s)}
<1>1. ASSUME NEW b \in Bad PROVE FALSE
  <2>1. PICK s \in Bad : \A i \in Subterms(s[1]) : \A k \in Bad : k[1] # s[1][i]
    <3>1. \A k \in Bad : k[1] \in Universe("term")
      BY ShiftedNode
    <3> HIDE DEF Bad
    <3> QED BY <1>1, <3>1, SmallestCall
  <2> DEFINE t == s[1]
             r == Shift(s[1], s[2], s[3])
             delta == s[2]
             cutoff == s[3]
  <2>2. PICK g, c :
          /\ "LetTensor" \notin Constructors(t)
          /\ <<g, t>> \in Judgments /\ <<c, r>> \in Judgments
          /\ Moved(g, c, delta, cutoff) /\ Infer(g, t) # NoProp
          /\ Infer(c, r) # Infer(g, t)
    BY <2>1 DEF ShiftJudged
  <2>3. s \in Shifts
    BY <2>1
  <2>4. /\ t \in Universe("term") /\ r \in Universe("term")
        /\ delta \in Nat /\ cutoff \in Nat
        /\ t[1] = "Var" => r = IF t[2] < cutoff THEN t ELSE <<"Var", t[2] + delta>>
        /\ r[1] = t[1]
        /\ \A i \in Subterms(t) : /\ <<t[i], delta, cutoff + Binds(t, i)>> \in Shifts
                                  /\ r[i] = Shift(t[i], delta, cutoff + Binds(t, i))
        /\ \A i \in (2..Len(t)) \ Subterms(t) : t[1] # "Var" => r[i] = t[i]
    BY <2>3, ShiftedNode
  <2>5. ASSUME NEW i \in Subterms(t) PROVE Keeps(<<t[i], delta, cutoff + Binds(t, i)>>)
    <3> DEFINE k == <<t[i], delta, cutoff + Binds(t, i)>>
    <3>1. k \in Shifts /\ k[1] = t[i]
      BY <2>4
    <3>2. k \notin Bad
      <4> HIDE DEF k, Bad
      <4> QED BY <2>1, <3>1
    <3> HIDE DEF k, Keeps
    <3> QED BY <3>1, <3>2 DEF k
  <2>6. /\ IsContext(g) /\ IsContext(c) /\ Infer(g, t) = InferRule(g, t) /\ Infer(c, r) = InferRule(c, r)
    <3> HIDE DEF t, r
    <3> QED BY <2>2, Judged
  <2>7. t[1] # "LetTensor" /\ \A i \in Subterms(t) : "LetTensor" \notin Constructors(t[i])
    <3> HIDE DEF t
    <3> QED BY <2>2, <2>4, ConstructorsOfNode
  <2>8. ASSUME NEW i \in Subterms(t), NEW g2, NEW c2,
               <<g2, t[i]>> \in Judgments, <<c2, r[i]>> \in Judgments,
               Moved(g2, c2, delta, cutoff + Binds(t, i))
        PROVE  SameHere(g2, t, c2, r, i)
    <3> DEFINE k == <<t[i], delta, cutoff + Binds(t, i)>>
    <3>1. k[1] = t[i] /\ k[2] = delta /\ k[3] = cutoff + Binds(t, i)
      OBVIOUS
    <3>2. r[i] = Shift(k[1], k[2], k[3]) /\ "LetTensor" \notin Constructors(k[1]) /\ Keeps(k)
      BY <2>4, <2>5, <2>7, <2>8
    <3> HIDE DEF k, t, r, delta, cutoff
    <3> QED BY <2>8, <3>1, <3>2 DEF SameHere, ShiftJudged
  <2> HIDE DEF Bad, Keeps, t, r, delta, cutoff
  <2>9. CASE t[1] = "Var"
    <3> DEFINE i == t[2]
               k == IF i < cutoff THEN i ELSE i + delta
    <3>1. /\ InferRule(g, t) = IF i < Len(g.additive) THEN g.additive[i + 1] ELSE NoProp
          /\ i \in Nat
      BY <2>4, <2>6, <2>9, VariableType
    <3>2. i < Len(g.additive)
      BY <2>2, <2>6, <3>1
    <3>3. k < Len(c.additive) /\ c.additive[k + 1] = g.additive[i + 1]
      BY <2>2, <3>1, <3>2 DEF Moved
    <3>4. r[1] = "Var" /\ r[2] = k
      BY <2>4, <2>9
    <3>5. InferRule(c, r) = IF r[2] < Len(c.additive) THEN c.additive[r[2] + 1] ELSE NoProp
      BY <2>4, <2>6, <3>4, VariableType
    <3> HIDE DEF i, k
    <3> QED BY <2>2, <2>6, <3>1, <3>2, <3>3, <3>4, <3>5
  <2>10. CASE t[1] # "Var"
    <3>1. HereSame(g, t, c, r)
      <4> SUFFICES ASSUME NEW i \in Subterms(t), Binds(t, i) = 0,
                          <<g, t[i]>> \in Judgments, <<c, r[i]>> \in Judgments
                   PROVE  SameHere(g, t, c, r, i)
        BY DEF HereSame
      <4>1. cutoff + Binds(t, i) = cutoff
        BY <2>4
      <4> QED BY <2>2, <2>8, <4>1
    <3>2. UnderSame(g, t, c, r)
      <4> SUFFICES ASSUME NEW i \in Subterms(t), NEW phi, Binds(t, i) = 1,
                          <<ConsA(g, phi), t[i]>> \in Judgments,
                          <<ConsA(c, phi), r[i]>> \in Judgments
                   PROVE  SameUnder(g, t, c, r, phi, i)
        BY DEF UnderSame
      <4>1. Moved(ConsA(g, phi), ConsA(c, phi), delta, cutoff + 1)
        BY <2>2, <2>4, <2>6, MovedUnderBinder
      <4>2. Moved(ConsA(g, phi), ConsA(c, phi), delta, cutoff + Binds(t, i))
        BY <4>1
      <4>3. SameHere(ConsA(g, phi), t, ConsA(c, phi), r, i)
        BY <2>8, <4>2
      <4> QED BY <4>3 DEF SameUnder
    <3>3. SameOthers(t, r)
      BY <2>4, <2>10 DEF SameOthers
    <3>4. Infer(c, r) = Infer(g, t)
      BY <2>2, <2>7, <2>10, <3>1, <3>2, <3>3, NodeTypes
    <3> QED BY <2>2, <3>4
  <2> QED BY <2>9, <2>10
<1> QED BY <1>1

\* A call of subst_at whose body is typed in g, its value in h, and what it answers judged
\* in c, where the hypothesis of the value's type is gone.
SubstJudged(s, g, c, h) ==
  /\ "LetTensor" \notin Constructors(s[1]) /\ "LetTensor" \notin Constructors(s[2])
  /\ <<g, s[1]>> \in Judgments /\ <<c, SubstAt(s[1], s[2], s[3])>> \in Judgments
  /\ <<h, s[2]>> \in Judgments /\ Infer(h, s[2]) # NoProp
  /\ Without(g, c, s[3], Infer(h, s[2])) /\ Moved(h, c, s[3], 0) /\ Infer(g, s[1]) # NoProp

\* Substituting a value for a hypothesis of its type changes no type.
LEMMA SubstTypes ==
  \A s \in Substitutions : \A g, c, h :
    SubstJudged(s, g, c, h) => Infer(c, SubstAt(s[1], s[2], s[3])) = Infer(g, s[1])
<1> DEFINE Keeps(s) ==
      \A g, c, h :
        SubstJudged(s, g, c, h) => Infer(c, SubstAt(s[1], s[2], s[3])) = Infer(g, s[1])
    Bad == {s \in Substitutions : ~Keeps(s)}
<1>1. ASSUME NEW b \in Bad PROVE FALSE
  <2>1. PICK s \in Bad : \A i \in Subterms(s[1]) : \A k \in Bad : k[1] # s[1][i]
    <3>1. \A k \in Bad : k[1] \in Universe("term")
      BY SubstitutedNode
    <3> HIDE DEF Bad
    <3> QED BY <1>1, <3>1, SmallestCall
  <2> DEFINE t == s[1]
             v == s[2]
             depth == s[3]
             r == SubstAt(s[1], s[2], s[3])
  <2>2. PICK g, c, h :
          /\ "LetTensor" \notin Constructors(t) /\ "LetTensor" \notin Constructors(v)
          /\ <<g, t>> \in Judgments /\ <<c, r>> \in Judgments
          /\ <<h, v>> \in Judgments /\ Infer(h, v) # NoProp
          /\ Without(g, c, depth, Infer(h, v)) /\ Moved(h, c, depth, 0) /\ Infer(g, t) # NoProp
          /\ Infer(c, r) # Infer(g, t)
    BY <2>1 DEF SubstJudged
  <2>3. s \in Substitutions
    BY <2>1
  <2>4. /\ t \in Universe("term") /\ r \in Universe("term") /\ depth \in Nat
        /\ t[1] = "Var" =>
             /\ t[2] = depth => <<v, depth, 0>> \in Shifts /\ r = Shift(v, depth, 0)
             /\ t[2] > depth => r = <<"Var", t[2] - 1>>
             /\ t[2] < depth => r = t
        /\ t[1] # "Var" => r[1] = t[1]
        /\ \A i \in Subterms(t) : /\ <<t[i], v, depth + Binds(t, i)>> \in Substitutions
                                  /\ r[i] = SubstAt(t[i], v, depth + Binds(t, i))
        /\ \A i \in (2..Len(t)) \ Subterms(t) : t[1] # "Var" => r[i] = t[i]
    BY <2>3, SubstitutedNode
  <2>5. ASSUME NEW i \in Subterms(t) PROVE Keeps(<<t[i], v, depth + Binds(t, i)>>)
    <3> DEFINE k == <<t[i], v, depth + Binds(t, i)>>
    <3>1. k \in Substitutions /\ k[1] = t[i]
      BY <2>4
    <3>2. k \notin Bad
      <4> HIDE DEF k, Bad
      <4> QED BY <2>1, <3>1
    <3> HIDE DEF k, Keeps
    <3> QED BY <3>1, <3>2 DEF k
  <2>6. /\ IsContext(g) /\ IsContext(c) /\ IsContext(h)
        /\ Infer(g, t) = InferRule(g, t) /\ Infer(c, r) = InferRule(c, r)
    <3> HIDE DEF t, r, v
    <3> QED BY <2>2, Judged
  <2>7. t[1] # "LetTensor" /\ \A i \in Subterms(t) : "LetTensor" \notin Constructors(t[i])
    <3> HIDE DEF t
    <3> QED BY <2>2, <2>4, ConstructorsOfNode
  <2>8. ASSUME NEW i \in Subterms(t), NEW g2, NEW c2,
               <<g2, t[i]>> \in Judgments, <<c2, r[i]>> \in Judgments,
               Without(g2, c2, depth + Binds(t, i), Infer(h, v)),
               Moved(h, c2, depth + Binds(t, i), 0)
        PROVE  SameHere(g2, t, c2, r, i)
    <3> DEFINE k == <<t[i], v, depth + Binds(t, i)>>
    <3>1. k[1] = t[i] /\ k[2] = v /\ k[3] = depth + Binds(t, i)
      OBVIOUS
    <3>2. r[i] = SubstAt(k[1], k[2], k[3]) /\ "LetTensor" \notin Constructors(k[1]) /\ Keeps(k)
      BY <2>4, <2>5, <2>7, <2>8
    <3> HIDE DEF k, t, r, v, depth
    <3> QED BY <2>2, <2>8, <3>1, <3>2 DEF SameHere, SubstJudged
  <2> HIDE DEF Bad, Keeps, t, r, v, depth
  <2>9. CASE t[1] = "Var"
    <3> DEFINE i == t[2]
    <3>1. /\ InferRule(g, t) = IF i < Len(g.additive) THEN g.additive[i + 1] ELSE NoProp
          /\ i \in Nat
      BY <2>4, <2>6, <2>9, VariableType
    <3>2. i < Len(g.additive) /\ Infer(g, t) = g.additive[i + 1]
      BY <2>2, <2>6, <3>1
    <3>3. CASE i = depth
      <4> DEFINE k == <<v, depth, 0>>
      <4>1. k \in Shifts /\ k[1] = v /\ k[2] = depth /\ k[3] = 0 /\ r = Shift(k[1], k[2], k[3])
        BY <2>4, <2>9, <3>3
      <4> HIDE DEF k
      <4>2. Infer(c, r) = Infer(h, v)
        BY <2>2, <4>1, ShiftTypes DEF ShiftJudged
      <4>3. g.additive[i + 1] = Infer(h, v)
        BY <2>2, <3>1, <3>2, <3>3 DEF Without
      <4> QED BY <2>2, <3>2, <4>2, <4>3
    <3>4. CASE i < depth
      <4>1. r = t
        BY <2>4, <2>9, <3>4
      <4>2. i < Len(c.additive) /\ c.additive[i + 1] = g.additive[i + 1]
        BY <2>2, <3>1, <3>2, <3>4 DEF Without
      <4>3. InferRule(c, r) = IF i < Len(c.additive) THEN c.additive[i + 1] ELSE NoProp
        BY <2>4, <2>6, <2>9, <4>1, VariableType
      <4> QED BY <2>2, <2>6, <3>2, <4>2, <4>3
    <3>5. CASE i > depth
      <4> DEFINE k == i - 1
      <4>1. r[1] = "Var" /\ r[2] = k
        BY <2>4, <2>9, <3>5
      <4>2. k < Len(c.additive) /\ c.additive[k + 1] = g.additive[i + 1]
        <5>1. i - 1 < Len(c.additive) /\ c.additive[i] = g.additive[i + 1]
          BY <2>2, <3>1, <3>2, <3>5 DEF Without
        <5>2. k + 1 = i
          BY <3>1
        <5> QED BY <5>1, <5>2
      <4> HIDE DEF k
      <4>3. InferRule(c, r) = IF k < Len(c.additive) THEN c.additive[k + 1] ELSE NoProp
        BY <2>4, <2>6, <4>1, VariableType
      <4> QED BY <2>2, <2>6, <3>2, <4>2, <4>3
    <3>6. i = depth \/ i < depth \/ i > depth
      BY <2>4, <3>1
    <3> QED BY <3>3, <3>4, <3>5, <3>6
  <2>10. CASE t[1] # "Var"
    <3>1. HereSame(g, t, c, r)
      <4> SUFFICES ASSUME NEW i \in Subterms(t), Binds(t, i) = 0,
                          <<g, t[i]>> \in Judgments, <<c, r[i]>> \in Judgments
                   PROVE  SameHere(g, t, c, r, i)
        BY DEF HereSame
      <4>1. depth + Binds(t, i) = depth
        BY <2>4
      <4> QED BY <2>2, <2>8, <4>1
    <3>2. UnderSame(g, t, c, r)
      <4> SUFFICES ASSUME NEW i \in Subterms(t), NEW phi, Binds(t, i) = 1,
                          <<ConsA(g, phi), t[i]>> \in Judgments,
                          <<ConsA(c, phi), r[i]>> \in Judgments
                   PROVE  SameUnder(g, t, c, r, phi, i)
        BY DEF UnderSame
      <4>1. Without(ConsA(g, phi), ConsA(c, phi), depth + 1, Infer(h, v))
        BY <2>2, <2>4, <2>6, WithoutUnderBinder
      <4>2. Moved(h, ConsA(c, phi), depth + 1, 0)
        BY <2>2, <2>4, <2>6, LiftedUnderBinder
      <4>3. /\ Without(ConsA(g, phi), ConsA(c, phi), depth + Binds(t, i), Infer(h, v))
            /\ Moved(h, ConsA(c, phi), depth + Binds(t, i), 0)
        BY <4>1, <4>2
      <4>4. SameHere(ConsA(g, phi), t, ConsA(c, phi), r, i)
        BY <2>8, <4>3
      <4> QED BY <4>4 DEF SameUnder
    <3>3. SameOthers(t, r)
      BY <2>4, <2>10 DEF SameOthers
    <3>4. Infer(c, r) = Infer(g, t)
      BY <2>2, <2>7, <2>10, <3>1, <3>2, <3>3, NodeTypes
    <3> QED BY <2>2, <3>4
  <2> QED BY <2>9, <2>10
<1> QED BY <1>1

\* Substituting a value for the innermost hypothesis.
LEMMA SubstKeepsType ==
  ASSUME NEW body, NEW v, <<body, v, 0>> \in Substitutions, NEW c, NEW phi,
         "LetTensor" \notin Constructors(body), "LetTensor" \notin Constructors(v),
         <<ConsA(c, phi), body>> \in Judgments, <<c, Subst(body, v)>> \in Judgments,
         <<c, v>> \in Judgments, Infer(c, v) = phi, phi # NoProp,
         Infer(ConsA(c, phi), body) # NoProp
  PROVE  Infer(c, Subst(body, v)) = Infer(ConsA(c, phi), body)
<1> DEFINE s == <<body, v, 0>>
           g == ConsA(c, phi)
<1>1. s \in Substitutions /\ s[1] = body /\ s[2] = v /\ s[3] = 0
  OBVIOUS
<1>2. IsContext(c)
  BY Judged
<1>3. /\ Len(c.additive) \in Nat /\ Len(g.additive) = Len(c.additive) + 1 /\ g.additive[1] = phi
      /\ \A i \in Nat : 1 <= i /\ i <= Len(c.additive) => g.additive[i + 1] = c.additive[i]
  BY <1>2, UnderBinder
<1> HIDE DEF s, g
<1>4. Without(g, c, 0, phi)
  <2> SUFFICES ASSUME NEW i \in Nat, i < Len(g.additive)
               PROVE  /\ i = 0 => g.additive[i + 1] = phi
                      /\ i < 0 => i < Len(c.additive) /\ c.additive[i + 1] = g.additive[i + 1]
                      /\ i > 0 => i - 1 < Len(c.additive) /\ c.additive[i] = g.additive[i + 1]
    BY DEF Without
  <2>1. CASE i = 0
    BY <1>3, <2>1
  <2>2. CASE i > 0
    <3>1. 1 <= i /\ i <= Len(c.additive)
      BY <1>3, <2>2
    <3> QED BY <1>3, <2>2, <3>1
  <2> QED BY <2>1, <2>2
<1>5. Moved(c, c, 0, 0)
  BY DEF Moved
<1> QED BY <1>1, <1>4, <1>5, SubstTypes DEF Subst, g, SubstJudged

\* What a binder's body is judged in.
LEMMA BodyJudged ==
  ASSUME NEW c, NEW t, <<c, t>> \in Judgments, NEW phi, NEW i,
         <<<<"A", phi>>, i>> \in InferCalls(c, t)
  PROVE  <<ConsA(c, phi), t[i]>> \in Judgments
<1> DEFINE call == <<<<"A", phi>>, i>>
<1>1. call[1] = <<"A", phi>> /\ call[2] = i /\ call \in InferCalls(c, t)
  OBVIOUS
<1> HIDE DEF call
<1>2. <<Added(c, call[1]), t[call[2]]>> \in Judgments
  BY <1>1, Judged
<1>3. Added(c, call[1]) = ConsA(c, phi)
  BY <1>1, AddedIs
<1> QED BY <1>1, <1>2, <1>3

\* The parts of a program are programs, typed by the rules.
LEMMA PartsRuled ==
  ASSUME NEW c \in Contexts, NEW t \in Programs, NEW i \in Subterms(t)
  PROVE  /\ t[i] \in Programs /\ t[i] \in Universe("term")
         /\ <<c, t[i]>> \in Judgments /\ Infer(c, t[i]) = InferRule(c, t[i])
<1>1. t[i] \in Programs
  BY ProgramAssumption
<1>2. t[i] \in Universe("term")
  BY <1>1, ProgramAssumption
<1> QED BY <1>1, <1>2, RuledTypes

\* A congruence rule keeps the type of a term when the step below keeps the type there.
LEMMA CongruenceTypes ==
  ASSUME NEW c \in Contexts, NEW t \in Programs, NEW i \in Subterms(t), NEW s,
         NEW r \in Programs, r = InPlace(t, i, s), Binds(t, i) = 0,
         t[1] \notin {"Var", "LetTensor"}, Infer(c, t) # NoProp,
         Infer(c, t[i]) # NoProp => Infer(c, s) = Infer(c, t[i])
  PROVE  Infer(c, r) = Infer(c, t)
<1>1. t \in Universe("term") /\ r \in Universe("term")
  BY ProgramAssumption
<1>2. <<c, t>> \in Judgments /\ <<c, r>> \in Judgments
  BY RuledTypes
<1>3. r[1] = t[1] /\ r[i] = s /\ \A j \in Subterms(t) \ {i} : r[j] = t[j]
  BY <1>1, ReplacedNode
<1>4. SameOthers(t, r)
  <2>1. DOMAIN t = 1..Len(t)
    BY <1>1, TermLength
  <2>2. ASSUME NEW j \in (2..Len(t)) \ Subterms(t) PROVE r[j] = t[j]
    <3>1. j \in 1..Len(t) /\ j # i
      OBVIOUS
    <3> QED BY <2>1, <3>1 DEF InPlace
  <2> QED BY <1>3, <2>2 DEF SameOthers
<1>5. HereSame(c, t, c, r)
  <2> SUFFICES ASSUME NEW j \in Subterms(t) PROVE SameHere(c, t, c, r, j)
    BY DEF HereSame
  <2>1. CASE j = i
    BY <1>3, <2>1 DEF SameHere
  <2>2. CASE j # i
    BY <1>3, <2>2 DEF SameHere
  <2> QED BY <2>1, <2>2
<1>6. UnderSame(c, t, c, r)
  <2> SUFFICES ASSUME NEW j \in Subterms(t), NEW phi, Binds(t, j) = 1
               PROVE  SameUnder(c, t, c, r, phi, j)
    BY DEF UnderSame
  <2>1. r[j] = t[j]
    BY <1>3
  <2> QED BY <2>1 DEF SameUnder, SameHere
<1> QED BY <1>2, <1>4, <1>5, <1>6, NodeTypes

\* A term without let-tensor has parts without it.
Tame(t) == "LetTensor" \notin Constructors(t)

\* A head rule that substitutes the argument of m for the variable a branch of t, or m
\* itself, binds.
LEMMA BranchTypes ==
  ASSUME NEW c, NEW u, NEW phi, NEW i, <<c, u>> \in Judgments,
         <<<<"A", phi>>, i>> \in InferCalls(c, u),
         NEW v, <<c, v>> \in Judgments, Infer(c, v) = phi, phi # NoProp,
         Tame(u[i]), Tame(v), <<u[i], v, 0>> \in Substitutions,
         <<c, Subst(u[i], v)>> \in Judgments, Infer(ConsA(c, phi), u[i]) # NoProp
  PROVE  Infer(c, Subst(u[i], v)) = Infer(ConsA(c, phi), u[i])
<1>1. <<ConsA(c, phi), u[i]>> \in Judgments
  BY BodyJudged
<1> QED BY <1>1, SubstKeepsType DEF Tame

\* Beta reduction keeps the type.
LEMMA ApplicationTypes ==
  ASSUME NEW c \in Contexts, NEW t \in Programs, Tame(t), t[1] = "App", t[2][1] = "Lam",
         Infer(c, t) # NoProp, Contract(t) \in Programs
  PROVE  Infer(c, Contract(t)) = Infer(c, t)
<1> DEFINE m == t[2]
           x == t[3]
           phi == m[2]
<1>1. t \in Universe("term") /\ Substitutes(t) \subseteq Substitutions
  BY ProgramAssumption
<1>2. 2 \in Subterms(t) /\ 3 \in Subterms(t)
  BY <1>1, SubtermsAre
<1>3. /\ m \in Universe("term") /\ <<c, m>> \in Judgments /\ Infer(c, m) = InferRule(c, m)
      /\ <<c, x>> \in Judgments
  BY <1>2, PartsRuled
<1>4. 3 \in Subterms(m)
  BY <1>3, SubtermsAre
<1>5. Tame(m) /\ Tame(x) /\ Tame(m[3])
  <2>1. Tame(m) /\ Tame(x)
    BY <1>1, <1>2, ConstructorsOfNode DEF Tame
  <2> HIDE DEF m, x
  <2> QED BY <1>3, <1>4, <2>1, ConstructorsOfNode DEF Tame
<1>6. Contract(t) = Subst(m[3], x) /\ <<m[3], x, 0>> \in Substitutions
  BY <1>1 DEF Contract, Substitutes, Is
<1>7. <<c, Subst(m[3], x)>> \in Judgments
  BY <1>6, RuledTypes
<1>8. Infer(c, t) = InferLogical(c, t)
  BY RuledTypes DEF InferRule, Logical, Modal, Structural, Binding, Is
<1>9. /\ Is(Infer(c, m), "Imp") /\ Infer(c, x) # NoProp
      /\ Infer(c, m)[2] = Infer(c, x) /\ Infer(c, t) = Infer(c, m)[3]
  BY <1>8 DEF InferLogical, Guarded, Is
<1>10. InferRule(c, m) = Guarded(Infer(ConsA(c, phi), m[3]) # NoProp,
                                 <<"Imp", phi, Infer(ConsA(c, phi), m[3])>>)
  BY DEF InferRule, InferLogical, Logical, Modal, Structural, Binding, Is
<1>11. <<<<"A", phi>>, 3>> \in InferCalls(c, m)
  BY DEF InferCalls, Is
<1> HIDE DEF m, x, phi
<1>12. /\ Infer(ConsA(c, phi), m[3]) # NoProp /\ Infer(c, x) = phi /\ phi # NoProp
       /\ Infer(c, t) = Infer(ConsA(c, phi), m[3])
  BY <1>3, <1>9, <1>10 DEF Guarded, Is, NoProp
<1> QED BY <1>3, <1>5, <1>6, <1>7, <1>11, <1>12, BranchTypes

\* So does taking a branch.
LEMMA CaseTypes ==
  ASSUME NEW c \in Contexts, NEW t \in Programs, Tame(t), t[1] = "Case",
         t[2][1] \in {"Inl", "Inr"}, Infer(c, t) # NoProp, Contract(t) \in Programs
  PROVE  Infer(c, Contract(t)) = Infer(c, t)
<1> DEFINE m == t[2]
           v == m[3]
           or == Infer(c, m)
<1>1. t \in Universe("term") /\ <<c, t>> \in Judgments /\ Substitutes(t) \subseteq Substitutions
  BY ProgramAssumption, RuledTypes
<1>2. 2 \in Subterms(t) /\ 3 \in Subterms(t) /\ 4 \in Subterms(t)
  BY <1>1, SubtermsAre
<1>3. m \in Programs /\ m \in Universe("term") /\ or = InferRule(c, m)
  BY <1>2, PartsRuled
<1>4. 3 \in Subterms(m)
  BY <1>3, SubtermsAre
<1>5. <<c, v>> \in Judgments
  <2> HIDE DEF m
  <2> QED BY <1>3, <1>4, PartsRuled
<1>6. Tame(t[3]) /\ Tame(t[4]) /\ Tame(v)
  <2>1. Tame(m) /\ Tame(t[3]) /\ Tame(t[4])
    BY <1>1, <1>2, ConstructorsOfNode DEF Tame
  <2> HIDE DEF m
  <2> QED BY <1>3, <1>4, <2>1, ConstructorsOfNode DEF Tame
<1>7. Infer(c, t) = InferStructural(c, t)
  BY RuledTypes DEF InferRule, Logical, Modal, Structural, Binding, Is
<1>8. /\ or[1] = "Or"
      /\ Infer(c, t) = Infer(ConsA(c, or[2]), t[3])
      /\ Infer(c, t) = Infer(ConsA(c, or[3]), t[4])
  BY <1>7 DEF InferStructural, Guarded, Is
<1>9. InferRule(c, m) = InferStructural(c, m)
  BY DEF InferRule, Logical, Modal, Structural, Binding, Is
<1>10. <<<<"A", or[2]>>, 3>> \in InferCalls(c, t) /\ <<<<"A", or[3]>>, 4>> \in InferCalls(c, t)
  BY <1>8 DEF InferCalls, Is
<1>11. CASE m[1] = "Inl"
  <2>1. Contract(t) = Subst(t[3], v) /\ <<t[3], v, 0>> \in Substitutions
    BY <1>1, <1>11 DEF Contract, Substitutes, Is
  <2>2. InferStructural(c, m) = Guarded(Infer(c, v) # NoProp, <<"Or", Infer(c, v), m[2]>>)
    BY <1>11 DEF InferStructural, Is
  <2>3. <<c, Subst(t[3], v)>> \in Judgments
    BY <2>1, RuledTypes
  <2> HIDE DEF m, v, or
  <2>4. Infer(c, v) = or[2] /\ or[2] # NoProp
    BY <1>3, <1>8, <1>9, <2>2 DEF Guarded, NoProp
  <2>5. Infer(ConsA(c, or[2]), t[3]) # NoProp
    BY <1>8
  <2>6. Infer(c, Subst(t[3], v)) = Infer(ConsA(c, or[2]), t[3])
    BY <1>1, <1>5, <1>6, <1>10, <2>1, <2>3, <2>4, <2>5, BranchTypes
  <2> QED BY <1>8, <2>1, <2>6
<1>12. CASE m[1] = "Inr"
  <2>1. Contract(t) = Subst(t[4], v) /\ <<t[4], v, 0>> \in Substitutions
    BY <1>1, <1>12 DEF Contract, Substitutes, Is
  <2>2. InferStructural(c, m) = Guarded(Infer(c, v) # NoProp, <<"Or", m[2], Infer(c, v)>>)
    BY <1>12 DEF InferStructural, Is
  <2>3. <<c, Subst(t[4], v)>> \in Judgments
    BY <2>1, RuledTypes
  <2> HIDE DEF m, v, or
  <2>4. Infer(c, v) = or[3] /\ or[3] # NoProp
    BY <1>3, <1>8, <1>9, <2>2 DEF Guarded, NoProp
  <2>5. Infer(ConsA(c, or[3]), t[4]) # NoProp
    BY <1>8
  <2>6. Infer(c, Subst(t[4], v)) = Infer(ConsA(c, or[3]), t[4])
    BY <1>1, <1>5, <1>6, <1>10, <2>1, <2>3, <2>4, <2>5, BranchTypes
  <2> QED BY <1>8, <2>1, <2>6
<1> QED BY <1>11, <1>12

\* Opening an affirmation signed by the principal that eliminates it.
LEMMA LetSaysTypes ==
  ASSUME NEW c \in Contexts, NEW t \in Programs, Tame(t), t[1] = "LetSays",
         t[3][1] = "Sign", Infer(c, t) # NoProp, OpenSays(t) \in Programs
  PROVE  Infer(c, OpenSays(t)) = Infer(c, t)
<1> DEFINE m == t[3]
           v == m[3]
           says == Infer(c, m)
<1>1. t \in Universe("term") /\ <<c, t>> \in Judgments /\ Substitutes(t) \subseteq Substitutions
  BY ProgramAssumption, RuledTypes
<1>2. 3 \in Subterms(t) /\ 4 \in Subterms(t)
  BY <1>1, SubtermsAre
<1>3. m \in Programs /\ m \in Universe("term") /\ says = InferRule(c, m)
  BY <1>2, PartsRuled
<1>4. 3 \in Subterms(m)
  BY <1>3, SubtermsAre
<1>5. <<c, v>> \in Judgments
  <2> HIDE DEF m
  <2> QED BY <1>3, <1>4, PartsRuled
<1>6. Tame(t[4]) /\ Tame(v)
  <2>1. Tame(m) /\ Tame(t[4])
    BY <1>1, <1>2, ConstructorsOfNode DEF Tame
  <2> HIDE DEF m
  <2> QED BY <1>3, <1>4, <2>1, ConstructorsOfNode DEF Tame
<1>7. Infer(c, t) = SaysBody(c, t[2], says, t[4])
  BY RuledTypes DEF InferRule, InferBinding, Logical, Modal, Structural, Binding, Is
<1>8. says[1] = "Says" /\ says[2] = t[2] /\ Infer(c, t) = Infer(ConsA(c, says[3]), t[4])
  <2> HIDE DEF says
  <2> QED BY <1>7 DEF SaysBody, Is
<1>9. InferRule(c, m) = Guarded(Infer(c, v) # NoProp, <<"Says", m[2], Infer(c, v)>>)
  BY DEF InferRule, InferLogical, Logical, Modal, Structural, Binding, Is
<1>10. <<<<"A", says[3]>>, 4>> \in InferCalls(c, t)
  BY <1>8 DEF InferCalls, Is
<1>11. <<t[4], v, 0>> \in Substitutions
  BY <1>1 DEF Substitutes, Is
<1>12. m[2] = t[2] => OpenSays(t) = Subst(t[4], v)
  BY DEF OpenSays, Is
<1> HIDE DEF m, v, says
<1>13. Infer(c, v) = says[3] /\ says[3] # NoProp /\ m[2] = t[2]
  BY <1>3, <1>8, <1>9 DEF Guarded, NoProp
<1>14. <<c, Subst(t[4], v)>> \in Judgments
  BY <1>12, <1>13, RuledTypes
<1> QED BY <1>1, <1>5, <1>6, <1>8, <1>10, <1>11, <1>12, <1>13, <1>14, BranchTypes

\* The type a delegation between two signatures has.
LEMMA DelegateTypes ==
  ASSUME NEW c \in Contexts, NEW t \in Programs, t[1] = "Delegate", t[2][1] = "Sign",
         t[3][1] = "Sign", Infer(c, t) # NoProp, DelegateStep(t) \in Programs
  PROVE  Infer(c, DelegateStep(t)) = Infer(c, t)
<1> DEFINE a == t[2]
           b == t[3]
           r == DelegateStep(t)
<1>1. t \in Universe("term")
  BY ProgramAssumption
<1>2. 2 \in Subterms(t) /\ 3 \in Subterms(t)
  BY <1>1, SubtermsAre
<1>3. Infer(c, a) = InferRule(c, a) /\ Infer(c, b) = InferRule(c, b)
  BY <1>2, PartsRuled
<1>4. r = <<"Sign", <<"Acting", a[2], b[2]>>, b[3], b[4]>>
  BY DEF DelegateStep, Is
<1>5. Infer(c, t) = DelegateType(Infer(c, a), Infer(c, b))
  BY RuledTypes DEF InferRule, InferLogical, Logical, Modal, Structural, Binding, Is
<1>6. /\ InferRule(c, a) = Guarded(Infer(c, a[3]) # NoProp, <<"Says", a[2], Infer(c, a[3])>>)
      /\ InferRule(c, b) = Guarded(Infer(c, b[3]) # NoProp, <<"Says", b[2], Infer(c, b[3])>>)
  BY DEF InferRule, InferLogical, Logical, Modal, Structural, Binding, Is
<1> HIDE DEF a, b, r
<1>7. r \in Programs /\ r[1] = "Sign" /\ r[2] = <<"Acting", a[2], b[2]>> /\ r[3] = b[3]
  BY <1>4 DEF r
<1>8. Infer(c, r) = Guarded(Infer(c, b[3]) # NoProp, <<"Says", <<"Acting", a[2], b[2]>>, Infer(c, b[3])>>)
  <2>1. Infer(c, r) = InferRule(c, r)
    BY <1>7, RuledTypes
  <2>2. InferRule(c, r) = Guarded(Infer(c, r[3]) # NoProp, <<"Says", r[2], Infer(c, r[3])>>)
    BY <1>7 DEF InferRule, InferLogical, Logical, Modal, Structural, Binding, Is
  <2> QED BY <1>7, <2>1, <2>2
<1>9. /\ Infer(c, a)[2] = a[2] /\ Infer(c, b)[1] = "Says" /\ Infer(c, a)[1] = "Says"
      /\ Infer(c, t) = <<"Says", <<"Acting", Infer(c, a)[2], Infer(c, b)[2]>>, Infer(c, b)[3]>>
  BY <1>3, <1>5, <1>6 DEF DelegateType, Is, Guarded, NoProp
<1>10. Infer(c, b) = <<"Says", b[2], Infer(c, b[3])>> /\ Infer(c, b[3]) # NoProp
  BY <1>3, <1>6, <1>9 DEF Guarded, NoProp
<1> QED BY <1>8, <1>9, <1>10 DEF Guarded, r

\* A head rule that answers a part of the principal argument keeps the type.
LEMMA ProjectionTypes ==
  ASSUME NEW c \in Contexts, NEW t \in Programs,
         t[1] \in {"Fst", "Snd", "SfExtract", "Discharge"},
         t[2][1] \in Awaits[t[1]], Infer(c, t) # NoProp
  PROVE  Infer(c, Contract(t)) = Infer(c, t)
<1> DEFINE m == t[2]
           mt == Infer(c, m)
<1> USE DEF Is
<1>1. t \in Universe("term")
  BY ProgramAssumption
<1>2. 2 \in Subterms(t)
  BY <1>1, SubtermsAre
<1>3. mt = InferRule(c, m)
  BY <1>2, PartsRuled
<1>4. CASE t[1] \in {"Fst", "Snd"}
  <2>1. m[1] = "Pair" /\ Contract(t) = IF t[1] = "Fst" THEN m[2] ELSE m[3]
    BY <1>4 DEF Contract, Awaits
  <2>2. Infer(c, t) = InferStructural(c, t)
    BY <1>4, RuledTypes DEF InferRule, Logical, Modal, Structural, Binding
  <2>3. mt[1] = "And" /\ Infer(c, t) = IF t[1] = "Fst" THEN mt[2] ELSE mt[3]
    BY <1>4, <2>2 DEF InferStructural, Guarded
  <2>4. InferRule(c, m) = Guarded(Infer(c, m[2]) # NoProp /\ Infer(c, m[3]) # NoProp,
                                  <<"And", Infer(c, m[2]), Infer(c, m[3])>>)
    BY <2>1 DEF InferRule, InferStructural, Logical, Modal, Structural, Binding
  <2> HIDE DEF m, mt
  <2>5. mt[2] = Infer(c, m[2]) /\ mt[3] = Infer(c, m[3])
    BY <1>3, <2>3, <2>4 DEF Guarded, NoProp
  <2> QED BY <2>1, <2>3, <2>5
<1>5. CASE t[1] = "SfExtract"
  <2>1. m[1] = "Sign" /\ Contract(t) = m[3]
    BY <1>5 DEF Contract, Awaits
  <2>2. Infer(c, t) = InferBinding(c, t)
    BY <1>5, RuledTypes DEF InferRule, Logical, Modal, Structural, Binding
  <2>3. mt[1] = "Says" /\ Infer(c, t) = mt[3]
    BY <1>5, <2>2 DEF InferBinding, Guarded
  <2>4. InferRule(c, m) = Guarded(Infer(c, m[3]) # NoProp, <<"Says", m[2], Infer(c, m[3])>>)
    BY <2>1 DEF InferRule, InferLogical, Logical, Modal, Structural, Binding
  <2> HIDE DEF m, mt
  <2>5. mt[3] = Infer(c, m[3])
    BY <1>3, <2>3, <2>4 DEF Guarded, NoProp
  <2> QED BY <2>1, <2>3, <2>5
<1>6. CASE t[1] = "Discharge"
  <2>1. m[1] = "Boxed" /\ Contract(t) = m[3]
    BY <1>6 DEF Contract, Awaits
  <2>2. Infer(c, t) = InferModal(c, t)
    BY <1>6, RuledTypes DEF InferRule, Logical, Modal, Structural, Binding
  <2>3. mt[1] = "Boxed" /\ Infer(c, t) = mt[3]
    BY <1>6, <2>2 DEF InferModal, Guarded
  <2>4. InferRule(c, m) = Guarded(Infer(c, m[3]) # NoProp, <<"Boxed", m[2], Infer(c, m[3])>>)
    BY <2>1 DEF InferRule, InferModal, Logical, Modal, Structural, Binding
  <2> HIDE DEF m, mt
  <2>5. mt[3] = Infer(c, m[3])
    BY <1>3, <2>3, <2>4 DEF Guarded, NoProp
  <2> QED BY <2>1, <2>3, <2>5
<1> QED BY <1>4, <1>5, <1>6

\* Running a command labels the state its transition leads to with the command's label.
LEMMA RunTypes ==
  ASSUME NEW c \in Contexts, NEW t \in Programs, t[1] = "RunCmd", t[2][1] = "Command",
         Infer(c, t) # NoProp, Contract(t) \in Programs
  PROVE  Infer(c, Contract(t)) = Infer(c, t)
<1> DEFINE m == t[2]
           x == t[3]
           f == m[2]
           l == m[4]
           mt == Infer(c, m)
           u == <<"App", f, x>>
           r == <<"LiftLabel", l, u>>
<1> USE DEF Is
<1>1. t \in Universe("term")
  BY ProgramAssumption
<1>2. 2 \in Subterms(t)
  BY <1>1, SubtermsAre
<1>3. m \in Programs /\ mt = InferRule(c, m)
  BY <1>2, PartsRuled
<1>4. Contract(t) = r
  BY DEF Contract
<1>5. Infer(c, t) = InferBinding(c, t)
  BY RuledTypes DEF InferRule, Logical, Modal, Structural, Binding
<1>6. /\ mt[1] = "Replicated" /\ mt[2][1] = "Imp" /\ mt[2][2] = mt[2][3]
      /\ Infer(c, x) # NoProp /\ Infer(c, x) = mt[2][2]
      /\ Infer(c, t) = <<"At", mt[2][2], mt[3]>>
  <2> HIDE DEF mt
  <2>1. InferBinding(c, t) = Guarded(/\ mt[1] = "Replicated" /\ mt[2][1] = "Imp" /\ mt[2][2] = mt[2][3]
                                     /\ Infer(c, x) # NoProp /\ Infer(c, x) = mt[2][2],
                                     <<"At", mt[2][2], mt[3]>>)
    BY DEF InferBinding, mt
  <2> QED BY <1>5, <2>1 DEF Guarded
<1>7. InferRule(c, m) = Guarded(/\ Infer(c, m[3])[1] = "Says" /\ Infer(c, f)[1] = "Imp"
                                /\ Infer(c, f)[2] = Infer(c, f)[3],
                                <<"Replicated", Infer(c, f), l>>)
  BY DEF InferRule, InferBinding, Logical, Modal, Structural, Binding
<1> HIDE DEF m, mt, x, f, l
<1>8. mt[2] = Infer(c, f) /\ mt[3] = l
  BY <1>3, <1>6, <1>7 DEF Guarded, NoProp
<1>9. r[1] = "LiftLabel" /\ r[2] = l /\ r[3] = u /\ u[1] = "App" /\ u[2] = f /\ u[3] = x
  OBVIOUS
<1>10. r \in Programs
  BY <1>4
<1> HIDE DEF r, u
<1>11. r \in Universe("term") /\ Infer(c, r) = InferRule(c, r)
  BY <1>10, ProgramAssumption, RuledTypes
<1>12. 3 \in Subterms(r)
  BY <1>9, <1>11, SubtermsAre
<1>13. Infer(c, u) = InferRule(c, u)
  BY <1>9, <1>10, <1>12, PartsRuled
<1>14. InferRule(c, u) = Guarded(Infer(c, f)[1] = "Imp" /\ Infer(c, x) # NoProp /\ Infer(c, f)[2] = Infer(c, x),
                                 Infer(c, f)[3])
  BY <1>9 DEF InferRule, InferLogical, Logical, Modal, Structural, Binding
<1>15. InferRule(c, r) = Guarded(Infer(c, u) # NoProp, <<"At", Infer(c, u), l>>)
  BY <1>9 DEF InferRule, InferModal, Logical, Modal, Structural, Binding
<1>16. Infer(c, u) = mt[2][2]
  BY <1>6, <1>8, <1>13, <1>14 DEF Guarded
<1>17. Infer(c, r) = <<"At", mt[2][2], mt[3]>>
  BY <1>6, <1>8, <1>11, <1>15, <1>16 DEF Guarded
<1> QED BY <1>4, <1>6, <1>17

\* The head rules of the fragment keep the type.
LEMMA ContractTypes ==
  ASSUME NEW c \in Contexts, NEW t \in Programs, Tame(t), t[1] \in DOMAIN Awaits \ {"LetTensor"},
         t[2][1] \in Awaits[t[1]], Infer(c, t) # NoProp, Contract(t) \in Programs
  PROVE  Infer(c, Contract(t)) = Infer(c, t)
<1>1. CASE t[1] = "App"
  <2>1. t[2][1] = "Lam"
    BY <1>1 DEF Awaits
  <2> QED BY <1>1, <2>1, ApplicationTypes
<1>2. CASE t[1] = "Case"
  <2>1. t[2][1] \in {"Inl", "Inr"}
    BY <1>2 DEF Awaits
  <2> QED BY <1>2, <2>1, CaseTypes
<1>3. CASE t[1] \in {"Fst", "Snd", "SfExtract", "Discharge"}
  BY <1>3, ProjectionTypes
<1>4. CASE t[1] = "RunCmd"
  <2>1. t[2][1] = "Command"
    BY <1>4 DEF Awaits
  <2> QED BY <1>4, <2>1, RunTypes
<1> QED BY <1>1, <1>2, <1>3, <1>4 DEF Awaits

\* The constructors whose elimination does not keep the type.
Outside == {"SaysBind", "LetTensor"}

\* A step of a program of the fragment keeps its type.
LEMMA StepKeepsType ==
  ASSUME NEW c \in Contexts
  PROVE  \A t \in Programs :
           Constructors(t) \cap Outside = {} /\ Step(t) # NoTerm /\ Infer(c, t) # NoProp =>
             Infer(c, Step(t)) = Infer(c, t)
<1> DEFINE Bad == {t \in Programs : /\ Constructors(t) \cap Outside = {} /\ Step(t) # NoTerm
                                    /\ Infer(c, t) # NoProp /\ Infer(c, Step(t)) # Infer(c, t)}
<1>1. ASSUME NEW b \in Bad PROVE FALSE
  <2>1. PICK t \in Universe("term") : t \in Bad /\ \A i \in Subterms(t) : t[i] \notin Bad
    <3>1. b \in Universe("term")
      BY ProgramAssumption
    <3> HIDE DEF Bad
    <3> QED BY <1>1, <3>1, SmallestTerm
  <2>2. /\ t \in Programs /\ Constructors(t) \cap Outside = {} /\ Step(t) # NoTerm
        /\ Infer(c, t) # NoProp /\ Infer(c, Step(t)) # Infer(c, t)
    BY <2>1
  <2>3. /\ Step(t) = StepRule(t) /\ Step(t) \in Programs
        /\ \A i \in Subterms(t) : t[i] \in Programs
    BY <2>2, ProgramAssumption
  <2>4. Tame(t) /\ t[1] \notin Outside
    <3>1. t[1] \in Constructors(t)
      BY ConstructorsOfNode
    <3> QED BY <2>2, <3>1 DEF Tame, Outside
  <2>5. ASSUME NEW i \in Subterms(t), Step(t[i]) # NoTerm, Infer(c, t[i]) # NoProp
        PROVE  Infer(c, Step(t[i])) = Infer(c, t[i])
    <3>1. \A k : k \in Constructors(t[i]) => k \in Constructors(t)
      BY ConstructorsOfNode
    <3>2. Constructors(t[i]) \cap Outside = {}
      BY <2>2, <3>1
    <3> QED BY <2>1, <2>3, <2>5, <3>2
  <2> HIDE DEF Bad
  <2>6. ASSUME NEW i \in Subterms(t), Binds(t, i) = 0, t[1] # "Var", Step(t) = Congruence(t, i)
        PROVE  FALSE
    <3>1. Step(t[i]) # NoTerm /\ Step(t) = InPlace(t, i, Step(t[i]))
      BY <2>2, <2>6 DEF Congruence, InPlace
    <3>2. t[1] \notin {"Var", "LetTensor"}
      BY <2>4, <2>6 DEF Outside
    <3>3. Infer(c, Step(t)) = Infer(c, t)
      <4> DEFINE r == Step(t)
                 s == Step(t[i])
      <4>1. r \in Programs /\ r = InPlace(t, i, s) /\ (Infer(c, t[i]) # NoProp => Infer(c, s) = Infer(c, t[i]))
        BY <2>3, <2>5, <3>1
      <4> HIDE DEF r, s
      <4>2. Infer(c, r) = Infer(c, t)
        BY <2>2, <2>6, <3>2, <4>1, CongruenceTypes
      <4> QED BY <4>2 DEF r
    <3> QED BY <2>2, <3>3
  <2>7. CASE t[1] \in DOMAIN Awaits
    <3>1. t[1] \in {"App", "Fst", "Snd", "Case", "SfExtract", "Discharge", "RunCmd"}
      BY <2>4, <2>7 DEF Awaits, Outside
    <3>2. 2 \in Subterms(t) /\ Binds(t, 2) = 0
      BY <3>1, SubtermsAre, BindsTable
    <3>3. CASE t[2][1] \in Awaits[t[1]]
      <4>1. Step(t) = Contract(t)
        BY <2>3, <2>7, <3>3 DEF StepRule, Awaits, Is
      <4>2. t[1] \in DOMAIN Awaits \ {"LetTensor"}
        BY <2>7, <3>1
      <4> QED BY <2>2, <2>3, <2>4, <3>3, <4>1, <4>2, ContractTypes
    <3>4. CASE t[2][1] \notin Awaits[t[1]]
      <4>1. Step(t) = Congruence(t, 2)
        BY <2>3, <2>7, <3>4 DEF StepRule, Awaits, Is
      <4> QED BY <2>6, <3>1, <3>2, <4>1
    <3> QED BY <3>3, <3>4
  <2>8. CASE t[1] = "LetSays"
    <3>1. 3 \in Subterms(t) /\ Binds(t, 3) = 0
      BY <2>8, SubtermsAre, BindsTable
    <3>2. Step(t) = OpenSays(t)
      BY <2>3, <2>8 DEF StepRule, Awaits, Is
    <3>3. CASE t[3][1] = "Sign"
      BY <2>2, <2>3, <2>4, <2>8, <3>2, <3>3, LetSaysTypes
    <3>4. CASE t[3][1] # "Sign"
      <4>1. Step(t) = Congruence(t, 3)
        BY <3>2, <3>4 DEF OpenSays, Is
      <4> QED BY <2>6, <2>8, <3>1, <4>1
    <3> QED BY <3>3, <3>4
  <2>9. CASE t[1] = "Delegate"
    <3>1. 2 \in Subterms(t) /\ 3 \in Subterms(t) /\ Binds(t, 2) = 0 /\ Binds(t, 3) = 0
      BY <2>9, SubtermsAre, BindsTable
    <3>2. Step(t) = DelegateStep(t)
      BY <2>3, <2>9 DEF StepRule, Awaits, Is
    <3>3. CASE t[2][1] = "Sign" /\ t[3][1] = "Sign"
      BY <2>2, <2>3, <2>9, <3>2, <3>3, DelegateTypes
    <3>4. CASE t[2][1] = "Sign" /\ t[3][1] # "Sign"
      <4>1. Step(t) = Congruence(t, 3)
        BY <3>2, <3>4 DEF DelegateStep, Is
      <4> QED BY <2>6, <2>9, <3>1, <4>1
    <3>5. CASE t[2][1] # "Sign"
      <4>1. Step(t) = Congruence(t, 2)
        BY <3>2, <3>5 DEF DelegateStep, Is
      <4> QED BY <2>6, <2>9, <3>1, <4>1
    <3> QED BY <3>3, <3>4, <3>5
  <2>10. CASE t[1] \notin DOMAIN Awaits /\ t[1] \notin {"LetSays", "Delegate"}
    <3>1. StepRule(t) = NoTerm
      BY <2>4, <2>10 DEF StepRule, Is, Outside
    <3> QED BY <2>2, <2>3, <3>1
  <2> QED BY <2>7, <2>8, <2>9, <2>10
<1> QED BY <1>1

\* A run of a term of the fragment stays in it, and its type stays that of the term.
FragmentTyped ==
  /\ Infer(ctx, origin) # NoProp
  /\ Constructors(origin) \cap Outside = {} =>
       Constructors(cur) \cap Outside = {} /\ Infer(ctx, cur) = Infer(ctx, origin)

\* Subject reduction: a run of a typed term without says-E and tensor-E keeps its type.
THEOREM FragmentSubjectReduction == Spec => []FragmentKeepsType
<1>1. Init => FragmentTyped
  BY DEF Init, FragmentTyped
<1>2. ReducesPrograms /\ FragmentTyped /\ [Next]_vars => FragmentTyped'
  <2> SUFFICES ASSUME ReducesPrograms, FragmentTyped, [Next]_vars PROVE FragmentTyped'
    OBVIOUS
  <2>1. CASE Reduce
    <3>1. /\ ctx \in Contexts /\ cur \in Programs /\ Step(cur) # NoTerm /\ cur' = Step(cur)
          /\ ctx' = ctx /\ origin' = origin
      BY <2>1 DEF Reduce, ReducesPrograms
    <3>2. ASSUME Constructors(origin) \cap Outside = {}
          PROVE  /\ Constructors(cur') \cap Outside = {}
                 /\ Infer(ctx, cur') = Infer(ctx, origin)
      <4>1. /\ Constructors(cur) \cap Outside = {} /\ Infer(ctx, cur) = Infer(ctx, origin)
            /\ Infer(ctx, cur) # NoProp
        BY <3>2 DEF FragmentTyped
      <4>2. \A k \in Outside : k \in Constructors(cur') => k \in Constructors(cur)
        <5>1. \A k \in Outside : k \notin {"LiftLabel", "App", "Sign"}
          BY DEF Outside
        <5> QED BY <3>1, <5>1, ConstructorsOfStep
      <4>3. Infer(ctx, Step(cur)) = Infer(ctx, cur)
        BY <3>1, <4>1, StepKeepsType
      <4> QED BY <3>1, <4>1, <4>2, <4>3
    <3> QED BY <3>1, <3>2 DEF FragmentTyped
  <2>2. CASE UNCHANGED vars
    BY <2>2 DEF vars, FragmentTyped
  <2> QED BY <2>1, <2>2 DEF Next, Returned
<1>3. FragmentTyped => FragmentKeepsType
  BY DEF FragmentTyped, FragmentKeepsType, Outside
<1> QED BY <1>1, <1>2, <1>3, ProgramsReduced, PTL DEF Spec

=============================================================================
