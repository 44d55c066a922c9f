-------------------------------- MODULE Wire --------------------------------
(***************************************************************************)
(* The wire format of crates/dlc-protocol src/wire.rs.  A CBOR value is    *)
(* <<"int", i>>, <<"bytes", b>> or <<"arr", items>>.  The encoder and the  *)
(* decoder are two lists of tags in the source, and two tables here.       *)
(***************************************************************************)
EXTENDS Datatypes

\* The encoder and the decoder of each kind of value: EncRule and DecRule say what
\* they do with a value, given what they do with its fields.
CONSTANTS Enc(_, _), Dec(_, _)

CborInt(i) == <<"int", i>>
Bytes(b) == <<"bytes", b>>
Arr(items) == <<"arr", items>>

-----------------------------------------------------------------------------
(* Encoders. *)

\* The tag each encoder gives each variant.
PrincipalTags == [Atom |-> 0, And |-> 1, Or |-> 2, Acting |-> 3]

ObligationTags ==
  [Top |-> 0, Bot |-> 1, ActOf |-> 2, Within |-> 3, Tensor |-> 4, Lolli |-> 5, DpBudget |-> 6]

PropTags ==
  [Top |-> 0, Bot |-> 1, Atom |-> 2, Imp |-> 3, And |-> 4, Or |-> 5, Says |-> 6,
   SpeaksFor |-> 7, At |-> 8, Boxed |-> 9, Within |-> 10, Tensor |-> 11, Lolli |-> 12,
   Replicated |-> 13]

TermTags ==
  [Var |-> 0, Lam |-> 1, App |-> 2, Sign |-> 3, Verify |-> 4, Delegate |-> 5,
   Attenuate |-> 6, Discharge |-> 7, LiftLabel |-> 8, Declassify |-> 9, Now |-> 10,
   WithinIntro |-> 11, Pair |-> 12, Fst |-> 13, Snd |-> 14, Inl |-> 15, Inr |-> 16,
   Case |-> 17, TensorIntro |-> 18, LetTensor |-> 19, LetSays |-> 20, SfExtract |-> 21,
   Boxed |-> 22, SaysBind |-> 23, Command |-> 24, RunCmd |-> 25]

Tags ==
  [principal |-> PrincipalTags, obligation |-> ObligationTags, prop |-> PropTags,
   term |-> TermTags]

\* A field: an integer, a byte string, a label, or a value with an encoder of its own.
EncField(kind, v) ==
  CASE kind \in {"u8", "u32", "u64", "time"} -> CborInt(v)
    [] kind \in {"pid", "bytes"} -> Bytes(v)
    [] kind = "label" -> Arr([i \in DOMAIN v |-> CborInt(v[i])])
    [] OTHER -> Enc(kind, v)

\* enc_term, enc_prop and the encoders of their parts: the tag of an enum, then
\* the fields.
EncRule(kind, v) ==
  LET kinds == Variants[kind][v[1]]
      fields == [i \in DOMAIN kinds |-> EncField(kinds[i], v[i + 1])]
  IN  Arr((IF kind \in DOMAIN Tags THEN <<CborInt(Tags[kind][v[1]])>> ELSE << >>) \o fields)

-----------------------------------------------------------------------------
(* Decoders.  A decoder answers Ok(v) or Error; it indexes the array it     *)
(* reads before any check of its length, so a short array is a Panic.       *)

Ok(v) == <<"ok", v>>
Error == <<"error">>
Panic == <<"panic">>

\* What each decoder reads after each tag; the tags count up from 0.
PrincipalReads ==
  << <<"Atom", "pid">>, <<"And", "principal", "principal">>, <<"Or", "principal", "principal">>,
     <<"Acting", "principal", "principal">> >>

ObligationReads ==
  << <<"Top">>, <<"Bot">>, <<"ActOf", "principal", "bytes">>, <<"Within", "time">>,
     <<"Tensor", "obligation", "obligation">>, <<"Lolli", "obligation", "obligation">>,
     <<"DpBudget", "budget">> >>

PropReads ==
  << <<"Top">>, <<"Bot">>, <<"Atom", "u32">>, <<"Imp", "prop", "prop">>,
     <<"And", "prop", "prop">>, <<"Or", "prop", "prop">>, <<"Says", "principal", "prop">>,
     <<"SpeaksFor", "principal", "principal">>, <<"At", "prop", "label">>,
     <<"Boxed", "obligation", "prop">>, <<"Within", "time", "prop">>,
     <<"Tensor", "prop", "prop">>, <<"Lolli", "prop", "prop">>,
     <<"Replicated", "prop", "label">> >>

TermReads ==
  << <<"Var", "u32">>, <<"Lam", "prop", "term">>, <<"App", "term", "term">>,
     <<"Sign", "principal", "term", "signature">>,
     <<"Verify", "principal", "term", "signature">>, <<"Delegate", "term", "term">>,
     <<"Attenuate", "term", "prop">>, <<"Discharge", "term", "term">>,
     <<"LiftLabel", "label", "term">>, <<"Declassify", "label", "term", "term">>,
     <<"Now", "time">>, <<"WithinIntro", "time", "term">>, <<"Pair", "term", "term">>,
     <<"Fst", "term">>, <<"Snd", "term">>, <<"Inl", "prop", "term">>, <<"Inr", "prop", "term">>,
     <<"Case", "term", "term", "term">>, <<"TensorIntro", "term", "term">>,
     <<"LetTensor", "term", "term">>, <<"LetSays", "principal", "term", "term">>,
     <<"SfExtract", "term">>, <<"Boxed", "obligation", "term", "term">>,
     <<"SaysBind", "principal", "term", "term">>, <<"Command", "term", "term", "label">>,
     <<"RunCmd", "term", "term">> >>

Reads ==
  [principal |-> PrincipalReads, obligation |-> ObligationReads, prop |-> PropReads,
   term |-> TermReads]

\* A mistake the checks must notice: an index read as a single byte.
NarrowAllToU8(kind, i) == i % W8

\* `as u32` and `as u64` keep the low bits of whatever integer was read; a
\* signature's algorithm is read as a u32 and cast to u8.
Narrow(kind, i) ==
  CASE kind = "u8" -> (i % W32) % W8
    [] kind = "u32" -> i % W32
    [] kind \in {"u64", "time"} -> i % W64

\* The first of the results that is not Ok decides; otherwise the values follow
\* the head, in order.
Collect(head, results) ==
  LET failed == {i \in DOMAIN results : results[i][1] # "ok"}
  IN  IF failed # {}
      THEN results[CHOOSE i \in failed : \A j \in failed : i <= j]
      ELSE Ok(head \o [i \in DOMAIN results |-> results[i][2]])

DecInt(kind, w) == IF w[1] = "int" THEN Ok(Narrow(kind, w[2])) ELSE Error

DecField(kind, w) ==
  CASE kind \in {"u8", "u32", "u64", "time"} -> DecInt(kind, w)
    [] kind \in {"pid", "bytes"} -> IF w[1] = "bytes" THEN Ok(w[2]) ELSE Error
    [] kind = "label" ->
         IF w[1] = "arr" THEN Collect(<< >>, [i \in DOMAIN w[2] |-> DecInt("u32", w[2][i])])
         ELSE Error
    [] OTHER -> Dec(kind, w)

\* The fields after the first `from` items of an array.
DecFields(head, kinds, items, from) ==
  Collect(head, [i \in DOMAIN kinds |->
                   IF from + i > Len(items) THEN Panic ELSE DecField(kinds[i], items[from + i])])

\* The tag is read as a u64.
DecTagged(reads, items) ==
  IF items = << >> THEN Panic
  ELSE IF items[1][1] # "int" THEN Error
  ELSE LET t == Narrow("u64", items[1][2])
       IN  IF t < Len(reads) THEN DecFields(<<Head(reads[t + 1])>>, Tail(reads[t + 1]), items, 1)
           ELSE Error

\* dec_term, dec_prop and the decoders of their parts, by the kind expected.
DecRule(kind, w) ==
  IF w[1] # "arr" THEN Error
  ELSE CASE kind = "budget" -> DecFields(<<"DpBudget">>, <<"u64", "u64">>, w[2], 0)
         [] kind = "signature" -> DecFields(<<"Signature">>, <<"u8", "bytes">>, w[2], 0)
         [] OTHER -> DecTagged(Reads[kind], w[2])

\* On the values considered, and on what they are encoded as, the encoder and the
\* decoder follow their rules.
ASSUME CodecAssumption ==
  \A kind \in DOMAIN Variants : \A v \in Universe(kind) :
    /\ Enc(kind, v) = EncRule(kind, v)
    /\ Dec(kind, Enc(kind, v)) = DecRule(kind, Enc(kind, v))

\* encode, decode and their siblings for propositions; canonical_bytes is encode.
Encode(t) == Enc("term", t)
Decode(w) == Dec("term", w)
CanonicalBytes(t) == Encode(t)
EncodeProp(phi) == Enc("prop", phi)
DecodeProp(w) == Dec("prop", w)

-----------------------------------------------------------------------------
(* Keyrings: rows of a principal id, an algorithm and a public key.  Unlike  *)
(* the term decoders these check lengths and ranges.                         *)

EncodeKeyring(k) ==
  Arr([i \in DOMAIN k |->
         Arr(<<Bytes(k[i].principal), CborInt(k[i].alg), Bytes(k[i].public_key)>>)])

DecodeKeyring(w) ==
  LET GoodRow(r) ==
        /\ r[1] = "arr" /\ Len(r[2]) = 3
        /\ r[2][1][1] = "bytes" /\ r[2][2][1] = "int" /\ r[2][3][1] = "bytes"
        /\ r[2][2][2] \in 0..(W8 - 1)
  IN  IF w[1] = "arr" /\ \A i \in DOMAIN w[2] : GoodRow(w[2][i])
      THEN Ok([i \in DOMAIN w[2] |->
                 [principal |-> w[2][i][2][1][2], alg |-> w[2][i][2][2][2],
                  public_key |-> w[2][i][2][3][2]]])
      ELSE Error
=============================================================================
