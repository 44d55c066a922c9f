------------------------------ MODULE Signing ------------------------------
(***************************************************************************)
(* The byte strings that are signed (crates/dlc-d-node src/proto.rs).      *)
(* AuthReplication takes a signature to BE the record of what was signed;  *)
(* that is sound if no byte string can be read in two ways, which is what  *)
(* the domain prefixes and the order of the fields are for.                *)
(***************************************************************************)
EXTENDS Naturals, Sequences

CONSTANTS Payload,     \* the terms a command may carry
          Capability,  \* the propositions its capability slot may hold
          NoCap,       \* Option::None
          Canonical,   \* wire::canonical_bytes
          EncodeProp   \* wire::encode_prop

Byte == 0..255
Bytes == Seq(Byte)

StartsWith(b, a) == Len(a) <= Len(b) /\ \A i \in 1..Len(a) : a[i] = b[i]

\* What proto.rs relies on in the wire format: one CBOR item is never the
\* beginning of another, and propositions that differ are encoded differently.
ASSUME SigningAssumption ==
  /\ Canonical \in [Payload -> Bytes]
  /\ \A p, q \in Payload : StartsWith(Canonical[p], Canonical[q]) => p = q
  /\ EncodeProp \in [Capability -> Bytes]
  /\ \A p, q \in Capability : EncodeProp[p] = EncodeProp[q] => p = q
  /\ NoCap \notin Capability

CommandTerm == [payload : Payload, cap : Capability \cup {NoCap}]

\* A slot is a u32: its most significant byte is a byte.
Slot32 == {n \in Nat : n \div 16777216 < 256}

-----------------------------------------------------------------------------
\* "dlc-d/cap/v1", "dlc-d/propose/v1" and "dlc-d/vote/v1".
DOM_CAP == <<100, 108, 99, 45, 100, 47, 99, 97, 112, 47, 118, 49>>
DOM_PROPOSE == <<100, 108, 99, 45, 100, 47, 112, 114, 111, 112, 111, 115, 101, 47, 118, 49>>
DOM_VOTE == <<100, 108, 99, 45, 100, 47, 118, 111, 116, 101, 47, 118, 49>>

\* u32::to_le_bytes.
LeBytes(n) == <<n % 256, (n \div 256) % 256, (n \div 65536) % 256, n \div 16777216>>

CapField(p) == IF p = NoCap THEN <<0>> ELSE <<1>> \o EncodeProp[p]
CmdBytes(c) == Canonical[c.payload] \o CapField(c.cap)

CapBytes(c) == DOM_CAP \o CmdBytes(c)
ProposeBytes(slot, c) == DOM_PROPOSE \o (LeBytes(slot) \o CmdBytes(c))
VoteBytes(slot, c) == DOM_VOTE \o (LeBytes(slot) \o CmdBytes(c))
=============================================================================
