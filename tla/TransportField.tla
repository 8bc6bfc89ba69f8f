-------------------------- MODULE TransportField --------------------------
(***************************************************************************)
(* The public transport field of a charge: crates/mcpix-core encode, parse *)
(* and version dispatch, and the decoder of the embedded crate.            *)
(*                                                                         *)
(* A field is a sequence of symbols: one for the seven bytes of the family *)
(* "PIXOFFv", one for the version character, SlotLen characters of SeedId  *)
(* slot and one for the eleven characters of C1.  Only the padding of the  *)
(* slot is spelled out, because parsing takes it off by its character.     *)
(***************************************************************************)
EXTENDS Naturals, Sequences, FiniteSets

CONSTANTS
  SlotLen,     \* SEED_ID_MAX_LEN
  MinFieldLen  \* shortest field that is looked at (26 bytes)

ASSUME SlotAssumption == SlotLen \in Nat \ {0} /\ MinFieldLen \in 2..(3 + SlotLen)

Family == "PIXOFFv"
Pad == "0"
Foreign == "-"          \* a byte that is not alphanumeric
FieldLen == 3 + SlotLen
Versions == <<"1">>     \* ProtocolVersion::all, in ascending order

-----------------------------------------------------------------------------
\* SeedId::new: one to SlotLen alphanumeric characters, none of them the pad.
ValidSeedId(s) == Len(s) \in 1..SlotLen /\ \A i \in DOMAIN s : s[i] \notin {Pad, Foreign}

\* Mutant: the slot is filled up on the left.
EncodeRightAligned(sid, c1) ==
  <<Family, "1">> \o [i \in 1..(SlotLen - Len(sid)) |-> Pad] \o sid \o <<c1>>

Encode(sid, c1) ==
  <<Family, "1">> \o sid \o [i \in 1..(SlotLen - Len(sid)) |-> Pad] \o <<c1>>

Slot(field) == SubSeq(field, 3, 2 + SlotLen)

\* trim_end_matches(pad): what is left of the last other character.
TrimEnd(slot) ==
  LET kept == {i \in DOMAIN slot : slot[i] # Pad}
  IN SubSeq(slot, 1, CHOOSE n \in 0..Len(slot) :
                       n \in kept \cup {0} /\ \A i \in kept : i <= n)

Known(v) == \E i \in DOMAIN Versions : Versions[i] = v

\* Mutant: any version of the family is taken for the one this build knows.
DetectAnyVersion(field) ==
  IF Len(field) < 2 THEN "TransportFieldLength"
  ELSE IF field[1] = Family THEN "V1" ELSE "TransportFieldPrefix"

Detect(field) ==
  IF Len(field) < 2 THEN "TransportFieldLength"
  ELSE IF field[1] # Family THEN "TransportFieldPrefix"
  ELSE IF Known(field[2]) THEN "V1" ELSE "UnsupportedProtocolVersion"

\* Outcome of decoding: an error, or the two values read from the field.
Rejected(error) == [error |-> error]
Accepted(field) == [error |-> "none", sid |-> TrimEnd(Slot(field)), c1 |-> field[FieldLen]]

ParseV1(field) ==
  IF Len(field) # FieldLen THEN Rejected("TransportFieldLength")
  ELSE IF TrimEnd(Slot(field)) = <<>> THEN Rejected("SeedIdLength")
  ELSE IF ~ ValidSeedId(TrimEnd(Slot(field))) THEN Rejected("SeedIdCharset")
  ELSE Accepted(field)

Parse(field) ==
  IF Len(field) \notin MinFieldLen..FieldLen THEN Rejected("TransportFieldLength")
  ELSE IF \E i \in DOMAIN field : field[i] = Foreign THEN Rejected("TransportFieldCharset")
  ELSE IF Detect(field) # "V1" THEN Rejected(Detect(field))
  ELSE ParseV1(field)

IsProtocolField(field) ==
  Len(field) = FieldLen /\ field[1] = Family /\ field[2] = "1"

IsAnyVersion(field) == Len(field) >= 2 /\ field[1] = Family

\* negotiate_version: the highest version of this build the peer announces.
Negotiate(peer) ==
  LET common == {i \in DOMAIN Versions : Versions[i] \in peer}
  IN IF common = {} THEN "none"
     ELSE Versions[CHOOSE i \in common : \A j \in common : j <= i]

-----------------------------------------------------------------------------
\* mcpix-embed: encode_into and parse_into, which know a single layout.
EncodeInto(sid, c1) ==
  [i \in 1..FieldLen |->
     IF i = 1 THEN Family
     ELSE IF i = 2 THEN "1"
     ELSE IF i - 2 \in DOMAIN sid THEN sid[i - 2]
     ELSE IF i < FieldLen THEN Pad ELSE c1]

ParseInto(field) ==
  IF Len(field) # FieldLen THEN Rejected("BufferLen")
  ELSE IF \E i \in DOMAIN field : field[i] = Foreign THEN Rejected("TransportFieldLayout")
  ELSE IF field[1] # Family \/ field[2] # "1" THEN Rejected("TransportFieldLayout")
  ELSE IF TrimEnd(Slot(field)) = <<>> THEN Rejected("SeedIdLength")
  ELSE IF ~ ValidSeedId(TrimEnd(Slot(field))) THEN Rejected("SeedIdCharset")
  ELSE Accepted(field)

=============================================================================
