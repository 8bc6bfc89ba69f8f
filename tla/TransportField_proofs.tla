----------------------- MODULE TransportField_proofs -----------------------
(***************************************************************************)
(* Proofs about the transport field, for SeedIds and slots of any length.  *)
(***************************************************************************)
EXTENDS TransportField, SequenceTheorems, TLAPS

-----------------------------------------------------------------------------
(***************************************************************************)
(* The decoders on any field                                               *)
(***************************************************************************)
LEMMA KnownIsOne == \A v : Known(v) <=> v = "1"
BY DEF Known, Versions

LEMMA NegotiateOne ==
  ASSUME NEW v
  PROVE  Negotiate({v}) = IF v = "1" THEN "1" ELSE "none"
<1>1. DOMAIN Versions = {1} /\ Versions[1] = "1"
  BY DEF Versions
<1> DEFINE common == {i \in DOMAIN Versions : Versions[i] \in {v}}
<1>2. CASE v = "1"
  <2>1. common = {1}
    BY <1>1, <1>2
  <2>2. (CHOOSE i \in {1} : \A j \in {1} : j <= i) = 1
    OBVIOUS
  <2> QED
    BY <1>1, <1>2, <2>1, <2>2 DEF Negotiate
<1>3. CASE v # "1"
  <2>1. common = {}
    BY <1>1, <1>3
  <2> QED
    BY <1>3, <2>1 DEF Negotiate
<1> QED
  BY <1>2, <1>3

\* parse and parse_into accept the same fields, all of a version this build
\* negotiates, and read the same from them; only a field of another version of
\* the family is refused as such.
LEMMA FieldDecoders ==
  ASSUME NEW field, Len(field) \in Nat
  PROVE  /\ Parse(field).error = "none"
              => IsProtocolField(field) /\ Negotiate({field[2]}) = field[2]
         /\ (Parse(field).error = "none" \/ ParseInto(field).error = "none")
              => ParseInto(field) = Parse(field)
         /\ Parse(field).error = "UnsupportedProtocolVersion"
              => IsAnyVersion(field) /\ Negotiate({field[2]}) = "none"
<1> DEFINE foreign == \E i \in DOMAIN field : field[i] = Foreign
           sid == TrimEnd(Slot(field))
<1>1. FieldLen \in Nat /\ FieldLen \in MinFieldLen..FieldLen /\ FieldLen >= 2 /\ MinFieldLen >= 2
  BY SlotAssumption DEF SlotAssumption, FieldLen
<1>2. /\ Detect(field) = "V1" <=> Len(field) >= 2 /\ field[1] = Family /\ field[2] = "1"
      /\ Detect(field) = "UnsupportedProtocolVersion"
           <=> Len(field) >= 2 /\ field[1] = Family /\ field[2] # "1"
      /\ Detect(field) # "none"
  BY KnownIsOne DEF Detect
<1>3. \A e : Rejected(e).error = e
  BY DEF Rejected
<1>4. Accepted(field).error = "none"
  BY DEF Accepted
<1>5. ASSUME Parse(field).error = "none"
      PROVE  /\ Len(field) = FieldLen /\ ~ foreign /\ field[1] = Family /\ field[2] = "1"
             /\ sid # <<>> /\ ValidSeedId(sid) /\ Parse(field) = Accepted(field)
  <2>1. Detect(field) = "V1" /\ ~ foreign /\ Parse(field) = ParseV1(field)
    BY <1>2, <1>3, <1>5 DEF Parse
  <2>2. Len(field) = FieldLen /\ sid # <<>> /\ ValidSeedId(sid) /\ ParseV1(field) = Accepted(field)
    BY <1>3, <1>5, <2>1 DEF ParseV1
  <2> QED
    BY <1>2, <2>1, <2>2
<1>6. ASSUME ParseInto(field).error = "none"
      PROVE  /\ Len(field) = FieldLen /\ ~ foreign /\ field[1] = Family /\ field[2] = "1"
             /\ sid # <<>> /\ ValidSeedId(sid) /\ ParseInto(field) = Accepted(field)
  BY <1>3, <1>6 DEF ParseInto
<1>7. ASSUME Len(field) = FieldLen, ~ foreign, field[1] = Family, field[2] = "1",
             sid # <<>>, ValidSeedId(sid)
      PROVE  Parse(field) = Accepted(field) /\ ParseInto(field) = Accepted(field)
  <2>1. Detect(field) = "V1" /\ ParseV1(field) = Accepted(field)
    BY <1>1, <1>2, <1>7 DEF ParseV1
  <2> QED
    BY <1>1, <1>7, <2>1 DEF Parse, ParseInto
<1>8. Parse(field).error = "UnsupportedProtocolVersion"
        => Detect(field) = "UnsupportedProtocolVersion"
  <2>1. ParseV1(field).error # "UnsupportedProtocolVersion"
    BY <1>3, <1>4 DEF ParseV1
  <2> QED
    BY <1>3, <2>1 DEF Parse
<1> HIDE DEF foreign, sid
<1>9. /\ Parse(field).error = "none" => IsProtocolField(field)
      /\ Parse(field).error = "none" => Negotiate({field[2]}) = field[2]
  BY <1>5, NegotiateOne DEF IsProtocolField
<1>10. (Parse(field).error = "none" \/ ParseInto(field).error = "none")
         => ParseInto(field) = Parse(field)
  BY <1>5, <1>6, <1>7
<1>11. Parse(field).error = "UnsupportedProtocolVersion"
         => IsAnyVersion(field) /\ Negotiate({field[2]}) = "none"
  BY <1>2, <1>8, NegotiateOne DEF IsAnyVersion
<1> QED
  BY <1>9, <1>10, <1>11

-----------------------------------------------------------------------------
(***************************************************************************)
(* What encode writes                                                      *)
(***************************************************************************)
\* A SeedId is a sequence of whatever symbols, these among them.
FieldSymbols == {Family, "1", Pad}

LEMMA Joined ==
  ASSUME NEW S, NEW s, NEW t, s \in Seq(S), t \in Seq(S), NEW k, NEW m, NEW r,
         k = Len(s), m = Len(s) + Len(t), r = s \o t
  PROVE  /\ r \in Seq(S) /\ Len(r) = m
         /\ \A i \in 1..m : r[i] = IF i <= k THEN s[i] ELSE t[i - k]
BY ConcatProperties

LEMMA EncodeShape ==
  ASSUME NEW S, FieldSymbols \subseteq S, NEW sid \in Seq(S), Len(sid) \in 1..SlotLen, NEW c1 \in S
  PROVE  LET field == Encode(sid, c1)
         IN /\ field \in Seq(S) /\ Len(field) = FieldLen
            /\ field[1] = Family /\ field[2] = "1"
            /\ \A i \in 1..SlotLen :
                 field[i + 2] = IF i <= Len(sid) THEN sid[i] ELSE Pad
            /\ field[FieldLen] = c1
<1> DEFINE n == Len(sid)
           head == <<Family, "1">>
           pads == [i \in 1..(SlotLen - Len(sid)) |-> Pad]
           last == <<c1>>
<1>1. n \in 1..SlotLen /\ SlotLen \in Nat
  BY SlotAssumption DEF SlotAssumption
<1>2. /\ head \in Seq(S) /\ Len(head) = 2 /\ head[1] = Family /\ head[2] = "1"
      /\ last \in Seq(S) /\ Len(last) = 1 /\ last[1] = c1
  BY DEF FieldSymbols
<1>3. pads \in Seq(S) /\ Len(pads) = SlotLen - n /\ \A i \in 1..(SlotLen - n) : pads[i] = Pad
  <2>1. SlotLen - n \in Nat
    BY <1>1
  <2>2. pads \in [1..(SlotLen - n) -> S]
    BY DEF FieldSymbols
  <2> QED
    BY <2>1, <2>2, SeqDef
<1>4. Encode(sid, c1) = ((head \o sid) \o pads) \o last
  BY DEF Encode
<1> DEFINE a == head \o sid
           b == a \o pads
           field == b \o last
<1> HIDE DEF n, head, pads, last
<1>5. /\ a \in Seq(S) /\ Len(a) = 2 + n
      /\ \A i \in 1..(2 + n) : a[i] = IF i <= 2 THEN head[i] ELSE sid[i - 2]
  <2> DEFINE k == 2
             m == 2 + n
  <2>1. k = Len(head) /\ m = Len(head) + Len(sid)
    BY <1>2 DEF n
  <2>0. a = head \o sid /\ head \in Seq(S) /\ sid \in Seq(S)
    BY <1>2
  <2> HIDE DEF k, m, a
  <2>2. /\ a \in Seq(S) /\ Len(a) = m
        /\ \A i \in 1..m : a[i] = IF i <= k THEN head[i] ELSE sid[i - k]
    BY <2>0, <2>1, Joined
  <2> QED
    BY <2>2 DEF k, m
<1> HIDE DEF a
<1>6. /\ b \in Seq(S) /\ Len(b) = 2 + SlotLen
      /\ \A i \in 1..(2 + SlotLen) : b[i] = IF i <= 2 + n THEN a[i] ELSE pads[i - (2 + n)]
  <2> DEFINE k == 2 + n
             m == 2 + SlotLen
  <2>1. k = Len(a) /\ m = Len(a) + Len(pads)
    BY <1>1, <1>3, <1>5
  <2>0. b = a \o pads /\ a \in Seq(S) /\ pads \in Seq(S)
    BY <1>3, <1>5
  <2> HIDE DEF k, m, b
  <2>2. /\ b \in Seq(S) /\ Len(b) = m
        /\ \A i \in 1..m : b[i] = IF i <= k THEN a[i] ELSE pads[i - k]
    BY <2>0, <2>1, Joined
  <2> QED
    BY <2>2 DEF k, m
<1> HIDE DEF b
<1>7. /\ field \in Seq(S) /\ Len(field) = FieldLen
      /\ \A i \in 1..FieldLen : field[i] = IF i <= 2 + SlotLen THEN b[i] ELSE last[i - (2 + SlotLen)]
  <2> DEFINE k == 2 + SlotLen
             m == FieldLen
  <2>1. k = Len(b) /\ m = Len(b) + Len(last)
    BY <1>1, <1>2, <1>6 DEF FieldLen
  <2>0. field = b \o last /\ b \in Seq(S) /\ last \in Seq(S)
    BY <1>2, <1>6
  <2> HIDE DEF k, m, field
  <2>2. /\ field \in Seq(S) /\ Len(field) = m
        /\ \A i \in 1..m : field[i] = IF i <= k THEN b[i] ELSE last[i - k]
    BY <2>0, <2>1, Joined
  <2> QED
    BY <2>2 DEF k, m
<1> HIDE DEF field
<1>8. field[1] = Family /\ field[2] = "1" /\ field[FieldLen] = c1
  BY <1>1, <1>2, <1>5, <1>6, <1>7 DEF FieldLen
<1>9. ASSUME NEW i \in 1..SlotLen
      PROVE  field[i + 2] = IF i <= n THEN sid[i] ELSE Pad
  <2>1. i + 2 \in 1..FieldLen /\ i + 2 \in 1..(2 + SlotLen) /\ i + 2 <= 2 + SlotLen
    BY <1>1 DEF FieldLen
  <2>2. field[i + 2] = b[i + 2]
    BY <1>7, <2>1
  <2>3. CASE i <= n
    <3>1. i + 2 \in 1..(2 + n) /\ ~ (i + 2 <= 2) /\ (i + 2) - 2 = i
      BY <1>1, <2>3
    <3> QED
      BY <1>5, <1>6, <2>1, <2>2, <2>3, <3>1
  <2>4. CASE ~ (i <= n)
    <3>1. ~ (i + 2 <= 2 + n) /\ (i + 2) - (2 + n) \in 1..(SlotLen - n)
      BY <1>1, <2>4
    <3> QED
      BY <1>3, <1>6, <2>1, <2>2, <2>4, <3>1
  <2> QED
    BY <2>3, <2>4
<1> QED
  BY <1>4, <1>7, <1>8, <1>9 DEF field, n, b, a

\* The two encoders write the same bytes.
LEMMA EncodersAgree ==
  ASSUME NEW S, FieldSymbols \subseteq S, NEW sid \in Seq(S), Len(sid) \in 1..SlotLen, NEW c1 \in S
  PROVE  EncodeInto(sid, c1) = Encode(sid, c1)
<1> DEFINE field == Encode(sid, c1)
           g == EncodeInto(sid, c1)
<1>1. /\ field \in Seq(S) /\ Len(field) = FieldLen
      /\ field[1] = Family /\ field[2] = "1"
      /\ \A i \in 1..SlotLen : field[i + 2] = IF i <= Len(sid) THEN sid[i] ELSE Pad
      /\ field[FieldLen] = c1
  BY EncodeShape
<1>2. SlotLen \in Nat /\ FieldLen = 3 + SlotLen /\ Len(sid) \in 1..SlotLen
      /\ DOMAIN sid = 1..Len(sid)
  BY SlotAssumption, LenProperties DEF SlotAssumption, FieldLen
<1> HIDE DEF field
<1>3. ASSUME NEW i \in 1..FieldLen
      PROVE  field[i] = IF i = 1 THEN Family
                        ELSE IF i = 2 THEN "1"
                        ELSE IF i - 2 \in DOMAIN sid THEN sid[i - 2]
                        ELSE IF i < FieldLen THEN Pad ELSE c1
  <2>1. CASE i \in {1, 2, FieldLen}
    BY <1>1, <1>2, <2>1
  <2>2. CASE i \notin {1, 2, FieldLen}
    <3>1. i - 2 \in 1..SlotLen /\ (i - 2) + 2 = i /\ i < FieldLen
      BY <1>2, <2>2
    <3>2. i - 2 \in DOMAIN sid <=> i - 2 <= Len(sid)
      BY <1>2, <3>1
    <3>3. field[i] = IF i - 2 <= Len(sid) THEN sid[i - 2] ELSE Pad
      BY <1>1, <3>1
    <3> QED
      BY <2>2, <3>1, <3>2, <3>3
  <2> QED
    BY <2>1, <2>2
<1>4. field = [i \in 1..FieldLen |-> field[i]]
  BY <1>1, LenProperties
<1> QED
  BY <1>3, <1>4 DEF EncodeInto, field

LEMMA TrimSlot ==
  ASSUME NEW S, FieldSymbols \subseteq S, NEW sid \in Seq(S), ValidSeedId(sid), NEW c1 \in S
  PROVE  TrimEnd(Slot(Encode(sid, c1))) = sid
<1> DEFINE field == Encode(sid, c1)
           slot == Slot(field)
           n == Len(sid)
           kept == {i \in DOMAIN slot : slot[i] # Pad}
<1>1. /\ field \in Seq(S) /\ Len(field) = FieldLen
      /\ \A i \in 1..SlotLen : field[i + 2] = IF i <= n THEN sid[i] ELSE Pad
  BY EncodeShape DEF ValidSeedId
<1>2. /\ SlotLen \in Nat /\ FieldLen = 3 + SlotLen /\ n \in 1..SlotLen
      /\ DOMAIN sid = 1..n /\ \A i \in 1..n : sid[i] # Pad
  BY SlotAssumption, LenProperties DEF SlotAssumption, FieldLen, ValidSeedId
<1> HIDE DEF field, n
<1>3. /\ slot \in Seq(S) /\ Len(slot) = SlotLen
      /\ \A i \in 1..SlotLen : slot[i] = field[i + 2]
  <2>1. \A i \in 3..(2 + SlotLen) : field[i] \in S
    BY <1>1, <1>2, LenProperties
  <2>2. /\ slot \in Seq(S)
        /\ Len(slot) = IF 3 <= 2 + SlotLen THEN (2 + SlotLen) - 3 + 1 ELSE 0
        /\ \A i \in 1..((2 + SlotLen) - 3 + 1) : slot[i] = field[3 + i - 1]
    BY <1>2, <2>1, SubSeqProperties DEF Slot
  <2>3. (2 + SlotLen) - 3 + 1 = SlotLen /\ 3 <= 2 + SlotLen
    BY <1>2
  <2>4. \A i \in 1..SlotLen : 3 + i - 1 = i + 2
    BY <1>2
  <2> HIDE DEF slot
  <2> QED
    BY <2>2, <2>3, <2>4
<1> HIDE DEF slot
<1>4. \A i \in 1..SlotLen : slot[i] = IF i <= n THEN sid[i] ELSE Pad
  BY <1>1, <1>3
<1>5. kept = 1..n
  <2>1. DOMAIN slot = 1..SlotLen
    BY <1>3, LenProperties
  <2>2. \A i \in 1..SlotLen : slot[i] # Pad <=> i \in 1..n
    BY <1>2, <1>4
  <2>3. 1..n \subseteq 1..SlotLen
    BY <1>2
  <2> QED
    BY <2>1, <2>2, <2>3
<1> HIDE DEF kept
<1>6. (CHOOSE m \in 0..Len(slot) : m \in kept \cup {0} /\ \A i \in kept : i <= m) = n
  <2>1. n \in 0..Len(slot) /\ n \in kept \cup {0} /\ \A i \in kept : i <= n
    BY <1>2, <1>3, <1>5
  <2>2. \A m \in 0..Len(slot) : (m \in kept \cup {0} /\ \A i \in kept : i <= m) => m = n
    BY <1>2, <1>3, <1>5
  <2> QED
    BY <2>1, <2>2
<1>7. TrimEnd(slot) = SubSeq(slot, 1, n)
  BY <1>6 DEF TrimEnd, kept
<1>8. SubSeq(slot, 1, n) = sid
  <2>1. \A i \in 1..n : slot[i] \in S
    BY <1>2, <1>3, LenProperties
  <2>2. /\ SubSeq(slot, 1, n) \in Seq(S)
        /\ Len(SubSeq(slot, 1, n)) = IF 1 <= n THEN n - 1 + 1 ELSE 0
        /\ \A i \in 1..(n - 1 + 1) : SubSeq(slot, 1, n)[i] = slot[1 + i - 1]
    BY <1>2, <2>1, SubSeqProperties
  <2>3. n - 1 + 1 = n /\ 1 <= n /\ \A i \in 1..n : 1 + i - 1 = i
    BY <1>2
  <2>4. Len(SubSeq(slot, 1, n)) = Len(sid)
    BY <2>2, <2>3 DEF n
  <2>5. \A i \in 1..n : SubSeq(slot, 1, n)[i] = sid[i]
    BY <1>2, <1>4, <2>2, <2>3
  <2> QED
    BY <2>2, <2>4, <2>5, SeqEqual DEF n
<1> QED
  BY <1>7, <1>8 DEF slot, field

\* Whatever SeedId the SDK accepts and whatever code is put behind it, every
\* decoder reads both back from what either encoder wrote
\* (transport_field.rs of mcpix-core and of mcpix-embed).
LEMMA RoundTrip ==
  ASSUME NEW S, FieldSymbols \subseteq S, NEW sid \in Seq(S), ValidSeedId(sid), NEW c1 \in S \ {Foreign}
  PROVE  LET field == Encode(sid, c1)
             read == [error |-> "none", sid |-> sid, c1 |-> c1]
         IN /\ EncodeInto(sid, c1) = field
            /\ Parse(field) = read /\ ParseInto(field) = read
            /\ IsProtocolField(field) /\ IsAnyVersion(field)
<1> DEFINE field == Encode(sid, c1)
<1>1. /\ field \in Seq(S) /\ Len(field) = FieldLen
      /\ field[1] = Family /\ field[2] = "1"
      /\ \A i \in 1..SlotLen : field[i + 2] = IF i <= Len(sid) THEN sid[i] ELSE Pad
      /\ field[FieldLen] = c1
  BY EncodeShape DEF ValidSeedId
<1>2. TrimEnd(Slot(field)) = sid
  BY TrimSlot
<1>3. EncodeInto(sid, c1) = field
  BY EncodersAgree DEF ValidSeedId
<1>4. /\ SlotLen \in Nat /\ FieldLen = 3 + SlotLen /\ Len(sid) \in 1..SlotLen
      /\ DOMAIN sid = 1..Len(sid) /\ DOMAIN field = 1..FieldLen
      /\ FieldLen \in MinFieldLen..FieldLen /\ FieldLen >= 2
  BY <1>1, SlotAssumption, LenProperties DEF SlotAssumption, FieldLen, ValidSeedId
<1> HIDE DEF field
<1>5. \A i \in DOMAIN field : field[i] # Foreign
  <2> SUFFICES ASSUME NEW i \in 1..FieldLen PROVE field[i] # Foreign
    BY <1>4
  <2>1. Family # Foreign /\ "1" # Foreign /\ Pad # Foreign
    BY DEF Family, Pad, Foreign
  <2>2. CASE i \in {1, 2, FieldLen}
    BY <1>1, <2>1, <2>2
  <2>3. CASE i \notin {1, 2, FieldLen}
    <3>1. i - 2 \in 1..SlotLen /\ (i - 2) + 2 = i
      BY <1>4, <2>3
    <3>2. field[i] = IF i - 2 <= Len(sid) THEN sid[i - 2] ELSE Pad
      BY <1>1, <3>1
    <3>3. i - 2 <= Len(sid) => i - 2 \in DOMAIN sid
      BY <1>4, <3>1
    <3> QED
      BY <2>1, <3>2, <3>3 DEF ValidSeedId
  <2> QED
    BY <2>2, <2>3
<1>6. sid # <<>>
  BY <1>4
<1>7. Accepted(field) = [error |-> "none", sid |-> sid, c1 |-> c1]
  BY <1>1, <1>2 DEF Accepted
<1>8. Detect(field) = "V1"
  BY <1>1, <1>4, KnownIsOne DEF Detect
<1>9. ParseV1(field) = Accepted(field)
  BY <1>1, <1>2, <1>6 DEF ParseV1
<1>10. Parse(field) = Accepted(field)
  BY <1>1, <1>4, <1>5, <1>8, <1>9 DEF Parse
<1>11. ParseInto(field) = Accepted(field)
  BY <1>1, <1>2, <1>5, <1>6 DEF ParseInto
<1>12. IsProtocolField(field) /\ IsAnyVersion(field)
  BY <1>1, <1>4 DEF IsProtocolField, IsAnyVersion
<1> QED
  BY <1>3, <1>7, <1>10, <1>11, <1>12 DEF field

=============================================================================
