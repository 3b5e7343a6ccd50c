---------------------------- MODULE HeaderProofs ----------------------------
(***************************************************************************)
(* Theorems about HeaderObjects and IqzipHeader for every value of their   *)
(* constants: for every memory, every value of every field and every order *)
(* of the calls; for every set of options and every payload.               *)
(*                                                                         *)
(* Each bit of a header belongs to one field.  A getter looks at no bit of *)
(* another field, and a setter changes none, but that of the secondary     *)
(* header flag.  A header in a file is then read field by field.           *)
(***************************************************************************)
EXTENDS HeaderObjects, IqzipHeader, TLAPS

-----------------------------------------------------------------------------
\* The bits of a shifted integer.
LEMMA ShlBits ==
    ASSUME NEW b \in SUBSET Int, NEW k \in Nat
    PROVE  /\ Shl(b, k) \in SUBSET Int
           /\ \A i \in Int : i \in Shl(b, k) <=> i - k \in b
  <1>1. Shl(b, k) \in SUBSET Int
    BY DEF Shl
  <1>2. ASSUME NEW i \in Int PROVE i \in Shl(b, k) <=> i - k \in b
    BY DEF Shl
  <1> QED
    BY <1>1, <1>2

\* The bits of an integer shifted to the right.
LEMMA ShrBits ==
    ASSUME NEW b \in SUBSET Int, NEW k \in Nat
    PROVE  /\ Shr(b, k) \in SUBSET Nat
           /\ \A i \in Int : i \in Shr(b, k) <=> i \in Nat /\ i + k \in b
  <1>1. Shr(b, k) \in SUBSET Nat
    BY DEF Shr
  <1>2. ASSUME NEW i \in Int PROVE i \in Shr(b, k) <=> i \in Nat /\ i + k \in b
    BY DEF Shr
  <1> QED
    BY <1>1, <1>2

-----------------------------------------------------------------------------
\* The field each bit of the primary header belongs to.
BitOwner(j, i) ==
    CASE j = 0 /\ i \in 5..7 -> "version"
      [] j = 0 /\ i = 4      -> "type"
      [] j = 0 /\ i = 3      -> "sec_hdr_flag"
      [] j = 0 /\ i \in 0..2 -> "apid"
      [] j = 1               -> "apid"
      [] j = 2 /\ i \in 6..7 -> "sequence_flags"
      [] j = 2 /\ i \in 0..5 -> "packet_sequence_count"
      [] j = 3               -> "packet_sequence_count"
      [] j \in {4, 5}        -> "packet_data_length"

\* Two headers that agree about the bits of field f.
AgreeOn(f, h, e) ==
    \A j \in 0..5, i \in 0..7 : BitOwner(j, i) = f => (i \in e[j] <=> i \in h[j])

\* The numbers the setters take have at most sixteen bits.
LEMMA ValuesBits ==
    ASSUME NEW f \in PrimaryFields, NEW v \in Values(f)
    PROVE  v \in SUBSET (0..15)
  BY DEF Values, Byte, Word

\* The places of a value that its field has room for.
LEMMA Rooms ==
    /\ Room("version") = 0..2 /\ Room("type") = 0..0
    /\ Room("sec_hdr_flag") = 0..0 /\ Room("apid") = 0..10
    /\ Room("packet_sequence_count") = 0..13
    /\ Room("packet_data_length") = 0..15
    /\ Room("sequence_flags") = 0..1
  BY DEF Room, Width

\* The bytes of a primary header.
LEMMA PrimaryBytesType ==
    ASSUME NEW h \in PrimaryBytes
    PROVE  \A j \in 0..5 : h[j] \in SUBSET (0..7) /\ h[j] \in SUBSET Int
  BY DEF PrimaryBytes, Byte

\* The bytes of a header of which one was or-ed with a value, or given one.
LEMMA OrPrimary ==
    ASSUME NEW h \in PrimaryBytes, NEW j \in 0..5, NEW b
    PROVE  /\ Or(h, j, b) \in PrimaryBytes
           /\ \A m \in 0..5 :
                Or(h, j, b)[m] = IF m = j THEN h[j] \cup (b \cap 0..7) ELSE h[m]
  BY DEF Or, Byte, PrimaryBytes

\* A byte that is assigned.
LEMMA PutPrimary ==
    ASSUME NEW h \in PrimaryBytes, NEW j \in 0..5, NEW b
    PROVE  /\ Put(h, j, b) \in PrimaryBytes
           /\ \A m \in 0..5 : Put(h, j, b)[m] = IF m = j THEN b \cap 0..7 ELSE h[m]
  BY DEF Put, Byte, PrimaryBytes

\* The bits the getters return.
LEMMA DecodedBits ==
    ASSUME NEW h \in PrimaryBytes
    PROVE  /\ \A i \in Int :
                i \in decode_version(h) <=> i \in 0..2 /\ i + 5 \in h[0]
           /\ \A i \in Int : i \in decode_type(h) <=> i = 0 /\ 4 \in h[0]
           /\ \A i \in Int : i \in decode_secondary_header_flag(h) <=>
                                i = 0 /\ 3 \in h[0]
           /\ \A i \in Int : i \in decode_application_process_identifier(h) <=>
                                \/ i \in 0..7 /\ i \in h[1]
                                \/ i \in 8..10 /\ i - 8 \in h[0]
           /\ \A i \in Int : i \in decode_sequence_flags(h) <=>
                                i \in 0..1 /\ i + 6 \in h[2]
           /\ \A i \in Int : i \in decode_packet_sequence_count(h) <=>
                                \/ i \in 0..7 /\ i \in h[3]
                                \/ i \in 8..13 /\ i - 8 \in h[2]
           /\ \A i \in Int : i \in decode_packet_data_length(h) <=>
                                \/ i \in 0..7 /\ i \in h[5]
                                \/ i \in 8..15 /\ i - 8 \in h[4]
  <1>1. \A j \in 0..5 : h[j] \in SUBSET (0..7) /\ h[j] \in SUBSET Int
    BY PrimaryBytesType
  <1>2. \A j \in 0..5 : \A s \in SUBSET Int : h[j] \cap s \in SUBSET Int
    BY <1>1
  <1>3. \A i \in Int : i \in decode_version(h) <=> i \in 0..2 /\ i + 5 \in h[0]
    BY <1>1, <1>2, ShrBits DEF decode_version
  <1>4. \A i \in Int : i \in decode_type(h) <=> i = 0 /\ 4 \in h[0]
    BY <1>1, <1>2, ShrBits DEF decode_type
  <1>5. \A i \in Int : i \in decode_secondary_header_flag(h) <=> i = 0 /\ 3 \in h[0]
    BY <1>1, <1>2, ShrBits DEF decode_secondary_header_flag
  <1>6. \A i \in Int : i \in decode_application_process_identifier(h) <=>
                          \/ i \in 0..7 /\ i \in h[1]
                          \/ i \in 8..10 /\ i - 8 \in h[0]
    BY <1>1, <1>2, ShlBits DEF decode_application_process_identifier
  <1>7. \A i \in Int :
          i \in decode_sequence_flags(h) <=> i \in 0..1 /\ i + 6 \in h[2]
    BY <1>1, <1>2, ShrBits DEF decode_sequence_flags
  <1>8. \A i \in Int : i \in decode_packet_sequence_count(h) <=>
                          \/ i \in 0..7 /\ i \in h[3]
                          \/ i \in 8..13 /\ i - 8 \in h[2]
    BY <1>1, <1>2, ShlBits DEF decode_packet_sequence_count
  <1>9. \A i \in Int : i \in decode_packet_data_length(h) <=>
                          \/ i \in 0..7 /\ i \in h[5]
                          \/ i \in 8..15 /\ i - 8 \in h[4]
    BY <1>1, <1>2, ShlBits DEF decode_packet_data_length
  <1> QED
    BY <1>3, <1>4, <1>5, <1>6, <1>7, <1>8, <1>9

\* Each getter by the name of its field.
LEMMA DecodeByName ==
    ASSUME NEW h
    PROVE  /\ DecodeField("version", h) = decode_version(h)
           /\ DecodeField("type", h) = decode_type(h)
           /\ DecodeField("sec_hdr_flag", h) = decode_secondary_header_flag(h)
           /\ DecodeField("apid", h) = decode_application_process_identifier(h)
           /\ DecodeField("sequence_flags", h) = decode_sequence_flags(h)
           /\ DecodeField("packet_sequence_count", h)
                = decode_packet_sequence_count(h)
           /\ DecodeField("packet_data_length", h) = decode_packet_data_length(h)
  BY DEF DecodeField

\* What a getter returns is a set of bits.
LEMMA DecodedType ==
    ASSUME NEW f \in PrimaryFields, NEW h \in PrimaryBytes
    PROVE  DecodeField(f, h) \in SUBSET Int
  <1>1. \A j \in 0..5 : h[j] \in SUBSET Int
    BY PrimaryBytesType
  <1>2. \A j \in 0..5 : \A s : h[j] \cap s \in SUBSET Int
    BY <1>1
  <1>3. \A s \in SUBSET Nat : s \in SUBSET Int
    OBVIOUS
  <1>4. /\ decode_version(h) \in SUBSET Int
        /\ decode_type(h) \in SUBSET Int
        /\ decode_secondary_header_flag(h) \in SUBSET Int
        /\ decode_sequence_flags(h) \in SUBSET Int
    BY <1>2, <1>3, ShrBits
    DEF decode_version, decode_type, decode_secondary_header_flag,
        decode_sequence_flags
  <1>5. /\ decode_application_process_identifier(h) \in SUBSET Int
        /\ decode_packet_sequence_count(h) \in SUBSET Int
        /\ decode_packet_data_length(h) \in SUBSET Int
    BY <1>1, <1>2, ShlBits
    DEF decode_application_process_identifier, decode_packet_sequence_count,
        decode_packet_data_length
  <1> QED
    BY <1>4, <1>5, DecodeByName DEF PrimaryFields

\* A getter looks at no bit of another field.
LEMMA DecodeLocal ==
    ASSUME NEW f \in PrimaryFields, NEW h \in PrimaryBytes, NEW e \in PrimaryBytes,
           AgreeOn(f, h, e)
    PROVE  DecodeField(f, e) = DecodeField(f, h)
  <1>1. \A i \in Int : i \in DecodeField(f, e) <=> i \in DecodeField(f, h)
    <2>1. CASE f = "version"
      BY <2>1, DecodedBits, DecodeByName DEF AgreeOn, BitOwner
    <2>2. CASE f = "type"
      BY <2>2, DecodedBits, DecodeByName DEF AgreeOn, BitOwner
    <2>3. CASE f = "sec_hdr_flag"
      BY <2>3, DecodedBits, DecodeByName DEF AgreeOn, BitOwner
    <2>4. CASE f = "apid"
      BY <2>4, DecodedBits, DecodeByName DEF AgreeOn, BitOwner
    <2>5. CASE f = "sequence_flags"
      BY <2>5, DecodedBits, DecodeByName DEF AgreeOn, BitOwner
    <2>6. CASE f = "packet_sequence_count"
      BY <2>6, DecodedBits, DecodeByName DEF AgreeOn, BitOwner
    <2>7. CASE f = "packet_data_length"
      BY <2>7, DecodedBits, DecodeByName DEF AgreeOn, BitOwner
    <2> QED
      BY <2>1, <2>2, <2>3, <2>4, <2>5, <2>6, <2>7 DEF PrimaryFields
  <1> QED
    BY <1>1, DecodedType

-----------------------------------------------------------------------------
\* The bits the setters change.  A byte of the field's own is assigned, a bit of
\* a shared one can only be added.  BitOf is the place of a bit in its field.
\* The secondary header flag is shifted on into the fields above it.
BitOf(j, i) ==
    CASE j = 0 /\ i \in 5..7 -> i - 5
      [] j = 0 /\ i = 4      -> 0
      [] j = 0 /\ i = 3      -> 0
      [] j = 0 /\ i \in 0..2 -> i + 8
      [] j = 2 /\ i \in 6..7 -> i - 6
      [] j = 2 /\ i \in 0..5 -> i + 8
      [] j = 4               -> i + 8
      [] j \in {1, 3, 5}     -> i

Sets(f, v, h, e) ==
    \A j \in 0..5, i \in 0..7 :
        i \in e[j] <=>
            IF BitOwner(j, i) = f
            THEN BitOf(j, i) \in v \/ (j \notin {1, 3, 5} /\ i \in h[j])
            ELSE \/ i \in h[j]
                 \/ f = "sec_hdr_flag" /\ j = 0 /\ i \in 4..7 /\ i - 3 \in v

\* Each setter by the name of its field.
LEMMA EncodeByName ==
    ASSUME NEW h, NEW v
    PROVE  /\ EncodeField("version", h, v) = encode_version(h, v)
           /\ EncodeField("type", h, v) = encode_type(h, v)
           /\ EncodeField("sec_hdr_flag", h, v) = encode_secondary_header_flag(h, v)
           /\ EncodeField("apid", h, v)
                = encode_application_process_identifier(h, v)
           /\ EncodeField("sequence_flags", h, v) = encode_sequence_flags(h, v)
           /\ EncodeField("packet_sequence_count", h, v)
                = encode_packet_sequence_count(h, v)
           /\ EncodeField("packet_data_length", h, v)
                = encode_packet_data_length(h, v)
  BY DEF EncodeField

\* Every setter but that of the sequence flags sets its field, and only that of
\* the secondary header flag sets another.
LEMMA EncodedBits ==
    ASSUME NEW f \in PrimaryFields, NEW v \in SUBSET (0..15),
           NEW h \in PrimaryBytes
    PROVE  /\ EncodeField(f, h, v) \in PrimaryBytes
           /\ f # "sequence_flags" => Sets(f, v, h, EncodeField(f, h, v))
           /\ f = "sequence_flags" => EncodeField(f, h, v) = h
  <1>0. h \in [0..5 -> Byte] /\ \A j \in 0..5 : h[j] \in SUBSET (0..7)
    BY PrimaryBytesType DEF PrimaryBytes
  <1>1. v \in SUBSET Int
    OBVIOUS
  <1>3. CASE f = "version"
    <2> DEFINE e == encode_version(h, v)
               u == v \cap 0..2
    <2>1. e = Or(h, 0, Shl(u, 5)) /\ u \in SUBSET Int
      BY <1>1 DEF encode_version
    <2>0. \A i \in Int : i \in u <=> i \in v /\ i \in 0..2
      BY <1>1
    <2> HIDE DEF e, u
    <2>2. /\ e \in PrimaryBytes
          /\ \A m \in 0..5 :
               e[m] = IF m = 0 THEN h[0] \cup (Shl(u, 5) \cap 0..7) ELSE h[m]
      BY <2>1, OrPrimary
    <2>3. \A i \in Int : i \in Shl(u, 5) <=> i - 5 \in u
      BY <2>1, ShlBits
    <2>4. Sets("version", v, h, e)
      BY <1>0, <2>0, <2>2, <2>3 DEF Sets, BitOwner, BitOf
    <2> QED
      BY <1>3, <2>2, <2>4, EncodeByName DEF e
  <1>4. CASE f = "type"
    <2> DEFINE e == encode_type(h, v)
               u == v \cap {0}
    <2>1. e = Or(h, 0, Shl(u, 4)) /\ u \in SUBSET Int
      BY <1>1 DEF encode_type
    <2>0. \A i \in Int : i \in u <=> i \in v /\ i \in {0}
      BY <1>1
    <2> HIDE DEF e, u
    <2>2. /\ e \in PrimaryBytes
          /\ \A m \in 0..5 :
               e[m] = IF m = 0 THEN h[0] \cup (Shl(u, 4) \cap 0..7) ELSE h[m]
      BY <2>1, OrPrimary
    <2>3. \A i \in Int : i \in Shl(u, 4) <=> i - 4 \in u
      BY <2>1, ShlBits
    <2>4. Sets("type", v, h, e)
      BY <1>0, <2>0, <2>2, <2>3 DEF Sets, BitOwner, BitOf
    <2> QED
      BY <1>4, <2>2, <2>4, EncodeByName DEF e
  <1>5. CASE f = "sec_hdr_flag"
    <2> DEFINE e == encode_secondary_header_flag(h, v)
    <2>1. e = Or(h, 0, Shl(v, 3))
      BY DEF encode_secondary_header_flag
    <2> HIDE DEF e
    <2>2. /\ e \in PrimaryBytes
          /\ \A m \in 0..5 :
               e[m] = IF m = 0 THEN h[0] \cup (Shl(v, 3) \cap 0..7) ELSE h[m]
      BY <2>1, OrPrimary
    <2>3. \A i \in Int : i \in Shl(v, 3) <=> i - 3 \in v
      BY <1>1, ShlBits
    <2>4. Sets("sec_hdr_flag", v, h, e)
      BY <1>0, <1>5, <2>2, <2>3 DEF Sets, BitOwner, BitOf
    <2> QED
      BY <1>5, <2>2, <2>4, EncodeByName DEF e
  <1>6. CASE f = "apid"
    <2> DEFINE d == Or(h, 0, Shr(v, 8) \cap 0..2)
               e == encode_application_process_identifier(h, v)
    <2>1. e = Put(d, 1, v)
      BY DEF encode_application_process_identifier
    <2> HIDE DEF e
    <2>2. /\ d \in PrimaryBytes
          /\ \A m \in 0..5 :
               d[m] = IF m = 0 THEN h[0] \cup ((Shr(v, 8) \cap 0..2) \cap 0..7)
                      ELSE h[m]
      BY OrPrimary
    <2> HIDE DEF d
    <2>3. /\ e \in PrimaryBytes
          /\ \A m \in 0..5 : e[m] = IF m = 1 THEN v \cap 0..7 ELSE d[m]
      BY <2>1, <2>2, PutPrimary
    <2>4. \A i \in Int : i \in Shr(v, 8) <=> i \in Nat /\ i + 8 \in v
      BY <1>1, ShrBits
    <2>5. Sets("apid", v, h, e)
      BY <1>0, <1>6, <2>2, <2>3, <2>4 DEF Sets, BitOwner, BitOf
    <2> QED
      BY <1>6, <2>3, <2>5, EncodeByName DEF e
  <1>7. CASE f = "sequence_flags"
    <2> DEFINE u == Shl(v \cap {6, 7}, 6)
    <2>1. u \cap 0..7 = {}
      BY DEF Shl
    <2> HIDE DEF u
    <2>2. Or(h, 2, u) = h
      BY <1>0, <2>1 DEF Or
    <2> QED
      BY <1>7, <2>2, EncodeByName DEF encode_sequence_flags, u
  <1>8. CASE f = "packet_sequence_count"
    <2> DEFINE u == v \cap 0..13
               d == Or(h, 2, Shr(u, 8) \cap 0..5)
               e == encode_packet_sequence_count(h, v)
    <2>0. u \in SUBSET Int /\ \A i \in Int : i \in u <=> i \in v /\ i \in 0..13
      BY <1>1
    <2>1. e = Put(d, 3, u)
      BY DEF encode_packet_sequence_count
    <2> HIDE DEF e, u
    <2>2. /\ d \in PrimaryBytes
          /\ \A m \in 0..5 :
               d[m] = IF m = 2 THEN h[2] \cup ((Shr(u, 8) \cap 0..5) \cap 0..7)
                      ELSE h[m]
      BY OrPrimary
    <2> HIDE DEF d
    <2>3. /\ e \in PrimaryBytes
          /\ \A m \in 0..5 : e[m] = IF m = 3 THEN u \cap 0..7 ELSE d[m]
      BY <2>1, <2>2, PutPrimary
    <2>4. \A i \in Int : i \in Shr(u, 8) <=> i \in Nat /\ i + 8 \in u
      BY <2>0, ShrBits
    <2>5. Sets("packet_sequence_count", v, h, e)
      BY <1>0, <2>0, <2>2, <2>3, <2>4 DEF Sets, BitOwner, BitOf
    <2> QED
      BY <1>8, <2>3, <2>5, EncodeByName DEF e
  <1>9. CASE f = "packet_data_length"
    <2> DEFINE d == Or(h, 4, Shr(v, 8))
               e == encode_packet_data_length(h, v)
    <2>1. e = Put(d, 5, v)
      BY DEF encode_packet_data_length
    <2> HIDE DEF e
    <2>2. /\ d \in PrimaryBytes
          /\ \A m \in 0..5 :
               d[m] = IF m = 4 THEN h[4] \cup ((Shr(v, 8)) \cap 0..7) ELSE h[m]
      BY OrPrimary
    <2> HIDE DEF d
    <2>3. /\ e \in PrimaryBytes
          /\ \A m \in 0..5 : e[m] = IF m = 5 THEN v \cap 0..7 ELSE d[m]
      BY <2>1, <2>2, PutPrimary
    <2>4. \A i \in Int : i \in Shr(v, 8) <=> i \in Nat /\ i + 8 \in v
      BY <1>1, ShrBits
    <2>5. Sets("packet_data_length", v, h, e)
      BY <1>0, <1>9, <2>2, <2>3, <2>4 DEF Sets, BitOwner, BitOf
    <2> QED
      BY <1>9, <2>3, <2>5, EncodeByName DEF e
  <1> QED
    BY <1>3, <1>4, <1>5, <1>6, <1>7, <1>8, <1>9 DEF PrimaryFields

\* What a field that holds old holds when it is given v.
Added(f, old, v) ==
    IF f = "sequence_flags" THEN old
    ELSE (v \cap Owned(f)) \cup ((old \cup (v \cap Room(f))) \ Owned(f))

\* What field g gets of a value v that is given to field f.
Spilled(f, g, v) ==
    CASE f = "sec_hdr_flag" /\ g = "type"    -> Shr(v \cap {1}, 1)
      [] f = "sec_hdr_flag" /\ g = "version" -> Shr(v \cap 2..4, 2)
      [] OTHER                               -> {}

\* The bits that are spilled.
LEMMA SpilledBits ==
    ASSUME NEW f, NEW g, NEW v \in SUBSET Int
    PROVE  /\ Spilled(f, g, v) \in SUBSET Int
           /\ \A i \in Int : i \in Spilled(f, g, v) <=>
                /\ f = "sec_hdr_flag"
                /\ \/ g = "type" /\ i = 0 /\ 1 \in v
                   \/ g = "version" /\ i \in 0..2 /\ i + 2 \in v
  <1>1. /\ v \cap {1} \in SUBSET Int /\ v \cap 2..4 \in SUBSET Int
        /\ \A s \in SUBSET Nat : s \in SUBSET Int
    OBVIOUS
  <1>2. CASE f = "sec_hdr_flag" /\ g = "type"
    <2>1. Spilled(f, g, v) = Shr(v \cap {1}, 1)
      BY <1>2 DEF Spilled
    <2>2. \A i \in Int : i \in Shr(v \cap {1}, 1) <=> i \in Nat /\ i + 1 \in v \cap {1}
      BY <1>1, ShrBits
    <2>3. Shr(v \cap {1}, 1) \in SUBSET Int
      BY <1>1, ShrBits
    <2> QED
      BY <1>2, <2>1, <2>2, <2>3
  <1>3. CASE f = "sec_hdr_flag" /\ g = "version"
    <2>1. Spilled(f, g, v) = Shr(v \cap 2..4, 2)
      BY <1>3 DEF Spilled
    <2>2. \A i \in Int : i \in Shr(v \cap 2..4, 2) <=> i \in Nat /\ i + 2 \in v \cap 2..4
      BY <1>1, ShrBits
    <2>3. Shr(v \cap 2..4, 2) \in SUBSET Int
      BY <1>1, ShrBits
    <2> QED
      BY <1>3, <2>1, <2>2, <2>3
  <1>4. CASE ~(f = "sec_hdr_flag" /\ g \in {"type", "version"})
    BY <1>4 DEF Spilled
  <1> QED
    BY <1>2, <1>3, <1>4

\* Values that are or-ed together are spilled together.
LEMMA SpilledUnion ==
    ASSUME NEW f, NEW g, NEW u \in SUBSET Int, NEW v \in SUBSET Int
    PROVE  Spilled(f, g, u \cup v) = Spilled(f, g, u) \cup Spilled(f, g, v)
  <1>1. u \cup v \in SUBSET Int
    OBVIOUS
  <1>2. \A i \in Int : i \in Spilled(f, g, u \cup v) <=>
                         i \in Spilled(f, g, u) \/ i \in Spilled(f, g, v)
    BY <1>1, SpilledBits
  <1>3. /\ Spilled(f, g, u \cup v) \in SUBSET Int
        /\ Spilled(f, g, u) \in SUBSET Int /\ Spilled(f, g, v) \in SUBSET Int
    BY <1>1, SpilledBits
  <1> QED
    BY <1>2, <1>3

\* A setter of the primary header adds the value to its own field.  Another field
\* keeps what it has, and gets only what is spilled.
LEMMA PrimarySetter ==
    ASSUME NEW f \in PrimaryFields, NEW v \in SUBSET (0..15), NEW h \in PrimaryBytes
    PROVE  /\ EncodeField(f, h, v) \in PrimaryBytes
           /\ DecodeField(f, EncodeField(f, h, v)) = Added(f, DecodeField(f, h), v)
           /\ \A g \in PrimaryFields \ {f} :
                DecodeField(g, EncodeField(f, h, v))
                  = DecodeField(g, h) \cup Spilled(f, g, v)
  <1> DEFINE e == EncodeField(f, h, v)
  <1>1. /\ e \in PrimaryBytes
        /\ f # "sequence_flags" => Sets(f, v, h, e)
        /\ f = "sequence_flags" => e = h
    BY EncodedBits
  <1>0. v \in SUBSET Int
    OBVIOUS
  <1> HIDE DEF e
  <1>2. ASSUME NEW g \in PrimaryFields \ {f}
        PROVE  DecodeField(g, e) = DecodeField(g, h) \cup Spilled(f, g, v)
    <2>1. CASE f = "sequence_flags"
      BY <1>1, <2>1 DEF Spilled
    <2>2. CASE f # "sequence_flags" /\ (f = "sec_hdr_flag" => g \notin {"type", "version"})
      <3>1. AgreeOn(g, h, e)
        BY <1>1, <2>2 DEF Sets, AgreeOn, BitOwner
      <3>2. Spilled(f, g, v) = {}
        BY <2>2 DEF Spilled
      <3> QED
        BY <1>1, <3>1, <3>2, DecodeLocal
    <2>3. CASE f = "sec_hdr_flag" /\ g \in {"type", "version"}
      <3>1. Sets("sec_hdr_flag", v, h, e)
        BY <1>1, <2>3
      <3>2. \A i \in Int : i \in DecodeField(g, e) <=>
                             i \in DecodeField(g, h) \/ i \in Spilled(f, g, v)
        <4>1. CASE g = "type"
          <5>1. 4 \in e[0] <=> 4 \in h[0] \/ 1 \in v
            BY <3>1 DEF Sets, BitOwner
          <5>2. \A i \in Int : i \in Spilled(f, g, v) <=> i = 0 /\ 1 \in v
            BY <1>0, <2>3, <4>1, SpilledBits
          <5> QED
            BY <1>1, <4>1, <5>1, <5>2, DecodedBits, DecodeByName
        <4>2. CASE g = "version"
          <5>1. \A i \in 0..2 : i + 5 \in e[0] <=> i + 5 \in h[0] \/ i + 2 \in v
            <6>1. ASSUME NEW k \in 5..7
                  PROVE  k \in e[0] <=> k \in h[0] \/ k - 3 \in v
              BY <3>1 DEF Sets, BitOwner
            <6>2. ASSUME NEW i \in 0..2
                  PROVE  i + 5 \in 5..7 /\ (i + 5) - 3 = i + 2
              OBVIOUS
            <6> QED
              BY <6>1, <6>2
          <5>2. \A i \in Int :
                  i \in Spilled(f, g, v) <=> i \in 0..2 /\ i + 2 \in v
            BY <1>0, <2>3, <4>2, SpilledBits
          <5> QED
            BY <1>1, <4>2, <5>1, <5>2, DecodedBits, DecodeByName
        <4> QED
          BY <2>3, <4>1, <4>2
      <3>3. /\ DecodeField(g, e) \in SUBSET Int /\ DecodeField(g, h) \in SUBSET Int
            /\ Spilled(f, g, v) \in SUBSET Int
        BY <1>0, <1>1, DecodedType, SpilledBits
      <3> QED
        BY <3>2, <3>3
    <2> QED
      BY <2>1, <2>2, <2>3
  <1>3. DecodeField(f, e) = Added(f, DecodeField(f, h), v)
    <2>0. /\ DecodeField(f, e) \in SUBSET Int /\ DecodeField(f, h) \in SUBSET Int
          /\ v \in SUBSET Int
      BY <1>0, <1>1, DecodedType
    <2>1. CASE f = "sequence_flags"
      BY <1>1, <2>1 DEF Added
    <2>2. CASE f \in {"version", "type", "sec_hdr_flag"}
      <3>1. \A i \in Int :
              i \in DecodeField(f, e) <=> i \in DecodeField(f, h) \cup (v \cap Room(f))
        <4>1. Sets(f, v, h, e)
          BY <1>1, <2>2
        <4>2. CASE f = "version"
          BY <1>1, <4>1, <4>2, DecodedBits, DecodeByName, Rooms
          DEF Sets, BitOwner, BitOf
        <4>3. CASE f = "type"
          BY <1>1, <4>1, <4>3, DecodedBits, DecodeByName, Rooms
          DEF Sets, BitOwner, BitOf
        <4>4. CASE f = "sec_hdr_flag"
          BY <1>1, <4>1, <4>4, DecodedBits, DecodeByName, Rooms
          DEF Sets, BitOwner, BitOf
        <4> QED
          BY <2>2, <4>2, <4>3, <4>4
      <3>2. DecodeField(f, e) = DecodeField(f, h) \cup (v \cap Room(f))
        BY <2>0, <3>1
      <3>3. Owned(f) = {}
        BY <2>2 DEF Owned
      <3> QED
        BY <2>2, <3>2, <3>3 DEF Added
    <2>3. CASE f \in {"apid", "packet_sequence_count", "packet_data_length"}
      <3>1. Sets(f, v, h, e)
        BY <1>1, <2>3
      <3>2. ASSUME NEW i \in Int
            PROVE  i \in DecodeField(f, e) <=>
                     IF i \in 0..7 THEN i \in v
                     ELSE i \in DecodeField(f, h) \cup (v \cap Room(f))
        <4>2. CASE f = "apid"
          BY <1>1, <3>1, <4>2, DecodedBits, DecodeByName, Rooms
          DEF Sets, BitOwner, BitOf
        <4>3. CASE f = "packet_sequence_count"
          BY <1>1, <3>1, <4>3, DecodedBits, DecodeByName, Rooms
          DEF Sets, BitOwner, BitOf
        <4>4. CASE f = "packet_data_length"
          BY <1>1, <3>1, <4>4, DecodedBits, DecodeByName, Rooms
          DEF Sets, BitOwner, BitOf
        <4> QED
          BY <2>3, <4>2, <4>3, <4>4
      <3>3. Owned(f) = 0..7
        BY <2>3 DEF Owned
      <3> QED
        BY <2>0, <2>3, <3>2, <3>3 DEF Added
    <2> QED
      BY <2>1, <2>2, <2>3 DEF PrimaryFields
  <1> QED
    BY <1>1, <1>2, <1>3 DEF e

\* Every setter but that of the secondary header flag leaves the others as they are.
LEMMA PlainSetter ==
    ASSUME NEW f \in PrimaryFields \ {"sec_hdr_flag"}, NEW v \in SUBSET (0..15),
           NEW h \in PrimaryBytes
    PROVE  /\ EncodeField(f, h, v) \in PrimaryBytes
           /\ DecodeField(f, EncodeField(f, h, v)) = Added(f, DecodeField(f, h), v)
           /\ \A g \in PrimaryFields \ {f} :
                DecodeField(g, EncodeField(f, h, v)) = DecodeField(g, h)
  <1>1. \A g : Spilled(f, g, v) = {}
    BY DEF Spilled
  <1>2. /\ EncodeField(f, h, v) \in PrimaryBytes
        /\ DecodeField(f, EncodeField(f, h, v)) = Added(f, DecodeField(f, h), v)
    BY PrimarySetter
  <1>3. ASSUME NEW g \in PrimaryFields \ {f}
        PROVE  DecodeField(g, EncodeField(f, h, v)) = DecodeField(g, h)
    <2>1. DecodeField(g, EncodeField(f, h, v))
            = DecodeField(g, h) \cup Spilled(f, g, v)
      BY PrimarySetter
    <2>2. Spilled(f, g, v) = {}
      BY <1>1
    <2> QED
      BY <2>1, <2>2
  <1> QED
    BY <1>2, <1>3

\* The constructor gives each field its value once, the flag after the type and
\* the version.
LEMMA PrimaryConstructor ==
    ASSUME NEW h \in PrimaryBytes, NEW a,
           \A f \in PrimaryFields : a[f] \in SUBSET (0..15)
    PROVE  /\ EncodeAll(h, a) \in PrimaryBytes
           /\ \A f \in PrimaryFields :
                DecodeField(f, EncodeAll(h, a))
                  = Added(f, DecodeField(f, h), a[f])
                    \cup Spilled("sec_hdr_flag", f, a["sec_hdr_flag"])
  <1> DEFINE h1 == EncodeField("type", h, a["type"])
             h2 == EncodeField("version", h1, a["version"])
             h3 == EncodeField("sequence_flags", h2, a["sequence_flags"])
             h4 == EncodeField("sec_hdr_flag", h3, a["sec_hdr_flag"])
             h5 == EncodeField("packet_sequence_count", h4,
                               a["packet_sequence_count"])
             h6 == EncodeField("apid", h5, a["apid"])
             h7 == EncodeField("packet_data_length", h6, a["packet_data_length"])
  <1>0. /\ h1 = encode_type(h, a.type)
        /\ h2 = encode_version(h1, a.version)
        /\ h3 = encode_sequence_flags(h2, a.sequence_flags)
        /\ h4 = encode_secondary_header_flag(h3, a.sec_hdr_flag)
        /\ h5 = encode_packet_sequence_count(h4, a.packet_sequence_count)
        /\ h6 = encode_application_process_identifier(h5, a.apid)
        /\ h7 = encode_packet_data_length(h6, a.packet_data_length)
    <2> HIDE DEF h1, h2, h3, h4, h5, h6, h7
    <2>1. h1 = encode_type(h, a.type)
      BY EncodeByName DEF h1
    <2>2. h2 = encode_version(h1, a.version)
      BY EncodeByName DEF h2
    <2>3. h3 = encode_sequence_flags(h2, a.sequence_flags)
      BY EncodeByName DEF h3
    <2>4. h4 = encode_secondary_header_flag(h3, a.sec_hdr_flag)
      BY EncodeByName DEF h4
    <2>5. h5 = encode_packet_sequence_count(h4, a.packet_sequence_count)
      BY EncodeByName DEF h5
    <2>6. h6 = encode_application_process_identifier(h5, a.apid)
      BY EncodeByName DEF h6
    <2>7. h7 = encode_packet_data_length(h6, a.packet_data_length)
      BY EncodeByName DEF h7
    <2> QED
      BY <2>1, <2>2, <2>3, <2>4, <2>5, <2>6, <2>7
  <1>1. EncodeAll(h, a) = h7
    <2> HIDE DEF h1, h2, h3, h4, h5, h6, h7
    <2> QED
      BY <1>0, Zenon DEF EncodeAll
  <1> DEFINE s(g) == Spilled("sec_hdr_flag", g, a["sec_hdr_flag"])
  <1>9. s("sec_hdr_flag") = {}
    BY DEF Spilled
  <1>2. /\ h1 \in PrimaryBytes
        /\ DecodeField("type", h1)
             = Added("type", DecodeField("type", h), a["type"])
        /\ \A g \in PrimaryFields \ {"type"} :
             DecodeField(g, h1) = DecodeField(g, h)
    BY PlainSetter DEF PrimaryFields
  <1> HIDE DEF h1
  <1>3. /\ h2 \in PrimaryBytes
        /\ DecodeField("version", h2)
             = Added("version", DecodeField("version", h1), a["version"])
        /\ \A g \in PrimaryFields \ {"version"} :
             DecodeField(g, h2) = DecodeField(g, h1)
    BY <1>2, PlainSetter DEF PrimaryFields
  <1> HIDE DEF h2
  <1>4. /\ h3 \in PrimaryBytes
        /\ DecodeField("sequence_flags", h3)
             = Added("sequence_flags", DecodeField("sequence_flags", h2),
                     a["sequence_flags"])
        /\ \A g \in PrimaryFields \ {"sequence_flags"} :
             DecodeField(g, h3) = DecodeField(g, h2)
    BY <1>3, PlainSetter DEF PrimaryFields
  <1> HIDE DEF h3
  <1>5. /\ h4 \in PrimaryBytes
        /\ DecodeField("sec_hdr_flag", h4)
             = Added("sec_hdr_flag", DecodeField("sec_hdr_flag", h3),
                     a["sec_hdr_flag"])
        /\ \A g \in PrimaryFields \ {"sec_hdr_flag"} :
             DecodeField(g, h4) = DecodeField(g, h3) \cup s(g)
    BY <1>4, PrimarySetter DEF PrimaryFields
  <1> HIDE DEF h4, s
  <1>6. /\ h5 \in PrimaryBytes
        /\ DecodeField("packet_sequence_count", h5)
             = Added("packet_sequence_count",
                     DecodeField("packet_sequence_count", h4),
                     a["packet_sequence_count"])
        /\ \A g \in PrimaryFields \ {"packet_sequence_count"} :
             DecodeField(g, h5) = DecodeField(g, h4)
    BY <1>5, PlainSetter DEF PrimaryFields
  <1> HIDE DEF h5
  <1>7. /\ h6 \in PrimaryBytes
        /\ DecodeField("apid", h6)
             = Added("apid", DecodeField("apid", h5), a["apid"])
        /\ \A g \in PrimaryFields \ {"apid"} :
             DecodeField(g, h6) = DecodeField(g, h5)
    BY <1>6, PlainSetter DEF PrimaryFields
  <1> HIDE DEF h6
  <1>8. /\ h7 \in PrimaryBytes
        /\ DecodeField("packet_data_length", h7)
             = Added("packet_data_length", DecodeField("packet_data_length", h6),
                     a["packet_data_length"])
        /\ \A g \in PrimaryFields \ {"packet_data_length"} :
             DecodeField(g, h7) = DecodeField(g, h6)
    BY <1>7, PlainSetter DEF PrimaryFields
  <1> HIDE DEF h7
  <1>10. ASSUME NEW f \in PrimaryFields
         PROVE  DecodeField(f, h7) = Added(f, DecodeField(f, h), a[f]) \cup s(f)
    <2>1. CASE f \in {"type", "version"}
      BY <1>2, <1>3, <1>4, <1>5, <1>6, <1>7, <1>8, <2>1 DEF PrimaryFields
    <2>2. CASE f = "sec_hdr_flag"
      BY <1>2, <1>3, <1>4, <1>5, <1>6, <1>7, <1>8, <1>9, <2>2 DEF PrimaryFields
    <2>3. CASE f \notin {"type", "version", "sec_hdr_flag"}
      <3>1. s(f) = {}
        BY <2>3 DEF s, Spilled
      <3> QED
        BY <1>2, <1>3, <1>4, <1>5, <1>6, <1>7, <1>8, <2>3, <3>1 DEF PrimaryFields
    <2> QED
      BY <2>1, <2>2, <2>3
  <1> QED
    BY <1>1, <1>8, <1>10 DEF s

-----------------------------------------------------------------------------
\* What reaches a field is what its own setter has room for, and what is spilled.
LEMMA Reached ==
    ASSUME NEW f \in PrimaryFields
    PROVE  Reaching(f) = (IF f = "sequence_flags" THEN {} ELSE given[f] \cap Room(f))
                         \cup Spilled("sec_hdr_flag", f, given["sec_hdr_flag"])
  <1>1. CASE f \in {"type", "version"}
    BY <1>1 DEF Reaching, Spilled
  <1>2. CASE f \notin {"type", "version"}
    BY <1>2 DEF Reaching, Spilled
  <1> QED
    BY <1>1, <1>2

\* The inductive invariant of a primary header: the bytes and the history are
\* well-formed, a field that was not given a value has none in the history, and
\* what the fields hold is what has accumulated.
PrimaryInv ==
    /\ d_primary_header \in PrimaryBytes /\ start \in PrimaryBytes
    /\ given \in [PrimaryFields -> SUBSET Int]
    /\ arg \in [PrimaryFields -> SUBSET Int]
    /\ written \subseteq PrimaryFields
    /\ \A f \in PrimaryFields \ written : given[f] = {}
    /\ \A f \in PrimaryFields : arg[f] \subseteq given[f]
    /\ FieldsAccumulate

\* It holds of a new object.
LEMMA PrimaryInit == Init => PrimaryInv
  <1> SUFFICES ASSUME Init PROVE PrimaryInv
    OBVIOUS
  <1>1. /\ d_primary_header \in PrimaryBytes /\ start = d_primary_header
        /\ given = [f \in PrimaryFields |-> {}] /\ arg = given /\ written = {}
    BY PrimaryAssumption DEF Init
  <1>2. \A f \in PrimaryFields : Reaching(f) = {}
    <2>1. given["sec_hdr_flag"] = {}
      BY <1>1 DEF PrimaryFields
    <2>2. \A f : Spilled("sec_hdr_flag", f, {}) = {}
      BY DEF Spilled, Shr
    <2> QED
      BY <1>1, <2>1, <2>2, Reached
  <1>3. FieldsAccumulate
    BY <1>1, <1>2 DEF FieldsAccumulate, Accumulated
  <1> QED
    BY <1>1, <1>3 DEF PrimaryInv

\* Every step of the object keeps it.
LEMMA PrimaryStep ==
    ASSUME PrimaryInv, Next
    PROVE  PrimaryInv'
  <1> DEFINE s(g, v) == Spilled("sec_hdr_flag", g, v)
             own(g) == IF g = "sequence_flags" THEN {} ELSE given[g] \cap Room(g)
  <1>0. "sec_hdr_flag" \in PrimaryFields
    BY DEF PrimaryFields
  <1>1. \A f \in PrimaryFields : \A v \in Values(f) : v \in SUBSET (0..15)
    BY ValuesBits
  <1>5. \A f \in PrimaryFields :
          /\ Reaching(f) = own(f) \cup s(f, given["sec_hdr_flag"])
          /\ Reaching(f)' = own(f)' \cup s(f, given'["sec_hdr_flag"])
    <2>1. ASSUME NEW f \in PrimaryFields
          PROVE  Reaching(f)' = own(f)' \cup s(f, given'["sec_hdr_flag"])
      <3>1. CASE f \in {"type", "version"}
        BY <3>1 DEF Reaching, Spilled
      <3>2. CASE f \notin {"type", "version"}
        BY <3>2 DEF Reaching, Spilled
      <3> QED
        BY <3>1, <3>2
    <2> QED
      BY <2>1, Reached
  <1>6. \A g : s(g, {}) = {}
    BY DEF Spilled, Shr
  <1> HIDE DEF s
  <1>2. CASE Construct
    <2>1. /\ \A f \in PrimaryFields : arg'[f] \in SUBSET (0..15)
          /\ arg' \in [PrimaryFields -> SUBSET Int]
      <3>1. /\ arg'.version \in Samples.version
            /\ arg'.type \in Samples.type
            /\ arg'.sec_hdr_flag \in Samples.sec_hdr_flag
            /\ arg'.apid \in Samples.apid
            /\ arg'.sequence_flags \in Samples.sequence_flags
            /\ arg'.packet_sequence_count \in Samples.packet_sequence_count
            /\ arg'.packet_data_length \in Samples.packet_data_length
            /\ arg' = [f \in PrimaryFields |-> arg'[f]]
        BY <1>2 DEF Construct, PrimaryFields
      <3>2. \A f \in PrimaryFields : arg'[f] \in Values(f)
        BY <3>1, PrimaryAssumption DEF PrimaryFields
      <3>3. \A f \in PrimaryFields : arg'[f] \in SUBSET (0..15)
        BY <1>1, <3>2
      <3>4. \A v \in SUBSET (0..15) : v \in SUBSET Int
        OBVIOUS
      <3> QED
        BY <3>1, <3>3, <3>4
    <2>2. /\ d_primary_header' \in PrimaryBytes
          /\ \A f \in PrimaryFields :
               DecodeField(f, d_primary_header')
                 = Added(f, DecodeField(f, d_primary_header), arg'[f])
                   \cup s(f, arg'["sec_hdr_flag"])
      BY <1>2, <2>1, PrimaryConstructor DEF Construct, PrimaryInv, s
    <2>4. /\ \A f \in PrimaryFields : given[f] = {}
          /\ given' = arg' /\ written' = PrimaryFields /\ start' = start
      BY <1>2 DEF Construct, PrimaryInv
    <2>3. ASSUME NEW f \in PrimaryFields
          PROVE  DecodeField(f, d_primary_header') = Accumulated(f)'
      <3>1. DecodeField(f, d_primary_header) = DecodeField(f, start)
        <4>1. Reaching(f) = {}
          BY <1>0, <1>5, <1>6, <2>4
        <4>2. written = {}
          BY <1>2 DEF Construct
        <4> QED
          BY <4>1, <4>2 DEF PrimaryInv, FieldsAccumulate, Accumulated
      <3> DEFINE d == DecodeField(f, start)
                 r == Reaching(f)'
                 t == s(f, arg'["sec_hdr_flag"])
      <3>2. Accumulated(f)' = (arg'[f] \cap Owned(f)) \cup ((d \cup r) \ Owned(f))
        BY <2>4 DEF Accumulated
      <3>3. r = own(f)' \cup t
        BY <1>5, <2>4
      <3>4. own(f)' = IF f = "sequence_flags" THEN {} ELSE arg'[f] \cap Room(f)
        BY <2>4
      <3>5. DecodeField(f, d_primary_header') = Added(f, d, arg'[f]) \cup t
        BY <2>2, <3>1
      <3>6. Owned(f) # {} => t = {}
        BY DEF Owned, s, Spilled
      <3>7. f = "sequence_flags" => Owned(f) = {}
        BY DEF Owned
      <3> HIDE DEF d, r, t, own
      <3> QED
        BY <3>2, <3>3, <3>4, <3>5, <3>6, <3>7 DEF Added
    <2> QED
      BY <2>1, <2>2, <2>3, <2>4 DEF PrimaryInv, FieldsAccumulate
  <1>3. ASSUME NEW f \in PrimaryFields, NEW v \in Samples[f], Encode(f, v)
        PROVE  PrimaryInv'
    <2>1. v \in SUBSET (0..15) /\ v \in SUBSET Int
      <3>1. v \in SUBSET (0..15)
        BY <1>1, PrimaryAssumption
      <3> QED
        BY <3>1
    <2>2. /\ d_primary_header' \in PrimaryBytes
          /\ DecodeField(f, d_primary_header')
               = Added(f, DecodeField(f, d_primary_header), v)
          /\ \A g \in PrimaryFields \ {f} :
               DecodeField(g, d_primary_header')
                 = DecodeField(g, d_primary_header) \cup Spilled(f, g, v)
      BY <1>3, <2>1, PrimarySetter DEF Encode, PrimaryInv
    <2>3. /\ given' \in [PrimaryFields -> SUBSET Int]
          /\ arg' \in [PrimaryFields -> SUBSET Int]
          /\ given'[f] = given[f] \cup v /\ arg'[f] = v
          /\ \A g \in PrimaryFields \ {f} : given'[g] = given[g] /\ arg'[g] = arg[g]
          /\ written' = written \cup {f} /\ start' = start
      BY <1>3, <2>1 DEF Encode, PrimaryInv
    <2>6. \A g \in PrimaryFields : Owned(g) # {} \/ g = f =>
            Spilled(f, g, v) = {}
      BY DEF Owned, Spilled
    <2>7. ASSUME NEW g \in PrimaryFields
          PROVE  s(g, given'["sec_hdr_flag"])
                   = s(g, given["sec_hdr_flag"]) \cup Spilled(f, g, v)
      <3>1. CASE f = "sec_hdr_flag"
        <4>1. given["sec_hdr_flag"] \in SUBSET Int
          BY <1>0 DEF PrimaryInv
        <4>2. s(g, given["sec_hdr_flag"] \cup v)
                = s(g, given["sec_hdr_flag"]) \cup Spilled("sec_hdr_flag", g, v)
          BY <2>1, <4>1, SpilledUnion DEF s
        <4> QED
          BY <2>3, <3>1, <4>2
      <3>2. CASE f # "sec_hdr_flag"
        <4>1. Spilled(f, g, v) = {}
          BY <3>2 DEF Spilled
        <4> QED
          BY <1>0, <2>3, <3>2, <4>1
      <3> QED
        BY <3>1, <3>2
    <2>8. ASSUME NEW g \in PrimaryFields, Owned(g) # {}
          PROVE  s(g, given["sec_hdr_flag"]) = {} /\ g # "sequence_flags"
      BY <2>8 DEF Owned, s, Spilled
    <2>4. DecodeField(f, d_primary_header') = Accumulated(f)'
      <3> DEFINE d == DecodeField(f, start)
                 r == Reaching(f)
                 q == Reaching(f)'
                 w == IF f \in written THEN arg[f] ELSE d
                 t == s(f, given["sec_hdr_flag"])
      <3>1. DecodeField(f, d_primary_header)
              = (w \cap Owned(f)) \cup ((d \cup r) \ Owned(f))
        BY DEF PrimaryInv, FieldsAccumulate, Accumulated
      <3>2. Accumulated(f)' = (v \cap Owned(f)) \cup ((d \cup q) \ Owned(f))
        BY <2>3 DEF Accumulated
      <3>3. r = own(f) \cup t
        BY <1>5
      <3>4. q = own(f)' \cup t
        BY <1>5, <2>6, <2>7
      <3>5. own(f)' = IF f = "sequence_flags" THEN {}
                      ELSE (given[f] \cup v) \cap Room(f)
        BY <2>3
      <3>6. own(f) = IF f = "sequence_flags" THEN {} ELSE given[f] \cap Room(f)
        OBVIOUS
      <3>7. f = "sequence_flags" => Owned(f) = {}
        BY DEF Owned
      <3> HIDE DEF d, r, q, w, t, own
      <3>8. CASE f = "sequence_flags"
        BY <2>2, <3>1, <3>2, <3>3, <3>4, <3>5, <3>6, <3>7, <3>8 DEF Added
      <3>9. CASE f # "sequence_flags"
        BY <2>2, <3>1, <3>2, <3>3, <3>4, <3>5, <3>6, <3>9 DEF Added
      <3> QED
        BY <3>8, <3>9
    <2>5. ASSUME NEW g \in PrimaryFields \ {f}
          PROVE  DecodeField(g, d_primary_header') = Accumulated(g)'
      <3> DEFINE d == DecodeField(g, start)
                 r == Reaching(g)
                 q == Reaching(g)'
                 w == IF g \in written THEN arg[g] ELSE d
      <3>1. DecodeField(g, d_primary_header)
              = (w \cap Owned(g)) \cup ((d \cup r) \ Owned(g))
        BY DEF PrimaryInv, FieldsAccumulate, Accumulated
      <3>2. Accumulated(g)' = (w \cap Owned(g)) \cup ((d \cup q) \ Owned(g))
        BY <2>3 DEF Accumulated
      <3>3. r = own(g) \cup s(g, given["sec_hdr_flag"])
        BY <1>5
      <3>4. q = own(g)' \cup s(g, given'["sec_hdr_flag"])
        BY <1>5
      <3>5. own(g)' = own(g)
        BY <2>3
      <3>6. q = r \cup Spilled(f, g, v)
        BY <2>7, <3>3, <3>4, <3>5
      <3>7. Owned(g) # {} => Spilled(f, g, v) = {}
        BY <2>6
      <3>8. DecodeField(g, d_primary_header')
              = DecodeField(g, d_primary_header) \cup Spilled(f, g, v)
        BY <2>2
      <3> HIDE DEF d, r, q, w, own
      <3> QED
        BY <3>1, <3>2, <3>6, <3>7, <3>8
    <2>9. /\ \A g \in PrimaryFields \ written' : given'[g] = {}
          /\ \A g \in PrimaryFields : arg'[g] \subseteq given'[g]
      BY <2>3 DEF PrimaryInv
    <2>10. /\ d_primary_header' \in PrimaryBytes /\ start' \in PrimaryBytes
           /\ written' \subseteq PrimaryFields
      BY <2>2, <2>3 DEF PrimaryInv
    <2> QED
      BY <2>3, <2>4, <2>5, <2>9, <2>10 DEF PrimaryInv, FieldsAccumulate
  <1>4. ASSUME NEW hdr \in Received, SetPrimaryHeader(hdr)
        PROVE  PrimaryInv'
    <2>1. /\ hdr \in PrimaryBytes
          /\ d_primary_header' = hdr /\ start' = hdr /\ written' = {}
          /\ given' = [f \in PrimaryFields |-> {}] /\ arg' = given'
      BY <1>4, PrimaryAssumption DEF SetPrimaryHeader
    <2>2. \A f \in PrimaryFields : Reaching(f)' = {}
      BY <1>0, <1>5, <1>6, <2>1
    <2>3. FieldsAccumulate'
      BY <2>1, <2>2 DEF FieldsAccumulate, Accumulated
    <2> QED
      BY <2>1, <2>3 DEF PrimaryInv
  <1> QED
    BY <1>2, <1>3, <1>4 DEF Next

\* A field holds no bit but its own as long as no flag but 0 and 1 was given.
LEMMA PrimaryApart ==
    ASSUME PrimaryInv, given["sec_hdr_flag"] \subseteq {0}
    PROVE  FieldsApart
  <1> SUFFICES ASSUME NEW f \in PrimaryFields
               PROVE  DecodeField(f, d_primary_header)
                        \subseteq DecodeField(f, start) \cup given[f]
    BY DEF FieldsApart
  <1>1. Spilled("sec_hdr_flag", f, given["sec_hdr_flag"]) = {}
    BY SpilledBits DEF PrimaryInv, PrimaryFields
  <1>2. Reaching(f) \subseteq given[f]
    BY <1>1, Reached
  <1>3. arg[f] \subseteq given[f] /\ DecodeField(f, d_primary_header) = Accumulated(f)
    BY DEF PrimaryInv, FieldsAccumulate
  <1> QED
    BY <1>2, <1>3 DEF Accumulated

-----------------------------------------------------------------------------
\* The bits of a number, one by one.
LEMMA BitByBit ==
    ASSUME NEW n \in Nat
    PROVE  /\ Bits(n) \in SUBSET (0..15)
           /\ (0 \in Bits(n) <=> n % 2 = 1)
           /\ (1 \in Bits(n) <=> (n \div 2) % 2 = 1)
           /\ (2 \in Bits(n) <=> (n \div 4) % 2 = 1)
           /\ (3 \in Bits(n) <=> (n \div 8) % 2 = 1)
           /\ (4 \in Bits(n) <=> (n \div 16) % 2 = 1)
           /\ (5 \in Bits(n) <=> (n \div 32) % 2 = 1)
           /\ (6 \in Bits(n) <=> (n \div 64) % 2 = 1)
           /\ (7 \in Bits(n) <=> (n \div 128) % 2 = 1)
           /\ (8 \in Bits(n) <=> (n \div 256) % 2 = 1)
           /\ (9 \in Bits(n) <=> (n \div 512) % 2 = 1)
           /\ (10 \in Bits(n) <=> (n \div 1024) % 2 = 1)
           /\ (11 \in Bits(n) <=> (n \div 2048) % 2 = 1)
           /\ (12 \in Bits(n) <=> (n \div 4096) % 2 = 1)
           /\ (13 \in Bits(n) <=> (n \div 8192) % 2 = 1)
           /\ (14 \in Bits(n) <=> (n \div 16384) % 2 = 1)
           /\ (15 \in Bits(n) <=> (n \div 32768) % 2 = 1)
  <1>1. /\ 2^0 = 1 /\ 2^1 = 2 /\ 2^2 = 4 /\ 2^3 = 8 /\ 2^4 = 16 /\ 2^5 = 32
        /\ 2^6 = 64 /\ 2^7 = 128
        /\ 2^8 = 256 /\ 2^9 = 512 /\ 2^10 = 1024 /\ 2^11 = 2048 /\ 2^12 = 4096
        /\ 2^13 = 8192 /\ 2^14 = 16384 /\ 2^15 = 32768
    OBVIOUS
  <1>2. Bits(n) \in SUBSET (0..15)
    BY DEF Bits
  <1>3. 0 \in Bits(n) <=> n % 2 = 1
    BY <1>1 DEF Bits
  <1>4. 1 \in Bits(n) <=> (n \div 2) % 2 = 1
    BY <1>1 DEF Bits
  <1>5. 2 \in Bits(n) <=> (n \div 4) % 2 = 1
    BY <1>1 DEF Bits
  <1>6. 3 \in Bits(n) <=> (n \div 8) % 2 = 1
    BY <1>1 DEF Bits
  <1>7. 4 \in Bits(n) <=> (n \div 16) % 2 = 1
    BY <1>1 DEF Bits
  <1>8. 5 \in Bits(n) <=> (n \div 32) % 2 = 1
    BY <1>1 DEF Bits
  <1>9. 6 \in Bits(n) <=> (n \div 64) % 2 = 1
    BY <1>1 DEF Bits
  <1>10. 7 \in Bits(n) <=> (n \div 128) % 2 = 1
    BY <1>1 DEF Bits
  <1>11. 8 \in Bits(n) <=> (n \div 256) % 2 = 1
    BY <1>1 DEF Bits
  <1>12. 9 \in Bits(n) <=> (n \div 512) % 2 = 1
    BY <1>1 DEF Bits
  <1>13. 10 \in Bits(n) <=> (n \div 1024) % 2 = 1
    BY <1>1 DEF Bits
  <1>14. 11 \in Bits(n) <=> (n \div 2048) % 2 = 1
    BY <1>1 DEF Bits
  <1>15. 12 \in Bits(n) <=> (n \div 4096) % 2 = 1
    BY <1>1 DEF Bits
  <1>16. 13 \in Bits(n) <=> (n \div 8192) % 2 = 1
    BY <1>1 DEF Bits
  <1>17. 14 \in Bits(n) <=> (n \div 16384) % 2 = 1
    BY <1>1 DEF Bits
  <1>18. 15 \in Bits(n) <=> (n \div 32768) % 2 = 1
    BY <1>1 DEF Bits
  <1> QED
    BY <1>2, <1>3, <1>4, <1>5, <1>6, <1>7, <1>8, <1>9, <1>10, <1>11, <1>12, <1>13,
       <1>14, <1>15, <1>16, <1>17, <1>18

\* Small numbers have small bits.
LEMMA SmallBits ==
    ASSUME NEW n \in Nat
    PROVE  /\ n < 16 => Bits(n) \in SUBSET (0..3)
           /\ n < 32 => Bits(n) \in SUBSET (0..4)
           /\ n < 256 => Bits(n) \in SUBSET (0..7)
           /\ n < 4096 => Bits(n) \in SUBSET (0..11)
  <1>1. n < 4096 => /\ 12 \notin Bits(n) /\ 13 \notin Bits(n)
                    /\ 14 \notin Bits(n) /\ 15 \notin Bits(n)
    BY BitByBit
  <1>2. n < 256 => /\ 8 \notin Bits(n) /\ 9 \notin Bits(n)
                   /\ 10 \notin Bits(n) /\ 11 \notin Bits(n)
    BY BitByBit
  <1>3. n < 32 => 5 \notin Bits(n) /\ 6 \notin Bits(n) /\ 7 \notin Bits(n)
    BY BitByBit
  <1>4. n < 16 => 4 \notin Bits(n)
    BY BitByBit
  <1>5. Bits(n) \in SUBSET (0..15)
    BY BitByBit
  <1> QED
    BY <1>1, <1>2, <1>3, <1>4, <1>5

\* The bits of the numbers the codes are.
LEMMA FewBits ==
    /\ Bits(0) = {} /\ Bits(1) = {0} /\ Bits(2) = {1} /\ Bits(3) = {0, 1}
    /\ Bits(7) = {0, 1, 2} /\ Bits(15) = {0, 1, 2, 3}
    /\ Bits(32) = {5} /\ Bits(4096) = {12}
  <1>1. Bits(0) = {}
    BY BitByBit
  <1>2. Bits(1) = {0}
    BY BitByBit
  <1>3. Bits(2) = {1}
    BY BitByBit
  <1>4. Bits(3) = {0, 1}
    BY BitByBit
  <1>5. Bits(7) = {0, 1, 2}
    BY BitByBit
  <1>6. Bits(15) = {0, 1, 2, 3}
    BY BitByBit
  <1>7. Bits(32) = {5}
    BY BitByBit
  <1>8. Bits(4096) = {12}
    BY BitByBit
  <1> QED
    BY <1>1, <1>2, <1>3, <1>4, <1>5, <1>6, <1>7, <1>8

\* The lowest four bits.
LEMMA LowBits ==
    ASSUME NEW n \in Nat, n < 256
    PROVE  Bits(n) \cap 0..3 = Bits(n % 16)
  <1>1. n % 16 \in Nat /\ n % 16 < 16
    OBVIOUS
  <1>2. Bits(n % 16) \in SUBSET (0..3)
    BY <1>1, SmallBits
  <1>3. /\ (n % 16) % 2 = n % 2 /\ ((n % 16) \div 2) % 2 = (n \div 2) % 2
        /\ ((n % 16) \div 4) % 2 = (n \div 4) % 2
        /\ ((n % 16) \div 8) % 2 = (n \div 8) % 2
    OBVIOUS
  <1>4. \A i \in 0..3 : i \in Bits(n) <=> i \in Bits(n % 16)
    <2>1. 0..3 = {0, 1, 2, 3}
      OBVIOUS
    <2> QED
    BY <2>1, <1>1, <1>3, BitByBit
  <1> QED
    BY <1>2, <1>4

\* A byte as a number, and back.
LEMMA ByteDigits ==
    ASSUME NEW n \in Nat, n < 256
    PROVE  n = (n % 2) + 2 * ((n \div 2) % 2) + 4 * ((n \div 4) % 2)
               + 8 * ((n \div 8) % 2) + 16 * ((n \div 16) % 2)
               + 32 * ((n \div 32) % 2) + 64 * ((n \div 64) % 2)
               + 128 * ((n \div 128) % 2)
  OBVIOUS

\* The number of a byte is the sum of its eight lower weights.
LEMMA NumByte ==
    ASSUME NEW b \in SUBSET (0..7)
    PROVE  Num(b) = Weight(b, 0) + Weight(b, 1) + Weight(b, 2) + Weight(b, 3)
                    + Weight(b, 4) + Weight(b, 5) + Weight(b, 6) + Weight(b, 7)
  <1>1. /\ Weight(b, 8) = 0 /\ Weight(b, 9) = 0 /\ Weight(b, 10) = 0
        /\ Weight(b, 11) = 0
        /\ Weight(b, 12) = 0 /\ Weight(b, 13) = 0 /\ Weight(b, 14) = 0
        /\ Weight(b, 15) = 0
    BY DEF Weight
  <1>2. /\ Weight(b, 0) \in Int /\ Weight(b, 1) \in Int /\ Weight(b, 2) \in Int
        /\ Weight(b, 3) \in Int
        /\ Weight(b, 4) \in Int /\ Weight(b, 5) \in Int /\ Weight(b, 6) \in Int
        /\ Weight(b, 7) \in Int
    BY DEF Weight
  <1> QED
    BY <1>1, <1>2 DEF Num

\* The weight of a bit of a byte.
LEMMA ByteWeights ==
    ASSUME NEW b
    PROVE  /\ Weight(b, 0) = 1 * (IF 0 \in b THEN 1 ELSE 0)
           /\ Weight(b, 1) = 2 * (IF 1 \in b THEN 1 ELSE 0)
           /\ Weight(b, 2) = 4 * (IF 2 \in b THEN 1 ELSE 0)
           /\ Weight(b, 3) = 8 * (IF 3 \in b THEN 1 ELSE 0)
           /\ Weight(b, 4) = 16 * (IF 4 \in b THEN 1 ELSE 0)
           /\ Weight(b, 5) = 32 * (IF 5 \in b THEN 1 ELSE 0)
           /\ Weight(b, 6) = 64 * (IF 6 \in b THEN 1 ELSE 0)
           /\ Weight(b, 7) = 128 * (IF 7 \in b THEN 1 ELSE 0)
  BY DEF Weight

\* The number of a byte has the bits of the byte.
LEMMA ByteBitsNum ==
    ASSUME NEW b \in SUBSET (0..7)
    PROVE  Num(b) \in Nat /\ Num(b) < 256 /\ Bits(Num(b)) = b
  <1> DEFINE n == Num(b)
  <1>1. PICK d0 \in {0, 1} : d0 = 1 <=> 0 \in b
    OBVIOUS
  <1>2. PICK d1 \in {0, 1} : d1 = 1 <=> 1 \in b
    OBVIOUS
  <1>3. PICK d2 \in {0, 1} : d2 = 1 <=> 2 \in b
    OBVIOUS
  <1>4. PICK d3 \in {0, 1} : d3 = 1 <=> 3 \in b
    OBVIOUS
  <1>5. PICK d4 \in {0, 1} : d4 = 1 <=> 4 \in b
    OBVIOUS
  <1>6. PICK d5 \in {0, 1} : d5 = 1 <=> 5 \in b
    OBVIOUS
  <1>7. PICK d6 \in {0, 1} : d6 = 1 <=> 6 \in b
    OBVIOUS
  <1>8. PICK d7 \in {0, 1} : d7 = 1 <=> 7 \in b
    OBVIOUS
  <1>9. n = d0 + 2 * d1 + 4 * d2 + 8 * d3 + 16 * d4 + 32 * d5 + 64 * d6 + 128 * d7
    <2>1. /\ Weight(b, 0) = 1 * d0 /\ Weight(b, 1) = 2 * d1
          /\ Weight(b, 2) = 4 * d2 /\ Weight(b, 3) = 8 * d3
          /\ Weight(b, 4) = 16 * d4 /\ Weight(b, 5) = 32 * d5
          /\ Weight(b, 6) = 64 * d6 /\ Weight(b, 7) = 128 * d7
      BY <1>1, <1>2, <1>3, <1>4, <1>5, <1>6, <1>7, <1>8, ByteWeights
    <2> QED
      BY <2>1, NumByte
  <1> HIDE DEF n
  <1>10. /\ n \in Nat /\ n < 256
         /\ n % 2 = d0 /\ (n \div 2) % 2 = d1 /\ (n \div 4) % 2 = d2
         /\ (n \div 8) % 2 = d3 /\ (n \div 16) % 2 = d4 /\ (n \div 32) % 2 = d5
         /\ (n \div 64) % 2 = d6 /\ (n \div 128) % 2 = d7
    BY <1>9
  <1>11. \A i \in 0..7 : i \in Bits(n) <=> i \in b
    <2>1. 0..7 = {0, 1, 2, 3, 4, 5, 6, 7}
      OBVIOUS
    <2> QED
      BY <1>1, <1>2, <1>3, <1>4, <1>5, <1>6, <1>7, <1>8, <1>10, <2>1, BitByBit
  <1> QED
    BY <1>10, <1>11, SmallBits DEF n

\* The bits of a small number are those of the number.
LEMMA ByteNumBits ==
    ASSUME NEW n \in Nat, n < 256
    PROVE  Num(Bits(n)) = n
  <1>1. Bits(n) \in SUBSET (0..7)
    BY SmallBits
  <1>2. \A i \in 0..7 : (IF i \in Bits(n) THEN 1 ELSE 0) \in {0, 1}
    OBVIOUS
  <1>3. /\ (IF 0 \in Bits(n) THEN 1 ELSE 0) = n % 2
        /\ (IF 1 \in Bits(n) THEN 1 ELSE 0) = (n \div 2) % 2
        /\ (IF 2 \in Bits(n) THEN 1 ELSE 0) = (n \div 4) % 2
        /\ (IF 3 \in Bits(n) THEN 1 ELSE 0) = (n \div 8) % 2
        /\ (IF 4 \in Bits(n) THEN 1 ELSE 0) = (n \div 16) % 2
        /\ (IF 5 \in Bits(n) THEN 1 ELSE 0) = (n \div 32) % 2
        /\ (IF 6 \in Bits(n) THEN 1 ELSE 0) = (n \div 64) % 2
        /\ (IF 7 \in Bits(n) THEN 1 ELSE 0) = (n \div 128) % 2
    BY BitByBit
  <1>4. /\ Weight(Bits(n), 0) = 1 * (n % 2)
        /\ Weight(Bits(n), 1) = 2 * ((n \div 2) % 2)
        /\ Weight(Bits(n), 2) = 4 * ((n \div 4) % 2)
        /\ Weight(Bits(n), 3) = 8 * ((n \div 8) % 2)
        /\ Weight(Bits(n), 4) = 16 * ((n \div 16) % 2)
        /\ Weight(Bits(n), 5) = 32 * ((n \div 32) % 2)
        /\ Weight(Bits(n), 6) = 64 * ((n \div 64) % 2)
        /\ Weight(Bits(n), 7) = 128 * ((n \div 128) % 2)
    BY <1>3, ByteWeights
  <1> QED
    BY <1>1, <1>4, NumByte, ByteDigits

-----------------------------------------------------------------------------
\* CipPacket's integers are those of HeaderBits.
LEMMA SameBits ==
    /\ \A b, k : C!Shl(b, k) = Shl(b, k)
    /\ \A b, k : C!Shr(b, k) = Shr(b, k)
    /\ \A n : C!Bits(n) = Bits(n)
    /\ \A b : C!Num(b) = Num(b)
  <1>1. ASSUME NEW b, NEW k PROVE C!Shl(b, k) = Shl(b, k)
    BY DEF C!Shl, Shl
  <1>2. ASSUME NEW b, NEW k PROVE C!Shr(b, k) = Shr(b, k)
    BY DEF C!Shr, Shr
  <1>3. ASSUME NEW n PROVE C!Bits(n) = Bits(n)
    BY DEF C!Bits, Bits
  <1>4. ASSUME NEW b PROVE C!Num(b) = Num(b)
    BY DEF C!Num, C!Weight, Num, Weight
  <1> QED
    BY <1>1, <1>2, <1>3, <1>4

\* The bytes of a packet.
LEMMA CipBytesType ==
    ASSUME NEW h \in C!CipBytes
    PROVE  \A j \in 0..9 : h[j] \in SUBSET (0..7) /\ h[j] \in SUBSET Int
  BY DEF C!CipBytes, C!Byte

\* A value that is or-ed into a byte of a packet, and one that is assigned.
LEMMA OrCip ==
    ASSUME NEW h \in C!CipBytes, NEW j \in 0..9, NEW b
    PROVE  /\ C!Or(h, j, b) \in C!CipBytes
           /\ \A m \in 0..9 :
                C!Or(h, j, b)[m] = IF m = j THEN h[j] \cup (b \cap 0..7) ELSE h[m]
  BY DEF C!Or, C!Byte, C!CipBytes

LEMMA PutCip ==
    ASSUME NEW h \in C!CipBytes, NEW j \in 0..9, NEW b
    PROVE  /\ C!Put(h, j, b) \in C!CipBytes
           /\ \A m \in 0..9 : C!Put(h, j, b)[m] = IF m = j THEN b \cap 0..7
                                                  ELSE h[m]
  BY DEF C!Put, C!Byte, C!CipBytes

-----------------------------------------------------------------------------
\* The field each bit of the packet belongs to, and its place in the field; a few
\* bits of the extended parameters belong to none.
CipOwner(j, i) ==
    CASE j \in {0, 1}            -> "grouping_data_length"
      [] j = 2                   -> "compression_technique_id"
      [] j = 3                   -> "reference_sample_interval"
      [] j = 4 /\ i \in 6..7     -> "preprocessor_header"
      [] j = 4 /\ i = 5          -> "status"
      [] j = 4 /\ i \in 2..4     -> "predictor_type"
      [] j = 4 /\ i \in 0..1     -> "mapper_type"
      [] j = 5 /\ i \in 6..7     -> "block_size"
      [] j = 5 /\ i = 5          -> "data_sense"
      [] j = 5 /\ i \in 0..4     -> "sample_resolution"
      [] j = 6 /\ i \in 6..7     -> "entropy_coder_header"
      [] j = 6 /\ i \in 4..5     -> "resolution_range"
      [] j = 6 /\ i \in 0..3     -> "cds_num"
      [] j = 7                   -> "cds_num"
      [] j = 8 /\ i \in 6..7     -> "extended_header"
      [] j = 8 /\ i \in 0..3     -> "extended_block_size"
      [] j = 9 /\ i = 6          -> "restricted_code_option"
      [] j = 9 /\ i \in 0..3     -> "extended_sample_interval"
      [] OTHER                   -> "none"

\* Bit i of field f of a packet.
CipBit(f, i, h) ==
    CASE f = "grouping_data_length"     ->
             (i \in 0..7 /\ i \in h[1]) \/ (i \in 8..15 /\ i - 8 \in h[0])
      [] f = "compression_technique_id" -> i \in h[2]
      [] f = "reference_sample_interval" -> i \in h[3]
      [] f = "preprocessor_header"      -> i \in 0..1 /\ i + 6 \in h[4]
      [] f = "status"                   -> i = 0 /\ 5 \in h[4]
      [] f = "predictor_type"           -> i \in 0..2 /\ i + 2 \in h[4]
      [] f = "mapper_type"              -> i \in 0..1 /\ i \in h[4]
      [] f = "block_size"               -> i \in 0..1 /\ i + 6 \in h[5]
      [] f = "data_sense"               -> i = 0 /\ 5 \in h[5]
      [] f = "sample_resolution"        -> i \in 0..4 /\ i \in h[5]
      [] f = "entropy_coder_header"     -> i \in 0..1 /\ i + 6 \in h[6]
      [] f = "resolution_range"         -> i \in 0..1 /\ i + 4 \in h[6]
      [] f = "cds_num"                  ->
             (i \in 0..7 /\ i \in h[7]) \/ (i \in 8..11 /\ i - 8 \in h[6])
      [] f = "extended_header"          -> i \in 0..1 /\ i + 6 \in h[8]
      [] f = "extended_block_size"      -> i \in 0..3 /\ i \in h[8]
      [] f = "restricted_code_option"   -> i = 0 /\ 6 \in h[9]
      [] f = "extended_sample_interval" -> i \in 0..3 /\ i \in h[9]

\* The fields of a packet, by name.
LEMMA CipFieldNames ==
    C!CipFields = {"grouping_data_length", "compression_technique_id",
                   "reference_sample_interval", "preprocessor_header", "status",
                   "predictor_type", "mapper_type", "block_size", "data_sense",
                   "sample_resolution", "entropy_coder_header",
                   "resolution_range", "cds_num", "extended_header",
                   "extended_block_size", "restricted_code_option",
                   "extended_sample_interval"}
  <1>1. C!Segments = {"source_data_fixed", "preprocessor", "entropy_coder",
                      "extended_parameters"}
    BY DEF C!Segments, C!Fields
  <1>2. C!CipFields = C!Fields["source_data_fixed"] \cup C!Fields["preprocessor"]
                      \cup C!Fields["entropy_coder"]
                      \cup C!Fields["extended_parameters"]
    BY <1>1 DEF C!CipFields
  <1>3. /\ C!Fields["source_data_fixed"] = {"grouping_data_length",
              "compression_technique_id", "reference_sample_interval"}
        /\ C!Fields["preprocessor"] = {"preprocessor_header", "status",
              "predictor_type", "mapper_type", "block_size", "data_sense",
              "sample_resolution"}
        /\ C!Fields["entropy_coder"] = {"entropy_coder_header",
              "resolution_range", "cds_num"}
        /\ C!Fields["extended_parameters"] = {"extended_header",
              "extended_block_size", "restricted_code_option",
              "extended_sample_interval"}
    BY DEF C!Fields
  <1> QED
    BY <1>2, <1>3

\* The interval is read back through a sum modulo 256, which loses nothing.
LEMMA IntervalBits ==
    ASSUME NEW b \in SUBSET (0..7)
    PROVE  Bits((Num(Bits((Num(b) + 1) % 256)) - 1) % 256) = b
  <1>1. Num(b) \in Nat /\ Num(b) < 256 /\ Bits(Num(b)) = b
    BY ByteBitsNum
  <1>2. /\ (Num(b) + 1) % 256 \in Nat /\ (Num(b) + 1) % 256 < 256
        /\ (((Num(b) + 1) % 256) - 1) % 256 = Num(b)
    BY <1>1
  <1>3. Num(Bits((Num(b) + 1) % 256)) = (Num(b) + 1) % 256
    BY <1>2, ByteNumBits
  <1> QED
    BY <1>1, <1>2, <1>3

\* The bits of a field that is a part of a byte, from bit k on.
LEMMA Window ==
    ASSUME NEW b \in SUBSET Int, NEW k \in Nat, NEW s
    PROVE  /\ Shr(b \cap s, k) \in SUBSET Int
           /\ \A i \in Int : i \in Shr(b \cap s, k) <=>
                               i \in Nat /\ i + k \in b /\ i + k \in s
  BY ShrBits

\* One bit of a byte.
LEMMA WindowOfOne ==
    ASSUME NEW b \in SUBSET Int, NEW k \in Nat
    PROVE  /\ Shr(b \cap {k}, k) \in SUBSET Int
           /\ \A i \in Int : i \in Shr(b \cap {k}, k) <=> i = 0 /\ k \in b
  <1>1. \A i \in Int : i \in Nat /\ i + k \in b /\ i + k \in {k}
                      <=> i = 0 /\ k \in b
    OBVIOUS
  <1>2. /\ Shr(b \cap {k}, k) \in SUBSET Int
        /\ \A i \in Int : i \in Shr(b \cap {k}, k)
                            <=> i \in Nat /\ i + k \in b /\ i + k \in {k}
    BY Window, Zenon
  <1> QED
    BY <1>1, <1>2

\* Two bits of a byte.
LEMMA WindowOfTwo ==
    ASSUME NEW b \in SUBSET Int, NEW k \in Nat
    PROVE  /\ Shr(b \cap {k, k + 1}, k) \in SUBSET Int
           /\ \A i \in Int : i \in Shr(b \cap {k, k + 1}, k)
                               <=> i \in 0..1 /\ i + k \in b
  <1>1. \A i \in Int : i \in Nat /\ i + k \in b /\ i + k \in {k, k + 1}
                      <=> i \in 0..1 /\ i + k \in b
    OBVIOUS
  <1>2. /\ Shr(b \cap {k, k + 1}, k) \in SUBSET Int
        /\ \A i \in Int : i \in Shr(b \cap {k, k + 1}, k)
                            <=> i \in Nat /\ i + k \in b /\ i + k \in {k, k + 1}
    BY Window, Zenon
  <1> QED
    BY <1>1, <1>2

\* The getters return the bits of their fields.
LEMMA CipDecoded ==
    ASSUME NEW f \in C!CipFields, NEW h \in C!CipBytes
    PROVE  /\ C!FieldBits(f, h) \in SUBSET Int
           /\ \A i \in Int : i \in C!FieldBits(f, h) <=> CipBit(f, i, h)
  <1>1. \A j \in 0..9 : h[j] \in SUBSET (0..7) /\ h[j] \in SUBSET Int
    BY CipBytesType
  <1>2. \A j \in 0..9 : \A s : h[j] \cap s \in SUBSET Int
    BY <1>1
  <1>3. \A s \in SUBSET Nat : s \in SUBSET Int
    OBVIOUS
  <1>4. CASE f = "grouping_data_length"
    <2>1. C!FieldBits(f, h) = h[1] \cup Shl(h[0], 8)
      BY <1>4, SameBits DEF C!FieldBits, C!decode_grouping_data_length
    <2> QED
      BY <1>1, <1>2, <1>3, <1>4, <2>1, ShlBits DEF CipBit
  <1>5. CASE f = "compression_technique_id"
    <2>1. C!FieldBits(f, h) = h[2]
      BY <1>5, SameBits DEF C!FieldBits, C!decode_compression_technique_id
    <2> QED
      BY <1>1, <1>2, <1>3, <1>5, <2>1 DEF CipBit
  <1>6. CASE f = "reference_sample_interval"
    <2>1. C!FieldBits(f, h) = h[3]
      BY <1>1, <1>6, SameBits, IntervalBits
      DEF C!FieldBits, C!decode_reference_sample_interval
    <2> QED
      BY <1>1, <1>2, <1>3, <1>6, <2>1 DEF CipBit
  <1>7. CASE f = "preprocessor_header"
    <2>1. C!FieldBits(f, h) = Shr(h[4] \cap {6, 7}, 6)
      BY <1>7, SameBits DEF C!FieldBits
    <2>2. h[4] \in SUBSET Int /\ 6 \in Nat /\ 6 + 1 = 7
      BY <1>1
    <2>3. /\ Shr(h[4] \cap {6, 7}, 6) \in SUBSET Int
          /\ \A i \in Int :
               i \in Shr(h[4] \cap {6, 7}, 6) <=> i \in 0..1 /\ i + 6 \in h[4]
      BY <2>2, WindowOfTwo
    <2>4. \A i : CipBit(f, i, h) <=> i \in 0..1 /\ i + 6 \in h[4]
      BY <1>7, Zenon DEF CipBit
    <2> QED
      BY <2>1, <2>3, <2>4
  <1>8. CASE f = "status"
    <2>1. C!FieldBits(f, h) = Shr(h[4] \cap {5}, 5)
      BY <1>8, SameBits DEF C!FieldBits, C!decode_preprocessor_status
    <2>2. h[4] \in SUBSET Int /\ 5 \in Nat
      BY <1>1
    <2>3. /\ Shr(h[4] \cap {5}, 5) \in SUBSET Int
          /\ \A i \in Int : i \in Shr(h[4] \cap {5}, 5) <=> i = 0 /\ 5 \in h[4]
      BY <2>2, WindowOfOne
    <2>4. \A i : CipBit(f, i, h) <=> i = 0 /\ 5 \in h[4]
      BY <1>8, Zenon DEF CipBit
    <2> QED
      BY <2>1, <2>3, <2>4
  <1>9. CASE f = "predictor_type"
    <2>1. C!FieldBits(f, h) = Shr(h[4] \cap 2..4, 2)
      BY <1>9, SameBits DEF C!FieldBits, C!decode_preprocessor_predictor_type
    <2>2. h[4] \in SUBSET Int /\ 2 \in Nat
      BY <1>1
    <2>3. /\ Shr(h[4] \cap 2..4, 2) \in SUBSET Int
          /\ \A i \in Int : i \in Shr(h[4] \cap 2..4, 2) <=>
                  i \in Nat /\ i + 2 \in h[4] /\ i + 2 \in 2..4
      BY <2>2, Window, Zenon
    <2>4. \A i : CipBit(f, i, h) <=> i \in 0..2 /\ i + 2 \in h[4]
      BY <1>9, ZenonT(30) DEF CipBit
    <2> QED
      BY <2>1, <2>3, <2>4
  <1>10. CASE f = "mapper_type"
    <2>1. C!FieldBits(f, h) = h[4] \cap 0..1
      BY <1>10, SameBits DEF C!FieldBits, C!decode_preprocessor_mapper_type
    <2> QED
      BY <1>1, <1>2, <1>3, <1>10, <2>1 DEF CipBit
  <1>11. CASE f = "block_size"
    <2>1. C!FieldBits(f, h) = Shr(h[5] \cap {6, 7}, 6)
      BY <1>11, SameBits DEF C!FieldBits, C!preprocessor_block_code
    <2>2. h[5] \in SUBSET Int /\ 6 \in Nat /\ 6 + 1 = 7
      BY <1>1
    <2>3. /\ Shr(h[5] \cap {6, 7}, 6) \in SUBSET Int
          /\ \A i \in Int :
               i \in Shr(h[5] \cap {6, 7}, 6) <=> i \in 0..1 /\ i + 6 \in h[5]
      BY <2>2, WindowOfTwo
    <2>4. \A i : CipBit(f, i, h) <=> i \in 0..1 /\ i + 6 \in h[5]
      BY <1>11, Zenon DEF CipBit
    <2> QED
      BY <2>1, <2>3, <2>4
  <1>12. CASE f = "data_sense"
    <2>1. C!FieldBits(f, h) = Shr(h[5] \cap {5}, 5)
      BY <1>12, SameBits DEF C!FieldBits, C!decode_preprocessor_data_sense
    <2>2. h[5] \in SUBSET Int /\ 5 \in Nat
      BY <1>1
    <2>3. /\ Shr(h[5] \cap {5}, 5) \in SUBSET Int
          /\ \A i \in Int : i \in Shr(h[5] \cap {5}, 5) <=> i = 0 /\ 5 \in h[5]
      BY <2>2, WindowOfOne
    <2>4. \A i : CipBit(f, i, h) <=> i = 0 /\ 5 \in h[5]
      BY <1>12, Zenon DEF CipBit
    <2> QED
      BY <2>1, <2>3, <2>4
  <1>13. CASE f = "sample_resolution"
    <2>1. C!FieldBits(f, h) = h[5] \cap 0..4
      BY <1>13, SameBits DEF C!FieldBits, C!decode_preprocessor_sample_resolution
    <2> QED
      BY <1>1, <1>2, <1>3, <1>13, <2>1 DEF CipBit
  <1>14. CASE f = "entropy_coder_header"
    <2>1. C!FieldBits(f, h) = Shr(h[6] \cap {6, 7}, 6)
      BY <1>14, SameBits DEF C!FieldBits
    <2>2. h[6] \in SUBSET Int /\ 6 \in Nat /\ 6 + 1 = 7
      BY <1>1
    <2>3. /\ Shr(h[6] \cap {6, 7}, 6) \in SUBSET Int
          /\ \A i \in Int :
               i \in Shr(h[6] \cap {6, 7}, 6) <=> i \in 0..1 /\ i + 6 \in h[6]
      BY <2>2, WindowOfTwo
    <2>4. \A i : CipBit(f, i, h) <=> i \in 0..1 /\ i + 6 \in h[6]
      BY <1>14, Zenon DEF CipBit
    <2> QED
      BY <2>1, <2>3, <2>4
  <1>15. CASE f = "resolution_range"
    <2>1. C!FieldBits(f, h) = Shr(h[6] \cap {4, 5}, 4)
      BY <1>15, SameBits DEF C!FieldBits
    <2>2. h[6] \in SUBSET Int /\ 4 \in Nat /\ 4 + 1 = 5
      BY <1>1
    <2>3. /\ Shr(h[6] \cap {4, 5}, 4) \in SUBSET Int
          /\ \A i \in Int :
               i \in Shr(h[6] \cap {4, 5}, 4) <=> i \in 0..1 /\ i + 4 \in h[6]
      BY <2>2, WindowOfTwo
    <2>4. \A i : CipBit(f, i, h) <=> i \in 0..1 /\ i + 4 \in h[6]
      BY <1>15, ZenonT(30) DEF CipBit
    <2> QED
      BY <2>1, <2>3, <2>4
  <1>16. CASE f = "cds_num"
    <2>1. C!FieldBits(f, h) = h[7] \cup Shl(h[6] \cap 0..3, 8)
      BY <1>16, SameBits DEF C!FieldBits
    <2> QED
      BY <1>1, <1>2, <1>3, <1>16, <2>1, ShlBits DEF CipBit
  <1>17. CASE f = "extended_header"
    <2>1. C!FieldBits(f, h) = Shr(h[8] \cap {6, 7}, 6)
      BY <1>17, SameBits DEF C!FieldBits
    <2>2. h[8] \in SUBSET Int /\ 6 \in Nat /\ 6 + 1 = 7
      BY <1>1
    <2>3. /\ Shr(h[8] \cap {6, 7}, 6) \in SUBSET Int
          /\ \A i \in Int :
               i \in Shr(h[8] \cap {6, 7}, 6) <=> i \in 0..1 /\ i + 6 \in h[8]
      BY <2>2, WindowOfTwo
    <2>4. \A i : CipBit(f, i, h) <=> i \in 0..1 /\ i + 6 \in h[8]
      BY <1>17, ZenonT(30) DEF CipBit
    <2> QED
      BY <2>1, <2>3, <2>4
  <1>18. CASE f = "extended_block_size"
    <2>1. C!FieldBits(f, h) = h[8] \cap 0..3
      BY <1>18, SameBits DEF C!FieldBits, C!extended_block_code
    <2> QED
      BY <1>1, <1>2, <1>3, <1>18, <2>1 DEF CipBit
  <1>19. CASE f = "restricted_code_option"
    <2>1. C!FieldBits(f, h) = Shr(h[9] \cap {6}, 6)
      BY <1>19, SameBits
      DEF C!FieldBits, C!decode_extended_parameters_restricted_code_option
    <2>2. h[9] \in SUBSET Int /\ 6 \in Nat
      BY <1>1
    <2>3. /\ Shr(h[9] \cap {6}, 6) \in SUBSET Int
          /\ \A i \in Int : i \in Shr(h[9] \cap {6}, 6) <=> i = 0 /\ 6 \in h[9]
      BY <2>2, WindowOfOne
    <2>4. \A i : CipBit(f, i, h) <=> i = 0 /\ 6 \in h[9]
      BY <1>19, Zenon DEF CipBit
    <2> QED
      BY <2>1, <2>3, <2>4
  <1>20. CASE f = "extended_sample_interval"
    <2>1. C!FieldBits(f, h) = h[9] \cap 0..3
      BY <1>20, SameBits
      DEF C!FieldBits, C!decode_extended_parameters_reference_sample_interval
    <2> QED
      BY <1>1, <1>2, <1>3, <1>20, <2>1 DEF CipBit
  <1> QED
    BY <1>4, <1>5, <1>6, <1>7, <1>8, <1>9,
       <1>10, <1>11, <1>12, <1>13, <1>14, <1>15,
       <1>16, <1>17, <1>18, <1>19, <1>20, CipFieldNames

\* What a setter of field f does that gives it the code c: no other bit changes,
\* a byte of the field's own is assigned, a bit of a shared one only added.
CipSets(f, c, h, e) ==
    /\ \A j \in 0..9, i \in 0..7 : CipOwner(j, i) # f => (i \in e[j] <=> i \in h[j])
    /\ \A i \in Int : CipBit(f, i, e) <=>
                        i \in c \/ (i \notin C!Owned(f) /\ CipBit(f, i, h))

\* A field that is the bits k to k + w of byte j.
InWindow(f, j, k, w) ==
    /\ C!Owned(f) = {}
    /\ \A i \in k..(k + w) : CipOwner(j, i) = f
    /\ \A i \in Int : \A p \in C!CipBytes :
         CipBit(f, i, p) <=> i \in 0..w /\ i + k \in p[j]

\* The fields of a packet that are or-ed into one byte.
LEMMA Windows ==
    /\ InWindow("preprocessor_header", 4, 6, 1)
    /\ InWindow("status", 4, 5, 0)
    /\ InWindow("predictor_type", 4, 2, 2)
    /\ InWindow("mapper_type", 4, 0, 1)
    /\ InWindow("block_size", 5, 6, 1)
    /\ InWindow("data_sense", 5, 5, 0)
    /\ InWindow("sample_resolution", 5, 0, 4)
    /\ InWindow("entropy_coder_header", 6, 6, 1)
    /\ InWindow("resolution_range", 6, 4, 1)
    /\ InWindow("extended_header", 8, 6, 1)
    /\ InWindow("extended_block_size", 8, 0, 3)
    /\ InWindow("restricted_code_option", 9, 6, 0)
    /\ InWindow("extended_sample_interval", 9, 0, 3)
  <1>1. InWindow("preprocessor_header", 4, 6, 1)
    BY DEF InWindow, CipBit, CipOwner, C!Owned, C!Fields
  <1>2. InWindow("status", 4, 5, 0)
    BY DEF InWindow, CipBit, CipOwner, C!Owned, C!Fields
  <1>3. InWindow("predictor_type", 4, 2, 2)
    BY DEF InWindow, CipBit, CipOwner, C!Owned, C!Fields
  <1>4. InWindow("mapper_type", 4, 0, 1)
    BY DEF InWindow, CipBit, CipOwner, C!Owned, C!Fields
  <1>5. InWindow("block_size", 5, 6, 1)
    BY DEF InWindow, CipBit, CipOwner, C!Owned, C!Fields
  <1>6. InWindow("data_sense", 5, 5, 0)
    BY DEF InWindow, CipBit, CipOwner, C!Owned, C!Fields
  <1>7. InWindow("sample_resolution", 5, 0, 4)
    BY DEF InWindow, CipBit, CipOwner, C!Owned, C!Fields
  <1>8. InWindow("entropy_coder_header", 6, 6, 1)
    BY DEF InWindow, CipBit, CipOwner, C!Owned, C!Fields
  <1>9. InWindow("resolution_range", 6, 4, 1)
    BY DEF InWindow, CipBit, CipOwner, C!Owned, C!Fields
  <1>10. InWindow("extended_header", 8, 6, 1)
    BY DEF InWindow, CipBit, CipOwner, C!Owned, C!Fields
  <1>11. InWindow("extended_block_size", 8, 0, 3)
    BY DEF InWindow, CipBit, CipOwner, C!Owned, C!Fields
  <1>12. InWindow("restricted_code_option", 9, 6, 0)
    BY DEF InWindow, CipBit, CipOwner, C!Owned, C!Fields
  <1>13. InWindow("extended_sample_interval", 9, 0, 3)
    BY DEF InWindow, CipBit, CipOwner, C!Owned, C!Fields
  <1> QED
    BY <1>1, <1>2, <1>3, <1>4, <1>5, <1>6, <1>7, <1>8, <1>9, <1>10, <1>11, <1>12,
       <1>13

\* The bits c, moved k places up.
Moved(x, c, k) == \A i \in Int : i \in x <=> i - k \in c

\* x is the code c at the place of field f in byte j.
Placed(f, j, k, w, c, x) ==
    /\ InWindow(f, j, k, w)
    /\ j \in 0..9 /\ k \in Nat /\ w \in Nat /\ k + w <= 7
    /\ c \in SUBSET (0..w)
    /\ Moved(x, c, k)

\* A value that is or-ed into the byte of such a field.
LEMMA OrSets ==
    ASSUME NEW f, NEW h \in C!CipBytes, NEW j, NEW k, NEW w, NEW c, NEW x,
           Placed(f, j, k, w, c, x)
    PROVE  /\ C!Or(h, j, x) \in C!CipBytes
           /\ c \in SUBSET Int
           /\ CipSets(f, c, h, C!Or(h, j, x))
  <1> DEFINE e == C!Or(h, j, x)
  <1>0. /\ InWindow(f, j, k, w) /\ j \in 0..9 /\ k \in Nat /\ w \in Nat
        /\ k + w <= 7 /\ c \in SUBSET (0..w) /\ Moved(x, c, k)
    BY DEF Placed
  <1>1. /\ e \in C!CipBytes
        /\ e[j] = h[j] \cup (x \cap 0..7)
        /\ \A m \in 0..9 : m # j => e[m] = h[m]
    <2>1. C!Or(h, j, x) \in C!CipBytes
      BY <1>0, OrCip
    <2>2. C!Or(h, j, x)[j] = h[j] \cup (x \cap 0..7)
      BY <1>0, OrCip
    <2>3. ASSUME NEW m \in 0..9, m # j PROVE C!Or(h, j, x)[m] = h[m]
      BY <1>0, <2>3, OrCip
    <2> QED
      BY <2>1, <2>2, <2>3
  <1> HIDE DEF e
  <1>2. c \in SUBSET Int /\ \A i \in Int : i \in x <=> i - k \in c
    BY <1>0 DEF Moved
  <1>3. \A i \in Int : CipBit(f, i, e) <=>
                        i \in c \/ (i \notin C!Owned(f) /\ CipBit(f, i, h))
    BY <1>0, <1>1, <1>2 DEF InWindow
  <1>4. \A m \in 0..9, i \in 0..7 :
          CipOwner(m, i) # f => (i \in e[m] <=> i \in h[m])
    BY <1>0, <1>1, <1>2 DEF InWindow
  <1> QED
    BY <1>1, <1>2, <1>3, <1>4 DEF CipSets, e

\* An or with no bit changes nothing.
LEMMA OrNothing ==
    ASSUME NEW h \in C!CipBytes, NEW j \in 0..9
    PROVE  C!Or(h, j, {}) = h
  BY DEF C!Or, C!CipBytes

\* A setter gives its field the code of a legal number, and ignores any other.
LEMMA CipEncoded ==
    ASSUME NEW f \in C!CipFields, NEW n \in Nat, n <= C!Largest(f),
           NEW h \in C!CipBytes,
           f = "extended_sample_interval" => n > 0
    PROVE  /\ C!EncodeCipField(f, h, n) \in C!CipBytes
           /\ C!Legal(f, n) => /\ C!Code(f, n) \in SUBSET Int
                               /\ CipSets(f, C!Code(f, n), h,
                                          C!EncodeCipField(f, h, n))
           /\ ~C!Legal(f, n) => C!EncodeCipField(f, h, n) = h
  <1> DEFINE e == C!EncodeCipField(f, h, n)
             c == C!Code(f, n)
  <1>1. n \in Nat /\ n <= 65535
    BY DEF C!Largest
  <1>2. CASE f = "preprocessor_header"
    <2> DEFINE x == Shl(Bits(0), 6)
    <2>1. e = C!Or(h, 4, x)
      BY <1>2, SameBits DEF C!EncodeCipField, C!encode_preprocessor_header
    <2>2. c = Bits(0) /\ C!Legal(f, n) /\ C!Owned(f) = {}
      BY <1>2, SameBits DEF C!Code, C!Legal, C!Owned, C!Fields
    <2>3. c \in SUBSET (0..1) /\ Moved(x, c, 6)
      BY <2>2, FewBits DEF Shl, Moved
    <2> HIDE DEF x, e, c
    <2>4. InWindow(f, 4, 6, 1) /\ 6 + 1 <= 7
          /\ 4 \in 0..9 /\ 6 \in Nat /\ 1 \in Nat
      BY <1>2, Windows
    <2>5. e \in C!CipBytes /\ c \in SUBSET Int /\ CipSets(f, c, h, e)
      <3>1. Placed(f, 4, 6, 1, c, x)
        BY <2>3, <2>4 DEF Placed
      <3> QED
        BY <2>1, <3>1, OrSets
    <2> QED
      BY <2>2, <2>5 DEF e, c
  <1>3. CASE f = "status"
    <2> DEFINE x == Shl(C!Valid(n, {0, 1}), 5)
    <2>1. e = C!Or(h, 4, x)
      BY <1>3, SameBits DEF C!EncodeCipField, C!encode_preprocessor_status
    <2>2. c = Bits(n) /\ (C!Legal(f, n) <=> n \in {0, 1}) /\ C!Owned(f) = {}
      BY <1>3, SameBits DEF C!Code, C!Legal, C!Owned, C!Fields
    <2>3. ASSUME C!Legal(f, n)
          PROVE  c \in SUBSET (0..0) /\ Moved(x, c, 5)
      <3>1. C!Valid(n, {0, 1}) = c /\ c \in SUBSET (0..0)
        BY <2>2, <2>3, SameBits, FewBits DEF C!Valid
      <3> QED
        BY <3>1, ShlBits DEF Moved
    <2>4. ASSUME ~C!Legal(f, n)
          PROVE  e = h
      <3>1. x = {}
        BY <2>2, <2>4 DEF C!Valid, Shl
      <3> QED
        BY <2>1, <3>1, OrNothing
    <2> HIDE DEF x, e, c
    <2>5. InWindow(f, 4, 5, 0) /\ 5 + 0 <= 7
          /\ 4 \in 0..9 /\ 5 \in Nat /\ 0 \in Nat
      BY <1>3, Windows
    <2>6. ASSUME C!Legal(f, n)
          PROVE  e \in C!CipBytes /\ c \in SUBSET Int /\ CipSets(f, c, h, e)
      <3>1. Placed(f, 4, 5, 0, c, x)
        BY <2>3, <2>5, <2>6 DEF Placed
      <3> QED
        BY <2>1, <3>1, OrSets
    <2> QED
      BY <2>4, <2>6 DEF e, c
  <1>4. CASE f = "predictor_type"
    <2> DEFINE x == Shl(C!Valid(n, {0, 1, 7}), 2)
    <2>1. e = C!Or(h, 4, x)
      BY <1>4, SameBits DEF C!EncodeCipField, C!encode_preprocessor_predictor_type
    <2>2. c = Bits(n) /\ (C!Legal(f, n) <=> n \in {0, 1, 7}) /\ C!Owned(f) = {}
      BY <1>4, SameBits DEF C!Code, C!Legal, C!Owned, C!Fields
    <2>3. ASSUME C!Legal(f, n)
          PROVE  c \in SUBSET (0..2) /\ Moved(x, c, 2)
      <3>1. C!Valid(n, {0, 1, 7}) = c /\ c \in SUBSET (0..2)
        BY <2>2, <2>3, SameBits, FewBits DEF C!Valid
      <3> QED
        BY <3>1, ShlBits DEF Moved
    <2>4. ASSUME ~C!Legal(f, n)
          PROVE  e = h
      <3>1. x = {}
        BY <2>2, <2>4 DEF C!Valid, Shl
      <3> QED
        BY <2>1, <3>1, OrNothing
    <2> HIDE DEF x, e, c
    <2>5. InWindow(f, 4, 2, 2) /\ 2 + 2 <= 7
          /\ 4 \in 0..9 /\ 2 \in Nat /\ 2 \in Nat
      BY <1>4, Windows
    <2>6. ASSUME C!Legal(f, n)
          PROVE  e \in C!CipBytes /\ c \in SUBSET Int /\ CipSets(f, c, h, e)
      <3>1. Placed(f, 4, 2, 2, c, x)
        BY <2>3, <2>5, <2>6 DEF Placed
      <3> QED
        BY <2>1, <3>1, OrSets
    <2> QED
      BY <2>4, <2>6 DEF e, c
  <1>5. CASE f = "mapper_type"
    <2> DEFINE x == C!Valid(n, {0, 3})
    <2>1. e = C!Or(h, 4, x)
      BY <1>5, SameBits DEF C!EncodeCipField, C!encode_preprocessor_mapper_type
    <2>2. c = Bits(n) /\ (C!Legal(f, n) <=> n \in {0, 3}) /\ C!Owned(f) = {}
      BY <1>5, SameBits DEF C!Code, C!Legal, C!Owned, C!Fields
    <2>3. ASSUME C!Legal(f, n)
          PROVE  c \in SUBSET (0..1) /\ Moved(x, c, 0)
      <3>1. C!Valid(n, {0, 3}) = c /\ c \in SUBSET (0..1)
        BY <2>2, <2>3, SameBits, FewBits DEF C!Valid
      <3> QED
        BY <3>1 DEF Moved
    <2>4. ASSUME ~C!Legal(f, n)
          PROVE  e = h
      <3>1. x = {}
        BY <2>2, <2>4 DEF C!Valid, Shl
      <3> QED
        BY <2>1, <3>1, OrNothing
    <2> HIDE DEF x, e, c
    <2>5. InWindow(f, 4, 0, 1) /\ 0 + 1 <= 7
          /\ 4 \in 0..9 /\ 0 \in Nat /\ 1 \in Nat
      BY <1>5, Windows
    <2>6. ASSUME C!Legal(f, n)
          PROVE  e \in C!CipBytes /\ c \in SUBSET Int /\ CipSets(f, c, h, e)
      <3>1. Placed(f, 4, 0, 1, c, x)
        BY <2>3, <2>5, <2>6 DEF Placed
      <3> QED
        BY <2>1, <3>1, OrSets
    <2> QED
      BY <2>4, <2>6 DEF e, c
  <1>6. CASE f = "block_size"
    <2> DEFINE x == Shl(Bits(C!PreprocessorBlockCode(n)), 6)
    <2>1. e = C!Or(h, 5, x)
      BY <1>6, SameBits DEF C!EncodeCipField, C!encode_preprocessor_block_size
    <2>2. /\ c = Bits(C!PreprocessorBlockCode(n))
          /\ (C!Legal(f, n) <=> n > 0) /\ C!Owned(f) = {}
      BY <1>6, SameBits DEF C!Code, C!Legal, C!Owned, C!Fields
    <2>3. ASSUME C!Legal(f, n)
          PROVE  c \in SUBSET (0..1) /\ Moved(x, c, 6)
      <3>1. C!PreprocessorBlockCode(n) \in {0, 1, 2, 3}
        BY <1>1 DEF C!PreprocessorBlockCode
      <3>2. c \in SUBSET (0..1)
        BY <2>2, <3>1, FewBits
      <3> QED
        BY <2>2, <3>2, ShlBits DEF Moved
    <2>4. ASSUME ~C!Legal(f, n)
          PROVE  e = h
      <3>1. x = {}
        <4>1. n = 0 /\ C!PreprocessorBlockCode(0) = 0
          BY <1>1, <2>2, <2>4 DEF C!PreprocessorBlockCode
        <4> QED
          BY <4>1, FewBits DEF Shl
      <3> QED
        BY <2>1, <3>1, OrNothing
    <2> HIDE DEF x, e, c
    <2>5. InWindow(f, 5, 6, 1) /\ 6 + 1 <= 7
          /\ 5 \in 0..9 /\ 6 \in Nat /\ 1 \in Nat
      BY <1>6, Windows
    <2>6. ASSUME C!Legal(f, n)
          PROVE  e \in C!CipBytes /\ c \in SUBSET Int /\ CipSets(f, c, h, e)
      <3>1. Placed(f, 5, 6, 1, c, x)
        BY <2>3, <2>5, <2>6 DEF Placed
      <3> QED
        BY <2>1, <3>1, OrSets
    <2> QED
      BY <2>4, <2>6 DEF e, c
  <1>7. CASE f = "data_sense"
    <2> DEFINE x == Shl(C!Valid(n, {0, 1}), 5)
    <2>1. e = C!Or(h, 5, x)
      BY <1>7, SameBits DEF C!EncodeCipField, C!encode_preprocessor_data_sense
    <2>2. c = Bits(n) /\ (C!Legal(f, n) <=> n \in {0, 1}) /\ C!Owned(f) = {}
      BY <1>7, SameBits DEF C!Code, C!Legal, C!Owned, C!Fields
    <2>3. ASSUME C!Legal(f, n)
          PROVE  c \in SUBSET (0..0) /\ Moved(x, c, 5)
      <3>1. C!Valid(n, {0, 1}) = c /\ c \in SUBSET (0..0)
        BY <2>2, <2>3, SameBits, FewBits DEF C!Valid
      <3> QED
        BY <3>1, ShlBits DEF Moved
    <2>4. ASSUME ~C!Legal(f, n)
          PROVE  e = h
      <3>1. x = {}
        BY <2>2, <2>4 DEF C!Valid, Shl
      <3> QED
        BY <2>1, <3>1, OrNothing
    <2> HIDE DEF x, e, c
    <2>5. InWindow(f, 5, 5, 0) /\ 5 + 0 <= 7
          /\ 5 \in 0..9 /\ 5 \in Nat /\ 0 \in Nat
      BY <1>7, Windows
    <2>6. ASSUME C!Legal(f, n)
          PROVE  e \in C!CipBytes /\ c \in SUBSET Int /\ CipSets(f, c, h, e)
      <3>1. Placed(f, 5, 5, 0, c, x)
        BY <2>3, <2>5, <2>6 DEF Placed
      <3> QED
        BY <2>1, <3>1, OrSets
    <2> QED
      BY <2>4, <2>6 DEF e, c
  <1>8. CASE f = "sample_resolution"
    <2> DEFINE x == C!Valid(n, 1..32) \cap 0..4
    <2>1. e = C!Or(h, 5, x)
      BY <1>8, SameBits
      DEF C!EncodeCipField, C!encode_preprocessor_sample_resolution
    <2>2. c = Bits(n % 32) /\ (C!Legal(f, n) <=> n \in 1..32) /\ C!Owned(f) = {}
      BY <1>8, SameBits DEF C!Code, C!Legal, C!Owned, C!Fields
    <2>3. ASSUME C!Legal(f, n)
          PROVE  c \in SUBSET (0..4) /\ Moved(x, c, 0)
      <3>1. n \in 1..32 /\ x = Bits(n) \cap 0..4
        BY <2>2, <2>3, SameBits DEF C!Valid
      <3>2. CASE n = 32
        BY <2>2, <3>1, <3>2, FewBits DEF Moved
      <3>3. CASE n < 32
        <4>1. n % 32 = n /\ Bits(n) \in SUBSET (0..4)
          BY <1>1, <3>3, SmallBits
        <4> QED
          BY <2>2, <3>1, <4>1 DEF Moved
      <3> QED
        BY <3>1, <3>2, <3>3
    <2>4. ASSUME ~C!Legal(f, n)
          PROVE  e = h
      <3>1. x = {}
        BY <2>2, <2>4 DEF C!Valid, Shl
      <3> QED
        BY <2>1, <3>1, OrNothing
    <2> HIDE DEF x, e, c
    <2>5. InWindow(f, 5, 0, 4) /\ 0 + 4 <= 7
          /\ 5 \in 0..9 /\ 0 \in Nat /\ 4 \in Nat
      BY <1>8, Windows
    <2>6. ASSUME C!Legal(f, n)
          PROVE  e \in C!CipBytes /\ c \in SUBSET Int /\ CipSets(f, c, h, e)
      <3>1. Placed(f, 5, 0, 4, c, x)
        BY <2>3, <2>5, <2>6 DEF Placed
      <3> QED
        BY <2>1, <3>1, OrSets
    <2> QED
      BY <2>4, <2>6 DEF e, c
  <1>9. CASE f = "entropy_coder_header"
    <2> DEFINE x == {6}
    <2>1. e = C!Or(h, 6, x)
      BY <1>9, SameBits DEF C!EncodeCipField, C!encode_entropy_coder_header
    <2>2. c = Bits(1) /\ C!Legal(f, n) /\ C!Owned(f) = {}
      BY <1>9, SameBits DEF C!Code, C!Legal, C!Owned, C!Fields
    <2>3. c \in SUBSET (0..1) /\ Moved(x, c, 6)
      BY <2>2, FewBits DEF Moved
    <2> HIDE DEF x, e, c
    <2>4. InWindow(f, 6, 6, 1) /\ 6 + 1 <= 7
          /\ 6 \in 0..9 /\ 6 \in Nat /\ 1 \in Nat
      BY <1>9, Windows
    <2>5. e \in C!CipBytes /\ c \in SUBSET Int /\ CipSets(f, c, h, e)
      <3>1. Placed(f, 6, 6, 1, c, x)
        BY <2>3, <2>4 DEF Placed
      <3> QED
        BY <2>1, <3>1, OrSets
    <2> QED
      BY <2>2, <2>5 DEF e, c
  <1>10. CASE f = "resolution_range"
    <2> DEFINE x == Shl(Bits(C!ResolutionRange(n)), 4)
    <2>1. e = C!Or(h, 6, x)
      BY <1>10, SameBits
      DEF C!EncodeCipField, C!encode_entropy_coder_resolution_range
    <2>2. c = Bits(C!ResolutionRange(n)) /\ (C!Legal(f, n) <=> n > 0) /\ C!Owned(f)
            = {}
      BY <1>10, SameBits DEF C!Code, C!Legal, C!Owned, C!Fields
    <2>3. ASSUME C!Legal(f, n)
          PROVE  c \in SUBSET (0..1) /\ Moved(x, c, 4)
      <3>1. C!ResolutionRange(n) \in {0, 1, 2, 3}
        BY <1>1 DEF C!ResolutionRange
      <3>2. c \in SUBSET (0..1)
        BY <2>2, <3>1, FewBits
      <3> QED
        BY <2>2, <3>2, ShlBits DEF Moved
    <2>4. ASSUME ~C!Legal(f, n)
          PROVE  e = h
      <3>1. x = {}
        <4>1. n = 0 /\ C!ResolutionRange(0) = 0
          BY <1>1, <2>2, <2>4 DEF C!ResolutionRange
        <4> QED
          BY <4>1, FewBits DEF Shl
      <3> QED
        BY <2>1, <3>1, OrNothing
    <2> HIDE DEF x, e, c
    <2>5. InWindow(f, 6, 4, 1) /\ 4 + 1 <= 7
          /\ 6 \in 0..9 /\ 4 \in Nat /\ 1 \in Nat
      BY <1>10, Windows
    <2>6. ASSUME C!Legal(f, n)
          PROVE  e \in C!CipBytes /\ c \in SUBSET Int /\ CipSets(f, c, h, e)
      <3>1. Placed(f, 6, 4, 1, c, x)
        BY <2>3, <2>5, <2>6 DEF Placed
      <3> QED
        BY <2>1, <3>1, OrSets
    <2> QED
      BY <2>4, <2>6 DEF e, c
  <1>11. CASE f = "extended_header"
    <2> DEFINE x == {6, 7}
    <2>1. e = C!Or(h, 8, x)
      BY <1>11, SameBits DEF C!EncodeCipField, C!encode_extended_parameters_header
    <2>2. c = Bits(3) /\ C!Legal(f, n) /\ C!Owned(f) = {}
      BY <1>11, SameBits DEF C!Code, C!Legal, C!Owned, C!Fields
    <2>3. c \in SUBSET (0..1) /\ Moved(x, c, 6)
      BY <2>2, FewBits DEF Moved
    <2> HIDE DEF x, e, c
    <2>4. InWindow(f, 8, 6, 1) /\ 6 + 1 <= 7
          /\ 8 \in 0..9 /\ 6 \in Nat /\ 1 \in Nat
      BY <1>11, Windows
    <2>5. e \in C!CipBytes /\ c \in SUBSET Int /\ CipSets(f, c, h, e)
      <3>1. Placed(f, 8, 6, 1, c, x)
        BY <2>3, <2>4 DEF Placed
      <3> QED
        BY <2>1, <3>1, OrSets
    <2> QED
      BY <2>2, <2>5 DEF e, c
  <1>12. CASE f = "extended_block_size"
    <2> DEFINE x == Bits(C!ExtendedBlockCode(n))
    <2>1. e = C!Or(h, 8, x)
      BY <1>12, SameBits
      DEF C!EncodeCipField, C!encode_extended_parameters_block_size
    <2>2. /\ c = Bits(C!ExtendedBlockCode(n))
          /\ (C!Legal(f, n) <=> n > 0) /\ C!Owned(f) = {}
      BY <1>12, SameBits DEF C!Code, C!Legal, C!Owned, C!Fields
    <2>3. ASSUME C!Legal(f, n)
          PROVE  c \in SUBSET (0..3) /\ Moved(x, c, 0)
      <3>1. C!ExtendedBlockCode(n) \in {0, 1, 2, 3, 15}
        BY <1>1 DEF C!ExtendedBlockCode
      <3>2. c \in SUBSET (0..3)
        BY <2>2, <3>1, FewBits
      <3> QED
        BY <2>2, <3>2 DEF Moved
    <2>4. ASSUME ~C!Legal(f, n)
          PROVE  e = h
      <3>1. x = {}
        <4>1. n = 0 /\ C!ExtendedBlockCode(0) = 0
          BY <1>1, <2>2, <2>4 DEF C!ExtendedBlockCode
        <4> QED
          BY <4>1, FewBits DEF Shl
      <3> QED
        BY <2>1, <3>1, OrNothing
    <2> HIDE DEF x, e, c
    <2>5. InWindow(f, 8, 0, 3) /\ 0 + 3 <= 7
          /\ 8 \in 0..9 /\ 0 \in Nat /\ 3 \in Nat
      BY <1>12, Windows
    <2>6. ASSUME C!Legal(f, n)
          PROVE  e \in C!CipBytes /\ c \in SUBSET Int /\ CipSets(f, c, h, e)
      <3>1. Placed(f, 8, 0, 3, c, x)
        BY <2>3, <2>5, <2>6 DEF Placed
      <3> QED
        BY <2>1, <3>1, OrSets
    <2> QED
      BY <2>4, <2>6 DEF e, c
  <1>13. CASE f = "restricted_code_option"
    <2> DEFINE x == Shl(C!Valid(n, {0, 1}), 6)
    <2>1. e = C!Or(h, 9, x)
      BY <1>13, SameBits
      DEF C!EncodeCipField, C!encode_extended_parameters_restricted_code_option
    <2>2. c = Bits(n) /\ (C!Legal(f, n) <=> n \in {0, 1}) /\ C!Owned(f) = {}
      BY <1>13, SameBits DEF C!Code, C!Legal, C!Owned, C!Fields
    <2>3. ASSUME C!Legal(f, n)
          PROVE  c \in SUBSET (0..0) /\ Moved(x, c, 6)
      <3>1. C!Valid(n, {0, 1}) = c /\ c \in SUBSET (0..0)
        BY <2>2, <2>3, SameBits, FewBits DEF C!Valid
      <3> QED
        BY <3>1, ShlBits DEF Moved
    <2>4. ASSUME ~C!Legal(f, n)
          PROVE  e = h
      <3>1. x = {}
        BY <2>2, <2>4 DEF C!Valid, Shl
      <3> QED
        BY <2>1, <3>1, OrNothing
    <2> HIDE DEF x, e, c
    <2>5. InWindow(f, 9, 6, 0) /\ 6 + 0 <= 7
          /\ 9 \in 0..9 /\ 6 \in Nat /\ 0 \in Nat
      BY <1>13, Windows
    <2>6. ASSUME C!Legal(f, n)
          PROVE  e \in C!CipBytes /\ c \in SUBSET Int /\ CipSets(f, c, h, e)
      <3>1. Placed(f, 9, 6, 0, c, x)
        BY <2>3, <2>5, <2>6 DEF Placed
      <3> QED
        BY <2>1, <3>1, OrSets
    <2> QED
      BY <2>4, <2>6 DEF e, c
  <1>14. CASE f = "extended_sample_interval"
    <2> DEFINE x == Bits((n - 1) % 256) \cap 0..3
    <2>1. e = C!Or(h, 9, x)
      BY <1>14, SameBits
      DEF C!EncodeCipField, C!encode_extended_parameters_reference_sample_interval
    <2>2. c = Bits((n - 1) % 16) /\ C!Legal(f, n) /\ C!Owned(f) = {}
      BY <1>14, SameBits DEF C!Code, C!Legal, C!Owned, C!Fields
    <2>3. c \in SUBSET (0..3) /\ Moved(x, c, 0)
      <3>1. /\ (n - 1) % 256 \in Nat /\ (n - 1) % 256 < 256
            /\ ((n - 1) % 256) % 16 = (n - 1) % 16
        BY <1>1, <1>14
      <3>2. x = c
        BY <2>2, <3>1, LowBits
      <3> QED
        BY <3>2 DEF Moved
    <2> HIDE DEF x, e, c
    <2>4. InWindow(f, 9, 0, 3) /\ 0 + 3 <= 7
          /\ 9 \in 0..9 /\ 0 \in Nat /\ 3 \in Nat
      BY <1>14, Windows
    <2>5. e \in C!CipBytes /\ c \in SUBSET Int /\ CipSets(f, c, h, e)
      <3>1. Placed(f, 9, 0, 3, c, x)
        BY <2>3, <2>4 DEF Placed
      <3> QED
        BY <2>1, <3>1, OrSets
    <2> QED
      BY <2>2, <2>5 DEF e, c
  <1>15. CASE f = "grouping_data_length"
    <2> DEFINE b == Bits(n % 4096)
               d == C!Or(h, 0, Shr(b, 8))
    <2>1. e = C!Put(d, 1, b) /\ b \in SUBSET (0..15)
      BY <1>1, <1>15, SameBits, BitByBit, SMTT(30)
      DEF C!EncodeCipField, C!encode_grouping_data_length
    <2>2. c = b /\ C!Legal(f, n) /\ C!Owned(f) = 0..7
      BY <1>15, SameBits DEF C!Code, C!Legal, C!Owned, C!Fields
    <2>3. \A i, p : CipBit(f, i, p) <=>
                      (i \in 0..7 /\ i \in p[1]) \/ (i \in 8..15 /\ i - 8 \in p[0])
      BY <1>15, ZenonT(30) DEF CipBit
    <2> HIDE DEF e, c, b
    <2>4. \A i \in Int : i \in Shr(b, 8) <=> i \in Nat /\ i + 8 \in b
      BY <2>1, ShrBits
    <2>5. /\ d \in C!CipBytes
          /\ \A m \in 0..9 : d[m] = IF m = 0 THEN h[0] \cup (Shr(b, 8) \cap 0..7)
                                    ELSE h[m]
      BY OrCip
    <2> HIDE DEF d
    <2>6. /\ e \in C!CipBytes
          /\ \A m \in 0..9 : e[m] = IF m = 1 THEN b \cap 0..7 ELSE d[m]
      BY <2>1, <2>5, PutCip
    <2>7. \A i \in Int : CipBit(f, i, e) <=>
                           i \in c \/ (i \notin C!Owned(f) /\ CipBit(f, i, h))
      BY <2>1, <2>2, <2>3, <2>4, <2>5, <2>6
    <2>8. \A m \in 0..9, i \in 0..7 :
            CipOwner(m, i) # f => (i \in e[m] <=> i \in h[m])
      BY <1>15, <2>5, <2>6 DEF CipOwner
    <2> QED
      BY <2>1, <2>2, <2>6, <2>7, <2>8 DEF CipSets, e, c
  <1>16. CASE f = "compression_technique_id"
    <2>1. e = C!Put(h, 2, c) /\ c = Bits(n) /\ C!Legal(f, n) /\ C!Owned(f) = 0..7
      BY <1>16, SameBits
      DEF C!EncodeCipField, C!encode_compression_technique_id, C!Code, C!Legal,
          C!Owned, C!Fields
    <2>2. \A i, p : CipBit(f, i, p) <=> i \in p[2]
      BY <1>16, ZenonT(30) DEF CipBit
    <2>3. n < 256
      BY <1>1, <1>16 DEF C!Largest
    <2>4. c \in SUBSET (0..7)
      BY <1>1, <2>1, <2>3, SmallBits
    <2> HIDE DEF e, c
    <2>5. /\ e \in C!CipBytes
          /\ \A m \in 0..9 : e[m] = IF m = 2 THEN c \cap 0..7 ELSE h[m]
      BY <2>1, PutCip
    <2>6. \A i \in Int : CipBit(f, i, e) <=>
                           i \in c \/ (i \notin C!Owned(f) /\ CipBit(f, i, h))
      BY <2>1, <2>2, <2>4, <2>5, CipBytesType
    <2>7. \A m \in 0..9, i \in 0..7 :
            CipOwner(m, i) # f => (i \in e[m] <=> i \in h[m])
      BY <1>16, <2>5 DEF CipOwner
    <2> QED
      BY <2>1, <2>4, <2>5, <2>6, <2>7 DEF CipSets, e, c
  <1>17. CASE f = "reference_sample_interval"
    <2>1. e = C!Put(h, 3, c) /\ c = Bits((n - 1) % 256) /\ C!Legal(f, n)
          /\ C!Owned(f) = 0..7
      BY <1>17, SameBits
      DEF C!EncodeCipField, C!encode_reference_sample_interval, C!Code, C!Legal,
          C!Owned, C!Fields
    <2>2. \A i, p : CipBit(f, i, p) <=> i \in p[3]
      BY <1>17, ZenonT(30) DEF CipBit
    <2>3. (n - 1) % 256 \in Nat /\ (n - 1) % 256 < 256
      BY <1>1
    <2>4. c \in SUBSET (0..7)
      BY <2>1, <2>3, SmallBits
    <2> HIDE DEF e, c
    <2>5. /\ e \in C!CipBytes
          /\ \A m \in 0..9 : e[m] = IF m = 3 THEN c \cap 0..7 ELSE h[m]
      BY <2>1, PutCip
    <2>6. \A i \in Int : CipBit(f, i, e) <=>
                           i \in c \/ (i \notin C!Owned(f) /\ CipBit(f, i, h))
      BY <2>1, <2>2, <2>4, <2>5, CipBytesType
    <2>7. \A m \in 0..9, i \in 0..7 :
            CipOwner(m, i) # f => (i \in e[m] <=> i \in h[m])
      BY <1>17, <2>5 DEF CipOwner
    <2> QED
      BY <2>1, <2>4, <2>5, <2>6, <2>7 DEF CipSets, e, c
  <1>18. CASE f = "cds_num"
    <2> DEFINE b == Bits(n)
               d == C!Or(h, 6, Shr(b, 8) \cap 0..3)
    <2>1. e = IF n \in 1..4096 THEN C!Put(d, 7, b) ELSE h
      BY <1>18, SameBits DEF C!EncodeCipField, C!encode_entropy_coder_cds_num
    <2>2. c = Bits(n % 4096) /\ (C!Legal(f, n) <=> n \in 1..4096) /\ C!Owned(f)
            = 0..7
      BY <1>18, SameBits DEF C!Code, C!Legal, C!Owned, C!Fields
    <2>3. \A i, p : CipBit(f, i, p) <=>
                      (i \in 0..7 /\ i \in p[7]) \/ (i \in 8..11 /\ i - 8 \in p[6])
      BY <1>18, ZenonT(30) DEF CipBit
    <2>4. b \in SUBSET (0..15)
      BY <1>1, BitByBit
    <2>5. ASSUME n \in 1..4096
          PROVE  c \in SUBSET (0..11) /\ \A i \in 0..11 : i \in c <=> i \in b
      <3>1. CASE n = 4096
        BY <2>2, <3>1, FewBits
      <3>2. CASE n < 4096
        <4>1. n % 4096 = n /\ Bits(n) \in SUBSET (0..11)
          BY <1>1, <3>2, SmallBits
        <4> QED
          BY <2>2, <4>1
      <3> QED
        BY <2>5, <3>1, <3>2
    <2> HIDE DEF e, c, b
    <2>6. \A i \in Int : i \in Shr(b, 8) <=> i \in Nat /\ i + 8 \in b
      BY <2>4, ShrBits
    <2>7. /\ d \in C!CipBytes
          /\ \A m \in 0..9 :
               d[m] = IF m = 6 THEN h[6] \cup ((Shr(b, 8) \cap 0..3) \cap 0..7)
                      ELSE h[m]
      BY OrCip
    <2> HIDE DEF d
    <2>8. ASSUME n \in 1..4096
          PROVE  /\ e \in C!CipBytes /\ c \in SUBSET Int
                 /\ CipSets(f, c, h, e)
      <3>1. /\ e \in C!CipBytes
            /\ \A m \in 0..9 : e[m] = IF m = 7 THEN b \cap 0..7 ELSE d[m]
        <4>1. e = C!Put(d, 7, b)
          BY <2>1, <2>8
        <4> QED
          BY <2>7, <4>1, PutCip
      <3>2. \A i \in Int : CipBit(f, i, e) <=>
                             i \in c \/ (i \notin C!Owned(f) /\ CipBit(f, i, h))
        BY <2>2, <2>3, <2>4, <2>5, <2>6, <2>7, <2>8, <3>1, SMTT(30)
      <3>3. \A m \in 0..9, i \in 0..7 :
              CipOwner(m, i) # f => (i \in e[m] <=> i \in h[m])
        BY <1>18, <2>7, <3>1 DEF CipOwner
      <3>4. c \in SUBSET Int
        BY <2>5, <2>8
      <3> QED
        BY <3>1, <3>2, <3>3, <3>4, Zenon DEF CipSets
    <2> QED
      <3>1. ASSUME C!Legal(f, n)
            PROVE  /\ e \in C!CipBytes /\ c \in SUBSET Int
                   /\ CipSets(f, c, h, e)
        BY <2>2, <2>8, <3>1
      <3>2. ASSUME ~C!Legal(f, n)
            PROVE  e = h
        BY <2>1, <2>2, <3>2
      <3> QED
        BY <3>1, <3>2 DEF e, c
  <1> QED
    BY <1>2, <1>3, <1>4, <1>5, <1>6, <1>7, <1>8, <1>9, <1>10, <1>11, <1>12, <1>13,
       <1>14, <1>15, <1>16, <1>17, <1>18, CipFieldNames

\* A getter looks at no bit of another field.
LEMMA CipLocal ==
    ASSUME NEW f \in C!CipFields, NEW h \in C!CipBytes, NEW e \in C!CipBytes,
           \A j \in 0..9, i \in 0..7 :
             CipOwner(j, i) = f => (i \in e[j] <=> i \in h[j])
    PROVE  C!FieldBits(f, e) = C!FieldBits(f, h)
  <1>1. \A j \in 0..9 : e[j] \in SUBSET (0..7) /\ h[j] \in SUBSET (0..7)
    BY CipBytesType
  <1>2. \A i \in Int : CipBit(f, i, e) <=> CipBit(f, i, h)
    <2>1. CASE f = "grouping_data_length"
      BY <1>1, <2>1 DEF CipBit, CipOwner
    <2>2. CASE f = "compression_technique_id"
      BY <1>1, <2>2 DEF CipBit, CipOwner
    <2>3. CASE f = "reference_sample_interval"
      BY <1>1, <2>3 DEF CipBit, CipOwner
    <2>4. CASE f = "preprocessor_header"
      BY <1>1, <2>4 DEF CipBit, CipOwner
    <2>5. CASE f = "status"
      BY <1>1, <2>5 DEF CipBit, CipOwner
    <2>6. CASE f = "predictor_type"
      BY <1>1, <2>6 DEF CipBit, CipOwner
    <2>7. CASE f = "mapper_type"
      BY <1>1, <2>7 DEF CipBit, CipOwner
    <2>8. CASE f = "block_size"
      BY <1>1, <2>8 DEF CipBit, CipOwner
    <2>9. CASE f = "data_sense"
      BY <1>1, <2>9 DEF CipBit, CipOwner
    <2>10. CASE f = "sample_resolution"
      BY <1>1, <2>10 DEF CipBit, CipOwner
    <2>11. CASE f = "entropy_coder_header"
      BY <1>1, <2>11 DEF CipBit, CipOwner
    <2>12. CASE f = "resolution_range"
      BY <1>1, <2>12 DEF CipBit, CipOwner
    <2>13. CASE f = "cds_num"
      BY <1>1, <2>13 DEF CipBit, CipOwner
    <2>14. CASE f = "extended_header"
      BY <1>1, <2>14 DEF CipBit, CipOwner
    <2>15. CASE f = "extended_block_size"
      BY <1>1, <2>15 DEF CipBit, CipOwner
    <2>16. CASE f = "restricted_code_option"
      BY <1>1, <2>16 DEF CipBit, CipOwner
    <2>17. CASE f = "extended_sample_interval"
      BY <1>1, <2>17 DEF CipBit, CipOwner
    <2> QED
      BY <2>1, <2>2, <2>3, <2>4, <2>5, <2>6, <2>7, <2>8, <2>9, <2>10, <2>11, <2>12,
         <2>13, <2>14, <2>15, <2>16, <2>17, CipFieldNames
  <1> QED
    BY <1>2, CipDecoded

\* What a field that holds old holds when its setter is given n.
CipAdded(f, old, n) ==
    IF C!Legal(f, n)
    THEN (C!Code(f, n) \cap C!Owned(f)) \cup ((old \cup C!Code(f, n)) \ C!Owned(f))
    ELSE old

\* A number of the type of a field; an interval of 0 is none.
CipNumber(f, n) ==
    n \in Nat /\ n <= C!Largest(f) /\ (f = "extended_sample_interval" => n > 0)

\* A setter of the packet adds the code to its own field, and every other field
\* keeps what it has.
LEMMA CipSetter ==
    ASSUME NEW f \in C!CipFields, NEW n, CipNumber(f, n), NEW h \in C!CipBytes
    PROVE  /\ C!EncodeCipField(f, h, n) \in C!CipBytes
           /\ C!Legal(f, n) => C!Code(f, n) \in SUBSET Int
           /\ \A g \in C!CipFields :
                C!FieldBits(g, C!EncodeCipField(f, h, n))
                  = IF g = f THEN CipAdded(f, C!FieldBits(f, h), n)
                    ELSE C!FieldBits(g, h)
  <1> DEFINE e == C!EncodeCipField(f, h, n)
             c == C!Code(f, n)
  <1>1. /\ e \in C!CipBytes
        /\ C!Legal(f, n) => c \in SUBSET Int /\ CipSets(f, c, h, e)
        /\ ~C!Legal(f, n) => e = h
    BY CipEncoded DEF CipNumber
  <1> HIDE DEF e, c
  <1>2. ASSUME NEW g \in C!CipFields, g # f
        PROVE  C!FieldBits(g, e) = C!FieldBits(g, h)
    <2>1. CASE C!Legal(f, n)
      <3>1. \A j \in 0..9, i \in 0..7 :
              CipOwner(j, i) = g => (i \in e[j] <=> i \in h[j])
        BY <1>1, <1>2, <2>1 DEF CipSets
      <3> QED
        BY <1>1, <3>1, CipLocal
    <2>2. CASE ~C!Legal(f, n)
      BY <1>1, <2>2
    <2> QED
      BY <2>1, <2>2
  <1>3. C!FieldBits(f, e) = CipAdded(f, C!FieldBits(f, h), n)
    <2>1. CASE C!Legal(f, n)
      <3> DEFINE old == C!FieldBits(f, h)
                 new == C!FieldBits(f, e)
      <3>1. /\ old \in SUBSET Int /\ \A i \in Int : i \in old <=> CipBit(f, i, h)
            /\ new \in SUBSET Int /\ \A i \in Int : i \in new <=> CipBit(f, i, e)
        BY <1>1, CipDecoded
      <3>2. /\ c \in SUBSET Int
            /\ \A i \in Int : CipBit(f, i, e) <=>
                                i \in c \/ (i \notin C!Owned(f) /\ CipBit(f, i, h))
        BY <1>1, <2>1 DEF CipSets
      <3> HIDE DEF old, new
      <3>3. new = (c \cap C!Owned(f)) \cup ((old \cup c) \ C!Owned(f))
        BY <3>1, <3>2
      <3> QED
        BY <2>1, <3>3 DEF CipAdded, c, old, new
    <2>2. CASE ~C!Legal(f, n)
      BY <1>1, <2>2 DEF CipAdded
    <2> QED
      BY <2>1, <2>2
  <1> QED
    BY <1>1, <1>2, <1>3 DEF e, c

-----------------------------------------------------------------------------
\* The numbers the constructor gives the fields.
LEMMA CipArguments ==
    ASSUME NEW c \in C!Configuration
    PROVE  /\ \A f \in C!CipFields : CipNumber(f, C!Argument(c)[f])
           /\ C!Argument(c)["grouping_data_length"] = c.grouping_data_length
           /\ C!Argument(c)["compression_technique_id"] = c.compression_tech_id
           /\ C!Argument(c)["reference_sample_interval"]
                = c.reference_sample_interval
           /\ C!Argument(c)["status"] = c.preprocessor_status
           /\ C!Argument(c)["predictor_type"] = c.predictor_type
           /\ C!Argument(c)["mapper_type"] = c.mapper_type
           /\ C!Argument(c)["block_size"] = c.block_size
           /\ C!Argument(c)["data_sense"] = c.data_sense
           /\ C!Argument(c)["sample_resolution"] = c.sample_resolution
           /\ C!Argument(c)["resolution_range"] = c.sample_resolution
           /\ C!Argument(c)["cds_num"] = c.cds_per_packet
           /\ C!Argument(c)["extended_block_size"] = c.block_size
           /\ C!Argument(c)["restricted_code_option"] = c.restricted_codes
           /\ C!Argument(c)["extended_sample_interval"]
                = c.reference_sample_interval
  <1>1. /\ DOMAIN c = C!LongValues \cup C!ByteValues
        /\ \A v \in C!LongValues : c[v] \in Nat /\ c[v] <= 65535
        /\ \A v \in C!ByteValues : c[v] \in Nat /\ c[v] <= 255
        /\ c["reference_sample_interval"] > 0
    BY DEF C!Configuration
  <1>2. \A f \in C!CipFields :
          C!Argument(c)[f] =
            (CASE f = "status"                 -> c.preprocessor_status
               [] f = "compression_technique_id" -> c.compression_tech_id
               [] f = "resolution_range"       -> c.sample_resolution
               [] f = "cds_num"                -> c.cds_per_packet
               [] f = "extended_block_size"    -> c.block_size
               [] f = "restricted_code_option" -> c.restricted_codes
               [] f = "extended_sample_interval" -> c.reference_sample_interval
               [] f \in DOMAIN c               -> c[f]
               [] OTHER                        -> 0)
    BY Zenon DEF C!Argument
  <1>3. C!Argument(c)["grouping_data_length"] = c.grouping_data_length
    BY <1>1, <1>2, CipFieldNames DEF C!LongValues, C!ByteValues
  <1>4. C!Argument(c)["compression_technique_id"] = c.compression_tech_id
    BY <1>1, <1>2, CipFieldNames DEF C!LongValues, C!ByteValues
  <1>5. C!Argument(c)["reference_sample_interval"] = c.reference_sample_interval
    BY <1>1, <1>2, CipFieldNames DEF C!LongValues, C!ByteValues
  <1>6. C!Argument(c)["preprocessor_header"] = 0
    BY <1>1, <1>2, CipFieldNames DEF C!LongValues, C!ByteValues
  <1>7. C!Argument(c)["status"] = c.preprocessor_status
    BY <1>1, <1>2, CipFieldNames DEF C!LongValues, C!ByteValues
  <1>8. C!Argument(c)["predictor_type"] = c.predictor_type
    BY <1>1, <1>2, CipFieldNames DEF C!LongValues, C!ByteValues
  <1>9. C!Argument(c)["mapper_type"] = c.mapper_type
    BY <1>1, <1>2, CipFieldNames DEF C!LongValues, C!ByteValues
  <1>10. C!Argument(c)["block_size"] = c.block_size
    BY <1>1, <1>2, CipFieldNames DEF C!LongValues, C!ByteValues
  <1>11. C!Argument(c)["data_sense"] = c.data_sense
    BY <1>1, <1>2, CipFieldNames DEF C!LongValues, C!ByteValues
  <1>12. C!Argument(c)["sample_resolution"] = c.sample_resolution
    BY <1>1, <1>2, CipFieldNames DEF C!LongValues, C!ByteValues
  <1>13. C!Argument(c)["entropy_coder_header"] = 0
    BY <1>1, <1>2, CipFieldNames DEF C!LongValues, C!ByteValues
  <1>14. C!Argument(c)["resolution_range"] = c.sample_resolution
    BY <1>1, <1>2, CipFieldNames DEF C!LongValues, C!ByteValues
  <1>15. C!Argument(c)["cds_num"] = c.cds_per_packet
    BY <1>1, <1>2, CipFieldNames DEF C!LongValues, C!ByteValues
  <1>16. C!Argument(c)["extended_header"] = 0
    BY <1>1, <1>2, CipFieldNames DEF C!LongValues, C!ByteValues
  <1>17. C!Argument(c)["extended_block_size"] = c.block_size
    BY <1>1, <1>2, CipFieldNames DEF C!LongValues, C!ByteValues
  <1>18. C!Argument(c)["restricted_code_option"] = c.restricted_codes
    BY <1>1, <1>2, CipFieldNames DEF C!LongValues, C!ByteValues
  <1>19. C!Argument(c)["extended_sample_interval"] = c.reference_sample_interval
    BY <1>1, <1>2, CipFieldNames DEF C!LongValues, C!ByteValues
  <1>20. ASSUME NEW f \in C!CipFields PROVE CipNumber(f, C!Argument(c)[f])
    <2>1. CASE f = "grouping_data_length"
      BY <1>1, <1>3, <2>1 DEF CipNumber, C!Largest, C!LongValues, C!ByteValues
    <2>2. CASE f = "compression_technique_id"
      BY <1>1, <1>4, <2>2 DEF CipNumber, C!Largest, C!LongValues, C!ByteValues
    <2>3. CASE f = "reference_sample_interval"
      BY <1>1, <1>5, <2>3 DEF CipNumber, C!Largest, C!LongValues, C!ByteValues
    <2>4. CASE f = "preprocessor_header"
      BY <1>1, <1>6, <2>4 DEF CipNumber, C!Largest, C!LongValues, C!ByteValues
    <2>5. CASE f = "status"
      BY <1>1, <1>7, <2>5 DEF CipNumber, C!Largest, C!LongValues, C!ByteValues
    <2>6. CASE f = "predictor_type"
      BY <1>1, <1>8, <2>6 DEF CipNumber, C!Largest, C!LongValues, C!ByteValues
    <2>7. CASE f = "mapper_type"
      BY <1>1, <1>9, <2>7 DEF CipNumber, C!Largest, C!LongValues, C!ByteValues
    <2>8. CASE f = "block_size"
      BY <1>1, <1>10, <2>8 DEF CipNumber, C!Largest, C!LongValues, C!ByteValues
    <2>9. CASE f = "data_sense"
      BY <1>1, <1>11, <2>9 DEF CipNumber, C!Largest, C!LongValues, C!ByteValues
    <2>10. CASE f = "sample_resolution"
      BY <1>1, <1>12, <2>10 DEF CipNumber, C!Largest, C!LongValues, C!ByteValues
    <2>11. CASE f = "entropy_coder_header"
      BY <1>1, <1>13, <2>11 DEF CipNumber, C!Largest, C!LongValues, C!ByteValues
    <2>12. CASE f = "resolution_range"
      BY <1>1, <1>14, <2>12 DEF CipNumber, C!Largest, C!LongValues, C!ByteValues
    <2>13. CASE f = "cds_num"
      BY <1>1, <1>15, <2>13 DEF CipNumber, C!Largest, C!LongValues, C!ByteValues
    <2>14. CASE f = "extended_header"
      BY <1>1, <1>16, <2>14 DEF CipNumber, C!Largest, C!LongValues, C!ByteValues
    <2>15. CASE f = "extended_block_size"
      BY <1>1, <1>17, <2>15 DEF CipNumber, C!Largest, C!LongValues, C!ByteValues
    <2>16. CASE f = "restricted_code_option"
      BY <1>1, <1>18, <2>16 DEF CipNumber, C!Largest, C!LongValues, C!ByteValues
    <2>17. CASE f = "extended_sample_interval"
      BY <1>1, <1>19, <2>17 DEF CipNumber, C!Largest, C!LongValues, C!ByteValues
    <2> QED
      BY <2>1, <2>2, <2>3, <2>4, <2>5, <2>6, <2>7, <2>8,
         <2>9, <2>10, <2>11, <2>12, <2>13, <2>14, <2>15, <2>16,
         <2>17, CipFieldNames
  <1> QED
    BY <1>3, <1>4, <1>5, <1>6, <1>7, <1>8, <1>9, <1>10,
       <1>11, <1>12, <1>13, <1>14, <1>15, <1>16, <1>17, <1>18,
       <1>19, <1>20

\* What the setters of the fields S make of the bytes h, given the numbers a.
CipGiven(S, a, h, e) ==
    /\ e \in C!CipBytes
    /\ \A g \in C!CipFields :
         C!FieldBits(g, e) = IF g \in S THEN CipAdded(g, C!FieldBits(g, h), a[g])
                             ELSE C!FieldBits(g, h)

\* One setter more.
LEMMA OneMore ==
    ASSUME NEW S, NEW a, NEW h \in C!CipBytes, NEW d, CipGiven(S, a, h, d),
           NEW f \in C!CipFields \ S, CipNumber(f, a[f]),
           NEW e, e = C!EncodeCipField(f, d, a[f])
    PROVE  CipGiven(S \cup {f}, a, h, e)
  BY CipSetter DEF CipGiven

\* The four methods that encode a segment give its fields the numbers of the
\* constructor, and keep every other field.
LEMMA FixedGiven ==
    ASSUME NEW c \in C!Configuration, NEW h \in C!CipBytes
    PROVE  CipGiven(C!Fields["source_data_fixed"], C!Argument(c), h,
                    C!encode_source_data_fixed(h, c))
  <1> DEFINE a == C!Argument(c)
             h1 == C!encode_grouping_data_length(h, c.grouping_data_length)
             h2 == C!encode_compression_technique_id(h1, c.compression_tech_id)
             h3 == C!encode_reference_sample_interval(h2,
                                                      c.reference_sample_interval)
  <1>1. C!encode_source_data_fixed(h, c) = h3
    BY DEF C!encode_source_data_fixed
  <1>2. CipGiven({}, a, h, h)
    BY DEF CipGiven
  <1> HIDE DEF h1, h2, h3, a
  <1>3. CipGiven({"grouping_data_length"},
                 a, h, h1)
    <2>1. /\ "grouping_data_length" \in C!CipFields
          /\ CipNumber("grouping_data_length", a["grouping_data_length"])
      BY CipArguments, CipFieldNames DEF a
    <2>2. h1 = C!EncodeCipField("grouping_data_length", h,
                                a["grouping_data_length"])
      BY CipArguments DEF h1, a, C!EncodeCipField
    <2>3. CipGiven({} \cup {"grouping_data_length"}, a, h, h1)
      BY <1>2, <2>1, <2>2, OneMore
    <2> QED
      BY <2>3
  <1>4. CipGiven({"grouping_data_length", "compression_technique_id"},
                 a, h, h2)
    <2>1. /\ "compression_technique_id" \in C!CipFields
          /\ CipNumber("compression_technique_id", a["compression_technique_id"])
      BY CipArguments, CipFieldNames DEF a
    <2>2. h2 = C!EncodeCipField("compression_technique_id", h1,
                                a["compression_technique_id"])
      BY CipArguments DEF h2, a, C!EncodeCipField
    <2>3. CipGiven({"grouping_data_length"}
                   \cup {"compression_technique_id"}, a, h, h2)
      BY <1>3, <2>1, <2>2, OneMore
    <2> QED
      BY <2>3
  <1>5. CipGiven({"grouping_data_length", "compression_technique_id",
                  "reference_sample_interval"},
                 a, h, h3)
    <2>1. /\ "reference_sample_interval" \in C!CipFields
          /\ CipNumber("reference_sample_interval", a["reference_sample_interval"])
      BY CipArguments, CipFieldNames DEF a
    <2>2. h3 = C!EncodeCipField("reference_sample_interval", h2,
                                a["reference_sample_interval"])
      BY CipArguments DEF h3, a, C!EncodeCipField
    <2>3. CipGiven({"grouping_data_length", "compression_technique_id"}
                   \cup {"reference_sample_interval"}, a, h, h3)
      BY <1>4, <2>1, <2>2, OneMore
    <2> QED
      BY <2>3
  <1> QED
    BY <1>1, <1>5 DEF a, C!Fields

LEMMA PreprocessorGiven ==
    ASSUME NEW c \in C!Configuration, NEW h \in C!CipBytes
    PROVE  CipGiven(C!Fields["preprocessor"], C!Argument(c), h,
                    C!encode_preprocessor(h, c))
  <1> DEFINE a == C!Argument(c)
             h1 == C!encode_preprocessor_header(h)
             h2 == C!encode_preprocessor_status(h1, c.preprocessor_status)
             h3 == C!encode_preprocessor_predictor_type(h2, c.predictor_type)
             h4 == C!encode_preprocessor_mapper_type(h3, c.mapper_type)
             h5 == C!encode_preprocessor_block_size(h4, c.block_size)
             h6 == C!encode_preprocessor_data_sense(h5, c.data_sense)
             h7 == C!encode_preprocessor_sample_resolution(h6, c.sample_resolution)
  <1>1. C!encode_preprocessor(h, c) = h7
    BY DEF C!encode_preprocessor
  <1>2. CipGiven({}, a, h, h)
    BY DEF CipGiven
  <1> HIDE DEF h1, h2, h3, h4, h5, h6, h7, a
  <1>3. CipGiven({"preprocessor_header"},
                 a, h, h1)
    <2>1. /\ "preprocessor_header" \in C!CipFields
          /\ CipNumber("preprocessor_header", a["preprocessor_header"])
      BY CipArguments, CipFieldNames DEF a
    <2>2. h1 = C!EncodeCipField("preprocessor_header", h, a["preprocessor_header"])
      BY CipArguments DEF h1, a, C!EncodeCipField
    <2>3. CipGiven({} \cup {"preprocessor_header"}, a, h, h1)
      BY <1>2, <2>1, <2>2, OneMore
    <2> QED
      BY <2>3
  <1>4. CipGiven({"preprocessor_header", "status"},
                 a, h, h2)
    <2>1. /\ "status" \in C!CipFields
          /\ CipNumber("status", a["status"])
      BY CipArguments, CipFieldNames DEF a
    <2>2. h2 = C!EncodeCipField("status", h1, a["status"])
      BY CipArguments DEF h2, a, C!EncodeCipField
    <2>3. CipGiven({"preprocessor_header"} \cup {"status"}, a, h, h2)
      BY <1>3, <2>1, <2>2, OneMore
    <2> QED
      BY <2>3
  <1>5. CipGiven({"preprocessor_header", "status", "predictor_type"},
                 a, h, h3)
    <2>1. /\ "predictor_type" \in C!CipFields
          /\ CipNumber("predictor_type", a["predictor_type"])
      BY CipArguments, CipFieldNames DEF a
    <2>2. h3 = C!EncodeCipField("predictor_type", h2, a["predictor_type"])
      BY CipArguments DEF h3, a, C!EncodeCipField
    <2>3. CipGiven({"preprocessor_header", "status"}
                   \cup {"predictor_type"}, a, h, h3)
      BY <1>4, <2>1, <2>2, OneMore
    <2> QED
      BY <2>3
  <1>6. CipGiven({"preprocessor_header", "status", "predictor_type",
             "mapper_type"},
                 a, h, h4)
    <2>1. /\ "mapper_type" \in C!CipFields
          /\ CipNumber("mapper_type", a["mapper_type"])
      BY CipArguments, CipFieldNames DEF a
    <2>2. h4 = C!EncodeCipField("mapper_type", h3, a["mapper_type"])
      BY CipArguments DEF h4, a, C!EncodeCipField
    <2>3. CipGiven({"preprocessor_header", "status", "predictor_type"}
                   \cup {"mapper_type"}, a, h, h4)
      BY <1>5, <2>1, <2>2, OneMore
    <2> QED
      BY <2>3
  <1>7. CipGiven({"preprocessor_header", "status", "predictor_type",
             "mapper_type", "block_size"},
                 a, h, h5)
    <2>1. /\ "block_size" \in C!CipFields
          /\ CipNumber("block_size", a["block_size"])
      BY CipArguments, CipFieldNames DEF a
    <2>2. h5 = C!EncodeCipField("block_size", h4, a["block_size"])
      BY CipArguments DEF h5, a, C!EncodeCipField
    <2>3. CipGiven({"preprocessor_header", "status", "predictor_type",
                    "mapper_type"}
                   \cup {"block_size"}, a, h, h5)
      BY <1>6, <2>1, <2>2, OneMore
    <2> QED
      BY <2>3
  <1>8. CipGiven({"preprocessor_header", "status", "predictor_type",
             "mapper_type", "block_size", "data_sense"},
                 a, h, h6)
    <2>1. /\ "data_sense" \in C!CipFields
          /\ CipNumber("data_sense", a["data_sense"])
      BY CipArguments, CipFieldNames DEF a
    <2>2. h6 = C!EncodeCipField("data_sense", h5, a["data_sense"])
      BY CipArguments DEF h6, a, C!EncodeCipField
    <2>3. CipGiven({"preprocessor_header", "status", "predictor_type",
                    "mapper_type", "block_size"}
                   \cup {"data_sense"}, a, h, h6)
      BY <1>7, <2>1, <2>2, OneMore
    <2> QED
      BY <2>3
  <1>9. CipGiven({"preprocessor_header", "status", "predictor_type",
             "mapper_type", "block_size", "data_sense",
             "sample_resolution"},
                 a, h, h7)
    <2>1. /\ "sample_resolution" \in C!CipFields
          /\ CipNumber("sample_resolution", a["sample_resolution"])
      BY CipArguments, CipFieldNames DEF a
    <2>2. h7 = C!EncodeCipField("sample_resolution", h6, a["sample_resolution"])
      BY CipArguments DEF h7, a, C!EncodeCipField
    <2>3. CipGiven({"preprocessor_header", "status", "predictor_type",
                    "mapper_type", "block_size", "data_sense"}
                   \cup {"sample_resolution"}, a, h, h7)
      BY <1>8, <2>1, <2>2, OneMore
    <2> QED
      BY <2>3
  <1> QED
    BY <1>1, <1>9 DEF a, C!Fields

LEMMA EntropyCoderGiven ==
    ASSUME NEW c \in C!Configuration, NEW h \in C!CipBytes
    PROVE  CipGiven(C!Fields["entropy_coder"], C!Argument(c), h,
                    C!encode_entropy_coder(h, c))
  <1> DEFINE a == C!Argument(c)
             h1 == C!encode_entropy_coder_header(h)
             h2 == C!encode_entropy_coder_resolution_range(h1, c.sample_resolution)
             h3 == C!encode_entropy_coder_cds_num(h2, c.cds_per_packet)
  <1>1. C!encode_entropy_coder(h, c) = h3
    BY DEF C!encode_entropy_coder
  <1>2. CipGiven({}, a, h, h)
    BY DEF CipGiven
  <1> HIDE DEF h1, h2, h3, a
  <1>3. CipGiven({"entropy_coder_header"},
                 a, h, h1)
    <2>1. /\ "entropy_coder_header" \in C!CipFields
          /\ CipNumber("entropy_coder_header", a["entropy_coder_header"])
      BY CipArguments, CipFieldNames DEF a
    <2>2. h1 = C!EncodeCipField("entropy_coder_header", h,
                                a["entropy_coder_header"])
      BY CipArguments DEF h1, a, C!EncodeCipField
    <2>3. CipGiven({} \cup {"entropy_coder_header"}, a, h, h1)
      BY <1>2, <2>1, <2>2, OneMore
    <2> QED
      BY <2>3
  <1>4. CipGiven({"entropy_coder_header", "resolution_range"},
                 a, h, h2)
    <2>1. /\ "resolution_range" \in C!CipFields
          /\ CipNumber("resolution_range", a["resolution_range"])
      BY CipArguments, CipFieldNames DEF a
    <2>2. h2 = C!EncodeCipField("resolution_range", h1, a["resolution_range"])
      BY CipArguments DEF h2, a, C!EncodeCipField
    <2>3. CipGiven({"entropy_coder_header"} \cup {"resolution_range"}, a, h, h2)
      BY <1>3, <2>1, <2>2, OneMore
    <2> QED
      BY <2>3
  <1>5. CipGiven({"entropy_coder_header", "resolution_range", "cds_num"},
                 a, h, h3)
    <2>1. /\ "cds_num" \in C!CipFields
          /\ CipNumber("cds_num", a["cds_num"])
      BY CipArguments, CipFieldNames DEF a
    <2>2. h3 = C!EncodeCipField("cds_num", h2, a["cds_num"])
      BY CipArguments DEF h3, a, C!EncodeCipField
    <2>3. CipGiven({"entropy_coder_header", "resolution_range"}
                   \cup {"cds_num"}, a, h, h3)
      BY <1>4, <2>1, <2>2, OneMore
    <2> QED
      BY <2>3
  <1> QED
    BY <1>1, <1>5 DEF a, C!Fields

LEMMA ExtendedGiven ==
    ASSUME NEW c \in C!Configuration, NEW h \in C!CipBytes, NEW h0,
           h0 = [h EXCEPT ![8] = {}, ![9] = {}]
    PROVE  CipGiven(C!Fields["extended_parameters"], C!Argument(c), h0,
                    C!encode_extended_parameters(h, c))
  <1> DEFINE a == C!Argument(c)
             h1 == C!encode_extended_parameters_header(h0)
             h2 == C!encode_extended_parameters_block_size(h1, c.block_size)
             h3 == C!encode_extended_parameters_restricted_code_option(
                     h2, c.restricted_codes)
             h4 == C!encode_extended_parameters_reference_sample_interval(
                     h3, c.reference_sample_interval)
  <1>1. C!encode_extended_parameters(h, c) = h4
    BY DEF C!encode_extended_parameters
  <1>0. h0 \in C!CipBytes
    BY DEF C!CipBytes, C!Byte
  <1>2. CipGiven({}, a, h0, h0)
    BY <1>0 DEF CipGiven
  <1> HIDE DEF h1, h2, h3, h4, a
  <1>3. CipGiven({"extended_header"},
                 a, h0, h1)
    <2>1. /\ "extended_header" \in C!CipFields
          /\ CipNumber("extended_header", a["extended_header"])
      BY CipArguments, CipFieldNames DEF a
    <2>2. h1 = C!EncodeCipField("extended_header", h0, a["extended_header"])
      BY CipArguments DEF h1, a, C!EncodeCipField
    <2>3. CipGiven({} \cup {"extended_header"}, a, h0, h1)
      BY <1>0, <1>2, <2>1, <2>2, OneMore
    <2> QED
      BY <2>3
  <1>4. CipGiven({"extended_header", "extended_block_size"},
                 a, h0, h2)
    <2>1. /\ "extended_block_size" \in C!CipFields
          /\ CipNumber("extended_block_size", a["extended_block_size"])
      BY CipArguments, CipFieldNames DEF a
    <2>2. h2 = C!EncodeCipField("extended_block_size", h1, a["extended_block_size"])
      BY CipArguments DEF h2, a, C!EncodeCipField
    <2>3. CipGiven({"extended_header"} \cup {"extended_block_size"}, a, h0, h2)
      BY <1>0, <1>3, <2>1, <2>2, OneMore
    <2> QED
      BY <2>3
  <1>5. CipGiven({"extended_header", "extended_block_size",
                  "restricted_code_option"},
                 a, h0, h3)
    <2>1. /\ "restricted_code_option" \in C!CipFields
          /\ CipNumber("restricted_code_option", a["restricted_code_option"])
      BY CipArguments, CipFieldNames DEF a
    <2>2. h3 = C!EncodeCipField("restricted_code_option", h2,
                                a["restricted_code_option"])
      BY CipArguments DEF h3, a, C!EncodeCipField
    <2>3. CipGiven({"extended_header", "extended_block_size"}
                   \cup {"restricted_code_option"}, a, h0, h3)
      BY <1>0, <1>4, <2>1, <2>2, OneMore
    <2> QED
      BY <2>3
  <1>6. CipGiven({"extended_header", "extended_block_size",
                  "restricted_code_option", "extended_sample_interval"},
                 a, h0, h4)
    <2>1. /\ "extended_sample_interval" \in C!CipFields
          /\ CipNumber("extended_sample_interval", a["extended_sample_interval"])
      BY CipArguments, CipFieldNames DEF a
    <2>2. h4 = C!EncodeCipField("extended_sample_interval", h3,
                                a["extended_sample_interval"])
      BY CipArguments DEF h4, a, C!EncodeCipField
    <2>3. CipGiven({"extended_header", "extended_block_size",
                    "restricted_code_option"}
                   \cup {"extended_sample_interval"}, a, h0, h4)
      BY <1>0, <1>5, <2>1, <2>2, OneMore
    <2> QED
      BY <2>3
  <1> QED
    BY <1>1, <1>6 DEF a, C!Fields

\* The extended parameters of which the two bytes were cleared.
LEMMA Cleared ==
    ASSUME NEW p \in C!CipBytes, NEW p0, p0 = [p EXCEPT ![8] = {}, ![9] = {}]
    PROVE  /\ p0 \in C!CipBytes
           /\ \A f \in C!CipFields :
                C!FieldBits(f, p0) = IF f \in C!Fields["extended_parameters"]
                                     THEN {} ELSE C!FieldBits(f, p)
  <1>1. /\ p0 \in C!CipBytes
        /\ \A j \in 0..9 : p0[j] = IF j \in {8, 9} THEN {} ELSE p[j]
    BY DEF C!CipBytes, C!Byte
  <1>2. ASSUME NEW f \in C!Fields["extended_parameters"]
        PROVE  C!FieldBits(f, p0) = {}
    <2>1. p0[8] = {} /\ p0[9] = {}
      <3>1. 8 \in 0..9 /\ 9 \in 0..9
        OBVIOUS
      <3> QED
        BY <1>1, <3>1
    <2>2. CASE f = "extended_header"
      <3>1. \A i \in Int : ~CipBit(f, i, p0)
        BY <2>1, <2>2 DEF CipBit
      <3> QED
        BY <1>1, <2>2, <3>1, CipDecoded, CipFieldNames
    <2>3. CASE f = "extended_block_size"
      <3>1. \A i \in Int : ~CipBit(f, i, p0)
        BY <2>1, <2>3 DEF CipBit
      <3> QED
        BY <1>1, <2>3, <3>1, CipDecoded, CipFieldNames
    <2>4. CASE f = "restricted_code_option"
      <3>1. \A i \in Int : ~CipBit(f, i, p0)
        BY <2>1, <2>4 DEF CipBit
      <3> QED
        BY <1>1, <2>4, <3>1, CipDecoded, CipFieldNames
    <2>5. CASE f = "extended_sample_interval"
      <3>1. \A i \in Int : ~CipBit(f, i, p0)
        BY <2>1, <2>5 DEF CipBit
      <3> QED
        BY <1>1, <2>5, <3>1, CipDecoded, CipFieldNames
    <2> QED
      BY <2>2, <2>3, <2>4, <2>5 DEF C!Fields
  <1>3. ASSUME NEW f \in C!CipFields \ C!Fields["extended_parameters"]
        PROVE  C!FieldBits(f, p0) = C!FieldBits(f, p)
    <2>1. \A i \in 0..7, j \in {8, 9} : CipOwner(j, i) # f
      BY CipFieldNames DEF CipOwner, C!Fields
    <2>2. \A j \in 0..9, i \in 0..7 :
            CipOwner(j, i) = f => (i \in p0[j] <=> i \in p[j])
      BY <1>1, <2>1
    <2> QED
      BY <1>1, <2>2, CipLocal
  <1> QED
    BY <1>1, <1>2, <1>3

\* The constructor gives each field its number once, in memory of which it
\* clears the extended parameters.
LEMMA CipConstructor ==
    ASSUME NEW c \in C!Configuration, NEW h \in C!CipBytes,
           NEW h0, h0 = [h EXCEPT ![8] = {}, ![9] = {}]
    PROVE  /\ h0 \in C!CipBytes /\ C!EncodeCip(h, c) \in C!CipBytes
           /\ \A f \in C!CipFields :
                C!FieldBits(f, C!EncodeCip(h, c))
                  = CipAdded(f, C!FieldBits(f, h0), C!Argument(c)[f])
  <1> DEFINE a == C!Argument(c)
             h1 == C!encode_source_data_fixed(h, c)
             h2 == C!encode_preprocessor(h1, c)
             h3 == C!encode_entropy_coder(h2, c)
             h4 == [h3 EXCEPT ![8] = {}, ![9] = {}]
             e == C!encode_extended_parameters(h3, c)
  <1>1. C!EncodeCip(h, c) = e
    BY DEF C!EncodeCip
  <1>2. CipGiven(C!Fields["source_data_fixed"], a, h, h1)
    BY FixedGiven
  <1> HIDE DEF h1
  <1>3. CipGiven(C!Fields["preprocessor"], a, h1, h2)
    BY <1>2, PreprocessorGiven DEF CipGiven
  <1> HIDE DEF h2
  <1>4. CipGiven(C!Fields["entropy_coder"], a, h2, h3)
    BY <1>3, EntropyCoderGiven DEF CipGiven
  <1> HIDE DEF h3
  <1>5. CipGiven(C!Fields["extended_parameters"], a, h4, e)
    BY <1>4, ExtendedGiven DEF CipGiven
  <1> HIDE DEF e, a
  <1>7. /\ h0 \in C!CipBytes
        /\ \A f \in C!CipFields :
             C!FieldBits(f, h0) = IF f \in C!Fields["extended_parameters"]
                                  THEN {} ELSE C!FieldBits(f, h)
    BY Cleared
  <1>8. /\ h4 \in C!CipBytes
        /\ \A f \in C!CipFields :
             C!FieldBits(f, h4) = IF f \in C!Fields["extended_parameters"]
                                  THEN {} ELSE C!FieldBits(f, h3)
    BY <1>4, Cleared DEF CipGiven, h4
  <1> HIDE DEF h4
  <1>9. ASSUME NEW f \in C!CipFields
        PROVE  C!FieldBits(f, e) = CipAdded(f, C!FieldBits(f, h0), a[f])
    <2>1. CASE f \in C!Fields["source_data_fixed"]
      <3>1. /\ f \notin C!Fields["preprocessor"]
            /\ f \notin C!Fields["entropy_coder"]
            /\ f \notin C!Fields["extended_parameters"]
        BY <2>1 DEF C!Fields
      <3> QED
        BY <1>2, <1>3, <1>4, <1>5, <1>7, <1>8, <2>1, <3>1 DEF CipGiven
    <2>2. CASE f \in C!Fields["preprocessor"]
      <3>1. /\ f \notin C!Fields["source_data_fixed"]
            /\ f \notin C!Fields["entropy_coder"]
            /\ f \notin C!Fields["extended_parameters"]
        BY <2>2 DEF C!Fields
      <3> QED
        BY <1>2, <1>3, <1>4, <1>5, <1>7, <1>8, <2>2, <3>1 DEF CipGiven
    <2>3. CASE f \in C!Fields["entropy_coder"]
      <3>1. /\ f \notin C!Fields["source_data_fixed"]
            /\ f \notin C!Fields["preprocessor"]
            /\ f \notin C!Fields["extended_parameters"]
        BY <2>3 DEF C!Fields
      <3> QED
        BY <1>2, <1>3, <1>4, <1>5, <1>7, <1>8, <2>3, <3>1 DEF CipGiven
    <2>4. CASE f \in C!Fields["extended_parameters"]
      BY <1>5, <1>7, <1>8, <2>4 DEF CipGiven
    <2> QED
      BY <2>1, <2>2, <2>3, <2>4, CipFieldNames DEF C!Fields
  <1> QED
    BY <1>1, <1>5, <1>7, <1>9 DEF CipGiven, a

-----------------------------------------------------------------------------
\* The inductive invariant of a packet, as that of a primary header.
CipInv ==
    /\ d_source_data \in C!CipBytes /\ start \in C!CipBytes
    /\ segment \in C!Segments
    /\ given \in [C!CipFields -> SUBSET Int] /\ arg \in [C!CipFields -> SUBSET Int]
    /\ written \subseteq C!CipFields
    /\ \A f \in C!CipFields \ written : given[f] = {}
    /\ \A f \in C!CipFields : arg[f] \subseteq given[f]
    /\ C!FieldsAccumulate

\* It holds of a new object.
LEMMA CipInit == C!Init => CipInv
  BY CipAssumption DEF C!Init, C!NoCode, CipInv, C!FieldsAccumulate, C!Accumulated

\* The numbers the setters are given are of the types of the fields.
LEMMA CipSampled ==
    ASSUME NEW f \in C!CipFields, NEW n \in CipSamples[f]
    PROVE  CipNumber(f, n)
  <1>1. n \in 0..C!Largest(f) /\ C!Largest(f) \in Nat
    BY CipAssumption DEF C!Largest
  <1>2. f = "extended_sample_interval" => n # 0
    BY CipAssumption
  <1> QED
    BY <1>1, <1>2 DEF CipNumber

\* The fields of a part of the packet are fields of the packet.
LEMMA SegmentFields ==
    ASSUME segment \in C!Segments
    PROVE  C!Fields[segment] \subseteq C!CipFields
  BY DEF C!CipFields, C!Segments

\* A setter keeps it.
LEMMA CipEncodeStep ==
    ASSUME CipInv, NEW f \in C!CipFields, NEW n \in CipSamples[f], C!Encode(f, n)
    PROVE  CipInv'
  <1> DEFINE c == C!Code(f, n)
  <1>1. /\ d_source_data' \in C!CipBytes
        /\ C!Legal(f, n) => c \in SUBSET Int
        /\ C!FieldBits(f, d_source_data')
             = CipAdded(f, C!FieldBits(f, d_source_data), n)
        /\ \A g \in C!CipFields \ {f} :
             C!FieldBits(g, d_source_data') = C!FieldBits(g, d_source_data)
    BY CipSetter, CipSampled DEF C!Encode, CipInv
  <1>2. segment' = segment /\ start' = start
    BY DEF C!Encode
  <1> HIDE DEF c
  <1>3. CASE C!Legal(f, n)
    <2>1. /\ given' = [given EXCEPT ![f] = @ \cup c]
          /\ arg' = [arg EXCEPT ![f] = c]
          /\ written' = written \cup {f}
      BY <1>3 DEF C!Encode, c
    <2>2. /\ given' \in [C!CipFields -> SUBSET Int]
          /\ arg' \in [C!CipFields -> SUBSET Int]
          /\ given'[f] = given[f] \cup c /\ arg'[f] = c
          /\ \A g \in C!CipFields \ {f} : given'[g] = given[g] /\ arg'[g] = arg[g]
      BY <1>1, <1>3, <2>1 DEF CipInv
    <2>3. C!FieldBits(f, d_source_data') = C!Accumulated(f)'
      <3>1. C!FieldBits(f, d_source_data) = C!Accumulated(f)
        BY DEF CipInv, C!FieldsAccumulate
      <3>2. f \notin written => given[f] = {}
        BY DEF CipInv
      <3> QED
        BY <1>1, <1>2, <1>3, <2>1, <2>2, <3>1, <3>2 DEF CipAdded, C!Accumulated, c
    <2>4. ASSUME NEW g \in C!CipFields \ {f}
          PROVE  C!FieldBits(g, d_source_data') = C!Accumulated(g)'
      <3>1. C!FieldBits(g, d_source_data) = C!Accumulated(g)
        BY DEF CipInv, C!FieldsAccumulate
      <3> QED
        BY <1>1, <1>2, <2>1, <2>2, <3>1 DEF C!Accumulated
    <2> QED
      BY <1>1, <1>2, <2>1, <2>2, <2>3, <2>4 DEF CipInv, C!FieldsAccumulate
  <1>4. CASE ~C!Legal(f, n)
    <2>1. UNCHANGED <<given, arg, written>>
      BY <1>4 DEF C!Encode
    <2>2. \A g \in C!CipFields :
            C!FieldBits(g, d_source_data') = C!FieldBits(g, d_source_data)
      BY <1>1, <1>4 DEF CipAdded
    <2> QED
      BY <1>1, <1>2, <2>1, <2>2 DEF CipInv, C!FieldsAccumulate, C!Accumulated
  <1> QED
    BY <1>1, <1>3, <1>4

\* The constructor keeps it.
LEMMA CipConstructStep ==
    ASSUME CipInv, NEW c \in CipConfigs, C!Construct(c)
    PROVE  CipInv'
  <1> DEFINE a == C!Argument(c)
  <1>1. c \in C!Configuration
    BY CipAssumption
  <1> DEFINE d0 == [d_source_data EXCEPT ![8] = {}, ![9] = {}]
  <1>2. \A f \in C!CipFields : C!FieldBits(f, d_source_data) = C!FieldBits(f, start)
    BY DEF C!Construct, CipInv, C!FieldsAccumulate, C!Accumulated
  <1>3. /\ start' \in C!CipBytes /\ d0 \in C!CipBytes
        /\ \A f \in C!CipFields : C!FieldBits(f, d0) = C!FieldBits(f, start')
    <2> DEFINE s0 == [start EXCEPT ![8] = {}, ![9] = {}]
    <2>1. start' = s0
      BY DEF C!Construct
    <2>2. /\ s0 \in C!CipBytes
          /\ \A f \in C!CipFields :
               C!FieldBits(f, s0) = IF f \in C!Fields["extended_parameters"]
                                    THEN {} ELSE C!FieldBits(f, start)
      BY Cleared DEF CipInv
    <2>3. /\ d0 \in C!CipBytes
          /\ \A f \in C!CipFields :
               C!FieldBits(f, d0) = IF f \in C!Fields["extended_parameters"]
                                    THEN {} ELSE C!FieldBits(f, d_source_data)
      BY Cleared DEF CipInv
    <2> HIDE DEF s0, d0
    <2> QED
      BY <1>2, <2>1, <2>2, <2>3
  <1>4. /\ d_source_data' \in C!CipBytes
        /\ \A f \in C!CipFields :
             C!FieldBits(f, d_source_data') = CipAdded(f, C!FieldBits(f, d0), a[f])
    BY <1>1, CipConstructor DEF C!Construct, CipInv
  <1>5. \A f \in C!CipFields : C!Legal(f, a[f]) => C!Code(f, a[f]) \in SUBSET Int
    <2>1. \A f \in C!CipFields : CipNumber(f, a[f])
      BY <1>1, CipArguments
    <2> HIDE DEF a
    <2> QED
      BY <2>1, CipSetter DEF CipInv
  <1> HIDE DEF d0
  <1>6. /\ written' = { f \in C!CipFields : C!Legal(f, a[f]) }
        /\ arg' = [f \in C!CipFields |->
                     IF f \in written' THEN C!Code(f, a[f]) ELSE {}]
        /\ given' = arg' /\ segment' = segment
    BY DEF C!Construct
  <1> HIDE DEF a
  <1>7. arg' \in [C!CipFields -> SUBSET Int]
    BY <1>5, <1>6
  <1>8. \A f \in C!CipFields : C!FieldBits(f, d_source_data') = C!Accumulated(f)'
    BY <1>3, <1>4, <1>6, <1>7 DEF CipAdded, C!Accumulated
  <1> QED
    BY <1>3, <1>4, <1>6, <1>7, <1>8 DEF CipInv, C!FieldsAccumulate

\* The fields whose bits are those of the given bytes.
Covers(bytes, fields) ==
    \A j \in 0..9, i \in 0..7 :
        CipOwner(j, i) \in C!CipFields =>
        (j \in bytes <=> CipOwner(j, i) \in fields)

\* The fields of a packet of which some bytes are replaced by those of another.
LEMMA CipMerged ==
    ASSUME NEW p \in C!CipBytes, NEW q \in C!CipBytes,
           NEW bytes, NEW fields, Covers(bytes, fields),
           NEW e, e = [j \in 0..9 |-> IF j \in bytes THEN q[j] ELSE p[j]]
    PROVE  /\ e \in C!CipBytes
           /\ \A f \in C!CipFields :
                C!FieldBits(f, e) = IF f \in fields THEN C!FieldBits(f, q)
                                    ELSE C!FieldBits(f, p)
  <1>0. /\ e \in C!CipBytes
        /\ \A j \in 0..9 : e[j] = IF j \in bytes THEN q[j] ELSE p[j]
    BY DEF C!CipBytes
  <1>1. ASSUME NEW f \in C!CipFields, f \in fields
        PROVE  C!FieldBits(f, e) = C!FieldBits(f, q)
    <2>1. \A j \in 0..9, i \in 0..7 :
            CipOwner(j, i) = f => (i \in e[j] <=> i \in q[j])
      BY <1>0, <1>1 DEF Covers
    <2> QED
      BY <1>0, <2>1, CipLocal
  <1>2. ASSUME NEW f \in C!CipFields, f \notin fields
        PROVE  C!FieldBits(f, e) = C!FieldBits(f, p)
    <2>1. \A j \in 0..9, i \in 0..7 :
            CipOwner(j, i) = f => (i \in e[j] <=> i \in p[j])
      BY <1>0, <1>2 DEF Covers
    <2> QED
      BY <1>0, <2>1, CipLocal
  <1> QED
    BY <1>0, <1>1, <1>2

\* A part of the packet that is replaced holds what it is given, and its fields
\* are as new.
LEMMA CipSetStep ==
    ASSUME CipInv, NEW hdr \in CipReceived, NEW bytes,
           NEW fields \in SUBSET C!CipFields,
           C!Set(hdr, bytes, fields), Covers(bytes, fields)
    PROVE  CipInv'
  <1> DEFINE new(p) == [j \in 0..9 |-> IF j \in bytes THEN hdr[j] ELSE p[j]]
  <1>1. d_source_data' = new(d_source_data) /\ start' = new(start)
    BY DEF C!Set
  <1>2. /\ given' \in [C!CipFields -> SUBSET Int]
        /\ arg' \in [C!CipFields -> SUBSET Int]
        /\ \A f \in C!CipFields \ fields : given'[f] = given[f] /\ arg'[f] = arg[f]
        /\ \A f \in fields : given'[f] = {} /\ arg'[f] = {}
        /\ written' = written \ fields /\ segment' = segment
    BY DEF C!Set, CipInv
  <1>3. ASSUME NEW p \in C!CipBytes
        PROVE  /\ new(p) \in C!CipBytes
               /\ \A f \in C!CipFields :
                    C!FieldBits(f, new(p))
                      = IF f \in fields THEN C!FieldBits(f, hdr)
                        ELSE C!FieldBits(f, p)
    BY CipAssumption, CipMerged
  <1> HIDE DEF new
  <1>4. /\ d_source_data' \in C!CipBytes /\ start' \in C!CipBytes
        /\ \A f \in C!CipFields :
             C!FieldBits(f, d_source_data')
               = IF f \in fields THEN C!FieldBits(f, hdr)
                 ELSE C!FieldBits(f, d_source_data)
        /\ \A f \in C!CipFields :
             C!FieldBits(f, start')
               = IF f \in fields THEN C!FieldBits(f, hdr) ELSE C!FieldBits(f, start)
    BY <1>1, <1>3 DEF CipInv
  <1>5. \A f \in C!CipFields : C!FieldBits(f, d_source_data') = C!Accumulated(f)'
    BY <1>2, <1>4 DEF CipInv, C!FieldsAccumulate, C!Accumulated
  <1> QED
    BY <1>2, <1>4, <1>5 DEF CipInv, C!FieldsAccumulate

\* Every step of the object keeps it.
LEMMA CipStep ==
    ASSUME CipInv, C!Next
    PROVE  CipInv'
  <1>1. ASSUME NEW c \in CipConfigs, C!Construct(c)
        PROVE  CipInv'
    BY <1>1, CipConstructStep
  <1>2. ASSUME NEW f \in C!Fields[segment], NEW n \in CipSamples[f], C!Encode(f, n)
        PROVE  CipInv'
    BY <1>2, CipEncodeStep, SegmentFields DEF CipInv
  <1>3. ASSUME NEW hdr \in CipReceived, C!SetSourceDataFixed(hdr)
        PROVE  CipInv'
    <2>1. C!Fields.source_data_fixed \in SUBSET C!CipFields
      BY CipFieldNames DEF C!Fields
    <2>2. Covers(0..3, C!Fields.source_data_fixed)
      BY CipFieldNames DEF Covers, CipOwner, C!Fields
    <2> QED
      BY <1>3, <2>1, <2>2, CipSetStep DEF C!SetSourceDataFixed
  <1>4. ASSUME NEW hdr \in CipReceived, C!SetSourceDataVariable(hdr)
        PROVE  CipInv'
    <2>1. C!CipFields \ C!Fields.source_data_fixed \in SUBSET C!CipFields
      OBVIOUS
    <2>2. Covers(4..9, C!CipFields \ C!Fields.source_data_fixed)
      BY CipFieldNames DEF Covers, CipOwner, C!Fields
    <2> QED
      BY <1>4, <2>1, <2>2, CipSetStep DEF C!SetSourceDataVariable
  <1> QED
    BY <1>1, <1>2, <1>3, <1>4 DEF C!Next

\* A field holds no bit but its own.
LEMMA CipApart ==
    ASSUME CipInv
    PROVE  C!FieldsApart
  BY DEF CipInv, C!FieldsApart, C!FieldsAccumulate, C!Accumulated

-----------------------------------------------------------------------------
\* Whatever the object, the invariant of its kind holds.
HInv ==
    /\ object \in {"primary", "cip"}
    /\ object = "primary" => PrimaryInv
    /\ object = "cip" => CipInv

\* It holds of a new object, and every step keeps it.
LEMMA HInvInit == HInit => HInv
  BY PrimaryInit, CipInit DEF HInit, HInv

LEMMA HInvStep == HInv /\ [HNext]_ovars => HInv'
  <1> SUFFICES ASSUME HInv, [HNext]_ovars
               PROVE  HInv'
    OBVIOUS
  <1>1. CASE /\ object = "primary" /\ Next
             /\ UNCHANGED <<object, segment, d_source_data>>
    BY <1>1, PrimaryStep DEF HInv
  <1>2. CASE object = "cip" /\ C!Next /\ UNCHANGED <<object, d_primary_header>>
    BY <1>2, CipStep DEF HInv
  <1>3. CASE UNCHANGED ovars
    <2>1. object = "primary" => PrimaryInv'
      BY <1>3
      DEF HInv, PrimaryInv, FieldsAccumulate, Accumulated, Reaching, ovars, pvars
    <2>2. object = "cip" => CipInv'
      BY <1>3
      DEF HInv, CipInv, C!FieldsAccumulate, C!Accumulated, ovars, pvars
    <2> QED
      BY <1>3, <2>1, <2>2 DEF HInv, ovars
  <1> QED
    BY <1>1, <1>2, <1>3 DEF HNext

\* It holds in every behaviour.
LEMMA HInvAlways == HSpec => []HInv
  BY HInvInit, HInvStep, PTL DEF HSpec

\* The fields of either header hold exactly what the setters were given and the
\* bits of the memory they were made in, whatever the order of the setters, for
\* every number that the type of a setter's argument has, legal or not and too
\* wide for its field or not, and however often the fields are replaced.
THEOREM HeaderFieldsCorrect == HSpec => []HeaderFieldsAccumulate
  <1>1. HInv => HeaderFieldsAccumulate
    BY DEF HInv, HeaderFieldsAccumulate, PrimaryInv, CipInv
  <1> QED
    BY <1>1, HInvAlways, PTL

\* The numbers the secondary header flag of a primary header was given are 0 and 1.
FlagOfOneBit == object = "primary" => given["sec_hdr_flag"] \subseteq {0}

\* The setter of the secondary header flag is the only one that reaches another
\* field: for as long as it is given 0 and 1, no field of either header holds a
\* bit that neither its memory nor its own setter gave it, also where two fields
\* share a byte.  HeaderFieldsAccumulate says what other numbers do.
THEOREM SettersCorrect == HSpec => [](FlagOfOneBit => SettersIndependent)
  <1>1. HInv => (FlagOfOneBit => SettersIndependent)
    BY PrimaryApart, CipApart DEF HInv, FlagOfOneBit, SettersIndependent
  <1> QED
    BY <1>1, HInvAlways, PTL

-----------------------------------------------------------------------------
\* The number of 16 bits is that of its two bytes.
LEMMA NumWord ==
    ASSUME NEW b \in SUBSET (0..15), NEW lo \in SUBSET (0..7),
           NEW hi \in SUBSET (0..7),
           \A i \in 0..7 : (i \in lo <=> i \in b) /\ (i \in hi <=> i + 8 \in b)
    PROVE  Num(b) = Num(lo) + 256 * Num(hi)
  <1>1. /\ Weight(b, 0) = Weight(lo, 0) /\ Weight(b, 1) = Weight(lo, 1)
        /\ Weight(b, 2) = Weight(lo, 2) /\ Weight(b, 3) = Weight(lo, 3)
        /\ Weight(b, 4) = Weight(lo, 4) /\ Weight(b, 5) = Weight(lo, 5)
        /\ Weight(b, 6) = Weight(lo, 6) /\ Weight(b, 7) = Weight(lo, 7)
    BY DEF Weight
  <1>2. /\ Weight(b, 8) = 256 * Weight(hi, 0)
        /\ Weight(b, 9) = 256 * Weight(hi, 1)
        /\ Weight(b, 10) = 256 * Weight(hi, 2)
        /\ Weight(b, 11) = 256 * Weight(hi, 3)
        /\ Weight(b, 12) = 256 * Weight(hi, 4)
        /\ Weight(b, 13) = 256 * Weight(hi, 5)
        /\ Weight(b, 14) = 256 * Weight(hi, 6)
        /\ Weight(b, 15) = 256 * Weight(hi, 7)
    <2>1. /\ 0 \in hi <=> 8 \in b
          /\ 1 \in hi <=> 9 \in b
          /\ 2 \in hi <=> 10 \in b
          /\ 3 \in hi <=> 11 \in b
          /\ 4 \in hi <=> 12 \in b
          /\ 5 \in hi <=> 13 \in b
          /\ 6 \in hi <=> 14 \in b
          /\ 7 \in hi <=> 15 \in b
      OBVIOUS
    <2> QED
      BY <2>1 DEF Weight
  <1>3. /\ \A i \in 0..7 : Weight(lo, i) \in Int
        /\ \A i \in 0..7 : Weight(hi, i) \in Int
    <2>1. 0..7 = {0, 1, 2, 3, 4, 5, 6, 7}
      OBVIOUS
    <2> QED
      BY <2>1, ByteWeights
  <1> QED
    BY <1>1, <1>2, <1>3, NumByte DEF Num

\* The bits of a number of 16 bits are those of the number.
LEMMA WordNumBits ==
    ASSUME NEW n \in Nat, n <= 65535
    PROVE  Num(Bits(n)) = n
  <1> DEFINE lo == n % 256
             hi == n \div 256
  <1>1. lo \in Nat /\ lo < 256 /\ hi \in Nat /\ hi < 256 /\ n = lo + 256 * hi
    OBVIOUS
  <1>2. /\ Bits(n) \in SUBSET (0..15) /\ Bits(lo) \in SUBSET (0..7)
        /\ Bits(hi) \in SUBSET (0..7)
    BY <1>1, BitByBit, SmallBits
  <1>3. /\ lo % 2 = n % 2 /\ (lo \div 2) % 2 = (n \div 2) % 2
        /\ (lo \div 4) % 2 = (n \div 4) % 2 /\ (lo \div 8) % 2 = (n \div 8) % 2
        /\ (lo \div 16) % 2 = (n \div 16) % 2
        /\ (lo \div 32) % 2 = (n \div 32) % 2
        /\ (lo \div 64) % 2 = (n \div 64) % 2
        /\ (lo \div 128) % 2 = (n \div 128) % 2
    OBVIOUS
  <1>4. /\ hi % 2 = (n \div 256) % 2 /\ (hi \div 2) % 2 = (n \div 512) % 2
        /\ (hi \div 4) % 2 = (n \div 1024) % 2
        /\ (hi \div 8) % 2 = (n \div 2048) % 2
        /\ (hi \div 16) % 2 = (n \div 4096) % 2
        /\ (hi \div 32) % 2 = (n \div 8192) % 2
        /\ (hi \div 64) % 2 = (n \div 16384) % 2
        /\ (hi \div 128) % 2 = (n \div 32768) % 2
    <2>1. /\ hi \div 2 = n \div 512 /\ hi \div 4 = n \div 1024
      OBVIOUS
    <2>2. /\ hi \div 8 = n \div 2048 /\ hi \div 16 = n \div 4096
      OBVIOUS
    <2>3. /\ hi \div 32 = n \div 8192 /\ hi \div 64 = n \div 16384
      OBVIOUS
    <2>4. hi \div 128 = n \div 32768
      OBVIOUS
    <2> QED
      BY <2>1, <2>2, <2>3, <2>4
  <1> HIDE DEF lo, hi
  <1>5. \A i \in 0..7 : (i \in Bits(lo) <=> i \in Bits(n))
    <2>1. 0..7 = {0, 1, 2, 3, 4, 5, 6, 7}
      OBVIOUS
    <2> QED
      BY <1>1, <1>3, <2>1, BitByBit
  <1>6. \A i \in 0..7 : (i \in Bits(hi) <=> i + 8 \in Bits(n))
    <2>1. /\ 0 \in Bits(hi) <=> hi % 2 = 1
          /\ 1 \in Bits(hi) <=> (hi \div 2) % 2 = 1
          /\ 2 \in Bits(hi) <=> (hi \div 4) % 2 = 1
          /\ 3 \in Bits(hi) <=> (hi \div 8) % 2 = 1
          /\ 4 \in Bits(hi) <=> (hi \div 16) % 2 = 1
          /\ 5 \in Bits(hi) <=> (hi \div 32) % 2 = 1
          /\ 6 \in Bits(hi) <=> (hi \div 64) % 2 = 1
          /\ 7 \in Bits(hi) <=> (hi \div 128) % 2 = 1
      BY <1>1, BitByBit
    <2>2. /\ 8 \in Bits(n) <=> (n \div 256) % 2 = 1
          /\ 9 \in Bits(n) <=> (n \div 512) % 2 = 1
          /\ 10 \in Bits(n) <=> (n \div 1024) % 2 = 1
          /\ 11 \in Bits(n) <=> (n \div 2048) % 2 = 1
          /\ 12 \in Bits(n) <=> (n \div 4096) % 2 = 1
          /\ 13 \in Bits(n) <=> (n \div 8192) % 2 = 1
          /\ 14 \in Bits(n) <=> (n \div 16384) % 2 = 1
          /\ 15 \in Bits(n) <=> (n \div 32768) % 2 = 1
      BY BitByBit
    <2>3. /\ 0 \in Bits(hi) <=> 8 \in Bits(n)
          /\ 1 \in Bits(hi) <=> 9 \in Bits(n)
          /\ 2 \in Bits(hi) <=> 10 \in Bits(n)
          /\ 3 \in Bits(hi) <=> 11 \in Bits(n)
          /\ 4 \in Bits(hi) <=> 12 \in Bits(n)
          /\ 5 \in Bits(hi) <=> 13 \in Bits(n)
          /\ 6 \in Bits(hi) <=> 14 \in Bits(n)
          /\ 7 \in Bits(hi) <=> 15 \in Bits(n)
      BY <1>4, <2>1, <2>2
    <2> QED
      BY <2>3
  <1> HIDE DEF Bits
  <1>7. Num(Bits(n)) = Num(Bits(lo)) + 256 * Num(Bits(hi))
    BY <1>2, <1>5, <1>6, NumWord
  <1>8. Num(Bits(lo)) = lo /\ Num(Bits(hi)) = hi
    BY <1>1, ByteNumBits
  <1> QED
    BY <1>1, <1>7, <1>8

\* A number cut to its lowest bits, those up to bit k, is one modulo d.
Cuts(n, k, d) == Bits(n) \cap 0..k = Bits(n % d)

\* So it is for the widths of the fields.
LEMMA CutBits ==
    ASSUME NEW n \in Nat
    PROVE  Cuts(n, 0, 2) /\ Cuts(n, 2, 8) /\ Cuts(n, 10, 2048) /\ Cuts(n, 13, 16384)
  <1>0. 0..15 = {0, 1, 2, 3, 4, 5, 6, 7, 8, 9, 10, 11, 12, 13, 14, 15}
    OBVIOUS
  <1>1. Bits(n) \cap 0..0 = Bits(n % 2)
    <2> DEFINE d == n % 2
    <2>1. d \in Nat
      OBVIOUS
    <2>2. d % 2 = n % 2
      OBVIOUS
    <2>3. /\ d \div 2 = 0 /\ d \div 4 = 0
          /\ d \div 8 = 0 /\ d \div 16 = 0
      OBVIOUS
    <2>4. /\ d \div 32 = 0 /\ d \div 64 = 0
          /\ d \div 128 = 0 /\ d \div 256 = 0
      OBVIOUS
    <2>5. /\ d \div 512 = 0 /\ d \div 1024 = 0
          /\ d \div 2048 = 0 /\ d \div 4096 = 0
      OBVIOUS
    <2>6. /\ d \div 8192 = 0 /\ d \div 16384 = 0
          /\ d \div 32768 = 0
      OBVIOUS
    <2> HIDE DEF d
    <2>7. \A i \in 0..15 : i \in Bits(d) <=> i \in Bits(n) /\ i < 1
      BY <1>0, <2>1, <2>2, <2>3, <2>4, <2>5, <2>6, BitByBit
    <2> QED
      BY <2>1, <2>7, BitByBit DEF d
  <1>2. Bits(n) \cap 0..2 = Bits(n % 8)
    <2> DEFINE d == n % 8
    <2>1. d \in Nat
      OBVIOUS
    <2>2. /\ d % 2 = n % 2 /\ (d \div 2) % 2 = (n \div 2) % 2
          /\ (d \div 4) % 2 = (n \div 4) % 2
      OBVIOUS
    <2>3. /\ d \div 8 = 0 /\ d \div 16 = 0
          /\ d \div 32 = 0 /\ d \div 64 = 0
          /\ d \div 128 = 0 /\ d \div 256 = 0
          /\ d \div 512 = 0 /\ d \div 1024 = 0
      OBVIOUS
    <2>4. /\ d \div 2048 = 0 /\ d \div 4096 = 0
          /\ d \div 8192 = 0 /\ d \div 16384 = 0
          /\ d \div 32768 = 0
      OBVIOUS
    <2> HIDE DEF d
    <2>5. \A i \in 0..15 : i \in Bits(d) <=> i \in Bits(n) /\ i < 3
      BY <1>0, <2>1, <2>2, <2>3, <2>4, BitByBit
    <2> QED
      BY <2>1, <2>5, BitByBit DEF d
  <1>3. Bits(n) \cap 0..10 = Bits(n % 2048)
    <2> DEFINE d == n % 2048
    <2>1. d \in Nat
      OBVIOUS
    <2>2. /\ d % 2 = n % 2 /\ (d \div 2) % 2 = (n \div 2) % 2
          /\ (d \div 4) % 2 = (n \div 4) % 2 /\ (d \div 8) % 2 = (n \div 8) % 2
      OBVIOUS
    <2>3. /\ (d \div 16) % 2 = (n \div 16) % 2 /\ (d \div 32) % 2 = (n \div 32) % 2
          /\ (d \div 64) % 2 = (n \div 64) % 2 /\ (d \div 128) % 2 = (n \div 128) % 2
      <3>1. (d \div 16) % 2 = (n \div 16) % 2
        OBVIOUS
      <3>2. (d \div 32) % 2 = (n \div 32) % 2
        OBVIOUS
      <3>3. (d \div 64) % 2 = (n \div 64) % 2
        OBVIOUS
      <3>4. (d \div 128) % 2 = (n \div 128) % 2
        OBVIOUS
      <3> QED
        BY <3>1, <3>2, <3>3, <3>4
    <2>4. /\ (d \div 256) % 2 = (n \div 256) % 2 /\ (d \div 512) % 2 = (n \div 512) % 2
          /\ (d \div 1024) % 2 = (n \div 1024) % 2
      OBVIOUS
    <2>5. /\ d \div 2048 = 0 /\ d \div 4096 = 0
          /\ d \div 8192 = 0 /\ d \div 16384 = 0
          /\ d \div 32768 = 0
      OBVIOUS
    <2> HIDE DEF d
    <2>6. \A i \in 0..15 : i \in Bits(d) <=> i \in Bits(n) /\ i < 11
      BY <1>0, <2>1, <2>2, <2>3, <2>4, <2>5, BitByBit
    <2> QED
      BY <2>1, <2>6, BitByBit DEF d
  <1>4. Bits(n) \cap 0..13 = Bits(n % 16384)
    <2> DEFINE d == n % 16384
    <2>1. d \in Nat
      OBVIOUS
    <2>2. /\ d % 2 = n % 2 /\ (d \div 2) % 2 = (n \div 2) % 2
          /\ (d \div 4) % 2 = (n \div 4) % 2 /\ (d \div 8) % 2 = (n \div 8) % 2
      OBVIOUS
    <2>3. /\ (d \div 16) % 2 = (n \div 16) % 2 /\ (d \div 32) % 2 = (n \div 32) % 2
          /\ (d \div 64) % 2 = (n \div 64) % 2 /\ (d \div 128) % 2 = (n \div 128) % 2
      <3>1. (d \div 16) % 2 = (n \div 16) % 2
        OBVIOUS
      <3>2. (d \div 32) % 2 = (n \div 32) % 2
        OBVIOUS
      <3>3. (d \div 64) % 2 = (n \div 64) % 2
        OBVIOUS
      <3>4. (d \div 128) % 2 = (n \div 128) % 2
        OBVIOUS
      <3> QED
        BY <3>1, <3>2, <3>3, <3>4
    <2>4. /\ (d \div 256) % 2 = (n \div 256) % 2 /\ (d \div 512) % 2 = (n \div 512) % 2
          /\ (d \div 1024) % 2 = (n \div 1024) % 2 /\ (d \div 2048) % 2 = (n \div 2048) % 2
      OBVIOUS
    <2>5. /\ (d \div 4096) % 2 = (n \div 4096) % 2 /\ (d \div 8192) % 2 = (n \div 8192) % 2
      OBVIOUS
    <2>6. /\ d \div 16384 = 0 /\ d \div 32768 = 0
      OBVIOUS
    <2> HIDE DEF d
    <2>7. \A i \in 0..15 : i \in Bits(d) <=> i \in Bits(n) /\ i < 14
      BY <1>0, <2>1, <2>2, <2>3, <2>4, <2>5, <2>6, BitByBit
    <2> QED
      BY <2>1, <2>7, BitByBit DEF d
  <1> QED
    BY <1>1, <1>2, <1>3, <1>4 DEF Cuts

-----------------------------------------------------------------------------
\* CipPacket's helpers of the setters are those of CipCodec.
LEMMA SameHelpers ==
    /\ \A h, j, b : C!Or(h, j, b) = Or(h, j, b)
    /\ \A h, j, b : C!Put(h, j, b) = Put(h, j, b)
    /\ \A n, legal : C!Valid(n, legal) = Valid(n, legal)
    /\ \A n : C!PreprocessorBlockCode(n) = PreprocessorBlockCode(n)
    /\ \A n : C!ExtendedBlockCode(n) = ExtendedBlockCode(n)
    /\ \A n : C!ResolutionRange(n) = ResolutionRange(n)
  <1>1. ASSUME NEW h, NEW j, NEW b
        PROVE  C!Or(h, j, b) = Or(h, j, b) /\ C!Put(h, j, b) = Put(h, j, b)
    BY DEF C!Or, Or, C!Put, Put
  <1>2. ASSUME NEW n, NEW legal PROVE C!Valid(n, legal) = Valid(n, legal)
    BY SameBits DEF C!Valid, Valid
  <1>3. ASSUME NEW n
        PROVE  /\ C!PreprocessorBlockCode(n) = PreprocessorBlockCode(n)
               /\ C!ExtendedBlockCode(n) = ExtendedBlockCode(n)
               /\ C!ResolutionRange(n) = ResolutionRange(n)
    BY DEF C!PreprocessorBlockCode, PreprocessorBlockCode, C!ExtendedBlockCode,
           ExtendedBlockCode, C!ResolutionRange, ResolutionRange
  <1> QED
    BY <1>1, <1>2, <1>3

\* CipPacket's setters are those of CipCodec.
LEMMA SameSetters ==
    ASSUME NEW h, NEW n
    PROVE  /\ C!encode_preprocessor_header(h) = encode_preprocessor_header(h)
           /\ C!encode_entropy_coder_header(h) = encode_entropy_coder_header(h)
           /\ C!encode_extended_parameters_header(h) = encode_extended_parameters_header(h)
           /\ C!encode_grouping_data_length(h, n) = encode_grouping_data_length(h, n)
           /\ C!encode_compression_technique_id(h, n) = encode_compression_technique_id(h, n)
           /\ C!encode_reference_sample_interval(h, n)
                = encode_reference_sample_interval(h, n)
           /\ C!encode_preprocessor_status(h, n) = encode_preprocessor_status(h, n)
           /\ C!encode_preprocessor_predictor_type(h, n)
                = encode_preprocessor_predictor_type(h, n)
           /\ C!encode_preprocessor_mapper_type(h, n) = encode_preprocessor_mapper_type(h, n)
           /\ C!encode_preprocessor_block_size(h, n) = encode_preprocessor_block_size(h, n)
           /\ C!encode_preprocessor_data_sense(h, n) = encode_preprocessor_data_sense(h, n)
           /\ C!encode_preprocessor_sample_resolution(h, n)
                = encode_preprocessor_sample_resolution(h, n)
           /\ C!encode_entropy_coder_resolution_range(h, n)
                = encode_entropy_coder_resolution_range(h, n)
           /\ C!encode_entropy_coder_cds_num(h, n) = encode_entropy_coder_cds_num(h, n)
           /\ C!encode_extended_parameters_block_size(h, n)
                = encode_extended_parameters_block_size(h, n)
           /\ C!encode_extended_parameters_restricted_code_option(h, n)
                = encode_extended_parameters_restricted_code_option(h, n)
           /\ C!encode_extended_parameters_reference_sample_interval(h, n)
                = encode_extended_parameters_reference_sample_interval(h, n)
  <1>1. C!encode_preprocessor_header(h) = encode_preprocessor_header(h)
    BY SameBits, SameHelpers DEF C!encode_preprocessor_header, encode_preprocessor_header
  <1>2. C!encode_entropy_coder_header(h) = encode_entropy_coder_header(h)
    BY SameBits, SameHelpers DEF C!encode_entropy_coder_header, encode_entropy_coder_header
  <1>3. C!encode_extended_parameters_header(h) = encode_extended_parameters_header(h)
    BY SameBits, SameHelpers DEF C!encode_extended_parameters_header, encode_extended_parameters_header
  <1>4. C!encode_grouping_data_length(h, n) = encode_grouping_data_length(h, n)
    BY SameBits, SameHelpers DEF C!encode_grouping_data_length, encode_grouping_data_length
  <1>5. C!encode_compression_technique_id(h, n) = encode_compression_technique_id(h, n)
    BY SameBits, SameHelpers DEF C!encode_compression_technique_id, encode_compression_technique_id
  <1>6. C!encode_reference_sample_interval(h, n)
       = encode_reference_sample_interval(h, n)
    BY SameBits, SameHelpers DEF C!encode_reference_sample_interval, encode_reference_sample_interval
  <1>7. C!encode_preprocessor_status(h, n) = encode_preprocessor_status(h, n)
    BY SameBits, SameHelpers DEF C!encode_preprocessor_status, encode_preprocessor_status
  <1>8. C!encode_preprocessor_predictor_type(h, n)
       = encode_preprocessor_predictor_type(h, n)
    BY SameBits, SameHelpers DEF C!encode_preprocessor_predictor_type, encode_preprocessor_predictor_type
  <1>9. C!encode_preprocessor_mapper_type(h, n) = encode_preprocessor_mapper_type(h, n)
    BY SameBits, SameHelpers DEF C!encode_preprocessor_mapper_type, encode_preprocessor_mapper_type
  <1>10. C!encode_preprocessor_block_size(h, n) = encode_preprocessor_block_size(h, n)
    BY SameBits, SameHelpers DEF C!encode_preprocessor_block_size, encode_preprocessor_block_size
  <1>11. C!encode_preprocessor_data_sense(h, n) = encode_preprocessor_data_sense(h, n)
    BY SameBits, SameHelpers DEF C!encode_preprocessor_data_sense, encode_preprocessor_data_sense
  <1>12. C!encode_preprocessor_sample_resolution(h, n)
       = encode_preprocessor_sample_resolution(h, n)
    BY SameBits, SameHelpers DEF C!encode_preprocessor_sample_resolution, encode_preprocessor_sample_resolution
  <1>13. C!encode_entropy_coder_resolution_range(h, n)
       = encode_entropy_coder_resolution_range(h, n)
    BY SameBits, SameHelpers DEF C!encode_entropy_coder_resolution_range, encode_entropy_coder_resolution_range
  <1>14. C!encode_entropy_coder_cds_num(h, n) = encode_entropy_coder_cds_num(h, n)
    BY SameBits, SameHelpers DEF C!encode_entropy_coder_cds_num, encode_entropy_coder_cds_num
  <1>15. C!encode_extended_parameters_block_size(h, n)
       = encode_extended_parameters_block_size(h, n)
    BY SameBits, SameHelpers DEF C!encode_extended_parameters_block_size, encode_extended_parameters_block_size
  <1>16. C!encode_extended_parameters_restricted_code_option(h, n)
       = encode_extended_parameters_restricted_code_option(h, n)
    BY SameBits, SameHelpers DEF C!encode_extended_parameters_restricted_code_option, encode_extended_parameters_restricted_code_option
  <1>17. C!encode_extended_parameters_reference_sample_interval(h, n)
       = encode_extended_parameters_reference_sample_interval(h, n)
    BY SameBits, SameHelpers DEF C!encode_extended_parameters_reference_sample_interval, encode_extended_parameters_reference_sample_interval
  <1> QED
    BY <1>1, <1>2, <1>3, <1>4, <1>5, <1>6, <1>7, <1>8, <1>9, <1>10, <1>11, <1>12, <1>13, <1>14, <1>15, <1>16, <1>17

\* The options that reach the packet.
CipOptions(c) == [v \in C!LongValues \cup C!ByteValues |-> c[v]]

\* CipPacket's constructor is that of CipCodec.
LEMMA SameConstructor ==
    ASSUME NEW c, NEW h
    PROVE  C!EncodeCip(h, CipOptions(c)) = EncodeCip(h, c)
  <1> DEFINE o == CipOptions(c)
  <1>1. /\ o.grouping_data_length = c.grouping_data_length
        /\ o.compression_tech_id = c.compression_tech_id
        /\ o.reference_sample_interval = c.reference_sample_interval
        /\ o.preprocessor_status = c.preprocessor_status
        /\ o.predictor_type = c.predictor_type
        /\ o.mapper_type = c.mapper_type
        /\ o.block_size = c.block_size
        /\ o.data_sense = c.data_sense
        /\ o.sample_resolution = c.sample_resolution
        /\ o.cds_per_packet = c.cds_per_packet
        /\ o.restricted_codes = c.restricted_codes
    BY DEF CipOptions, C!LongValues, C!ByteValues
  <1> HIDE DEF o
  <1>2. \A g : C!encode_source_data_fixed(g, o) = encode_source_data_fixed(g, c)
    BY <1>1, SameSetters DEF C!encode_source_data_fixed, encode_source_data_fixed
  <1>3. \A g : C!encode_preprocessor(g, o) = encode_preprocessor(g, c)
    BY <1>1, SameSetters DEF C!encode_preprocessor, encode_preprocessor
  <1>4. \A g : C!encode_entropy_coder(g, o) = encode_entropy_coder(g, c)
    BY <1>1, SameSetters DEF C!encode_entropy_coder, encode_entropy_coder
  <1>5. \A g : C!encode_extended_parameters(g, o) = encode_extended_parameters(g, c)
    BY <1>1, SameSetters
    DEF C!encode_extended_parameters, encode_extended_parameters
  <1> QED
    BY <1>2, <1>3, <1>4, <1>5 DEF C!EncodeCip, EncodeCip, o

\* The getters of CipCodec return the bits of the fields.
LEMMA SameGetters ==
    ASSUME NEW h \in C!CipBytes
    PROVE  /\ decode_grouping_data_length(h) = C!FieldBits("grouping_data_length", h)
           /\ decode_compression_technique_id(h)
                = C!FieldBits("compression_technique_id", h)
           /\ h[3] = C!FieldBits("reference_sample_interval", h)
           /\ decode_preprocessor_status(h) = C!FieldBits("status", h)
           /\ decode_preprocessor_predictor_type(h)
                = C!FieldBits("predictor_type", h)
           /\ decode_preprocessor_mapper_type(h) = C!FieldBits("mapper_type", h)
           /\ preprocessor_block_code(h) = C!FieldBits("block_size", h)
           /\ decode_preprocessor_data_sense(h) = C!FieldBits("data_sense", h)
           /\ decode_preprocessor_sample_resolution(h)
                = C!FieldBits("sample_resolution", h)
           /\ extended_block_code(h) = C!FieldBits("extended_block_size", h)
           /\ Shr(decode_extended_parameters_restricted_code_option(h), 6)
                = C!FieldBits("restricted_code_option", h)
  <1>1. decode_grouping_data_length(h) = C!FieldBits("grouping_data_length", h)
    BY SameBits
    DEF C!FieldBits, C!decode_grouping_data_length, decode_grouping_data_length
  <1>2. decode_compression_technique_id(h)
          = C!FieldBits("compression_technique_id", h)
    BY DEF C!FieldBits, C!decode_compression_technique_id,
           decode_compression_technique_id
  <1>3. h[3] = C!FieldBits("reference_sample_interval", h)
    BY CipBytesType, SameBits, IntervalBits
    DEF C!FieldBits, C!decode_reference_sample_interval
  <1>4. decode_preprocessor_status(h) = C!FieldBits("status", h)
    BY SameBits
    DEF C!FieldBits, C!decode_preprocessor_status, decode_preprocessor_status
  <1>5. decode_preprocessor_predictor_type(h) = C!FieldBits("predictor_type", h)
    BY SameBits
    DEF C!FieldBits, C!decode_preprocessor_predictor_type,
        decode_preprocessor_predictor_type
  <1>6. decode_preprocessor_mapper_type(h) = C!FieldBits("mapper_type", h)
    BY DEF C!FieldBits, C!decode_preprocessor_mapper_type,
           decode_preprocessor_mapper_type
  <1>7. preprocessor_block_code(h) = C!FieldBits("block_size", h)
    BY SameBits DEF C!FieldBits, C!preprocessor_block_code, preprocessor_block_code
  <1>8. decode_preprocessor_data_sense(h) = C!FieldBits("data_sense", h)
    BY SameBits
    DEF C!FieldBits, C!decode_preprocessor_data_sense,
        decode_preprocessor_data_sense
  <1>9. decode_preprocessor_sample_resolution(h)
          = C!FieldBits("sample_resolution", h)
    BY DEF C!FieldBits, C!decode_preprocessor_sample_resolution,
           decode_preprocessor_sample_resolution
  <1>10. extended_block_code(h) = C!FieldBits("extended_block_size", h)
    BY DEF C!FieldBits, C!extended_block_code, extended_block_code
  <1>11. Shr(decode_extended_parameters_restricted_code_option(h), 6)
           = C!FieldBits("restricted_code_option", h)
    BY SameBits
    DEF C!FieldBits, C!decode_extended_parameters_restricted_code_option,
        decode_extended_parameters_restricted_code_option
  <1> QED
    BY <1>1, <1>2, <1>3, <1>4, <1>5, <1>6, <1>7, <1>8, <1>9, <1>10, <1>11

\* The options a compressor may have are ones a packet may be given.
LEMMA OptionsType ==
    ASSUME NEW c \in Configs
    PROVE  /\ CipOptions(c) \in C!Configuration
           /\ \A f \in Options : c[f] \in Nat /\ c[f] <= 65535
           /\ \A f \in Options \ LongOptions : c[f] <= 255
           /\ c.reference_sample_interval > 0
  <1>1. /\ c \in [Options -> Nat]
        /\ \A f \in Options : c[f] <= (IF f \in LongOptions THEN 65535 ELSE 255)
        /\ c.reference_sample_interval > 0
    BY HeaderAssumption
  <1>2. /\ \A f \in Options : c[f] \in Nat /\ c[f] <= 65535
        /\ \A f \in Options \ LongOptions : c[f] <= 255
    BY <1>1
  <1>3. /\ \A v \in C!LongValues : v \in Options
        /\ \A v \in C!ByteValues : v \in Options \ LongOptions
    BY DEF C!LongValues, C!ByteValues, Options, LongOptions
  <1>4. /\ "reference_sample_interval" \in C!ByteValues
    BY DEF C!ByteValues
  <1> DEFINE o == CipOptions(c)
  <1>5. /\ o \in [C!LongValues \cup C!ByteValues -> Nat]
        /\ \A v \in C!LongValues : o[v] <= 65535
        /\ \A v \in C!ByteValues : o[v] <= 255
        /\ o["reference_sample_interval"] > 0
    BY <1>1, <1>2, <1>3, <1>4 DEF CipOptions
  <1> HIDE DEF o
  <1>6. o \in C!Configuration
    BY <1>5 DEF C!Configuration
  <1> QED
    BY <1>1, <1>2, <1>6 DEF o

-----------------------------------------------------------------------------
\* What a packet holds before its constructor runs.
CipStart(m) == [j \in 0..9 |-> m[6 + j]]

\* A field of which the shared bytes were zero holds nothing but the code of the
\* number it is given.
LEMMA GivenOnce ==
    ASSUME NEW f \in C!CipFields, NEW old, NEW n, old \subseteq C!Owned(f)
    PROVE  /\ C!Legal(f, n) => CipAdded(f, old, n) = C!Code(f, n)
           /\ ~C!Legal(f, n) => CipAdded(f, old, n) = old
  BY DEF CipAdded

\* The bytes that bits are or-ed into, when the extended parameters are cleared.
LEMMA StartBytes ==
    ASSUME NEW m \in HeaderMemory,
           NEW h, h = [CipStart(m) EXCEPT ![8] = {}, ![9] = {}]
    PROVE  /\ CipStart(m) \in C!CipBytes /\ h \in C!CipBytes
           /\ h[0] = m[6] /\ h[4] = m[10] /\ h[5] = m[11] /\ h[8] = {} /\ h[9] = {}
  <1>1. CipStart(m) \in C!CipBytes
    BY HeaderAssumption DEF CipStart, C!CipBytes, C!Byte, Byte
  <1>2. CipStart(m)[0] = m[6] /\ CipStart(m)[4] = m[10] /\ CipStart(m)[5] = m[11]
    BY DEF CipStart
  <1> QED
    BY <1>1, <1>2 DEF C!CipBytes, C!Byte

\* The fields of a packet of which the memory was zero where bits are or-ed.
LEMMA ClearedFields ==
    ASSUME NEW h \in C!CipBytes
    PROVE  /\ C!FieldBits("compression_technique_id", h) \subseteq 0..7
           /\ C!FieldBits("reference_sample_interval", h) \subseteq 0..7
           /\ h[0] = {} => C!FieldBits("grouping_data_length", h) \subseteq 0..7
           /\ h[4] = {} => /\ C!FieldBits("status", h) = {}
                           /\ C!FieldBits("predictor_type", h) = {}
                           /\ C!FieldBits("mapper_type", h) = {}
           /\ h[5] = {} => /\ C!FieldBits("block_size", h) = {}
                           /\ C!FieldBits("data_sense", h) = {}
                           /\ C!FieldBits("sample_resolution", h) = {}
           /\ h[8] = {} => C!FieldBits("extended_block_size", h) = {}
           /\ h[9] = {} => C!FieldBits("restricted_code_option", h) = {}
  <1>1. h[1] \in SUBSET (0..7) /\ h[2] \in SUBSET (0..7) /\ h[3] \in SUBSET (0..7)
    BY CipBytesType
  <1>2. Shr({}, 2) = {} /\ Shr({}, 5) = {} /\ Shr({}, 6) = {} /\ Shl({}, 8) = {}
    BY DEF Shr, Shl
  <1>3. /\ C!FieldBits("compression_technique_id", h) \subseteq 0..7
        /\ C!FieldBits("reference_sample_interval", h) \subseteq 0..7
    BY <1>1, SameGetters DEF decode_compression_technique_id
  <1>4. h[0] = {} => C!FieldBits("grouping_data_length", h) \subseteq 0..7
    <2>1. C!FieldBits("grouping_data_length", h) = h[1] \cup Shl(h[0], 8)
      BY SameGetters DEF decode_grouping_data_length
    <2> QED
      BY <1>1, <1>2, <2>1
  <1>5. h[4] = {} => /\ C!FieldBits("status", h) = {}
                      /\ C!FieldBits("predictor_type", h) = {}
                      /\ C!FieldBits("mapper_type", h) = {}
    BY <1>2, SameGetters
    DEF decode_preprocessor_status, decode_preprocessor_predictor_type,
        decode_preprocessor_mapper_type
  <1>6. h[5] = {} => /\ C!FieldBits("block_size", h) = {}
                      /\ C!FieldBits("data_sense", h) = {}
                      /\ C!FieldBits("sample_resolution", h) = {}
    BY <1>2, SameGetters
    DEF preprocessor_block_code, decode_preprocessor_data_sense,
        decode_preprocessor_sample_resolution
  <1>7. /\ h[8] = {} => C!FieldBits("extended_block_size", h) = {}
        /\ h[9] = {} => C!FieldBits("restricted_code_option", h) = {}
    BY <1>2, SameGetters
    DEF extended_block_code, decode_extended_parameters_restricted_code_option
  <1> QED
    BY <1>3, <1>4, <1>5, <1>6, <1>7

\* The codes of a compressor's packet.
EncodedFields(c, m, e) ==
    /\ e \in C!CipBytes
    /\ C!FieldBits("reference_sample_interval", e)
         = Bits(c.reference_sample_interval - 1)
    /\ C!FieldBits("compression_technique_id", e) = Bits(c.compression_tech_id)
    /\ m[6] = {} => C!FieldBits("grouping_data_length", e)
                      = Bits(c.grouping_data_length % 4096)
    /\ m[10] = {} =>
         /\ c.preprocessor_status \in {0, 1} =>
              C!FieldBits("status", e) = Bits(c.preprocessor_status)
         /\ c.predictor_type \in {0, 1, 7} =>
              C!FieldBits("predictor_type", e) = Bits(c.predictor_type)
         /\ c.mapper_type \in {0, 3} =>
              C!FieldBits("mapper_type", e) = Bits(c.mapper_type)
    /\ m[11] = {} =>
         /\ C!FieldBits("block_size", e) = Bits(PreprocessorBlockCode(c.block_size))
         /\ c.data_sense \in {0, 1} =>
              C!FieldBits("data_sense", e) = Bits(c.data_sense)
         /\ c.sample_resolution <= 31 =>
              C!FieldBits("sample_resolution", e) = Bits(c.sample_resolution)
    /\ C!FieldBits("extended_block_size", e) = Bits(ExtendedBlockCode(c.block_size))
    /\ c.restricted_codes = 0 => C!FieldBits("restricted_code_option", e) = {}

LEMMA CompressorFields ==
    ASSUME NEW c \in Configs, NEW m \in HeaderMemory
    PROVE  EncodedFields(c, m, EncodeCip(CipStart(m), c))
  <1> DEFINE o == CipOptions(c)
             e == EncodeCip(CipStart(m), c)
             a == C!Argument(o)
  <1>0. PICK h : h = [CipStart(m) EXCEPT ![8] = {}, ![9] = {}]
    OBVIOUS
  <1>1. o \in C!Configuration
    BY OptionsType
  <1>2. /\ \A f \in Options : c[f] \in Nat /\ c[f] <= 65535
        /\ \A f \in Options \ LongOptions : c[f] <= 255
        /\ c.reference_sample_interval > 0
    BY OptionsType
  <1>3. /\ o.grouping_data_length = c.grouping_data_length
        /\ o.compression_tech_id = c.compression_tech_id
        /\ o.reference_sample_interval = c.reference_sample_interval
        /\ o.preprocessor_status = c.preprocessor_status
        /\ o.predictor_type = c.predictor_type
        /\ o.mapper_type = c.mapper_type
        /\ o.block_size = c.block_size
        /\ o.data_sense = c.data_sense
        /\ o.sample_resolution = c.sample_resolution
        /\ o.restricted_codes = c.restricted_codes
    BY DEF CipOptions, C!LongValues, C!ByteValues
  <1>4. /\ CipStart(m) \in C!CipBytes /\ h \in C!CipBytes
        /\ h[0] = m[6] /\ h[4] = m[10] /\ h[5] = m[11] /\ h[8] = {} /\ h[9] = {}
    BY <1>0, StartBytes
  <1>5. e = C!EncodeCip(CipStart(m), o)
    BY SameConstructor
  <1> HIDE DEF o, e
  <1>6. /\ e \in C!CipBytes
        /\ \A f \in C!CipFields :
             C!FieldBits(f, e) = CipAdded(f, C!FieldBits(f, h), a[f])
    <2> DEFINE s == CipStart(m)
    <2>1. s \in C!CipBytes /\ h = [s EXCEPT ![8] = {}, ![9] = {}]
      BY <1>0, <1>4
    <2> HIDE DEF s
    <2>2. /\ C!EncodeCip(s, o) \in C!CipBytes
          /\ \A f \in C!CipFields :
               C!FieldBits(f, C!EncodeCip(s, o))
                 = CipAdded(f, C!FieldBits(f, h), C!Argument(o)[f])
      BY <1>1, <2>1, CipConstructor
    <2> QED
      BY <1>5, <2>2 DEF s
  <1>7. /\ a["grouping_data_length"] = c.grouping_data_length
        /\ a["compression_technique_id"] = c.compression_tech_id
        /\ a["reference_sample_interval"] = c.reference_sample_interval
        /\ a["status"] = c.preprocessor_status
        /\ a["predictor_type"] = c.predictor_type
        /\ a["mapper_type"] = c.mapper_type
        /\ a["block_size"] = c.block_size
        /\ a["data_sense"] = c.data_sense
        /\ a["sample_resolution"] = c.sample_resolution
        /\ a["extended_block_size"] = c.block_size
        /\ a["restricted_code_option"] = c.restricted_codes
    BY <1>1, <1>3, CipArguments
  <1> HIDE DEF a
  <1>8. /\ C!FieldBits("compression_technique_id", h) \subseteq 0..7
        /\ C!FieldBits("reference_sample_interval", h) \subseteq 0..7
        /\ m[6] = {} => C!FieldBits("grouping_data_length", h) \subseteq 0..7
        /\ m[10] = {} => /\ C!FieldBits("status", h) = {}
                         /\ C!FieldBits("predictor_type", h) = {}
                         /\ C!FieldBits("mapper_type", h) = {}
        /\ m[11] = {} => /\ C!FieldBits("block_size", h) = {}
                         /\ C!FieldBits("data_sense", h) = {}
                         /\ C!FieldBits("sample_resolution", h) = {}
        /\ C!FieldBits("extended_block_size", h) = {}
        /\ C!FieldBits("restricted_code_option", h) = {}
    BY <1>4, ClearedFields
  <1>9. /\ C!Owned("compression_technique_id") = 0..7
        /\ C!Owned("reference_sample_interval") = 0..7
        /\ C!Owned("grouping_data_length") = 0..7
    BY DEF C!Owned, C!Fields
  <1>10. C!FieldBits("compression_technique_id", e) = Bits(c.compression_tech_id)
    <2> DEFINE n == c.compression_tech_id
    <2>1. C!Legal("compression_technique_id", n)
      BY DEF C!Legal
    <2>2. C!Code("compression_technique_id", n) = Bits(n)
      BY SameBits DEF C!Code
    <2> QED
      BY <1>6, <1>7, <1>8, <1>9, <2>1, <2>2, GivenOnce, CipFieldNames
  <1>11. C!FieldBits("reference_sample_interval", e)
           = Bits(c.reference_sample_interval - 1)
    <2> DEFINE n == c.reference_sample_interval
    <2>1. C!Legal("reference_sample_interval", n)
      BY DEF C!Legal
    <2>2. n \in Nat /\ n > 0 /\ n <= 255
      BY <1>2 DEF Options, LongOptions
    <2>3. (n - 1) % 256 = n - 1
      BY <2>2
    <2>4. C!Code("reference_sample_interval", n) = Bits(n - 1)
      BY <2>3, SameBits DEF C!Code
    <2> QED
      BY <1>6, <1>7, <1>8, <1>9, <2>1, <2>4, GivenOnce, CipFieldNames
  <1>12. ASSUME m[6] = {}
         PROVE  C!FieldBits("grouping_data_length", e)
                  = Bits(c.grouping_data_length % 4096)
    <2> DEFINE n == c.grouping_data_length
    <2>1. C!Legal("grouping_data_length", n)
      BY DEF C!Legal
    <2>2. C!Code("grouping_data_length", n) = Bits(n % 4096)
      BY SameBits DEF C!Code
    <2> QED
      BY <1>6, <1>7, <1>8, <1>9, <1>12, <2>1, <2>2, GivenOnce, CipFieldNames
  <1>13. ASSUME NEW f \in C!CipFields, C!FieldBits(f, h) = {}
         PROVE  C!FieldBits(f, e) = IF C!Legal(f, a[f]) THEN C!Code(f, a[f]) ELSE {}
    BY <1>6, <1>13, GivenOnce
  <1>14. ASSUME m[10] = {}
         PROVE  /\ c.preprocessor_status \in {0, 1} =>
                     C!FieldBits("status", e) = Bits(c.preprocessor_status)
                /\ c.predictor_type \in {0, 1, 7} =>
                     C!FieldBits("predictor_type", e) = Bits(c.predictor_type)
                /\ c.mapper_type \in {0, 3} =>
                     C!FieldBits("mapper_type", e) = Bits(c.mapper_type)
    <2>1. /\ C!FieldBits("status", e)
               = IF C!Legal("status", c.preprocessor_status)
                 THEN C!Code("status", c.preprocessor_status) ELSE {}
          /\ C!FieldBits("predictor_type", e)
               = IF C!Legal("predictor_type", c.predictor_type)
                 THEN C!Code("predictor_type", c.predictor_type) ELSE {}
          /\ C!FieldBits("mapper_type", e)
               = IF C!Legal("mapper_type", c.mapper_type)
                 THEN C!Code("mapper_type", c.mapper_type) ELSE {}
      BY <1>7, <1>8, <1>13, <1>14, CipFieldNames
    <2>2. \A n : /\ C!Code("status", n) = Bits(n)
                 /\ C!Code("predictor_type", n) = Bits(n)
                 /\ C!Code("mapper_type", n) = Bits(n)
      BY SameBits DEF C!Code
    <2>3. \A n : /\ n \in {0, 1} => C!Legal("status", n)
                 /\ n \in {0, 1, 7} => C!Legal("predictor_type", n)
                 /\ n \in {0, 3} => C!Legal("mapper_type", n)
      BY DEF C!Legal
    <2> QED
      BY <2>1, <2>2, <2>3
  <1>15. ASSUME m[11] = {}
         PROVE  /\ C!FieldBits("block_size", e)
                     = Bits(PreprocessorBlockCode(c.block_size))
                /\ c.data_sense \in {0, 1} =>
                     C!FieldBits("data_sense", e) = Bits(c.data_sense)
                /\ c.sample_resolution <= 31 =>
                     C!FieldBits("sample_resolution", e) = Bits(c.sample_resolution)
    <2>1. /\ C!FieldBits("block_size", e)
               = IF C!Legal("block_size", c.block_size)
                 THEN C!Code("block_size", c.block_size) ELSE {}
          /\ C!FieldBits("data_sense", e)
               = IF C!Legal("data_sense", c.data_sense)
                 THEN C!Code("data_sense", c.data_sense) ELSE {}
          /\ C!FieldBits("sample_resolution", e)
               = IF C!Legal("sample_resolution", c.sample_resolution)
                 THEN C!Code("sample_resolution", c.sample_resolution) ELSE {}
      BY <1>7, <1>8, <1>13, <1>15, CipFieldNames
    <2>2. \A n : /\ C!Code("block_size", n) = Bits(PreprocessorBlockCode(n))
                 /\ C!Code("data_sense", n) = Bits(n)
                 /\ C!Code("sample_resolution", n) = Bits(n % 32)
      BY SameBits, SameHelpers DEF C!Code
    <2>3. \A n : /\ C!Legal("block_size", n) <=> n > 0
                 /\ n \in {0, 1} => C!Legal("data_sense", n)
                 /\ C!Legal("sample_resolution", n) <=> n \in 1..32
      BY DEF C!Legal
    <2>4. /\ c.block_size \in Nat /\ c.sample_resolution \in Nat
      BY <1>2 DEF Options
    <2>5. PreprocessorBlockCode(0) = 0 /\ Bits(0) = {}
      BY FewBits DEF PreprocessorBlockCode
    <2>6. C!FieldBits("block_size", e) = Bits(PreprocessorBlockCode(c.block_size))
      BY <2>1, <2>2, <2>3, <2>4, <2>5
    <2>7. ASSUME c.sample_resolution <= 31
          PROVE  C!FieldBits("sample_resolution", e) = Bits(c.sample_resolution)
      <3>1. c.sample_resolution % 32 = c.sample_resolution
        BY <2>4, <2>7
      <3> QED
        BY <2>1, <2>2, <2>3, <2>4, <2>5, <2>7, <3>1
    <2> QED
      BY <2>1, <2>2, <2>3, <2>6, <2>7
  <1>16. /\ C!FieldBits("extended_block_size", e)
              = Bits(ExtendedBlockCode(c.block_size))
         /\ c.restricted_codes = 0 => C!FieldBits("restricted_code_option", e) = {}
    <2>1. /\ C!FieldBits("extended_block_size", e)
               = IF C!Legal("extended_block_size", c.block_size)
                 THEN C!Code("extended_block_size", c.block_size) ELSE {}
          /\ C!FieldBits("restricted_code_option", e)
               = IF C!Legal("restricted_code_option", c.restricted_codes)
                 THEN C!Code("restricted_code_option", c.restricted_codes) ELSE {}
      BY <1>7, <1>8, <1>13, CipFieldNames
    <2>2. \A n : /\ C!Code("extended_block_size", n) = Bits(ExtendedBlockCode(n))
                 /\ C!Code("restricted_code_option", n) = Bits(n)
                 /\ C!Legal("extended_block_size", n) <=> n > 0
      BY SameBits, SameHelpers DEF C!Code, C!Legal
    <2>3. c.block_size \in Nat
      BY <1>2 DEF Options
    <2>4. ExtendedBlockCode(0) = 0 /\ Bits(0) = {}
      BY FewBits DEF ExtendedBlockCode
    <2> QED
      BY <2>1, <2>2, <2>3, <2>4
  <1> QED
    BY <1>6, <1>10, <1>11, <1>12, <1>14, <1>15, <1>16 DEF EncodedFields, e

-----------------------------------------------------------------------------
\* The two bytes of the header extension are the low and the high ones.
LEMMA WordBytes ==
    ASSUME NEW w \in Word
    PROVE  /\ w \cap 0..7 \in Byte /\ Shr(w, 8) \in Byte
           /\ (w \cap 0..7) \cup Shl(Shr(w, 8), 8) = w
  <1>1. w \in SUBSET Int
    BY DEF Word
  <1>2. Shr(w, 8) \in SUBSET Nat /\ \A i \in Int : i \in Shr(w, 8) <=> i \in Nat /\ i + 8 \in w
    BY <1>1, ShrBits
  <1>3. Shr(w, 8) \in Byte
    BY <1>2 DEF Word, Byte
  <1>4. /\ Shl(Shr(w, 8), 8) \in SUBSET Int
        /\ \A i \in Int : i \in Shl(Shr(w, 8), 8) <=> i - 8 \in Shr(w, 8)
    BY <1>3, ShlBits DEF Byte
  <1>5. \A i \in Int : i \in (w \cap 0..7) \cup Shl(Shr(w, 8), 8) <=> i \in w
    BY <1>2, <1>4 DEF Word
  <1> QED
    BY <1>1, <1>3, <1>4, <1>5 DEF Byte

\* The optional subfields of a header.
Extended(o) == IF WritesExtended(o.conf) THEN Slice(o.cip, 8, 9) ELSE <<>>
Extension(o) ==
    IF WritesIqzip(o.conf) THEN <<o.iqzip \cap 0..7, Shr(o.iqzip, 8)>> ELSE <<>>

\* The four parts of a header, and their bytes.
LEMMA HeaderParts ==
    ASSUME NEW o, o.primary \in PrimaryBytes, o.cip \in C!CipBytes, o.iqzip \in Word
    PROVE  /\ Header(o) = Slice(o.primary, 0, 5) \o Slice(o.cip, 0, 7)
                          \o Extended(o) \o Extension(o)
           /\ Slice(o.primary, 0, 5) \in Seq(Byte) /\ Len(Slice(o.primary, 0, 5)) = 6
           /\ \A k \in 1..6 : Slice(o.primary, 0, 5)[k] = o.primary[k - 1]
           /\ Slice(o.cip, 0, 7) \in Seq(Byte) /\ Len(Slice(o.cip, 0, 7)) = 8
           /\ \A k \in 1..8 : Slice(o.cip, 0, 7)[k] = o.cip[k - 1]
           /\ Extended(o) \in Seq(Byte)
           /\ WritesExtended(o.conf) =>
                /\ Len(Extended(o)) = 2
                /\ Extended(o)[1] = o.cip[8] /\ Extended(o)[2] = o.cip[9]
           /\ ~WritesExtended(o.conf) => Len(Extended(o)) = 0
           /\ Extension(o) \in Seq(Byte)
           /\ WritesIqzip(o.conf) =>
                /\ Len(Extension(o)) = 2
                /\ Extension(o)[1] = o.iqzip \cap 0..7
                /\ Extension(o)[2] = Shr(o.iqzip, 8)
           /\ ~WritesIqzip(o.conf) => Len(Extension(o)) = 0
  <1>1. \A k \in 0..5 : o.primary[k] \in Byte
    BY DEF PrimaryBytes
  <1>2. \A k \in 0..9 : o.cip[k] \in Byte
    BY DEF C!CipBytes, C!Byte, Byte
  <1>3. /\ Slice(o.primary, 0, 5) \in Seq(Byte) /\ Len(Slice(o.primary, 0, 5)) = 6
        /\ \A k \in 1..6 : Slice(o.primary, 0, 5)[k] = o.primary[k - 1]
    BY <1>1 DEF Slice
  <1>4. /\ Slice(o.cip, 0, 7) \in Seq(Byte) /\ Len(Slice(o.cip, 0, 7)) = 8
        /\ \A k \in 1..8 : Slice(o.cip, 0, 7)[k] = o.cip[k - 1]
    BY <1>2 DEF Slice
  <1>5. /\ Slice(o.cip, 8, 9) \in Seq(Byte) /\ Len(Slice(o.cip, 8, 9)) = 2
        /\ Slice(o.cip, 8, 9)[1] = o.cip[8] /\ Slice(o.cip, 8, 9)[2] = o.cip[9]
    BY <1>2 DEF Slice
  <1>6. o.iqzip \cap 0..7 \in Byte /\ Shr(o.iqzip, 8) \in Byte
    BY WordBytes
  <1>7. Header(o) = Slice(o.primary, 0, 5) \o Slice(o.cip, 0, 7)
                    \o Extended(o) \o Extension(o)
    BY DEF Header, Extended, Extension
  <1> QED
    BY <1>3, <1>4, <1>5, <1>6, <1>7 DEF Extended, Extension

\* Two sequences of bytes one behind the other.
LEMMA TwoParts ==
    ASSUME NEW s \in Seq(Byte), NEW t \in Seq(Byte)
    PROVE  /\ s \o t \in Seq(Byte) /\ Len(s \o t) = Len(s) + Len(t)
           /\ \A n \in 1..(Len(s) + Len(t)) :
                (s \o t)[n] = IF n <= Len(s) THEN s[n] ELSE t[n - Len(s)]
  OBVIOUS

\* The bytes of a file that is four parts of a header, of lengths i, j, k and l,
\* and a payload.
Behind(p, q, r, s, t, i, j, k, l) ==
    LET h == p \o q \o r \o s
        f == h \o t
    IN  /\ Len(h) = i + j + k + l
        /\ f \in Seq(Byte)
        /\ \A n \in 1..(i + j + k + l) :
             f[n] = IF n <= i THEN p[n]
                    ELSE IF n <= i + j THEN q[n - i]
                    ELSE IF n <= i + j + k THEN r[n - (i + j)]
                    ELSE s[n - (i + j + k)]

LEMMA FourParts ==
    ASSUME NEW p \in Seq(Byte), NEW q \in Seq(Byte), NEW r \in Seq(Byte),
           NEW s \in Seq(Byte), NEW t \in Seq(Byte),
           NEW i \in Nat, NEW j \in Nat, NEW k \in Nat, NEW l \in Nat,
           Len(p) = i, Len(q) = j, Len(r) = k, Len(s) = l
    PROVE  Behind(p, q, r, s, t, i, j, k, l)
  <1> DEFINE a == p \o q
             b == a \o r
             h == b \o s
             f == h \o t
  <1>1. /\ a \in Seq(Byte) /\ Len(a) = i + j
        /\ \A n \in 1..(i + j) : a[n] = IF n <= i THEN p[n] ELSE q[n - i]
    BY TwoParts
  <1> HIDE DEF a
  <1>2. /\ b \in Seq(Byte) /\ Len(b) = i + j + k
        /\ \A n \in 1..(i + j + k) :
             b[n] = IF n <= i + j THEN a[n] ELSE r[n - (i + j)]
    <2>1. /\ b \in Seq(Byte) /\ Len(b) = Len(a) + Len(r)
          /\ \A n \in 1..(Len(a) + Len(r)) :
               b[n] = IF n <= Len(a) THEN a[n] ELSE r[n - Len(a)]
      BY <1>1, TwoParts
    <2> QED
      BY <1>1, <2>1
  <1> HIDE DEF b
  <1>3. /\ h \in Seq(Byte) /\ Len(h) = i + j + k + l
        /\ \A n \in 1..(i + j + k + l) :
             h[n] = IF n <= i + j + k THEN b[n] ELSE s[n - (i + j + k)]
    <2>1. /\ h \in Seq(Byte) /\ Len(h) = Len(b) + Len(s)
          /\ \A n \in 1..(Len(b) + Len(s)) :
               h[n] = IF n <= Len(b) THEN b[n] ELSE s[n - Len(b)]
      BY <1>2, TwoParts
    <2> QED
      BY <1>2, <2>1
  <1> HIDE DEF h
  <1>4. /\ f \in Seq(Byte)
        /\ \A n \in 1..(i + j + k + l) : f[n] = h[n]
    BY <1>3, TwoParts
  <1> HIDE DEF f
  <1>5. \A n \in 1..(i + j + k + l) :
          f[n] = IF n <= i THEN p[n]
                 ELSE IF n <= i + j THEN q[n - i]
                 ELSE IF n <= i + j + k THEN r[n - (i + j)]
                 ELSE s[n - (i + j + k)]
    BY <1>1, <1>2, <1>3, <1>4
  <1> QED
    BY <1>3, <1>4, <1>5 DEF Behind, a, b, h, f

\* The length of a header.
HeaderLen(c) ==
    14 + (IF WritesExtended(c) THEN 2 ELSE 0) + (IF WritesIqzip(c) THEN 2 ELSE 0)

\* What the parser takes for the parts of a header are the parts, as far as they
\* were written.
LEMMA FileBytes ==
    ASSUME NEW o, o.primary \in PrimaryBytes, o.cip \in C!CipBytes, o.iqzip \in Word,
           o.conf.block_size \in Nat,
           NEW payload \in Seq(Byte), Len(Header(o) \o payload) >= max_header_size
    PROVE  LET f == Header(o) \o payload
           IN  /\ Len(Header(o)) = HeaderLen(o.conf)
               /\ PrimaryOf(f) = o.primary
               /\ CipOf(f) \in C!CipBytes
               /\ \A j \in 0..7 : CipOf(f)[j] = o.cip[j]
               /\ WritesExtended(o.conf) =>
                    CipOf(f)[8] = o.cip[8] /\ CipOf(f)[9] = o.cip[9]
               /\ IqzipOf(f) \in Word
               /\ WritesIqzip(o.conf) => IqzipOf(f) = o.iqzip
  <1> DEFINE p == Slice(o.primary, 0, 5)
             q == Slice(o.cip, 0, 7)
             r == Extended(o)
             s == Extension(o)
             f == Header(o) \o payload
  <1>1. /\ Header(o) = p \o q \o r \o s
        /\ p \in Seq(Byte) /\ Len(p) = 6 /\ q \in Seq(Byte) /\ Len(q) = 8
        /\ r \in Seq(Byte) /\ s \in Seq(Byte)
        /\ Len(r) = IF WritesExtended(o.conf) THEN 2 ELSE 0
        /\ Len(s) = IF WritesIqzip(o.conf) THEN 2 ELSE 0
    BY HeaderParts
  <1>2. /\ \A k \in 1..6 : p[k] = o.primary[k - 1]
        /\ \A k \in 1..8 : q[k] = o.cip[k - 1]
        /\ WritesExtended(o.conf) => r[1] = o.cip[8] /\ r[2] = o.cip[9]
        /\ WritesIqzip(o.conf) => /\ s[1] = o.iqzip \cap 0..7
                                  /\ s[2] = Shr(o.iqzip, 8)
    BY HeaderParts
  <1> HIDE DEF p, q, r, s
  <1> DEFINE k == IF WritesExtended(o.conf) THEN 2 ELSE 0
             l == IF WritesIqzip(o.conf) THEN 2 ELSE 0
  <1>3. /\ k \in {0, 2} /\ l \in {0, 2}
        /\ WritesExtended(o.conf) => k = 2
        /\ WritesIqzip(o.conf) => k = 2 /\ l = 2
    BY DEF WritesIqzip, WritesExtended
  <1> HIDE DEF k, l
  <1>4. /\ Len(Header(o)) = 6 + 8 + k + l
        /\ f \in Seq(Byte)
        /\ \A n \in 1..(6 + 8 + k + l) :
             f[n] = IF n <= 6 THEN p[n] ELSE IF n <= 6 + 8 THEN q[n - 6]
                    ELSE IF n <= 6 + 8 + k THEN r[n - (6 + 8)]
                    ELSE s[n - (6 + 8 + k)]
    <2>1. /\ 6 \in Nat /\ 8 \in Nat /\ k \in Nat /\ l \in Nat
      BY <1>3
    <2>2. Len(r) = k /\ Len(s) = l
      BY <1>1 DEF k, l
    <2>3. p \in Seq(Byte) /\ q \in Seq(Byte) /\ r \in Seq(Byte) /\ s \in Seq(Byte)
      BY <1>1
    <2>4. ASSUME NEW i \in Nat, NEW j \in Nat, Len(p) = i, Len(q) = j
          PROVE  Behind(p, q, r, s, payload, i, j, k, l)
      BY <2>1, <2>2, <2>3, <2>4, FourParts
    <2>5. Behind(p, q, r, s, payload, 6, 8, k, l)
      BY <1>1, <2>1, <2>4
    <2>6. Header(o) = p \o q \o r \o s
      BY <1>1
    <2> QED
      BY <2>5, <2>6 DEF Behind
  <1>5. Len(f) >= 18
    BY DEF max_header_size
  <1> HIDE DEF f
  <1>6. ASSUME NEW j \in 0..5
        PROVE  f[1 + j] = o.primary[j]
    <2>1. 1 + j \in 1..6 /\ 1 + j \in 1..(6 + 8 + k + l) /\ (1 + j) - 1 = j
      BY <1>3
    <2>2. f[1 + j] = p[1 + j]
      BY <1>4, <2>1
    <2>3. p[1 + j] = o.primary[(1 + j) - 1]
      BY <1>2, <2>1
    <2> QED
      BY <2>1, <2>2, <2>3
  <1>7. ASSUME NEW j \in 0..7
        PROVE  f[7 + j] = o.cip[j]
    <2>1. /\ 7 + j \in 1..(6 + 8 + k + l) /\ ~(7 + j <= 6) /\ 7 + j <= 6 + 8
          /\ (7 + j) - 6 = 1 + j /\ 1 + j \in 1..8 /\ (1 + j) - 1 = j
      BY <1>3
    <2>2. f[7 + j] = q[1 + j]
      BY <1>4, <2>1
    <2>3. q[1 + j] = o.cip[(1 + j) - 1]
      BY <1>2, <2>1
    <2> QED
      BY <2>1, <2>2, <2>3
  <1>8. WritesExtended(o.conf) => f[7 + 8] = o.cip[8] /\ f[7 + 9] = o.cip[9]
    <2> SUFFICES ASSUME WritesExtended(o.conf)
                 PROVE  f[7 + 8] = o.cip[8] /\ f[7 + 9] = o.cip[9]
      OBVIOUS
    <2>1. /\ 7 + 8 \in 1..(6 + 8 + k + l) /\ 7 + 9 \in 1..(6 + 8 + k + l)
          /\ ~(7 + 8 <= 6 + 8) /\ ~(7 + 9 <= 6 + 8)
          /\ 7 + 8 <= 6 + 8 + k /\ 7 + 9 <= 6 + 8 + k
          /\ ~(7 + 8 <= 6) /\ ~(7 + 9 <= 6)
          /\ (7 + 8) - (6 + 8) = 1 /\ (7 + 9) - (6 + 8) = 2
      BY <1>3
    <2>2. f[7 + 8] = r[1] /\ f[7 + 9] = r[2]
      BY <1>4, <2>1
    <2> QED
      BY <1>2, <2>2
  <1>9. WritesIqzip(o.conf) => f[17] = o.iqzip \cap 0..7 /\ f[18] = Shr(o.iqzip, 8)
    <2> SUFFICES ASSUME WritesIqzip(o.conf)
                 PROVE  f[17] = o.iqzip \cap 0..7 /\ f[18] = Shr(o.iqzip, 8)
      OBVIOUS
    <2>1. /\ 17 \in 1..(6 + 8 + k + l) /\ 18 \in 1..(6 + 8 + k + l)
          /\ ~(17 <= 6 + 8 + k) /\ ~(18 <= 6 + 8 + k)
          /\ 17 - (6 + 8 + k) = 1 /\ 18 - (6 + 8 + k) = 2
      BY <1>3
    <2>2. f[17] = s[1] /\ f[18] = s[2]
      BY <1>4, <2>1
    <2> QED
      BY <1>2, <2>2
  <1>10. \A n \in 1..18 : f[n] \in Byte
    BY <1>4, <1>5
  <1>11. PrimaryOf(f) = o.primary
    BY <1>6 DEF PrimaryOf, PrimaryBytes
  <1>12. CipOf(f) \in C!CipBytes
    <2>1. \A j \in 0..9 : f[7 + j] \in Byte
      BY <1>10
    <2> QED
      BY <2>1 DEF CipOf, C!CipBytes, C!Byte, Byte
  <1>13. \A j \in 0..7 : CipOf(f)[j] = o.cip[j]
    <2>1. \A j \in 0..7 : CipOf(f)[j] = f[7 + j]
      BY DEF CipOf
    <2> QED
      BY <1>7, <2>1
  <1>14. WritesExtended(o.conf) =>
           CipOf(f)[8] = o.cip[8] /\ CipOf(f)[9] = o.cip[9]
    <2>1. \A j \in 0..9 : CipOf(f)[j] = f[7 + j]
      BY DEF CipOf
    <2>2. CipOf(f)[8] = f[7 + 8] /\ CipOf(f)[9] = f[7 + 9]
      BY <2>1
    <2> QED
      BY <1>8, <2>2
  <1>15. IqzipOf(f) \in Word
    <2>1. f[17] \in SUBSET (0..7) /\ f[18] \in SUBSET (0..7)
      <3>1. 17 \in 1..18 /\ 18 \in 1..18
        OBVIOUS
      <3>2. f[17] \in Byte /\ f[18] \in Byte
        BY <1>10, <3>1
      <3> QED
        BY <3>2 DEF Byte
    <2>2. f[18] \in SUBSET Int
      BY <2>1
    <2>3. /\ Shl(f[18], 8) \in SUBSET Int
          /\ \A i \in Int : i \in Shl(f[18], 8) <=> i - 8 \in f[18]
      BY <2>2, ShlBits
    <2>4. \A i \in Shl(f[18], 8) : i \in Int /\ i - 8 \in 0..7
      BY <2>1, <2>3
    <2>5. \A i \in Int : i - 8 \in 0..7 => i \in 0..15
      OBVIOUS
    <2>6. Shl(f[18], 8) \in SUBSET (0..15)
      BY <2>4, <2>5
    <2>7. \A b \in SUBSET (0..7) : \A c \in SUBSET (0..15) : b \cup c \in SUBSET (0..15)
      OBVIOUS
    <2>8. f[17] \cup Shl(f[18], 8) \in SUBSET (0..15)
      BY <2>1, <2>6, <2>7
    <2> QED
      BY <2>8 DEF IqzipOf, Word
  <1>16. WritesIqzip(o.conf) => IqzipOf(f) = o.iqzip
    <2>1. IqzipOf(f) = f[17] \cup Shl(f[18], 8)
      BY DEF IqzipOf
    <2>2. (o.iqzip \cap 0..7) \cup Shl(Shr(o.iqzip, 8), 8) = o.iqzip
      BY WordBytes
    <2> QED
      BY <1>9, <2>1, <2>2
  <1>17. Len(Header(o)) = HeaderLen(o.conf)
    BY <1>4 DEF HeaderLen, k, l
  <1> QED
    BY <1>11, <1>12, <1>13, <1>14, <1>15, <1>16, <1>17 DEF f

-----------------------------------------------------------------------------
\* The block sizes of the header extension.
LEMMA ExtensionSizes ==
    ASSUME NEW k \in 0..8
    PROVE  BlockSizes[k] \in Nat /\ BlockSizes[k] > 64 /\ BlockSizes[k] < 65535
  <1>1. BlockSizes[k] = 2^(k + 7)
    BY DEF BlockSizes
  <1>2. CASE k = 0
    <2>1. 2^(0 + 7) = 128
      OBVIOUS
    <2> QED
      BY <1>1, <1>2, <2>1
  <1>3. CASE k = 1
    <2>1. 2^(1 + 7) = 256
      OBVIOUS
    <2> QED
      BY <1>1, <1>3, <2>1
  <1>4. CASE k = 2
    <2>1. 2^(2 + 7) = 512
      OBVIOUS
    <2> QED
      BY <1>1, <1>4, <2>1
  <1>5. CASE k = 3
    <2>1. 2^(3 + 7) = 1024
      OBVIOUS
    <2> QED
      BY <1>1, <1>5, <2>1
  <1>6. CASE k = 4
    <2>1. 2^(4 + 7) = 2048
      OBVIOUS
    <2> QED
      BY <1>1, <1>6, <2>1
  <1>7. CASE k = 5
    <2>1. 2^(5 + 7) = 4096
      OBVIOUS
    <2> QED
      BY <1>1, <1>7, <2>1
  <1>8. CASE k = 6
    <2>1. 2^(6 + 7) = 8192
      OBVIOUS
    <2> QED
      BY <1>1, <1>8, <2>1
  <1>9. CASE k = 7
    <2>1. 2^(7 + 7) = 16384
      OBVIOUS
    <2> QED
      BY <1>1, <1>9, <2>1
  <1>10. CASE k = 8
    <2>1. 2^(8 + 7) = 32768
      OBVIOUS
    <2> QED
      BY <1>1, <1>10, <2>1
  <1> QED
    BY <1>2, <1>3, <1>4, <1>5, <1>6, <1>7, <1>8, <1>9, <1>10

\* The header extension of a compressor, and what is read from it.
LEMMA ExtensionDecoded ==
    ASSUME NEW c \in Configs, NEW old
    PROVE  /\ EncodeIqzip(c, old) \in Word
           /\ decode_iqzip_header_block_size(EncodeIqzip(c, old))
                = BlockSizes[IqzipBlockCode(c.block_size)]
           /\ IqzipBlockCode(c.block_size) \in 0..8
           /\ \A k \in 0..8 : c.block_size = BlockSizes[k] =>
                BlockSizes[IqzipBlockCode(c.block_size)] = c.block_size
           /\ c.endianness \in {0, 1} =>
                decode_iqzip_header_endianess(EncodeIqzip(c, old)) = c.endianness
  <1> DEFINE w == EncodeIqzip(c, old)
             code == IqzipBlockCode(c.block_size)
             rsi == Bits((c.reference_sample_interval - 1) % 2048)
             order == IF c.endianness \in {0, 1} THEN Shl(Bits(c.endianness), 15)
                      ELSE old \cap {15}
  <1>1. /\ code \in 0..8
        /\ \A k \in 0..8 : c.block_size = BlockSizes[k] =>
             BlockSizes[code] = c.block_size
    <2>1. CASE \E k \in 0..8 : BlockSizes[k] = c.block_size
      BY <2>1 DEF IqzipBlockCode
    <2>2. CASE ~\E k \in 0..8 : BlockSizes[k] = c.block_size
      BY <2>2 DEF IqzipBlockCode
    <2> QED
      BY <2>1, <2>2
  <1> HIDE DEF code
  <1>2. Bits(code) \in SUBSET (0..3)
    BY <1>1, SmallBits
  <1>3. rsi \in SUBSET (0..10)
    <2>1. c.reference_sample_interval - 1 \in Nat
      BY OptionsType DEF Options
    <2>2. (c.reference_sample_interval - 1) % 2048 \in Nat
      BY <2>1
    <2>3. Bits(c.reference_sample_interval - 1) \cap 0..10 = rsi
      BY <2>1, CutBits DEF Cuts
    <2> QED
      BY <2>3
  <1>4. /\ order \in SUBSET {15}
        /\ c.endianness \in {0, 1} => (c.endianness = 1 <=> 15 \in order)
    <2>1. CASE c.endianness \in {0, 1}
      <3> DEFINE b == Bits(c.endianness)
      <3>1. order = Shl(b, 15)
        BY <2>1
      <3>2. b \in SUBSET {0} /\ (c.endianness = 1 <=> 0 \in b)
        BY <2>1, FewBits
      <3> HIDE DEF b, order
      <3>3. /\ Shl(b, 15) \in SUBSET Int
            /\ \A i \in Int : i \in Shl(b, 15) <=> i - 15 \in b
        BY <3>2, ShlBits
      <3>4. \A i \in Int : i \in Shl(b, 15) <=> i = 15 /\ 0 \in b
        BY <3>2, <3>3
      <3> QED
        BY <3>1, <3>2, <3>3, <3>4
    <2>2. CASE c.endianness \notin {0, 1}
      BY <2>2
    <2> QED
      BY <2>1, <2>2
  <1>5. w = Bits(code) \cup Shl(rsi, 4) \cup order
    BY DEF EncodeIqzip, code
  <1> HIDE DEF w, rsi, order
  <1>6. /\ Shl(rsi, 4) \in SUBSET Int
        /\ \A i \in Int : i \in Shl(rsi, 4) <=> i - 4 \in rsi
    BY <1>3, ShlBits
  <1>7. \A i \in w : i \in Int /\ (i \in Bits(code) \/ i - 4 \in rsi \/ i \in order)
    <2>1. Bits(code) \in SUBSET Int /\ order \in SUBSET Int
      BY <1>2, <1>4
    <2> QED
      BY <1>5, <1>6, <2>1
  <1>8. w \in Word
    BY <1>2, <1>3, <1>4, <1>7 DEF Word
  <1>9. w \cap 0..3 = Bits(code)
    BY <1>2, <1>3, <1>4, <1>5, <1>7
  <1>10. 15 \in w <=> 15 \in order
    BY <1>2, <1>3, <1>5, <1>6
  <1>11. Num(Bits(code)) = code
    BY <1>1, ByteNumBits
  <1>12. decode_iqzip_header_block_size(w) = BlockSizes[code]
    BY <1>1, <1>9, <1>11 DEF decode_iqzip_header_block_size
  <1>13. c.endianness \in {0, 1} =>
           decode_iqzip_header_endianess(w) = c.endianness
    BY <1>4, <1>10 DEF decode_iqzip_header_endianess
  <1> QED
    BY <1>1, <1>8, <1>12, <1>13 DEF w, code

-----------------------------------------------------------------------------
\* The memory of the extension of a new header.
IqzipStart(m) == m[16] \cup Shl(m[17], 8)

\* What a decompressor takes for the packet and for the extension of the header
\* that a compressor made of the options c in memory m.
ReadBack(c, m, d, w) ==
    LET e == EncodeCip(CipStart(m), c)
    IN  /\ d \in C!CipBytes /\ w \in Word
        /\ \A j \in 0..7 : d[j] = e[j]
        /\ WritesExtended(c) => d[8] = e[8] /\ d[9] = e[9]
        /\ WritesIqzip(c) => w = EncodeIqzip(c, IqzipStart(m))

\* The fields of the packet that it reads.
LEMMA FieldsReadBack ==
    ASSUME NEW c \in Configs, NEW m \in HeaderMemory, NEW d, NEW w,
           ReadBack(c, m, d, w), NEW f \in C!CipFields,
           f \in C!Fields["extended_parameters"] => WritesExtended(c)
    PROVE  C!FieldBits(f, d) = C!FieldBits(f, EncodeCip(CipStart(m), c))
  <1> DEFINE e == EncodeCip(CipStart(m), c)
  <1>1. /\ d \in C!CipBytes
        /\ \A j \in 0..7 : d[j] = e[j]
        /\ WritesExtended(c) => d[8] = e[8] /\ d[9] = e[9]
    BY DEF ReadBack
  <1>2. e \in C!CipBytes
    BY CompressorFields DEF EncodedFields
  <1> HIDE DEF e
  <1>3. \A j \in 0..9, i \in 0..7 : CipOwner(j, i) = f => (i \in d[j] <=> i \in e[j])
    <2>1. CASE WritesExtended(c)
      BY <1>1, <2>1
    <2>2. CASE f \notin C!Fields["extended_parameters"]
      <3>1. \A i \in 0..7, j \in {8, 9} : CipOwner(j, i) # f
        BY <2>2, CipFieldNames DEF CipOwner, C!Fields
      <3> QED
        BY <1>1, <3>1
    <2> QED
      BY <2>1, <2>2
  <1> QED
    BY <1>1, <1>2, <1>3, CipLocal DEF e

\* What the codes of a block size read as.
LEMMA BlockCodes ==
    ASSUME NEW c \in Configs, NEW m \in HeaderMemory, NEW d, NEW w,
           ReadBack(c, m, d, w), m[11] = {}
    PROVE  LET n == c.block_size
               pre == decode_preprocessor_block_size(d)
               ext == decode_extended_parameters_block_size(d)
           IN  /\ n \in {0, 8} => pre = 8
               /\ n = 16 => pre = 16
               /\ n \notin {0, 8, 16} => pre = 0
               /\ ext \in {0, 8, 16, 32, 64}
               /\ WritesExtended(c) =>
                    /\ n = 32 => ext = 32
                    /\ n = 64 => ext = 64
                    /\ n \notin {0, 8, 16, 32, 64} => ext = 0
  <1> DEFINE n == c.block_size
             e == EncodeCip(CipStart(m), c)
             pre == decode_preprocessor_block_size(d)
             ext == decode_extended_parameters_block_size(d)
  <1>1. d \in C!CipBytes
    BY DEF ReadBack
  <1>2. /\ C!FieldBits("block_size", e) = Bits(PreprocessorBlockCode(n))
        /\ C!FieldBits("extended_block_size", e) = Bits(ExtendedBlockCode(n))
    BY CompressorFields DEF EncodedFields
  <1>3. preprocessor_block_code(d) = Bits(PreprocessorBlockCode(n))
    <2>1. "block_size" \notin C!Fields["extended_parameters"]
      BY DEF C!Fields
    <2>2. C!FieldBits("block_size", d) = C!FieldBits("block_size", e)
      BY <2>1, FieldsReadBack, CipFieldNames
    <2> QED
      BY <1>1, <1>2, <2>2, SameGetters
  <1>4. WritesExtended(c) => extended_block_code(d) = Bits(ExtendedBlockCode(n))
    <2>1. WritesExtended(c) =>
            C!FieldBits("extended_block_size", d)
              = C!FieldBits("extended_block_size", e)
      BY FieldsReadBack, CipFieldNames
    <2> QED
      BY <1>1, <1>2, <2>1, SameGetters
  <1>5. n \in Nat
    BY OptionsType DEF Options
  <1> HIDE DEF n, e
  <1>6. /\ Num(Bits(0)) = 0 /\ Num(Bits(1)) = 1 /\ Num(Bits(2)) = 2
        /\ Num(Bits(3)) = 3 /\ Num(Bits(15)) = 15
    BY ByteNumBits
  <1>7. /\ n \in {0, 8} => pre = 8
        /\ n = 16 => pre = 16
        /\ n \notin {0, 8, 16} => pre = 0
    <2>1. pre = CASE Num(Bits(PreprocessorBlockCode(n))) = 0 -> 8
                  [] Num(Bits(PreprocessorBlockCode(n))) = 1 -> 16 [] OTHER -> 0
      BY <1>3 DEF decode_preprocessor_block_size
    <2>2. /\ n \in {0, 8} => PreprocessorBlockCode(n) = 0
          /\ n = 16 => PreprocessorBlockCode(n) = 1
          /\ n \notin {0, 8, 16} => PreprocessorBlockCode(n) \in {2, 3}
      BY <1>5 DEF PreprocessorBlockCode
    <2> HIDE DEF pre
    <2> QED
      BY <1>6, <2>1, <2>2
  <1>8. ext \in {0, 8, 16, 32, 64}
    BY DEF decode_extended_parameters_block_size
  <1>9. ASSUME WritesExtended(c)
        PROVE  /\ n = 32 => ext = 32
               /\ n = 64 => ext = 64
               /\ n \notin {0, 8, 16, 32, 64} => ext = 0
    <2>1. ext = CASE Num(Bits(ExtendedBlockCode(n))) = 0 -> 8
                  [] Num(Bits(ExtendedBlockCode(n))) = 1 -> 16
                  [] Num(Bits(ExtendedBlockCode(n))) = 2 -> 32
                  [] Num(Bits(ExtendedBlockCode(n))) = 3 -> 64 [] OTHER -> 0
      BY <1>4, <1>9 DEF decode_extended_parameters_block_size
    <2>2. /\ n = 32 => ExtendedBlockCode(n) = 2
          /\ n = 64 => ExtendedBlockCode(n) = 3
          /\ n \notin {0, 8, 16, 32, 64} => ExtendedBlockCode(n) = 15
      BY <1>5 DEF ExtendedBlockCode
    <2> HIDE DEF ext
    <2> QED
      BY <1>6, <2>1, <2>2
  <1> QED
    BY <1>7, <1>8, <1>9 DEF n

\* The subfields a header has, by its block size; no interval exceeds 255.
LEMMA Subfields ==
    ASSUME NEW c \in Configs
    PROVE  /\ c.block_size \in Nat
           /\ WritesExtended(c) <=> c.block_size > 16 \/ c.restricted_codes # 0
           /\ WritesIqzip(c) <=> c.block_size > 64
           /\ HeaderLen(c) = IF c.block_size > 64 THEN 18
                             ELSE IF c.block_size > 16 \/ c.restricted_codes # 0
                             THEN 16 ELSE 14
  <1>1. /\ c.block_size \in Nat
        /\ c.reference_sample_interval \in Nat /\ c.reference_sample_interval <= 255
    BY OptionsType DEF Options, LongOptions
  <1>2. /\ WritesExtended(c) <=> c.block_size > 16 \/ c.restricted_codes # 0
        /\ WritesIqzip(c) <=> c.block_size > 64
    BY <1>1 DEF WritesExtended, WritesIqzip
  <1> QED
    BY <1>1, <1>2 DEF HeaderLen

\* The header that is skipped is as long as the one written exactly when the
\* block size has a code of its own, or shares it with one that is as short.
LEMMA LengthReadBack ==
    ASSUME NEW c \in Configs, NEW m \in HeaderMemory, NEW d, NEW w,
           ReadBack(c, m, d, w), m[11] = {}
    PROVE  hdr_size(d) = HeaderLen(c) <=>
             /\ CodedBlock(c) \/ c.block_size = 0 \/ c.block_size > 64
             /\ c.restricted_codes = 0 \/ c.block_size > 16
  <1> DEFINE n == c.block_size
             t == c.restricted_codes
             pre == decode_preprocessor_block_size(d)
             ext == decode_extended_parameters_block_size(d)
  <1>1. /\ n \in Nat
        /\ WritesExtended(c) <=> n > 16 \/ t # 0
        /\ HeaderLen(c) = IF n > 64 THEN 18 ELSE IF n > 16 \/ t # 0 THEN 16 ELSE 14
    BY Subfields
  <1>2. /\ n \in {0, 8} => pre = 8
        /\ n = 16 => pre = 16
        /\ n \notin {0, 8, 16} => pre = 0
        /\ WritesExtended(c) =>
             /\ n = 32 => ext = 32
             /\ n = 64 => ext = 64
             /\ n \notin {0, 8, 16, 32, 64} => ext = 0
    BY BlockCodes
  <1>3. hdr_size(d) = IF pre # 0 THEN 14 ELSE IF ext # 0 THEN 16 ELSE 18
    BY DEF hdr_size
  <1>4. n <= 64 => (CodedBlock(c) <=> n \in {8, 16, 32, 64})
    <2>1. \A k \in 0..8 : BlockSizes[k] \in Nat /\ BlockSizes[k] > 64
      BY ExtensionSizes
    <2> QED
      BY <1>1, <2>1 DEF CodedBlock
  <1> HIDE DEF n, t, pre, ext
  <1>5. CASE n > 64
    BY <1>1, <1>2, <1>3, <1>5 DEF n, t
  <1>6. CASE n <= 64 /\ n > 16
    BY <1>1, <1>2, <1>3, <1>4, <1>6 DEF n, t
  <1>7. CASE n <= 16
    BY <1>1, <1>2, <1>3, <1>4, <1>7 DEF n, t
  <1> QED
    BY <1>1, <1>5, <1>6, <1>7

\* The block size that is read is the one written exactly when it has a code.
LEMMA BlockReadBack ==
    ASSUME NEW c \in Configs, NEW m \in HeaderMemory, NEW d, NEW w,
           ReadBack(c, m, d, w), m[11] = {}
    PROVE  decode_block_size(d, w) = c.block_size <=> CodedBlock(c)
  <1> DEFINE n == c.block_size
             pre == decode_preprocessor_block_size(d)
             ext == decode_extended_parameters_block_size(d)
             iqz == decode_iqzip_header_block_size(w)
             b == decode_block_size(d, w)
  <1>1. /\ n \in Nat
        /\ n > 16 => WritesExtended(c)
        /\ n > 64 => WritesIqzip(c)
    BY Subfields
  <1>2. /\ n \in {0, 8} => pre = 8
        /\ n = 16 => pre = 16
        /\ n \notin {0, 8, 16} => pre = 0
        /\ ext \in {0, 8, 16, 32, 64}
        /\ WritesExtended(c) =>
             /\ n = 32 => ext = 32
             /\ n = 64 => ext = 64
             /\ n \notin {0, 8, 16, 32, 64} => ext = 0
    BY BlockCodes
  <1>3. b = IF pre # 0 THEN pre ELSE IF ext # 0 THEN ext ELSE iqz
    BY DEF decode_block_size
  <1>4. \A k \in 0..8 : BlockSizes[k] \in Nat /\ BlockSizes[k] > 64
    BY ExtensionSizes
  <1>5. CodedBlock(c) <=> n \in {8, 16, 32, 64} \/ \E k \in 0..8 : n = BlockSizes[k]
    BY DEF CodedBlock
  <1>6. iqz = 0 \/ (iqz \in Nat /\ iqz > 64)
    BY <1>4 DEF decode_iqzip_header_block_size
  <1>7. n > 64 => /\ \E k \in 0..8 : iqz = BlockSizes[k]
                  /\ \A k \in 0..8 : n = BlockSizes[k] => iqz = n
    <2>1. n > 64 => w = EncodeIqzip(c, IqzipStart(m))
      BY <1>1 DEF ReadBack
    <2> QED
      BY <2>1, ExtensionDecoded
  <1> HIDE DEF n, pre, ext, iqz, b
  <1>8. CASE n > 64
    <2>1. b = iqz
      BY <1>1, <1>2, <1>3, <1>8
    <2>2. CodedBlock(c) <=> \E k \in 0..8 : n = BlockSizes[k]
      BY <1>5, <1>8
    <2> QED
      BY <1>7, <1>8, <2>1, <2>2 DEF n, b
  <1>9. CASE n <= 64
    <2>1. CodedBlock(c) <=> n \in {8, 16, 32, 64}
      BY <1>1, <1>4, <1>5, <1>9
    <2>2. b = n <=> n \in {8, 16, 32, 64}
      <3>1. CASE n > 16
        BY <1>1, <1>2, <1>3, <1>6, <1>9, <3>1
      <3>2. CASE n <= 16
        BY <1>1, <1>2, <1>3, <1>6, <3>2
      <3> QED
        BY <1>1, <3>1, <3>2
    <2> QED
      BY <2>1, <2>2 DEF n, b
  <1> QED
    BY <1>1, <1>8, <1>9

\* What the coder looks at of options that are one bit each.
LEMMA RelevantStream ==
    ASSUME NEW x, x.sample_resolution \in Nat, x.data_sense \in {0, 1},
           x.endianness \in {0, 1}, x.preprocessor_status \in {0, 1},
           Bits(x.restricted_codes) \subseteq {0, 6}
    PROVE  LET r == Relevant(init_aec_stream(x))
           IN  /\ r = [bits_per_sample |-> x.sample_resolution,
                       block_size |-> x.block_size,
                       rsi |-> x.reference_sample_interval,
                       flags |-> r.flags]
               /\ \A i : i \in r.flags <=>
                    \/ i \in {1, 6}
                    \/ i = 0 /\ x.data_sense = 0
                    \/ i = 2 /\ x.endianness = 0 /\ x.sample_resolution > 8
                    \/ i = 3 /\ x.preprocessor_status = 1
                    \/ i = 4 /\ 0 \in Bits(x.restricted_codes)
  <1> DEFINE sense == Shl(Bits(x.data_sense), 0)
             order == Shl(Bits(x.endianness), 2)
             pre == Shl(Bits(x.preprocessor_status), 3)
             codes == Shl(Bits(x.restricted_codes), 4)
             all == {1, 6} \cup ({0} \ sense) \cup ({2} \ order) \cup pre \cup codes
             f == { i \in all : i <= 6 /\ (i = 2 => x.sample_resolution > 8) }
  <1>1. Relevant(init_aec_stream(x))
          = [bits_per_sample |-> x.sample_resolution,
             block_size |-> x.block_size,
             rsi |-> x.reference_sample_interval,
             flags |-> f]
    <2> DEFINE s == init_aec_stream(x)
    <2>1. s = [bits_per_sample |-> x.sample_resolution,
               block_size |-> x.block_size,
               rsi |-> x.reference_sample_interval,
               flags |-> all]
      <3>1. all = {DATA_3BYTE, NOT_ENFORCE}
                  \cup ({DATA_SIGNED} \ Shl(Bits(x.data_sense), DATA_SIGNED))
                  \cup ({DATA_MSB} \ Shl(Bits(x.endianness), DATA_MSB))
                  \cup Shl(Bits(x.preprocessor_status), DATA_PREPROCESS)
                  \cup Shl(Bits(x.restricted_codes), RESTRICTED)
        BY DEF DATA_SIGNED, DATA_3BYTE, DATA_MSB, DATA_PREPROCESS, RESTRICTED,
               NOT_ENFORCE
      <3> HIDE DEF all
      <3> QED
        BY <3>1 DEF init_aec_stream
    <2> HIDE DEF s, all
    <2>2. Relevant(s) = [s EXCEPT !.flags = f]
      <3>1. f = { i \in s.flags : i <= NOT_ENFORCE
                                  /\ (i = DATA_MSB => s.bits_per_sample > 8) }
        <4>1. s.flags = all /\ s.bits_per_sample = x.sample_resolution
          BY <2>1
        <4> QED
          BY <4>1, Zenon DEF DATA_MSB, NOT_ENFORCE
      <3> HIDE DEF f
      <3> QED
        BY <3>1 DEF Relevant
    <2> HIDE DEF f
    <2> QED
      BY <2>1, <2>2 DEF s
  <1>2. /\ 0 \in sense <=> x.data_sense = 1
        /\ 2 \in order <=> x.endianness = 1
        /\ pre = IF x.preprocessor_status = 1 THEN {3} ELSE {}
    <2>1. /\ Bits(x.data_sense) = IF x.data_sense = 1 THEN {0} ELSE {}
          /\ Bits(x.endianness) = IF x.endianness = 1 THEN {0} ELSE {}
          /\ Bits(x.preprocessor_status)
               = IF x.preprocessor_status = 1 THEN {0} ELSE {}
      BY FewBits
    <2>2. \A k \in Nat : Shl({0}, k) = {k} /\ Shl({}, k) = {}
      BY DEF Shl
    <2> QED
      BY <2>1, <2>2
  <1>3. /\ codes \subseteq {4, 10}
        /\ 4 \in codes <=> 0 \in Bits(x.restricted_codes)
    <2>1. Bits(x.restricted_codes) \in SUBSET Int
      OBVIOUS
    <2>2. /\ codes \in SUBSET Int
          /\ \A i \in Int : i \in codes <=> i - 4 \in Bits(x.restricted_codes)
      BY <2>1, ShlBits
    <2> HIDE DEF codes
    <2>3. \A i \in Int : i \in codes => i - 4 \in {0, 6}
      BY <2>2
    <2>4. \A i \in Int : i - 4 \in {0, 6} => i \in {4, 10}
      OBVIOUS
    <2>5. 4 - 4 = 0
      OBVIOUS
    <2> QED
      BY <2>2, <2>3, <2>4, <2>5
  <1> HIDE DEF sense, order, pre, codes
  <1>4. ASSUME NEW i
        PROVE  i \in f <=>
                 \/ i \in {1, 6}
                 \/ i = 0 /\ x.data_sense = 0
                 \/ i = 2 /\ x.endianness = 0 /\ x.sample_resolution > 8
                 \/ i = 3 /\ x.preprocessor_status = 1
                 \/ i = 4 /\ 0 \in Bits(x.restricted_codes)
    <2>1. i \in all <=> \/ i \in {1, 6}
                        \/ i = 0 /\ x.data_sense = 0
                        \/ i = 2 /\ x.endianness = 0
                        \/ i = 3 /\ x.preprocessor_status = 1
                        \/ i \in codes
      <3>1. i \in {0} \ sense <=> i = 0 /\ x.data_sense = 0
        BY <1>2
      <3>2. i \in {2} \ order <=> i = 2 /\ x.endianness = 0
        BY <1>2
      <3>3. i \in pre <=> i = 3 /\ x.preprocessor_status = 1
        BY <1>2
      <3> QED
        BY <3>1, <3>2, <3>3
    <2>2. i \in codes /\ i <= 6 <=> i = 4 /\ 0 \in Bits(x.restricted_codes)
      <3>1. i \in codes => i = 4 \/ i = 10
        BY <1>3
      <3>2. 4 <= 6 /\ ~(10 <= 6)
        OBVIOUS
      <3> QED
        BY <1>3, <3>1, <3>2
    <2>3. i \in f <=> i \in all /\ i <= 6 /\ (i = 2 => x.sample_resolution > 8)
      OBVIOUS
    <2> HIDE DEF all, f
    <2> QED
      BY <1>3, <2>1, <2>2, <2>3
  <1> HIDE DEF f
  <1> QED
    BY <1>1, <1>4

\* The options a decompressor reads: those of one bit, the interval and the
\* resolution, which are in every header, and the byte order, which is in the
\* extension.
LEMMA OptionsReadBack ==
    ASSUME NEW c \in Configs, NEW m \in HeaderMemory, NEW d, NEW w,
           ReadBack(c, m, d, w), m[10] = {}, m[11] = {},
           c.data_sense \in {0, 1}, c.preprocessor_status \in {0, 1},
           c.endianness \in {0, 1}
    PROVE  LET x == DecodedConf(d, w)
           IN  /\ x.data_sense = c.data_sense
               /\ x.preprocessor_status = c.preprocessor_status
               /\ x.reference_sample_interval = c.reference_sample_interval
               /\ x.sample_resolution \in 0..31
               /\ c.sample_resolution <= 31 =>
                    x.sample_resolution = c.sample_resolution
               /\ x.endianness \in {0, 1}
               /\ c.block_size > 64 => x.endianness = c.endianness
               /\ x.block_size = decode_block_size(d, w)
               /\ Bits(x.restricted_codes) \subseteq {6}
  <1> DEFINE e == EncodeCip(CipStart(m), c)
             x == DecodedConf(d, w)
  <1>1. d \in C!CipBytes
    BY DEF ReadBack
  <1>2. /\ c.data_sense \in Nat /\ c.data_sense < 256
        /\ c.preprocessor_status \in Nat /\ c.preprocessor_status < 256
        /\ c.sample_resolution \in Nat /\ c.sample_resolution < 256
        /\ c.reference_sample_interval \in Nat
        /\ c.reference_sample_interval > 0 /\ c.reference_sample_interval < 256
    BY OptionsType DEF Options, LongOptions
  <1>3. /\ C!FieldBits("reference_sample_interval", e)
             = Bits(c.reference_sample_interval - 1)
        /\ C!FieldBits("status", e) = Bits(c.preprocessor_status)
        /\ C!FieldBits("data_sense", e) = Bits(c.data_sense)
        /\ c.sample_resolution <= 31 =>
             C!FieldBits("sample_resolution", e) = Bits(c.sample_resolution)
    BY CompressorFields DEF EncodedFields
  <1>4. \A f \in {"reference_sample_interval", "status", "data_sense",
                  "sample_resolution"} :
          C!FieldBits(f, d) = C!FieldBits(f, e)
    <2>1. \A f \in {"reference_sample_interval", "status", "data_sense",
                    "sample_resolution"} :
            f \in C!CipFields /\ f \notin C!Fields["extended_parameters"]
      BY CipFieldNames DEF C!Fields
    <2> QED
      BY <2>1, FieldsReadBack
  <1> HIDE DEF e
  <1>5. x.data_sense = c.data_sense
    <2>1. decode_preprocessor_data_sense(d) = Bits(c.data_sense)
      BY <1>1, <1>3, <1>4, SameGetters
    <2> QED
      BY <1>2, <2>1, ByteNumBits DEF DecodedConf
  <1>6. x.preprocessor_status = c.preprocessor_status
    <2>1. decode_preprocessor_status(d) = Bits(c.preprocessor_status)
      BY <1>1, <1>3, <1>4, SameGetters
    <2> QED
      BY <1>2, <2>1, ByteNumBits DEF DecodedConf
  <1>7. x.reference_sample_interval = c.reference_sample_interval
    <2> DEFINE n == c.reference_sample_interval
    <2>1. d[3] = Bits(n - 1)
      BY <1>1, <1>3, <1>4, SameGetters
    <2>2. n \in Nat /\ n > 0 /\ n < 256
      BY <1>2
    <2>3. Num(d[3]) = n - 1
      BY <2>1, <2>2, ByteNumBits
    <2>4. (n - 1 + 1) % 256 = n
      BY <2>2
    <2>5. decode_reference_sample_interval(d) = Bits(n)
      BY <2>3, <2>4 DEF decode_reference_sample_interval
    <2>6. Num(Bits(n)) = n
      BY <2>2, ByteNumBits
    <2> HIDE DEF n
    <2> QED
      BY <2>5, <2>6 DEF DecodedConf, n
  <1>8. /\ x.sample_resolution \in 0..31
        /\ c.sample_resolution <= 31 => x.sample_resolution = c.sample_resolution
    <2> DEFINE b == decode_preprocessor_sample_resolution(d)
    <2>1. b \subseteq 0..4
      BY DEF decode_preprocessor_sample_resolution
    <2>2. c.sample_resolution <= 31 => b = Bits(c.sample_resolution)
      BY <1>1, <1>3, <1>4, SameGetters
    <2> HIDE DEF b
    <2>3. c.sample_resolution <= 31 => Num(b) = c.sample_resolution
      BY <1>2, <2>2, ByteNumBits
    <2>4. Num(b) \in 0..31
      <3>1. /\ Weight(b, 5) = 0 /\ Weight(b, 6) = 0 /\ Weight(b, 7) = 0
            /\ Weight(b, 0) \in 0..1 /\ Weight(b, 1) \in 0..2
            /\ Weight(b, 2) \in 0..4 /\ Weight(b, 3) \in 0..8
            /\ Weight(b, 4) \in 0..16
        BY <2>1, ByteWeights DEF Weight
      <3>2. b \in SUBSET (0..7)
        BY <2>1
      <3> QED
        BY <3>1, <3>2, NumByte
    <2> QED
      BY <2>3, <2>4 DEF DecodedConf, b
  <1>9. /\ x.endianness \in {0, 1}
        /\ c.block_size > 64 => x.endianness = c.endianness
    <2>1. x.endianness = decode_iqzip_header_endianess(w)
      BY DEF DecodedConf
    <2>2. c.block_size > 64 => w = EncodeIqzip(c, IqzipStart(m))
      BY Subfields DEF ReadBack
    <2> QED
      BY <2>1, <2>2, ExtensionDecoded DEF decode_iqzip_header_endianess
  <1>10. x.block_size = decode_block_size(d, w)
    BY DEF DecodedConf
  <1>11. Bits(x.restricted_codes) \subseteq {6}
    <2>1. d[9] \cap {6} \in SUBSET (0..7)
      OBVIOUS
    <2>2. x.restricted_codes = Num(d[9] \cap {6})
      BY DEF DecodedConf, decode_extended_parameters_restricted_code_option
    <2>3. Bits(Num(d[9] \cap {6})) = d[9] \cap {6}
      BY <2>1, ByteBitsNum
    <2> QED
      BY <2>2, <2>3
  <1> QED
    BY <1>5, <1>6, <1>7, <1>8, <1>9, <1>10, <1>11

\* The decoder is configured as the coder was when the options reach it, and not
\* when restricted codes, 32 bits or a block without a code do not.
LEMMA StreamReadBack ==
    ASSUME NEW c \in Configs, NEW m \in HeaderMemory, NEW d, NEW w,
           ReadBack(c, m, d, w), m[10] = {}, m[11] = {},
           c.data_sense \in {0, 1}, c.preprocessor_status \in {0, 1},
           c.restricted_codes \in {0, 1}, c.endianness \in {0, 1},
           NEW x, \A f \in Options \ PrimaryFields : x[f] = DecodedConf(d, w)[f]
    PROVE  LET same == Relevant(init_aec_stream(x)) = Relevant(init_aec_stream(c))
           IN  /\ Conveyed(c) => same
               /\ same => /\ c.restricted_codes = 0
                          /\ c.sample_resolution <= 31
                          /\ CodedBlock(c)
  <1> DEFINE r == Relevant(init_aec_stream(x))
             q == Relevant(init_aec_stream(c))
  <1>1. /\ c.block_size \in Nat /\ c.sample_resolution \in Nat
    BY OptionsType DEF Options
  <1>2. \A f \in {"data_sense", "preprocessor_status",
                  "reference_sample_interval", "sample_resolution",
                  "endianness", "block_size", "restricted_codes"} :
          x[f] = DecodedConf(d, w)[f]
    BY DEF Options, PrimaryFields
  <1>3. /\ x.data_sense = c.data_sense
        /\ x.preprocessor_status = c.preprocessor_status
        /\ x.reference_sample_interval = c.reference_sample_interval
        /\ x.sample_resolution \in 0..31
        /\ c.sample_resolution <= 31 => x.sample_resolution = c.sample_resolution
        /\ x.endianness \in {0, 1}
        /\ c.block_size > 64 => x.endianness = c.endianness
        /\ x.block_size = decode_block_size(d, w)
        /\ Bits(x.restricted_codes) \subseteq {6}
    <2> DEFINE y == DecodedConf(d, w)
    <2>1. /\ y.data_sense = c.data_sense
          /\ y.preprocessor_status = c.preprocessor_status
          /\ y.reference_sample_interval = c.reference_sample_interval
          /\ y.sample_resolution \in 0..31
          /\ c.sample_resolution <= 31 => y.sample_resolution = c.sample_resolution
          /\ y.endianness \in {0, 1}
          /\ c.block_size > 64 => y.endianness = c.endianness
          /\ y.block_size = decode_block_size(d, w)
          /\ Bits(y.restricted_codes) \subseteq {6}
      BY OptionsReadBack
    <2> HIDE DEF y
    <2> QED
      BY <1>2, <2>1 DEF y
  <1>4. x.block_size = c.block_size <=> CodedBlock(c)
    BY <1>3, BlockReadBack
  <1>5. /\ r = [bits_per_sample |-> x.sample_resolution,
                block_size |-> x.block_size,
                rsi |-> x.reference_sample_interval,
                flags |-> r.flags]
        /\ \A i : i \in r.flags <=>
             \/ i \in {1, 6}
             \/ i = 0 /\ x.data_sense = 0
             \/ i = 2 /\ x.endianness = 0 /\ x.sample_resolution > 8
             \/ i = 3 /\ x.preprocessor_status = 1
    <2>1. Bits(x.restricted_codes) \subseteq {0, 6} /\ 0 \notin Bits(x.restricted_codes)
      BY <1>3
    <2> QED
      BY <1>3, <2>1, RelevantStream
  <1>6. /\ q = [bits_per_sample |-> c.sample_resolution,
                block_size |-> c.block_size,
                rsi |-> c.reference_sample_interval,
                flags |-> q.flags]
        /\ \A i : i \in q.flags <=>
             \/ i \in {1, 6}
             \/ i = 0 /\ c.data_sense = 0
             \/ i = 2 /\ c.endianness = 0 /\ c.sample_resolution > 8
             \/ i = 3 /\ c.preprocessor_status = 1
             \/ i = 4 /\ c.restricted_codes = 1
    <2>1. /\ Bits(c.restricted_codes) \subseteq {0, 6}
          /\ 0 \in Bits(c.restricted_codes) <=> c.restricted_codes = 1
      BY FewBits
    <2> QED
      BY <1>1, <2>1, RelevantStream
  <1> HIDE DEF r, q
  <1>7. ASSUME Conveyed(c) PROVE r = q
    <2>1. /\ CodedBlock(c) /\ c.restricted_codes = 0 /\ c.sample_resolution <= 31
          /\ c.block_size > 64 \/ c.sample_resolution <= 8
      BY <1>7 DEF Conveyed
    <2>2. x.sample_resolution = c.sample_resolution /\ x.block_size = c.block_size
      BY <1>3, <1>4, <2>1
    <2>3. (x.endianness = 0 /\ x.sample_resolution > 8)
            <=> (c.endianness = 0 /\ c.sample_resolution > 8)
      BY <1>1, <1>3, <2>1, <2>2
    <2>4. \A i : i \in r.flags <=> i \in q.flags
      BY <1>3, <1>5, <1>6, <2>1, <2>3
    <2>5. r.flags = q.flags
      <3> DEFINE f == r.flags
                 g == q.flags
      <3>1. \A i : i \in f <=> i \in g
        BY <2>4
      <3>2. f = {i \in {0, 1, 2, 3, 6} : i \in f} /\ g = {i \in {0, 1, 2, 3, 6} : i \in g}
        BY <1>5, <1>6, <2>1
      <3> HIDE DEF f, g
      <3> QED
        BY <3>1, <3>2 DEF f, g
    <2> QED
      BY <1>3, <1>5, <1>6, <2>2, <2>5
  <1>8. ASSUME r = q
        PROVE  c.restricted_codes = 0 /\ c.sample_resolution <= 31 /\ CodedBlock(c)
    <2>1. /\ r.bits_per_sample = x.sample_resolution /\ r.block_size = x.block_size
          /\ q.bits_per_sample = c.sample_resolution /\ q.block_size = c.block_size
      BY <1>5, <1>6
    <2>2. x.sample_resolution = c.sample_resolution /\ x.block_size = c.block_size
      BY <1>8, <2>1
    <2>3. 4 \notin r.flags
      BY <1>5
    <2>4. c.restricted_codes # 1
      BY <1>6, <1>8, <2>3
    <2> QED
      BY <1>3, <1>4, <2>2, <2>4
  <1> QED
    BY <1>7, <1>8 DEF r, q

-----------------------------------------------------------------------------
\* The setters of a primary header make bytes of whatever they are given.
LEMMA SettersType ==
    ASSUME NEW h \in PrimaryBytes, NEW v
    PROVE  /\ encode_version(h, v) \in PrimaryBytes
           /\ encode_type(h, v) \in PrimaryBytes
           /\ encode_secondary_header_flag(h, v) \in PrimaryBytes
           /\ encode_application_process_identifier(h, v) \in PrimaryBytes
           /\ encode_sequence_flags(h, v) \in PrimaryBytes
           /\ encode_packet_sequence_count(h, v) \in PrimaryBytes
           /\ encode_packet_data_length(h, v) \in PrimaryBytes
  BY OrPrimary, PutPrimary
  DEF encode_version, encode_type, encode_secondary_header_flag,
      encode_application_process_identifier, encode_sequence_flags,
      encode_packet_sequence_count, encode_packet_data_length

\* So does the constructor.
LEMMA ConstructorType ==
    ASSUME NEW h \in PrimaryBytes, NEW a
    PROVE  EncodeAll(h, a) \in PrimaryBytes
  BY SettersType DEF EncodeAll

\* The number that a field of the primary header has room for.
LEMMA FieldNumber ==
    ASSUME NEW n \in Nat, n <= 65535, NEW f \in PrimaryFields \ {"sequence_flags"}
    PROVE  Num(Bits(n) \cap Room(f)) = n % (2^Width[f])
  <1>1. ASSUME NEW k \in Nat, NEW d \in Nat, d > 0, Cuts(n, k, d)
        PROVE  Num(Bits(n) \cap 0..k) = n % d
    <2>1. n % d \in Nat /\ n % d <= n
      BY <1>1
    <2> DEFINE r == n % d
    <2>2. r \in Nat /\ r <= 65535
      BY <1>1, <2>1
    <2>3. Bits(n) \cap 0..k = Bits(r)
      BY <1>1 DEF Cuts
    <2> HIDE DEF r
    <2>4. Num(Bits(r)) = r
      BY <2>2, WordNumBits
    <2>5. Num(Bits(n) \cap 0..k) = r
      BY <2>3, <2>4
    <2> QED
      BY <2>5 DEF r
  <1>2. Cuts(n, 0, 2) /\ Cuts(n, 2, 8) /\ Cuts(n, 10, 2048) /\ Cuts(n, 13, 16384)
    BY CutBits
  <1>3. Cuts(n, 15, 65536)
    <2>1. Bits(n) \cap 0..15 = Bits(n) /\ n % 65536 = n
      BY BitByBit
    <2> QED
      BY <2>1 DEF Cuts
  <1>4. CASE f = "version"
    <2>1. Width[f] = 3
      BY <1>4 DEF Width
    <2>2. Width[f] - 1 = 2 /\ 2^Width[f] = 8
      BY <2>1
    <2> QED
      BY <1>1, <1>2, <1>3, <2>2 DEF Room
  <1>5. CASE f = "type"
    <2>1. Width[f] = 1
      BY <1>5 DEF Width
    <2>2. Width[f] - 1 = 0 /\ 2^Width[f] = 2
      BY <2>1
    <2> QED
      BY <1>1, <1>2, <1>3, <2>2 DEF Room
  <1>6. CASE f = "sec_hdr_flag"
    <2>1. Width[f] = 1
      BY <1>6 DEF Width
    <2>2. Width[f] - 1 = 0 /\ 2^Width[f] = 2
      BY <2>1
    <2> QED
      BY <1>1, <1>2, <1>3, <2>2 DEF Room
  <1>7. CASE f = "apid"
    <2>1. Width[f] = 11
      BY <1>7 DEF Width
    <2>2. Width[f] - 1 = 10 /\ 2^Width[f] = 2048
      BY <2>1
    <2> QED
      BY <1>1, <1>2, <1>3, <2>2 DEF Room
  <1>8. CASE f = "packet_sequence_count"
    <2>1. Width[f] = 14
      BY <1>8 DEF Width
    <2>2. Width[f] - 1 = 13 /\ 2^Width[f] = 16384
      BY <2>1
    <2> QED
      BY <1>1, <1>2, <1>3, <2>2 DEF Room
  <1>9. CASE f = "packet_data_length"
    <2>1. Width[f] = 16
      BY <1>9 DEF Width
    <2>2. Width[f] - 1 = 15 /\ 2^Width[f] = 65536
      BY <2>1
    <2> QED
      BY <1>1, <1>2, <1>3, <2>2 DEF Room
  <1> QED
    BY <1>4, <1>5, <1>6, <1>7, <1>8, <1>9 DEF PrimaryFields

\* What is read of the primary header that a compressor makes in memory that is
\* zero where bits are or-ed into it.
LEMMA PrimaryReadBack ==
    ASSUME NEW c \in Configs, NEW m \in HeaderMemory,
           m[0] = {}, m[2] = {}, m[4] = {}, c.sec_hdr_flag \in {0, 1},
           NEW f \in PrimaryFields \ {"sequence_flags"}
    PROVE  Num(DecodeField(f, Compressor(c, m).primary)) = Held(f, c[f])
  <1> DEFINE h == [j \in 0..5 |-> m[j]]
             a == [g \in PrimaryFields |-> Bits(c[g])]
             n == c[f]
             b == Bits(n) \cap Room(f)
  <1>1. h \in PrimaryBytes /\ h[0] = {} /\ h[2] = {} /\ h[4] = {}
    BY HeaderAssumption DEF PrimaryBytes, Byte
  <1>2. \A g \in PrimaryFields : c[g] \in Nat /\ c[g] <= 65535
    BY OptionsType DEF Options
  <1>3. /\ \A g \in PrimaryFields : a[g] \in SUBSET (0..15)
        /\ a["sec_hdr_flag"] \subseteq {0}
    <2>1. \A g \in PrimaryFields : Bits(c[g]) \in SUBSET (0..15)
      BY <1>2, BitByBit
    <2>2. "sec_hdr_flag" \in PrimaryFields /\ Bits(c["sec_hdr_flag"]) \subseteq {0}
      BY FewBits DEF PrimaryFields
    <2> QED
      BY <2>1, <2>2
  <1>4. a[f] \cap Room(f) = b
    OBVIOUS
  <1>5. Compressor(c, m).primary = EncodeAll(h, a)
    BY DEF Compressor
  <1> HIDE DEF h, a, b
  <1>6. Spilled("sec_hdr_flag", f, a["sec_hdr_flag"]) = {}
    <2>1. a["sec_hdr_flag"] \in SUBSET Int /\ 1 \notin a["sec_hdr_flag"]
          /\ \A i \in 0..2 : i + 2 \notin a["sec_hdr_flag"]
      BY <1>3
    <2> QED
      BY <2>1, SpilledBits
  <1>7. DecodeField(f, EncodeAll(h, a)) = Added(f, DecodeField(f, h), a[f])
    <2>1. DecodeField(f, EncodeAll(h, a))
            = Added(f, DecodeField(f, h), a[f])
              \cup Spilled("sec_hdr_flag", f, a["sec_hdr_flag"])
      BY <1>1, <1>3, PrimaryConstructor
    <2> QED
      BY <1>6, <2>1
  <1>8. Added(f, DecodeField(f, h), a[f]) = b
    <2>0. DecodeField(f, h) \in SUBSET Int
      BY <1>1, DecodedType
    <2>1. CASE f \in {"version", "type", "sec_hdr_flag"}
      <3>1. \A i \in Int : i \notin DecodeField(f, h)
        BY <1>1, <2>1, DecodedBits, DecodeByName
      <3>2. DecodeField(f, h) = {} /\ Owned(f) = {}
        BY <2>0, <2>1, <3>1 DEF Owned
      <3> QED
        BY <1>4, <2>1, <3>2 DEF Added
    <2>2. CASE f \in {"apid", "packet_sequence_count", "packet_data_length"}
      <3>1. \A i \in Int : i \in DecodeField(f, h) => i \in 0..7
        BY <1>1, <2>2, DecodedBits, DecodeByName
      <3>2. DecodeField(f, h) \subseteq 0..7 /\ Owned(f) = 0..7
        BY <2>0, <2>2, <3>1 DEF Owned
      <3>3. a[f] \cap 0..7 = b \cap 0..7
        <4>1. \A i \in 0..7 : i \in Room(f)
          BY <2>2, Rooms
        <4> QED
          BY <1>4, <4>1
      <3>4. Added(f, DecodeField(f, h), a[f])
              = (b \cap 0..7) \cup ((DecodeField(f, h) \cup b) \ 0..7)
        BY <1>4, <2>2, <3>2, <3>3 DEF Added
      <3> QED
        BY <3>2, <3>4
    <2> QED
      BY <2>1, <2>2 DEF PrimaryFields
  <1>9. Num(Bits(n) \cap Room(f)) = n % (2^Width[f])
    BY <1>2, FieldNumber
  <1>10. Held(f, n) = n % (2^Width[f])
    BY DEF Held, PrimaryFields
  <1> QED
    BY <1>5, <1>7, <1>8, <1>9, <1>10 DEF b

\* The descriptive fields of the packet.
LEMMA PacketReadBack ==
    ASSUME NEW c \in Configs, NEW m \in HeaderMemory, NEW d, NEW w,
           ReadBack(c, m, d, w), m[6] = {}, m[10] = {},
           c.predictor_type \in {0, 1, 7}, c.mapper_type \in {0, 3},
           NEW f \in Described \ PrimaryFields
    PROVE  DecodedConf(d, w)[f] = Held(f, c[f])
  <1> DEFINE e == EncodeCip(CipStart(m), c)
             x == DecodedConf(d, w)
  <1>1. d \in C!CipBytes
    BY DEF ReadBack
  <1>2. /\ c.grouping_data_length \in Nat /\ c.grouping_data_length <= 65535
        /\ c.compression_tech_id \in Nat /\ c.compression_tech_id < 256
        /\ c.predictor_type \in Nat /\ c.predictor_type < 256
        /\ c.mapper_type \in Nat /\ c.mapper_type < 256
    BY OptionsType DEF Options, LongOptions
  <1>3. /\ C!FieldBits("grouping_data_length", e)
             = Bits(c.grouping_data_length % 4096)
        /\ C!FieldBits("compression_technique_id", e) = Bits(c.compression_tech_id)
        /\ C!FieldBits("predictor_type", e) = Bits(c.predictor_type)
        /\ C!FieldBits("mapper_type", e) = Bits(c.mapper_type)
    BY CompressorFields DEF EncodedFields
  <1>4. \A g \in {"grouping_data_length", "compression_technique_id",
                  "predictor_type", "mapper_type"} :
          C!FieldBits(g, d) = C!FieldBits(g, e)
    <2>1. \A g \in {"grouping_data_length", "compression_technique_id",
                    "predictor_type", "mapper_type"} :
            g \in C!CipFields /\ g \notin C!Fields["extended_parameters"]
      BY CipFieldNames DEF C!Fields
    <2> QED
      BY <2>1, FieldsReadBack
  <1> HIDE DEF e
  <1>5. x.grouping_data_length = c.grouping_data_length % 4096
    <2> DEFINE n == c.grouping_data_length % 4096
    <2>1. n \in Nat /\ n <= 65535
      BY <1>2
    <2>2. decode_grouping_data_length(d) = Bits(n)
      BY <1>1, <1>3, <1>4, SameGetters
    <2> HIDE DEF n
    <2>3. Num(Bits(n)) = n
      BY <2>1, WordNumBits
    <2> QED
      BY <2>2, <2>3 DEF DecodedConf, n
  <1>6. x.compression_tech_id = c.compression_tech_id
    <2>1. decode_compression_technique_id(d) = Bits(c.compression_tech_id)
      BY <1>1, <1>3, <1>4, SameGetters
    <2> QED
      BY <1>2, <2>1, ByteNumBits DEF DecodedConf
  <1>7. x.predictor_type = c.predictor_type
    <2>1. decode_preprocessor_predictor_type(d) = Bits(c.predictor_type)
      BY <1>1, <1>3, <1>4, SameGetters
    <2> QED
      BY <1>2, <2>1, ByteNumBits DEF DecodedConf
  <1>8. x.mapper_type = c.mapper_type
    <2>1. decode_preprocessor_mapper_type(d) = Bits(c.mapper_type)
      BY <1>1, <1>3, <1>4, SameGetters
    <2> QED
      BY <1>2, <2>1, ByteNumBits DEF DecodedConf
  <1> QED
    BY <1>5, <1>6, <1>7, <1>8 DEF Described, Held, PrimaryFields

-----------------------------------------------------------------------------
\* The inductive invariant of a header's way through a file: the compressor is
\* one that was made of legal options in some memory, the file is its header and
\* a payload, and the decompressor is what is parsed of that file.
IqzipInv ==
    /\ pc \in {"none", "created", "written", "parsed", "thrown"}
    /\ pc # "none" =>
         /\ compressor.conf \in Configs
         /\ \E m \in HeaderMemory : compressor = Compressor(compressor.conf, m)
    /\ pc \notin {"none", "created"} =>
         \E payload \in Payloads : file = Header(compressor) \o payload
    /\ pc = "parsed" =>
         Len(file) >= max_header_size /\ decompressor = Decompressor(file)

\* It holds before there is a compressor.
LEMMA IqzipInvInit == IqzipInit => IqzipInv
  BY DEF IqzipInit, IqzipInv

\* Every step keeps it.
LEMMA IqzipInvStep == IqzipInv /\ [IqzipNext]_hvars => IqzipInv'
  <1> SUFFICES ASSUME IqzipInv, [IqzipNext]_hvars PROVE IqzipInv'
    OBVIOUS
  <1>1. ASSUME NEW c \in Configs, NEW m \in HeaderMemory, Create(c, m)
        PROVE  IqzipInv'
    <2>1. pc' = "created" /\ compressor' = Compressor(c, m)
      BY <1>1 DEF Create
    <2>2. Compressor(c, m).conf = c
      BY DEF Compressor
    <2> QED
      BY <2>1, <2>2 DEF IqzipInv
  <1>2. ASSUME NEW payload \in Payloads, Write(payload)
        PROVE  IqzipInv'
    BY <1>2 DEF Write, IqzipInv
  <1>3. CASE Parse
    BY <1>3 DEF Parse, IqzipInv
  <1>4. CASE ParseShort
    BY <1>4 DEF ParseShort, IqzipInv
  <1>5. CASE UNCHANGED hvars
    BY <1>5 DEF hvars, IqzipInv
  <1> QED
    BY <1>1, <1>2, <1>3, <1>4, <1>5 DEF IqzipNext

LEMMA IqzipInvAlways == IqzipSpec => []IqzipInv
  BY IqzipInvInit, IqzipInvStep, PTL DEF IqzipSpec

\* What a decompressor has parsed is what the compressor wrote.
Parsed(c, m) ==
    /\ c = compressor.conf /\ compressor = Compressor(c, m)
    /\ Len(Header(compressor)) = HeaderLen(c)
    /\ PrimaryOf(file) = compressor.primary
    /\ ReadBack(c, m, CipOf(file), IqzipOf(file))
    /\ decompressor = Decompressor(file)

LEMMA ParsedFile ==
    ASSUME IqzipInv, pc = "parsed"
    PROVE  \E c \in Configs, m \in HeaderMemory : Parsed(c, m)
  <1> DEFINE c == compressor.conf
  <1>1. c \in Configs /\ decompressor = Decompressor(file)
        /\ Len(file) >= max_header_size
    BY DEF IqzipInv
  <1>2. PICK m \in HeaderMemory : compressor = Compressor(c, m)
    BY DEF IqzipInv
  <1>3. PICK payload \in Payloads : file = Header(compressor) \o payload
    BY DEF IqzipInv
  <1>4. /\ compressor.cip = EncodeCip(CipStart(m), c)
        /\ compressor.iqzip = EncodeIqzip(c, IqzipStart(m))
    BY <1>2 DEF Compressor, CipStart, IqzipStart
  <1>5. compressor.primary \in PrimaryBytes
    <2>1. [j \in 0..5 |-> m[j]] \in PrimaryBytes
      BY HeaderAssumption DEF PrimaryBytes, Byte
    <2> QED
      BY <1>2, <2>1, ConstructorType DEF Compressor
  <1>6. compressor.cip \in C!CipBytes /\ compressor.iqzip \in Word
    BY <1>1, <1>4, CompressorFields, ExtensionDecoded DEF EncodedFields
  <1>7. c.block_size \in Nat
    BY <1>1, OptionsType DEF Options
  <1>8. payload \in Seq(Byte)
    BY HeaderAssumption
  <1>9. /\ Len(Header(compressor)) = HeaderLen(c)
        /\ PrimaryOf(file) = compressor.primary
        /\ CipOf(file) \in C!CipBytes
        /\ \A j \in 0..7 : CipOf(file)[j] = compressor.cip[j]
        /\ WritesExtended(c) => /\ CipOf(file)[8] = compressor.cip[8]
                                /\ CipOf(file)[9] = compressor.cip[9]
        /\ IqzipOf(file) \in Word
        /\ WritesIqzip(c) => IqzipOf(file) = compressor.iqzip
    BY <1>1, <1>3, <1>5, <1>6, <1>7, <1>8, FileBytes
  <1>10. ReadBack(c, m, CipOf(file), IqzipOf(file))
    BY <1>4, <1>9 DEF ReadBack
  <1>11. Parsed(c, m)
    BY <1>1, <1>2, <1>9, <1>10 DEF Parsed
  <1> QED
    BY <1>1, <1>11

-----------------------------------------------------------------------------
\* The bytes of B of the memory of a new header are zero.
ClearedBytes(B) == \A m \in HeaderMemory : \A j \in B : m[j] = {}

\* The options of F are 0 or 1.
Switches(F) == \A c \in Configs : \A f \in F : c[f] \in {0, 1}

\* The decoder starts at the first byte of the payload exactly for the options
\* HeaderLengthAgrees names, when the byte of the block size, which the
\* constructor or-s into the memory it finds, was zero.
THEOREM HeaderLengthCorrect ==
    ASSUME ClearedBytes({11})
    PROVE  IqzipSpec => []HeaderLengthAgrees
  <1>1. IqzipInv => HeaderLengthAgrees
    <2> SUFFICES ASSUME IqzipInv, pc = "parsed" PROVE HeaderLengthAgrees
      BY DEF HeaderLengthAgrees
    <2>1. PICK c \in Configs, m \in HeaderMemory : Parsed(c, m)
      BY ParsedFile
    <2>2. m[11] = {}
      BY DEF ClearedBytes
    <2>3. /\ c = compressor.conf
          /\ Len(Header(compressor)) = HeaderLen(c)
          /\ ReadBack(c, m, CipOf(file), IqzipOf(file))
          /\ decompressor.header_size = hdr_size(CipOf(file))
      BY <2>1 DEF Parsed, Decompressor
    <2>4. hdr_size(CipOf(file)) = HeaderLen(c) <=>
            /\ CodedBlock(c) \/ c.block_size = 0 \/ c.block_size > 64
            /\ c.restricted_codes = 0 \/ c.block_size > 16
      BY <2>2, <2>3, LengthReadBack
    <2> QED
      BY <2>3, <2>4 DEF HeaderLengthAgrees
  <1> QED
    BY <1>1, IqzipInvAlways, PTL

\* The options of the coder and those of the decoder, once the file is parsed.
LEMMA StreamParsed ==
    ASSUME IqzipInv, pc = "parsed", ClearedBytes({10, 11}),
           Switches({"data_sense", "preprocessor_status", "restricted_codes",
                     "endianness"})
    PROVE  /\ Conveyed(compressor.conf) => SameStream
           /\ SameStream => /\ compressor.conf.restricted_codes = 0
                            /\ compressor.conf.sample_resolution <= 31
                            /\ CodedBlock(compressor.conf)
  <1>1. PICK c \in Configs, m \in HeaderMemory : Parsed(c, m)
    BY ParsedFile
  <1>2. m[10] = {} /\ m[11] = {}
    BY DEF ClearedBytes
  <1>3. /\ c.data_sense \in {0, 1} /\ c.preprocessor_status \in {0, 1}
        /\ c.restricted_codes \in {0, 1} /\ c.endianness \in {0, 1}
    BY DEF Switches
  <1> DEFINE d == CipOf(file)
             w == IqzipOf(file)
             x == decompressor.conf
  <1>4. /\ c = compressor.conf
        /\ ReadBack(c, m, d, w)
        /\ \A f \in Options \ PrimaryFields : x[f] = DecodedConf(d, w)[f]
    BY <1>1 DEF Parsed, Decompressor
  <1> HIDE DEF d, w, x
  <1>5. LET same == Relevant(init_aec_stream(x)) = Relevant(init_aec_stream(c))
        IN  /\ Conveyed(c) => same
            /\ same => /\ c.restricted_codes = 0
                       /\ c.sample_resolution <= 31
                       /\ CodedBlock(c)
    BY <1>2, <1>3, <1>4, StreamReadBack
  <1> QED
    BY <1>4, <1>5 DEF SameStream, x

\* From the file alone the decoder is configured as the coder was for all options
\* but the four kinds that Conveyed names, when the two bytes of the preprocessor
\* were zero and the options of one bit are 0 or 1.
THEOREM StreamConfiguredCorrect ==
    ASSUME ClearedBytes({10, 11}),
           Switches({"data_sense", "preprocessor_status", "restricted_codes",
                     "endianness"})
    PROVE  IqzipSpec => []StreamConfigured
  <1>1. IqzipInv => StreamConfigured
    <2> SUFFICES ASSUME IqzipInv, pc = "parsed" PROVE StreamConfigured
      BY DEF StreamConfigured
    <2>1. Conveyed(compressor.conf) => SameStream
      BY StreamParsed
    <2> QED
      BY <2>1 DEF StreamConfigured
  <1> QED
    BY <1>1, IqzipInvAlways, PTL

\* Restricted codes, samples of 32 bits and a block size without a code are never
\* configured from the file: the decoder of such a file gets other options than
\* the coder had, whatever the payload and whatever else the header holds.
THEOREM OptionsLost ==
    ASSUME ClearedBytes({10, 11}),
           Switches({"data_sense", "preprocessor_status", "restricted_codes",
                     "endianness"})
    PROVE  IqzipSpec => [](pc = "parsed" =>
             LET c == compressor.conf
             IN  c.restricted_codes = 1 \/ c.sample_resolution >= 32 \/ ~CodedBlock(c)
                 => ~SameStream)
  <1> DEFINE c == compressor.conf
             Lost == pc = "parsed" =>
               (c.restricted_codes = 1 \/ c.sample_resolution >= 32 \/ ~CodedBlock(c)
                  => ~SameStream)
  <1>1. IqzipInv => Lost
    <2> SUFFICES ASSUME IqzipInv, pc = "parsed", SameStream
                 PROVE  ~(\/ c.restricted_codes = 1 \/ c.sample_resolution >= 32
                          \/ ~CodedBlock(c))
      OBVIOUS
    <2>1. c.restricted_codes = 0 /\ c.sample_resolution <= 31 /\ CodedBlock(c)
      BY StreamParsed
    <2>2. c.sample_resolution \in Nat
      BY OptionsType DEF IqzipInv, Options
    <2> QED
      BY <2>1, <2>2
  <1>2. IqzipSpec => []Lost
    BY <1>1, IqzipInvAlways, PTL
  <1> QED
    BY <1>2

\* Every descriptive field survives, as far as its field has room for it, when
\* the bytes that bits are or-ed into were zero, and the options that an
\* enumeration of the code names have one of its values.
THEOREM FieldsSurviveCorrect ==
    ASSUME ClearedBytes({0, 2, 4, 6, 10}),
           Switches({"sec_hdr_flag"}),
           \A c \in Configs : c.predictor_type \in {0, 1, 7} /\ c.mapper_type \in {0, 3}
    PROVE  IqzipSpec => []FieldsSurvive
  <1>1. IqzipInv => FieldsSurvive
    <2> SUFFICES ASSUME IqzipInv, pc = "parsed", NEW f \in Described
                 PROVE  decompressor.conf[f] = Held(f, compressor.conf[f])
      BY DEF FieldsSurvive
    <2>1. PICK c \in Configs, m \in HeaderMemory : Parsed(c, m)
      BY ParsedFile
    <2>2. m[0] = {} /\ m[2] = {} /\ m[4] = {} /\ m[6] = {} /\ m[10] = {}
      BY DEF ClearedBytes
    <2>3. /\ c.sec_hdr_flag \in {0, 1}
          /\ c.predictor_type \in {0, 1, 7} /\ c.mapper_type \in {0, 3}
      BY DEF Switches
    <2>4. /\ c = compressor.conf /\ compressor = Compressor(c, m)
          /\ ReadBack(c, m, CipOf(file), IqzipOf(file))
          /\ PrimaryOf(file) = compressor.primary
          /\ decompressor = Decompressor(file)
      BY <2>1 DEF Parsed
    <2>5. CASE f \in PrimaryFields
      <3>1. decompressor.conf[f] = Num(DecodeField(f, compressor.primary))
        BY <2>4, <2>5 DEF Decompressor, Options
      <3>2. f \in PrimaryFields \ {"sequence_flags"}
        BY <2>5 DEF Described
      <3>3. Num(DecodeField(f, Compressor(c, m).primary)) = Held(f, c[f])
        BY <2>2, <2>3, <3>2, PrimaryReadBack
      <3> QED
        BY <2>4, <3>1, <3>3
    <2>6. CASE f \notin PrimaryFields
      <3>1. decompressor.conf[f] = DecodedConf(CipOf(file), IqzipOf(file))[f]
        BY <2>4, <2>6 DEF Decompressor, Described, Options
      <3>2. DecodedConf(CipOf(file), IqzipOf(file))[f] = Held(f, c[f])
        BY <2>2, <2>3, <2>4, <2>6, PacketReadBack
      <3> QED
        BY <2>4, <3>1, <3>2
    <2> QED
      BY <2>5, <2>6
  <1> QED
    BY <1>1, IqzipInvAlways, PTL
=============================================================================
