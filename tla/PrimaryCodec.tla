---------------------------- MODULE PrimaryCodec ----------------------------
(***************************************************************************)
(* The setters and getters of ccsds_packet_primary_header, as functions of *)
(* the six bytes of d_primary_header.  Only the setters that own a whole   *)
(* byte assign it; the others or their bits into it.                       *)
(***************************************************************************)
EXTENDS HeaderBits

PrimaryBytes == [0..5 -> Byte]

\* Mutant: a shift one too short, into the type.
encode_version_shifted(h, v) == Or(h, 0, Shl(v \cap 0..2, 4))

encode_version(h, v) == Or(h, 0, Shl(v \cap 0..2, 5))
encode_type(h, v) == Or(h, 0, Shl(v \cap {0}, 4))
\* The only one that takes its argument as it is: any number but 0 and 1 goes
\* on into the type and the version, as far as the byte reaches.
encode_secondary_header_flag(h, v) == Or(h, 0, Shl(v, 3))
encode_application_process_identifier(h, v) ==
    Put(Or(h, 0, Shr(v, 8) \cap 0..2), 1, v)
\* The mask picks the bits 6 and 7 and the shift moves them out of the byte.
encode_sequence_flags(h, v) == Or(h, 2, Shl(v \cap {6, 7}, 6))
encode_packet_sequence_count(h, v) ==
    LET count == v \cap 0..13
    IN  Put(Or(h, 2, Shr(count, 8) \cap 0..5), 3, count)
encode_packet_data_length(h, v) == Put(Or(h, 4, Shr(v, 8)), 5, v)

decode_version(h) == Shr(h[0] \cap 5..7, 5)
decode_type(h) == Shr(h[0] \cap {4}, 4)
decode_secondary_header_flag(h) == Shr(h[0] \cap {3}, 3)
decode_application_process_identifier(h) == h[1] \cup Shl(h[0] \cap 0..2, 8)
decode_sequence_flags(h) == Shr(h[2] \cap {6, 7}, 6)
decode_packet_sequence_count(h) == h[3] \cup Shl(h[2] \cap 0..5, 8)
decode_packet_data_length(h) == h[5] \cup Shl(h[4], 8)

-----------------------------------------------------------------------------
PrimaryFields == {"version", "type", "sec_hdr_flag", "apid", "sequence_flags",
                  "packet_sequence_count", "packet_data_length"}

\* The bits the fields have in the header.
Width == [version |-> 3, type |-> 1, sec_hdr_flag |-> 1, apid |-> 11,
          sequence_flags |-> 2, packet_sequence_count |-> 14,
          packet_data_length |-> 16]
Room(f) == 0..(Width[f] - 1)

\* The numbers the setters take: a uint16_t or a uint8_t, whatever the width.
Values(f) ==
    IF f \in {"apid", "packet_sequence_count", "packet_data_length"}
    THEN Word ELSE Byte

EncodeField(f, h, v) ==
    CASE f = "version"               -> encode_version(h, v)
      [] f = "type"                  -> encode_type(h, v)
      [] f = "sec_hdr_flag"          -> encode_secondary_header_flag(h, v)
      [] f = "apid"                  -> encode_application_process_identifier(h, v)
      [] f = "sequence_flags"        -> encode_sequence_flags(h, v)
      [] f = "packet_sequence_count" -> encode_packet_sequence_count(h, v)
      [] f = "packet_data_length"    -> encode_packet_data_length(h, v)

DecodeField(f, h) ==
    CASE f = "version"               -> decode_version(h)
      [] f = "type"                  -> decode_type(h)
      [] f = "sec_hdr_flag"          -> decode_secondary_header_flag(h)
      [] f = "apid"                  -> decode_application_process_identifier(h)
      [] f = "sequence_flags"        -> decode_sequence_flags(h)
      [] f = "packet_sequence_count" -> decode_packet_sequence_count(h)
      [] f = "packet_data_length"    -> decode_packet_data_length(h)

\* encode(), what the constructor does to the memory it is given.
EncodeAll(h, a) ==
    encode_packet_data_length(
     encode_application_process_identifier(
      encode_packet_sequence_count(
       encode_secondary_header_flag(
        encode_sequence_flags(
         encode_version(
          encode_type(h, a.type),
         a.version),
        a.sequence_flags),
       a.sec_hdr_flag),
      a.packet_sequence_count),
     a.apid),
    a.packet_data_length)
=============================================================================
