---------------------------- MODULE PrimaryHeader ----------------------------
(***************************************************************************)
(* One ccsds_packet_primary_header: constructed with values or by default, *)
(* then changed by its public setters in any order.  No constructor clears *)
(* d_primary_header, so an object begins with what its memory holds.       *)
(***************************************************************************)
EXTENDS PrimaryCodec

CONSTANTS
    Memory,       \* what the memory of a new object may hold
    Samples,      \* the values tried for each field, too wide for it or not
    Received,     \* headers set_primary_header may be given
    MaxRewrites   \* bound: second and later values given to the fields

ASSUME PrimaryAssumption ==
    /\ Memory \subseteq PrimaryBytes
    /\ \A f \in PrimaryFields : Samples[f] \subseteq Values(f)
    /\ Received \subseteq PrimaryBytes
    /\ MaxRewrites \in Nat

VARIABLES
    d_primary_header,
    start,    \* history: the bytes the object was made with, or was set to
    given,    \* history: all values a field was given since, or-ed together
    arg,      \* history: the value each field was last given
    written,  \* history: the fields that were given one
    rewrites  \* history: how many values were not the first of their field

pvars == <<d_primary_header, start, given, arg, written, rewrites>>

Init ==
    /\ d_primary_header \in Memory
    /\ start = d_primary_header
    /\ given = [f \in PrimaryFields |-> {}]
    /\ arg = [f \in PrimaryFields |-> {}]
    /\ written = {}
    /\ rewrites = 0

\* The constructor with values.
Construct ==
    /\ written = {}
    /\ arg' \in [version : Samples.version, type : Samples.type,
                 sec_hdr_flag : Samples.sec_hdr_flag, apid : Samples.apid,
                 sequence_flags : Samples.sequence_flags,
                 packet_sequence_count : Samples.packet_sequence_count,
                 packet_data_length : Samples.packet_data_length]
    /\ d_primary_header' = EncodeAll(d_primary_header, arg')
    /\ given' = arg'
    /\ written' = PrimaryFields
    /\ UNCHANGED <<start, rewrites>>

\* A public setter.
Encode(f, v) ==
    /\ rewrites' = rewrites + (IF f \in written THEN 1 ELSE 0)
    /\ rewrites' <= MaxRewrites
    /\ d_primary_header' = EncodeField(f, d_primary_header, v)
    /\ given' = [given EXCEPT ![f] = @ \cup v]
    /\ arg' = [arg EXCEPT ![f] = v]
    /\ written' = written \cup {f}
    /\ UNCHANGED start

\* set_primary_header copies the bytes of a parsed header.
SetPrimaryHeader(hdr) ==
    /\ d_primary_header' = hdr
    /\ start' = hdr
    /\ given' = [f \in PrimaryFields |-> {}]
    /\ arg' = [f \in PrimaryFields |-> {}]
    /\ written' = {}
    /\ rewrites' = 0

Next ==
    \/ Construct
    \/ \E f \in PrimaryFields : \E v \in Samples[f] : Encode(f, v)
    \/ \E hdr \in Received : SetPrimaryHeader(hdr)

Spec == Init /\ [][Next]_pvars

-----------------------------------------------------------------------------
\* The bits of a field that are a byte of their own, which its setter assigns.
Owned(f) ==
    IF f \in {"apid", "packet_sequence_count", "packet_data_length"}
    THEN 0..7 ELSE {}

\* What the setters were given that reaches field f: of its own values what it
\* has room for, but of the sequence flags nothing, and of the secondary header
\* flag the bits that the shift moves into the type and the version.
Reaching(f) ==
    LET own == given[f] \cap Room(f)
        flag == given["sec_hdr_flag"]
    IN  CASE f = "sequence_flags" -> {}
          [] f = "type"           -> own \cup Shr(flag \cap {1}, 1)
          [] f = "version"        -> own \cup Shr(flag \cap 2..4, 2)
          [] OTHER                -> own

\* What a field comes to hold: of a byte of its own the last value given, and
\* of a shared byte every bit that reached it and of the memory it was made in.
Accumulated(f) ==
    ((IF f \in written THEN arg[f] ELSE DecodeField(f, start)) \cap Owned(f))
    \cup ((DecodeField(f, start) \cup Reaching(f)) \ Owned(f))

\* A field given one value in zeroed memory decodes to that value, cut to the
\* room the field has, whatever the order of the setters of the fields it shares
\* bytes with and whether they were called before it or after; a second value,
\* or memory that was not zero, can only add bits, never take one.  No value
\* reaches another field, except that a secondary header flag of 2 or more sets
\* bits of the type and the version.  Sequence flags reach no field at all.
FieldsAccumulate ==
    \A f \in PrimaryFields :
        DecodeField(f, d_primary_header) = Accumulated(f)

\* A field holds no bit that neither its memory nor its own setter gave it.
FieldsApart ==
    \A f \in PrimaryFields :
        DecodeField(f, d_primary_header) \subseteq DecodeField(f, start) \cup given[f]
=============================================================================
