------------------------------ MODULE CipPacket ------------------------------
(***************************************************************************)
(* One compression_identification_packet: constructed with values or by    *)
(* default, then changed by its public setters in any order.  Only         *)
(* extended_parameters is ever cleared, by the constructor with values.    *)
(* The four segments of the packet are arrays of their own, so a behaviour *)
(* is one of setters of one of them.                                       *)
(***************************************************************************)
EXTENDS CipCodec

CONSTANTS
    Memory,       \* what the memory of a new object may hold
    Configs,      \* the values the constructor may be given
    Samples,      \* the numbers tried for each field, legal and not
    Received,     \* packets set_source_data_fixed, _variable may be given
    MaxRewrites   \* bound: second and later values given to the fields

VARIABLES
    segment,        \* the one whose setters are called
    d_source_data,  \* d_source_data_fixed and d_source_data_variable
    start,    \* history: the bytes the object was made with, or was set to
    given,    \* history: all codes a field was given since, or-ed together
    arg,      \* history: the code each field was last given
    written,  \* history: the fields that were given one
    rewrites  \* history: how many were not the first of their field

cvars == <<segment, d_source_data, start, given, arg, written, rewrites>>

Fields ==
    [source_data_fixed |-> {"grouping_data_length", "compression_technique_id",
                            "reference_sample_interval"},
     preprocessor |-> {"preprocessor_header", "status", "predictor_type",
                       "mapper_type", "block_size", "data_sense",
                       "sample_resolution"},
     entropy_coder |-> {"entropy_coder_header", "resolution_range", "cds_num"},
     extended_parameters |-> {"extended_header", "extended_block_size",
                              "restricted_code_option",
                              "extended_sample_interval"}]
Segments == DOMAIN Fields
CipFields == UNION { Fields[s] : s \in Segments }

EncodeCipField(f, h, n) ==
    CASE f = "grouping_data_length"     -> encode_grouping_data_length(h, n)
      [] f = "compression_technique_id" -> encode_compression_technique_id(h, n)
      [] f = "reference_sample_interval" -> encode_reference_sample_interval(h, n)
      [] f = "preprocessor_header"      -> encode_preprocessor_header(h)
      [] f = "status"                   -> encode_preprocessor_status(h, n)
      [] f = "predictor_type"           -> encode_preprocessor_predictor_type(h, n)
      [] f = "mapper_type"              -> encode_preprocessor_mapper_type(h, n)
      [] f = "block_size"               -> encode_preprocessor_block_size(h, n)
      [] f = "data_sense"               -> encode_preprocessor_data_sense(h, n)
      [] f = "sample_resolution"        -> encode_preprocessor_sample_resolution(h, n)
      [] f = "entropy_coder_header"     -> encode_entropy_coder_header(h)
      [] f = "resolution_range"         -> encode_entropy_coder_resolution_range(h, n)
      [] f = "cds_num"                  -> encode_entropy_coder_cds_num(h, n)
      [] f = "extended_header"          -> encode_extended_parameters_header(h)
      [] f = "extended_block_size"      -> encode_extended_parameters_block_size(h, n)
      [] f = "restricted_code_option"   ->
             encode_extended_parameters_restricted_code_option(h, n)
      [] f = "extended_sample_interval" ->
             encode_extended_parameters_reference_sample_interval(h, n)

\* The largest number the type of a field's setter has.
Largest(f) ==
    IF f \in {"grouping_data_length", "block_size", "cds_num",
              "extended_block_size"}
    THEN 65535 ELSE 255

\* The values of the constructor, by their types.  An interval of 0 is left out:
\* the conversion of a negative double is undefined.
LongValues == {"grouping_data_length", "block_size", "cds_per_packet"}
ByteValues == {"compression_tech_id", "reference_sample_interval",
               "preprocessor_status", "predictor_type", "mapper_type",
               "data_sense", "sample_resolution", "restricted_codes"}
Configuration ==
    { c \in [LongValues \cup ByteValues -> Nat] :
        /\ \A v \in LongValues : c[v] <= 65535
        /\ \A v \in ByteValues : c[v] <= 255
        /\ c.reference_sample_interval > 0 }

\* The fields an encode() with the values c sets, and to which number.
Argument(c) ==
    [f \in CipFields |->
        CASE f = "status"                 -> c.preprocessor_status
          [] f = "compression_technique_id" -> c.compression_tech_id
          [] f = "resolution_range"       -> c.sample_resolution
          [] f = "cds_num"                -> c.cds_per_packet
          [] f = "extended_block_size"    -> c.block_size
          [] f = "restricted_code_option" -> c.restricted_codes
          [] f = "extended_sample_interval" -> c.reference_sample_interval
          [] f \in DOMAIN c               -> c[f]
          [] OTHER                        -> 0]

-----------------------------------------------------------------------------
\* The numbers a field takes; any other is reported by nothing and ignored.
Legal(f, n) ==
    CASE f \in {"status", "data_sense", "restricted_code_option"} -> n \in {0, 1}
      [] f = "predictor_type"    -> n \in {0, 1, 7}
      [] f = "mapper_type"       -> n \in {0, 3}
      [] f = "sample_resolution" -> n \in 1..32
      [] f = "cds_num"           -> n \in 1..4096
      [] f \in {"block_size", "extended_block_size", "resolution_range"} -> n > 0
      [] OTHER                   -> TRUE

\* What a number is in the packet: 4096 is 0 in twelve bits, 32 in five.
Code(f, n) ==
    CASE f = "grouping_data_length" -> Bits(n % 4096)
      [] f = "reference_sample_interval" -> Bits((n - 1) % 256)
      [] f = "extended_sample_interval"  -> Bits((n - 1) % 16)
      [] f = "sample_resolution"    -> Bits(n % 32)
      [] f = "cds_num"              -> Bits(n % 4096)
      [] f = "resolution_range"     -> Bits(ResolutionRange(n))
      [] f = "block_size"           -> Bits(PreprocessorBlockCode(n))
      [] f = "extended_block_size"  -> Bits(ExtendedBlockCode(n))
      [] f = "preprocessor_header"  -> Bits(0)
      [] f = "entropy_coder_header" -> Bits(1)
      [] f = "extended_header"      -> Bits(3)
      [] OTHER                      -> Bits(n)

\* The bits of a field, as the getters take them out where there is one.
FieldBits(f, h) ==
    CASE f = "grouping_data_length"     -> decode_grouping_data_length(h)
      [] f = "compression_technique_id" -> decode_compression_technique_id(h)
      [] f = "reference_sample_interval" ->
             Bits((Num(decode_reference_sample_interval(h)) - 1) % 256)
      [] f = "preprocessor_header"      -> Shr(h[4] \cap {6, 7}, 6)
      [] f = "status"                   -> decode_preprocessor_status(h)
      [] f = "predictor_type"           -> decode_preprocessor_predictor_type(h)
      [] f = "mapper_type"              -> decode_preprocessor_mapper_type(h)
      [] f = "block_size"               -> preprocessor_block_code(h)
      [] f = "data_sense"               -> decode_preprocessor_data_sense(h)
      [] f = "sample_resolution"        -> decode_preprocessor_sample_resolution(h)
      [] f = "entropy_coder_header"     -> Shr(h[6] \cap {6, 7}, 6)
      [] f = "resolution_range"         -> Shr(h[6] \cap {4, 5}, 4)
      [] f = "cds_num"                  -> h[7] \cup Shl(h[6] \cap 0..3, 8)
      [] f = "extended_header"          -> Shr(h[8] \cap {6, 7}, 6)
      [] f = "extended_block_size"      -> extended_block_code(h)
      [] f = "restricted_code_option"   ->
             Shr(decode_extended_parameters_restricted_code_option(h), 6)
      [] f = "extended_sample_interval" ->
             decode_extended_parameters_reference_sample_interval(h)

-----------------------------------------------------------------------------
NoCode == [f \in CipFields |-> {}]

Init ==
    /\ segment \in Segments
    /\ d_source_data \in Memory
    /\ start = d_source_data
    /\ given = NoCode
    /\ arg = NoCode
    /\ written = {}
    /\ rewrites = 0

\* The constructor with values.
Construct(c) ==
    /\ written = {}
    /\ d_source_data' = EncodeCip(d_source_data, c)
    /\ start' = [start EXCEPT ![8] = {}, ![9] = {}]
    /\ written' = { f \in CipFields : Legal(f, Argument(c)[f]) }
    /\ arg' = [f \in CipFields |->
                  IF f \in written' THEN Code(f, Argument(c)[f]) ELSE {}]
    /\ given' = arg'
    /\ UNCHANGED <<segment, rewrites>>

\* A public setter; the runtime_error of an illegal number is not thrown.
Encode(f, n) ==
    /\ d_source_data' = EncodeCipField(f, d_source_data, n)
    /\ IF Legal(f, n)
       THEN /\ rewrites' = rewrites + (IF f \in written THEN 1 ELSE 0)
            /\ rewrites' <= MaxRewrites
            /\ given' = [given EXCEPT ![f] = @ \cup Code(f, n)]
            /\ arg' = [arg EXCEPT ![f] = Code(f, n)]
            /\ written' = written \cup {f}
       ELSE UNCHANGED <<given, arg, written, rewrites>>
    /\ UNCHANGED <<segment, start>>

\* set_source_data_fixed and set_source_data_variable copy a parsed packet.
Set(hdr, bytes, fields) ==
    /\ d_source_data' = [j \in 0..9 |->
                            IF j \in bytes THEN hdr[j] ELSE d_source_data[j]]
    /\ start' = [j \in 0..9 |-> IF j \in bytes THEN hdr[j] ELSE start[j]]
    /\ given' = [f \in CipFields |-> IF f \in fields THEN {} ELSE given[f]]
    /\ arg' = [f \in CipFields |-> IF f \in fields THEN {} ELSE arg[f]]
    /\ written' = written \ fields
    /\ UNCHANGED <<segment, rewrites>>

SetSourceDataFixed(hdr) ==
    /\ segment = "source_data_fixed"
    /\ Set(hdr, 0..3, Fields.source_data_fixed)
SetSourceDataVariable(hdr) ==
    /\ segment # "source_data_fixed"
    /\ Set(hdr, 4..9, CipFields \ Fields.source_data_fixed)

Next ==
    \/ \E c \in Configs : Construct(c)
    \/ \E f \in Fields[segment] : \E n \in Samples[f] : Encode(f, n)
    \/ \E hdr \in Received : \/ SetSourceDataFixed(hdr)
                           \/ SetSourceDataVariable(hdr)

Spec == Init /\ [][Next]_cvars

-----------------------------------------------------------------------------
\* The bits of a field that are a byte of their own, which its setter assigns.
Owned(f) ==
    IF f \in Fields.source_data_fixed \cup {"cds_num"} THEN 0..7 ELSE {}

\* What a field comes to hold, as in PrimaryHeader.
Accumulated(f) ==
    IF f \notin written THEN FieldBits(f, start)
    ELSE (arg[f] \cap Owned(f))
         \cup ((FieldBits(f, start) \cup given[f]) \ Owned(f))

\* A field given one legal number in zeroed memory holds that number's code,
\* whatever the order of the setters; an illegal number changes nothing; a second
\* number, or memory that was not zero, can only add bits to a field that shares
\* its bytes (a block size of 16 and then of 32 reads as one of 64), and never a
\* bit of another field.
FieldsAccumulate ==
    \A f \in CipFields : FieldBits(f, d_source_data) = Accumulated(f)

\* A field holds no bit that neither its memory nor its own setter gave it.
FieldsApart ==
    \A f \in CipFields :
        FieldBits(f, d_source_data) \subseteq FieldBits(f, start) \cup given[f]
=============================================================================
