----------------------------- MODULE IqzipHeader -----------------------------
(***************************************************************************)
(* The header of a compressed file: iqzip_compression_header builds it     *)
(* from the options of a compressor and writes it, the coder's output      *)
(* follows, and a decompressor parses it to configure its decoder.  A byte *)
(* is a set of bit positions, a file a sequence of bytes.                  *)
(***************************************************************************)
EXTENDS CipCodec, PrimaryCodec, Sequences

CONSTANTS
    Configs,        \* the options a compressor may be created with
    HeaderMemory,   \* what the memory of the three parts of a new header may hold
    Payloads        \* what the coder may put behind the header

Options == PrimaryFields \cup
           {"grouping_data_length", "compression_tech_id",
            "reference_sample_interval", "preprocessor_status",
            "predictor_type", "mapper_type", "block_size", "data_sense",
            "sample_resolution", "cds_per_packet", "restricted_codes",
            "endianness"}

\* The options by the types of the constructor's parameters.  An interval of 0
\* is left out: the conversion of a negative double is undefined.
LongOptions == {"apid", "packet_sequence_count", "packet_data_length",
                "grouping_data_length", "block_size", "cds_per_packet"}

ASSUME HeaderAssumption ==
    /\ \A c \in Configs :
        /\ c \in [Options -> Nat]
        /\ \A f \in Options : c[f] <= (IF f \in LongOptions THEN 65535 ELSE 255)
        /\ c.reference_sample_interval > 0
    /\ HeaderMemory \subseteq [0..17 -> Byte]
    /\ Payloads \subseteq Seq(Byte)

VARIABLES
    pc,             \* "none", "created", "written", "parsed" or "thrown"
    compressor,     \* the options and the header of the compressing object
    file,           \* the compressed file
    decompressor    \* the same of the decompressing one, and its header size

hvars == <<pc, compressor, file, decompressor>>

NoObject == <<>>

IqzipInit ==
    /\ pc = "none"
    /\ compressor = NoObject
    /\ file = <<>>
    /\ decompressor = NoObject

-----------------------------------------------------------------------------
\* BLOCK_SIZE of the header extension; 65536 is no uint16_t.
BlockSizes == [code \in 0..8 |-> 2^(code + 7)]

IqzipBlockCode(size) ==
    IF \E k \in 0..8 : BlockSizes[k] = size
    THEN CHOOSE k \in 0..8 : BlockSizes[k] = size
    ELSE 0

\* The bit field of the extension in memory that holds old: block_size : 4,
\* rsi : 11, endianness : 1, of which a byte order but 0 and 1 assigns nothing.
EncodeIqzip(c, old) ==
    Bits(IqzipBlockCode(c.block_size))
    \cup Shl(Bits((c.reference_sample_interval - 1) % 2048), 4)
    \cup (IF c.endianness \in {0, 1} THEN Shl(Bits(c.endianness), 15)
          ELSE old \cap {15})

decode_iqzip_header_block_size(w) ==
    LET code == Num(w \cap 0..3)
    IN  IF code \in 0..8 THEN BlockSizes[code] ELSE IF code = 9 THEN 65535 ELSE 0

decode_iqzip_header_endianess(w) == IF 15 \in w THEN 1 ELSE 0

\* The options of the compressor and the three parts of its header.
Compressor(c, m) ==
    [conf |-> c,
     primary |-> EncodeAll([j \in 0..5 |-> m[j]],
                           [f \in PrimaryFields |-> Bits(c[f])]),
     cip |-> EncodeCip([j \in 0..9 |-> m[6 + j]], c),
     iqzip |-> EncodeIqzip(c, m[16] \cup Shl(m[17], 8))]

Create(c, m) ==
    /\ pc = "none"
    /\ pc' = "created"
    /\ compressor' = Compressor(c, m)
    /\ UNCHANGED <<file, decompressor>>

-----------------------------------------------------------------------------
\* Mutant: a block of 16 samples counts as one that needs the subfield.
WritesExtendedFrom16(c) == c.block_size >= 16 \/ c.reference_sample_interval > 255
                           \/ c.restricted_codes # 0

\* write_header_to_file: which of the optional subfields are appended.
WritesExtended(c) == c.block_size > 16 \/ c.reference_sample_interval > 255
                     \/ c.restricted_codes # 0
WritesIqzip(c) == c.block_size > 64

Slice(h, i, j) == [k \in 1..(j - i + 1) |-> h[i + k - 1]]

Header(o) ==
    Slice(o.primary, 0, 5) \o Slice(o.cip, 0, 7)
    \o (IF WritesExtended(o.conf) THEN Slice(o.cip, 8, 9) ELSE <<>>)
    \o (IF WritesIqzip(o.conf) THEN <<o.iqzip \cap 0..7, Shr(o.iqzip, 8)>>
        ELSE <<>>)

\* compress_init writes the header, compress and compress_fin what follows.
Write(payload) ==
    /\ pc = "created"
    /\ pc' = "written"
    /\ file' = Header(compressor) \o payload
    /\ UNCHANGED <<compressor, decompressor>>

-----------------------------------------------------------------------------
\* Bytes read, whether the file has that many behind its header or not.
max_header_size == 18

PrimaryOf(buffer) == [j \in 0..5 |-> buffer[1 + j]]
CipOf(buffer) == [j \in 0..9 |-> buffer[7 + j]]

\* Mutant: the extension is taken from in front of the extended parameters.
IqzipBefore(buffer) == buffer[15] \cup Shl(buffer[16], 8)

\* The extension is taken from behind the extended parameters even when the
\* file has neither.
IqzipOf(buffer) == buffer[17] \cup Shl(buffer[18], 8)

\* The length parse_header_from_file returns.
hdr_size(cip) ==
    IF decode_preprocessor_block_size(cip) # 0 THEN 14
    ELSE IF decode_extended_parameters_block_size(cip) # 0 THEN 16 ELSE 18

decode_block_size(cip, iqzip) ==
    LET pre == decode_preprocessor_block_size(cip)
        ext == decode_extended_parameters_block_size(cip)
    IN  IF pre # 0 THEN pre
        ELSE IF ext # 0 THEN ext ELSE decode_iqzip_header_block_size(iqzip)

\* The options decompress_init sets; d_cds_per_packet is 0 whatever was written.
DecodedConf(cip, iqzip) ==
    [grouping_data_length |-> Num(decode_grouping_data_length(cip)),
     compression_tech_id |-> Num(decode_compression_technique_id(cip)),
     predictor_type |-> Num(decode_preprocessor_predictor_type(cip)),
     mapper_type |-> Num(decode_preprocessor_mapper_type(cip)),
     cds_per_packet |-> 0,
     sample_resolution |-> Num(decode_preprocessor_sample_resolution(cip)),
     block_size |-> decode_block_size(cip, iqzip),
     data_sense |-> Num(decode_preprocessor_data_sense(cip)),
     endianness |-> decode_iqzip_header_endianess(iqzip),
     preprocessor_status |-> Num(decode_preprocessor_status(cip)),
     restricted_codes |-> Num(decode_extended_parameters_restricted_code_option(cip)),
     reference_sample_interval |-> Num(decode_reference_sample_interval(cip))]

Decompressor(buffer) ==
    [header_size |-> hdr_size(CipOf(buffer)),
     conf |-> [f \in Options |->
                  IF f \in PrimaryFields
                  THEN Num(DecodeField(f, PrimaryOf(buffer)))
                  ELSE DecodedConf(CipOf(buffer), IqzipOf(buffer))[f]]]

Parse ==
    /\ pc = "written" /\ Len(file) >= max_header_size
    /\ pc' = "parsed"
    /\ decompressor' = Decompressor(file)
    /\ UNCHANGED <<compressor, file>>

\* "File reading error": fewer bytes than the longest header has.
ParseShort ==
    /\ pc = "written" /\ Len(file) < max_header_size
    /\ pc' = "thrown"
    /\ UNCHANGED <<compressor, file, decompressor>>

-----------------------------------------------------------------------------
\* init_aec_stream on the fields of either object; the flags are bits.
DATA_SIGNED == 0
DATA_3BYTE == 1
DATA_MSB == 2
DATA_PREPROCESS == 3
RESTRICTED == 4
NOT_ENFORCE == 6

init_aec_stream(c) ==
    [bits_per_sample |-> c.sample_resolution,
     block_size |-> c.block_size,
     rsi |-> c.reference_sample_interval,
     flags |-> {DATA_3BYTE, NOT_ENFORCE}
               \cup ({DATA_SIGNED} \ Shl(Bits(c.data_sense), DATA_SIGNED))
               \cup ({DATA_MSB} \ Shl(Bits(c.endianness), DATA_MSB))
               \cup Shl(Bits(c.preprocessor_status), DATA_PREPROCESS)
               \cup Shl(Bits(c.restricted_codes), RESTRICTED)]

IqzipNext ==
    \/ \E c \in Configs, m \in HeaderMemory : Create(c, m)
    \/ \E payload \in Payloads : Write(payload)
    \/ Parse
    \/ ParseShort

IqzipSpec == IqzipInit /\ [][IqzipNext]_hvars

-----------------------------------------------------------------------------
\* The block sizes that have a code of their own somewhere in the header.
CodedBlock(c) == c.block_size \in {8, 16, 32, 64} \cup { BlockSizes[k] : k \in 0..8 }

\* The header length the decompressor skips, which it infers from the codes of
\* the block size, is the length of the header the compressor wrote, which
\* depends on the block size, the interval and the restricted codes, so that
\* decoding starts at the first byte of the payload, whatever that holds.
\* This is so exactly when a block of at most 64 samples has a code, or is one
\* of 0 samples and shares that of 8, and the restricted codes alone do not
\* call for the extended parameters.
HeaderLengthAgrees ==
    pc = "parsed" =>
        LET c == compressor.conf
        IN  decompressor.header_size = Len(Header(compressor)) <=>
                /\ CodedBlock(c) \/ c.block_size = 0 \/ c.block_size > 64
                /\ c.restricted_codes = 0 \/ c.block_size > 16

\* What the coder looks at: the flags it knows, and of samples of one byte not
\* their order.
Relevant(strm) ==
    [strm EXCEPT !.flags =
        { i \in @ : /\ i <= NOT_ENFORCE
                    /\ i = DATA_MSB => strm.bits_per_sample > 8 }]

SameStream == Relevant(init_aec_stream(decompressor.conf))
              = Relevant(init_aec_stream(compressor.conf))

\* The options that reach the decoder.  Restricted codes have a bit in the header,
\* which is written, but whose getter returns it unshifted, so that the flag is
\* cut to another; 32 is 0 in five bits; a block without a code is lost; and the
\* byte order of wide samples is only in the extension.
Conveyed(c) ==
    /\ CodedBlock(c)
    /\ c.restricted_codes = 0
    /\ c.sample_resolution <= 31
    /\ c.block_size > 64 \/ c.sample_resolution <= 8

\* From the file alone, the decoder is configured as the coder was, for every
\* set of options but the four that Conveyed names, and whatever payload is
\* taken for a part of the header.
StreamConfigured ==
    pc = "parsed" => (Conveyed(compressor.conf) => SameStream)

\* The decoder is configured automatically, without mission specific information,
\* whatever the options of the coder were.
AutomaticallyConfigured == pc = "parsed" => SameStream

\* What a field can hold of the value it is given: the grouping length is cut
\* to 12 bits and the counters of the primary header to their widths.
Held(f, n) ==
    IF f = "grouping_data_length" THEN n % 4096
    ELSE IF f \in PrimaryFields THEN n % (2^Width[f]) ELSE n

\* The fields that only describe: everything but the options of the coder, and
\* but the sequence flags, which are shifted out of their byte, and the number
\* of CDS per packet, which is not read back.
Described ==
    (PrimaryFields \ {"sequence_flags"})
    \cup {"grouping_data_length", "compression_tech_id", "predictor_type",
          "mapper_type"}

\* Every descriptive field the decompressor reads from a file is the one the
\* compressor was created with, whatever the fields around it hold.
FieldsSurvive ==
    pc = "parsed" =>
        \A f \in Described :
            decompressor.conf[f] = Held(f, compressor.conf[f])
=============================================================================
