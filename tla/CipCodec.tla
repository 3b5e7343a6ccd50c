------------------------------ MODULE CipCodec ------------------------------
(***************************************************************************)
(* compression_identification_packet as functions of its bytes: 0..3 are   *)
(* d_source_data_fixed, then two bytes each of the preprocessor (4, 5),    *)
(* the entropy coder (6, 7) and the extended parameters (8, 9).  The       *)
(* instrument configuration never reaches a file and is left out.          *)
(*                                                                         *)
(* A value the code calls invalid builds a std::runtime_error that is not  *)
(* thrown: nothing is encoded and the constructor goes on.                 *)
(***************************************************************************)
EXTENDS HeaderBits

CipBytes == [0..9 -> Byte]

Valid(n, legal) == IF n \in legal THEN Bits(n) ELSE {}

encode_grouping_data_length(h, n) ==
    LET length == Bits(n % 4096)
    IN  Put(Or(h, 0, Shr(length, 8)), 1, length)
encode_compression_technique_id(h, n) == Put(h, 2, Bits(n))
encode_reference_sample_interval(h, n) == Put(h, 3, Bits((n - 1) % 256))

\* PREPROCESSOR_BLOCK_SIZE: 32 and 64 share a code.
PreprocessorBlockCode(size) ==
    CASE size \in {0, 8} -> 0 [] size = 16 -> 1 [] size \in {32, 64} -> 2
      [] OTHER -> 3

encode_preprocessor_header(h) == Or(h, 4, Shl(Bits(0), 6))
encode_preprocessor_status(h, n) == Or(h, 4, Shl(Valid(n, {0, 1}), 5))
encode_preprocessor_predictor_type(h, n) == Or(h, 4, Shl(Valid(n, {0, 1, 7}), 2))
encode_preprocessor_mapper_type(h, n) == Or(h, 4, Valid(n, {0, 3}))
encode_preprocessor_block_size(h, n) ==
    Or(h, 5, Shl(Bits(PreprocessorBlockCode(n)), 6))

encode_preprocessor_data_sense(h, n) == Or(h, 5, Shl(Valid(n, {0, 1}), 5))

\* 32 is 0 in five bits.
encode_preprocessor_sample_resolution(h, n) ==
    Or(h, 5, Valid(n, 1..32) \cap 0..4)

ResolutionRange(n) ==
    CASE n = 0 -> 0 [] n \in 1..8 -> 1 [] n \in 9..16 -> 2 [] n \in 17..32 -> 3
      [] OTHER -> 0

encode_entropy_coder_header(h) == Or(h, 6, {6})
encode_entropy_coder_resolution_range(h, n) ==
    Or(h, 6, Shl(Bits(ResolutionRange(n)), 4))
encode_entropy_coder_cds_num(h, n) ==
    IF n \in 1..4096 THEN Put(Or(h, 6, Shr(Bits(n), 8) \cap 0..3), 7, Bits(n)) ELSE h

ExtendedBlockCode(size) ==
    CASE size \in {0, 8} -> 0 [] size = 16 -> 1 [] size = 32 -> 2
      [] size = 64 -> 3 [] OTHER -> 15

encode_extended_parameters_header(h) == Or(h, 8, {6, 7})
encode_extended_parameters_block_size(h, n) == Or(h, 8, Bits(ExtendedBlockCode(n)))
encode_extended_parameters_restricted_code_option(h, n) ==
    Or(h, 9, Shl(Valid(n, {0, 1}), 6))
encode_extended_parameters_reference_sample_interval(h, n) ==
    Or(h, 9, Bits((n - 1) % 256) \cap 0..3)

encode_source_data_fixed(h, c) ==
    encode_reference_sample_interval(
     encode_compression_technique_id(
      encode_grouping_data_length(h, c.grouping_data_length),
     c.compression_tech_id),
    c.reference_sample_interval)

encode_preprocessor(h, c) ==
    encode_preprocessor_sample_resolution(
     encode_preprocessor_data_sense(
      encode_preprocessor_block_size(
       encode_preprocessor_mapper_type(
        encode_preprocessor_predictor_type(
         encode_preprocessor_status(
          encode_preprocessor_header(h),
         c.preprocessor_status),
        c.predictor_type),
       c.mapper_type),
      c.block_size),
     c.data_sense),
    c.sample_resolution)

encode_entropy_coder(h, c) ==
    encode_entropy_coder_cds_num(
     encode_entropy_coder_resolution_range(
      encode_entropy_coder_header(h),
     c.sample_resolution),
    c.cds_per_packet)

\* The two bytes are cleared first.
encode_extended_parameters(h, c) ==
    encode_extended_parameters_reference_sample_interval(
     encode_extended_parameters_restricted_code_option(
      encode_extended_parameters_block_size(
       encode_extended_parameters_header([h EXCEPT ![8] = {}, ![9] = {}]),
      c.block_size),
     c.restricted_codes),
    c.reference_sample_interval)

\* encode(), what the constructor does to the memory it is given.
EncodeCip(h, c) ==
    encode_extended_parameters(
        encode_entropy_coder(
            encode_preprocessor(
                encode_source_data_fixed(h, c), c), c), c)

-----------------------------------------------------------------------------
\* The getters; those of the block sizes find a number by its code.

\* Mutant: the upper bits are not moved above the lower byte.
decode_grouping_data_length_unshifted(h) == h[1] \cup h[0]

decode_grouping_data_length(h) == h[1] \cup Shl(h[0], 8)
decode_compression_technique_id(h) == h[2]
decode_reference_sample_interval(h) == Bits((Num(h[3]) + 1) % 256)
decode_preprocessor_status(h) == Shr(h[4] \cap {5}, 5)
decode_preprocessor_predictor_type(h) == Shr(h[4] \cap 2..4, 2)
decode_preprocessor_mapper_type(h) == h[4] \cap 0..1
decode_preprocessor_data_sense(h) == Shr(h[5] \cap {5}, 5)
decode_preprocessor_sample_resolution(h) == h[5] \cap 0..4

\* 0 stands for a block size that is found elsewhere.
preprocessor_block_code(h) == Shr(h[5] \cap {6, 7}, 6)
decode_preprocessor_block_size(h) ==
    LET code == Num(preprocessor_block_code(h))
    IN  CASE code = 0 -> 8 [] code = 1 -> 16 [] OTHER -> 0

extended_block_code(h) == h[8] \cap 0..3
decode_extended_parameters_block_size(h) ==
    LET code == Num(extended_block_code(h))
    IN  CASE code = 0 -> 8 [] code = 1 -> 16 [] code = 2 -> 32 [] code = 3 -> 64
          [] OTHER -> 0

\* The option is masked and not shifted down.
decode_extended_parameters_restricted_code_option(h) == h[9] \cap {6}
decode_extended_parameters_reference_sample_interval(h) == h[9] \cap 0..3
=============================================================================
