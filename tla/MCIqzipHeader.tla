---------------------------- MODULE MCIqzipHeader ----------------------------
(* IqzipHeader with the options of the command line; see the .cfg files. *)
EXTENDS IqzipHeader, TLC

\* The fields of the primary header that apps/iqzip.cpp passes, and others with
\* a bit at each end of every field.
CliFields ==
    [version |-> 0, type |-> 1, sec_hdr_flag |-> 1, apid |-> 2047,
     sequence_flags |-> 0, packet_sequence_count |-> 57342,
     packet_data_length |-> 32510]
OtherFields ==
    [version |-> 5, type |-> 0, sec_hdr_flag |-> 0, apid |-> 1153,
     sequence_flags |-> 3, packet_sequence_count |-> 8449,
     packet_data_length |-> 33025]

\* The options of the command line, and what it passes for the others.
Conf(block, rsi, resolution, sense, status, restricted, endian) ==
    CliFields @@
    [grouping_data_length |-> 65535, compression_tech_id |-> 1,
     reference_sample_interval |-> rsi, preprocessor_status |-> status,
     predictor_type |-> 7, mapper_type |-> 0, block_size |-> block,
     data_sense |-> sense, sample_resolution |-> resolution,
     cds_per_packet |-> 1, restricted_codes |-> restricted,
     endianness |-> endian]

ConfsOf(blocks, rsis, resolutions, restricted) ==
    { Conf(b, r, n, s, p, t, e) : b \in blocks, r \in rsis, n \in resolutions,
                                  s \in {0, 1}, p \in {0, 1}, t \in restricted,
                                  e \in {0, 1} }

Blocks == { 2^k : k \in 3..15 }

\* Every block size with a code, one of each kind without, and samples of one
\* byte up to the widest; then every kind of descriptive field.
CoderConfigs ==
    ConfsOf(Blocks \cup {0, 10, 24, 100, 65535}, {1, 128, 255}, {1, 8, 16, 32}, {0, 1})

FieldConfigs ==
    { fields @@ [grouping_data_length |-> g, compression_tech_id |-> t,
                 predictor_type |-> p, mapper_type |-> m]
      @@ Conf(b, 1, 8, 1, s, 0, 1) :
        fields \in {CliFields, OtherFields}, g \in {0, 255, 2049, 65535},
        t \in {0, 1}, p \in {0, 1, 7}, m \in {0, 3}, b \in {8, 64, 128},
        s \in {0, 1} }

AllConfigs == CoderConfigs \cup FieldConfigs

\* Options that the header claims to record and none of which reaches the decoder:
\* restricted codes, the widest samples, and a byte order without the extension.
LostConfigs == { Conf(16, r, 32, s, 1, 1, 1) : r \in {1, 128}, s \in {0, 1} }

\* Zeroed memory, and memory zeroed only where bits that the parser reads are
\* or-ed into it.
ClearedMemory ==
    { [j \in 0..17 |-> {}],
      [j \in 0..17 |-> IF j \in {0, 2, 4, 6, 10, 11} THEN {} ELSE 0..7] }

LongPayloads == { <<b, {1, 6, 7} \ b, b, b>> : b \in {{}, 0..7} }
ShortPayloads == { <<{0}>>, <<{0}, {1}, {2}>> }
ZeroPayloads == { <<{}, {}, {}, {}>> }
AllPayloads == LongPayloads \cup ShortPayloads
=============================================================================
