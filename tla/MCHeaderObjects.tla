--------------------------- MODULE MCHeaderObjects ---------------------------
(* HeaderObjects on small instances; the .cfg files give the constants. *)
EXTENDS HeaderObjects

Alike(n, b) == [j \in 0..n |-> b]

\* Memory that was zero, and memory that was used before.
SomeMemory == { Alike(5, {}), Alike(5, {1, 5, 7}) }
SomeCipMemory == { Alike(9, {}), Alike(9, {0, 5, 6}) }

\* Values with a bit at each end of the field, where a field crosses a byte, and
\* behind its end, up to the widest number its setter takes.
EdgeSamples ==
    [version |-> {{0}, {2, 3}}, type |-> {{}, {0}, {1, 7}},
     sec_hdr_flag |-> {{0}, {1, 5}, {2, 4, 7}},
     apid |-> {{0, 7}, {8, 10, 11}}, sequence_flags |-> {{0, 1}, {6, 7}},
     packet_sequence_count |-> {{7, 13}, {0, 8, 14}},
     packet_data_length |-> {{0, 15}, {7, 8}}]

OneReceived == { Alike(5, {0, 4, 7}) }

\* Numbers with codes that differ, at the bounds of the field, and illegal ones.
CipEdgeSamples ==
    [grouping_data_length |-> {255, 2304, 4096, 65535},
     compression_technique_id |-> {0, 1, 128},
     reference_sample_interval |-> {0, 1, 128},
     preprocessor_header |-> {0}, status |-> {1, 2},
     predictor_type |-> {1, 2, 7}, mapper_type |-> {1, 3},
     block_size |-> {0, 16, 32}, data_sense |-> {1, 2},
     sample_resolution |-> {16, 32, 33},
     entropy_coder_header |-> {0},
     resolution_range |-> {0, 8, 9, 17, 33},
     cds_num |-> {0, 1, 4095, 4096, 4097},
     extended_header |-> {0}, extended_block_size |-> {0, 16, 32, 128},
     restricted_code_option |-> {0, 1, 2},
     extended_sample_interval |-> {1, 17, 128}]

\* The defaults of the command line, and values the constructor ignores.
TwoConfigs ==
    { [grouping_data_length |-> 65535, compression_tech_id |-> 1,
       reference_sample_interval |-> 128, preprocessor_status |-> 1,
       predictor_type |-> 7, mapper_type |-> 0, block_size |-> 64,
       data_sense |-> 1, sample_resolution |-> 32, cds_per_packet |-> 1,
       restricted_codes |-> 0],
      [grouping_data_length |-> 2049, compression_tech_id |-> 0,
       reference_sample_interval |-> 255, preprocessor_status |-> 2,
       predictor_type |-> 3, mapper_type |-> 1, block_size |-> 0,
       data_sense |-> 2, sample_resolution |-> 33, cds_per_packet |-> 4097,
       restricted_codes |-> 2] }

OneCipReceived == { Alike(9, {0, 4, 7}) }
=============================================================================
