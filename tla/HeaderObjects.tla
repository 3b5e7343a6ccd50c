---------------------------- MODULE HeaderObjects ----------------------------
(***************************************************************************)
(* The two objects an iqzip_compression_header is made of, a               *)
(* ccsds_packet_primary_header and a compression_identification_packet.    *)
(* They share nothing, so a behaviour is about one of them, and the        *)
(* history variables are about that one.                                   *)
(***************************************************************************)
EXTENDS PrimaryHeader

CONSTANTS CipMemory, CipConfigs, CipSamples, CipReceived

VARIABLES
    object,         \* the one the behaviour is about
    segment,        \* of a packet: the part whose setters are called
    d_source_data   \* the packet's bytes

ovars == <<pvars, object, segment, d_source_data>>

C == INSTANCE CipPacket WITH Memory <- CipMemory, Configs <- CipConfigs,
                             Samples <- CipSamples, Received <- CipReceived

ASSUME CipAssumption ==
    /\ CipMemory \subseteq C!CipBytes
    /\ CipReceived \subseteq C!CipBytes
    /\ CipConfigs \subseteq C!Configuration
    /\ \A f \in C!CipFields : CipSamples[f] \subseteq 0..C!Largest(f)
    /\ 0 \notin CipSamples["extended_sample_interval"]

NoBytes(j) == [k \in 0..j |-> {}]

HInit ==
    \/ /\ object = "primary"
       /\ Init
       /\ segment = "none" /\ d_source_data = NoBytes(9)
    \/ /\ object = "cip"
       /\ C!Init
       /\ d_primary_header = NoBytes(5)

HNext ==
    \/ object = "primary" /\ Next /\ UNCHANGED <<object, segment, d_source_data>>
    \/ object = "cip" /\ C!Next /\ UNCHANGED <<object, d_primary_header>>

HSpec == HInit /\ [][HNext]_ovars

-----------------------------------------------------------------------------
\* The fields of both objects accumulate exactly what the setters and the memory
\* give them: see PrimaryHeader and CipPacket.
HeaderFieldsAccumulate ==
    IF object = "primary" THEN FieldsAccumulate ELSE C!FieldsAccumulate

\* Every field of either object holds only what its memory and its own setter
\* gave it.  This fails for a secondary header flag of 2 or more, and only for
\* that.
SettersIndependent ==
    IF object = "primary" THEN FieldsApart ELSE C!FieldsApart
=============================================================================
