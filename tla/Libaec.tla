------------------------------- MODULE Libaec -------------------------------
(***************************************************************************)
(* libaec, the entropy coder iqzip drives through one aec_stream.  It is   *)
(* not part of the repository: what is written here is what the calls in   *)
(* lib/compressor_impl.cpp rely on.  The coder may take any number of      *)
(* whole samples and put out any number of coded bytes, as long as it only *)
(* stops early for want of room in the output buffer.                      *)
(*                                                                         *)
(* An aec_stream is a record                                               *)
(*   avail_out  room left behind next_out                                  *)
(*   total_out  coded bytes put out since aec_encode_init                  *)
(*   owed       coded bytes the coder still holds back, at worst           *)
(* next_in, avail_in and next_out are set before every call, so they are   *)
(* arguments of the call and not part of the state.                        *)
(***************************************************************************)
EXTENDS Naturals

CONSTANTS
    SampleBytes,   \* bytes of one sample in the input (3 for AEC_DATA_3BYTE)
    Gain,          \* coded bytes one input byte becomes, at worst
    Hold           \* coded bytes held back between calls when room is left

ASSUME CoderAssumption ==
    /\ SampleBytes \in Nat \ {0}
    /\ Gain \in Nat
    /\ Hold \in Nat

\* aec_encode_init: a new coder owes nothing.
NewStream(room) == [avail_out |-> room, total_out |-> 0, owed |-> 0]

\* The outcomes of aec_encode with n input bytes: it takes whole samples, and
\* unless it fills the room it takes every whole sample, holds back at most
\* Hold and, when flushing, nothing (the last byte is padded).
EncodeOutcomes(strm, n, flush) ==
    LET pad == IF flush THEN 1 ELSE 0
        most == strm.owed + Gain * n + pad
    IN  { r \in [took : 0..n, out : 0..strm.avail_out, owed : 0..most] :
            /\ \E q \in 0..n : r.took = q * SampleBytes
            /\ r.out + r.owed <= strm.owed + Gain * r.took + pad
            /\ r.out < strm.avail_out =>
                 /\ n - r.took < SampleBytes
                 /\ r.owed <= (IF flush THEN 0 ELSE Hold) }

AfterEncode(strm, r) ==
    [avail_out |-> strm.avail_out - r.out,
     total_out |-> strm.total_out + r.out,
     owed      |-> r.owed]

\* aec_encode_end reports AEC_STREAM_ERROR when flushed output is still owed.
EncodeEndOK(strm) == strm.owed = 0
=============================================================================
