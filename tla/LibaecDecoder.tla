---------------------------- MODULE LibaecDecoder ----------------------------
(***************************************************************************)
(* The decoder of libaec, as far as the calls in lib/decompressor_impl.cpp *)
(* rely on it.  It is not part of the repository.  A coded byte completes  *)
(* up to Expand bytes of samples: a run of zero blocks is a few bits long. *)
(* The decoder takes all its input and puts out all it completes, unless   *)
(* there is no room left for a sample.                                     *)
(*                                                                         *)
(* An aec_stream is a record                                               *)
(*   avail_out  room left behind next_out                                  *)
(*   total_out  bytes put out since aec_decode_init                        *)
(*   owed       decoded bytes that are waiting for room                    *)
(***************************************************************************)
EXTENDS Naturals

CONSTANTS
    SampleBytes,   \* bytes of one decoded sample
    Expand         \* decoded bytes one coded byte completes, at most

ASSUME DecoderAssumption ==
    /\ SampleBytes \in Nat \ {0}
    /\ Expand \in Nat

\* aec_decode_init: a new decoder owes nothing.
NewDecoder(room) == [avail_out |-> room, total_out |-> 0, owed |-> 0]

Samples(most) == { n \in 0..most : n % SampleBytes = 0 }

\* The outcomes of aec_decode with n input bytes, errors apart.
DecodeOutcomes(strm, n) ==
    { r \in [took : 0..n, out : Samples(strm.avail_out),
             owed : Samples(strm.owed + Expand * n)] :
        /\ r.out + r.owed <= strm.owed + Expand * r.took
        /\ strm.avail_out - r.out >= SampleBytes =>
             r.took = n /\ r.owed = 0 }

AfterDecode(strm, r) ==
    [avail_out |-> strm.avail_out - r.out,
     total_out |-> strm.total_out + r.out,
     owed      |-> r.owed]
=============================================================================
