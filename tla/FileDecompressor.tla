-------------------------- MODULE FileDecompressor --------------------------
(***************************************************************************)
(* The file interface of decompressor_impl: decompress_init, decompress    *)
(* and decompress_fin, called by one thread, once per file.  The caller    *)
(* may look at what decompress_init returns or, as the command line does,  *)
(* go on whatever it is.  A turn of the loop of decompress is a step.      *)
(* Bytes of the compressed file are numbered from 1, header included, and  *)
(* decoded bytes in the order libaec puts them out.                        *)
(***************************************************************************)
EXTENDS Integers, Sequences, LibaecDecoder

CONSTANTS
    CHUNK,             \* size of the buffers in and out
    INT_RANGE,         \* values of an int, 2^32 in the code
    max_header_size,   \* bytes the header is parsed from, 18 in the code
    HeaderSizes,       \* what the header may turn out to be long
    Faults,            \* which of the fault kinds below can happen
    MaxSessions,       \* bound: calls of decompress_init on one object
    MaxSize            \* bound: size of a compressed file

FaultKinds == {"fopen", "open_in", "open_out", "init", "read", "decode", "write"}

ASSUME DecompressorAssumption ==
    /\ CHUNK \in Nat /\ CHUNK >= SampleBytes
    /\ INT_RANGE \in {2 * n : n \in 1..(INT_RANGE \div 2)}
    /\ max_header_size \in Nat
    /\ HeaderSizes \subseteq 0..max_header_size
    /\ Faults \subseteq FaultKinds
    /\ MaxSessions \in Nat /\ MaxSize \in Nat

VARIABLES
    pc,                   \* where the caller and the object stand, see States
    size,                 \* size of the compressed file
    d_iqzip_header_size,
    position,             \* where the input stream stands
    pending,              \* the avail_in bytes at next_in
    d_strm,               \* the decoder, see LibaecDecoder
    total_out,            \* the int decompress counts the written bytes in
    input_avail,          \* decompress: the input may have more
    output_avail,         \* decompress: the last turn wrote something
    input_stream,         \* "closed", "good", "eof", or "failed"
    output_stream,        \* "closed", "good", or "failed"
    file,                 \* the bytes written to the output in this session
    sessions,             \* history: calls of decompress_init
    taken                 \* history: bytes the decoder took in this session

locals == <<total_out, input_avail, output_avail>>
streams == <<input_stream, output_stream>>
vars == <<pc, size, d_iqzip_header_size, position, pending, d_strm, locals,
          streams, file, sessions, taken>>

States == {"closed",     \* nothing open
           "ready",      \* decompress_init returned 0
           "loop",       \* inside decompress
           "done",       \* decompress returned 0
           "failed",     \* decompress returned an error
           "broken",     \* decompress_init returned an error, no decoder
           "thrown",     \* decompress_init threw, nothing was opened
           "crashed"}    \* a null FILE or a null decoder was used

Init ==
    /\ pc = "closed"
    /\ size = 0 /\ d_iqzip_header_size = 0 /\ position = 0 /\ pending = <<>>
    /\ d_strm = NewDecoder(CHUNK)
    /\ total_out = 0 /\ input_avail = FALSE /\ output_avail = FALSE
    /\ input_stream = "closed" /\ output_stream = "closed" /\ file = <<>>
    /\ sessions = 0 /\ taken = <<>>

-----------------------------------------------------------------------------
\* decompress_init.  In the order of the code: the header, the input, the
\* output, the decoder; whatever fails first ends it.  open() on a stream an
\* earlier failure left open sets failbit, and is_open() is true all the same.
Opened(stream) == IF stream = "closed" THEN "good" ELSE "failed"

MayInit == pc \in {"closed", "broken", "thrown"} /\ sessions < MaxSessions

\* parse_header_from_file opens the file for itself.
Begin ==
    /\ MayInit
    /\ sessions' = sessions + 1
    /\ size' \in 0..MaxSize
    /\ UNCHANGED locals

\* The file has the bytes of the longest header.
Parsed ==
    /\ Begin
    /\ size' >= max_header_size
    /\ d_iqzip_header_size' \in HeaderSizes
    /\ d_strm' = NewDecoder(CHUNK)
    /\ pending' = <<>> /\ taken' = <<>> /\ file' = <<>>

\* Mutant: the header is not skipped.
SkipNothing == position' = 0

\* input_stream.seekg(d_iqzip_header_size), nothing on a stream that failed.
Skip == position' = d_iqzip_header_size'

DecompressInit ==
    /\ Parsed
    /\ Skip
    /\ input_stream' = Opened(input_stream)
    /\ output_stream' = Opened(output_stream)
    /\ \/ pc' = "ready"
       \/ "init" \in Faults /\ pc' = "broken"

DecompressInitNoOutput ==
    /\ Parsed /\ "open_out" \in Faults /\ output_stream = "closed"
    /\ position' = 0
    /\ input_stream' = Opened(input_stream)
    /\ pc' = "broken"
    /\ UNCHANGED output_stream

DecompressInitNoInput ==
    /\ Parsed /\ "open_in" \in Faults /\ input_stream = "closed"
    /\ position' = 0
    /\ pc' = "broken"
    /\ UNCHANGED streams

\* "File reading error" is thrown before anything was changed.
DecompressInitShort ==
    /\ Begin
    /\ size' < max_header_size \/ "read" \in Faults
    /\ pc' = "thrown"
    /\ UNCHANGED <<d_iqzip_header_size, position, pending, d_strm, streams,
                   file, taken>>

\* parse_header_from_file reads from the null FILE of a failed fopen.
DecompressInitNoFile ==
    /\ Begin /\ "fopen" \in Faults
    /\ pc' = "crashed"
    /\ UNCHANGED <<d_iqzip_header_size, position, pending, d_strm, streams,
                   file, taken>>

-----------------------------------------------------------------------------
\* An int holding n.
ToInt(n) ==
    LET half == INT_RANGE \div 2
    IN  ((n + half) % INT_RANGE) - half

\* total_out - d_strm.total_out: the int is widened to size_t.
Unwritten(t) == t.total_out - total_out

\* The bytes write finds at out: those just put out, then (0) what lies there.
Decoded(t) == [i \in 1..Unwritten(t) |->
                  IF d_strm.total_out + i <= t.total_out
                  THEN d_strm.total_out + i ELSE 0]

\* output_stream.write(out, Unwritten(t)).  More than the buffer holds is read
\* from whatever lies behind it: the kernel stops where nothing is mapped.
WriteOutcomes(t) ==
    IF output_stream # "good" \/ Unwritten(t) = 0
    THEN {[stream |-> output_stream, file |-> file]}
    ELSE IF Unwritten(t) > CHUNK
    THEN {[stream |-> "failed", file |-> file \o SubSeq(Decoded(t), 1, CHUNK + 1)]}
    ELSE {[stream |-> "good", file |-> file \o Decoded(t)]}
         \cup {[stream |-> "failed", file |-> file \o SubSeq(Decoded(t), 1, k)] :
                 k \in IF "write" \in Faults THEN 0..(Unwritten(t) - 1) ELSE {}}

\* input_stream.read(in, CHUNK): a short read sets eofbit and failbit, a
\* failing disk badbit; a stream with a bit set reads nothing.
ReadOutcomes ==
    IF input_stream # "good" THEN {[n |-> 0, stream |-> input_stream]}
    ELSE {IF size - position >= CHUNK THEN [n |-> CHUNK, stream |-> "good"]
          ELSE [n |-> size - position, stream |-> "eof"]}
         \cup {[n |-> k, stream |-> "failed"] :
                 k \in IF "read" \in Faults
                       THEN { j \in 0..(size - position) : j < CHUNK } ELSE {}}

-----------------------------------------------------------------------------
\* decompress, up to its loop.
DecompressEnter ==
    /\ pc = "ready"
    /\ pc' = "loop"
    /\ total_out' = 0 /\ input_avail' = TRUE /\ output_avail' = TRUE
    /\ UNCHANGED <<size, d_iqzip_header_size, position, pending, d_strm,
                   streams, file, sessions, taken>>

\* After a decompress_init that failed there is no decoder: init_aec_stream
\* has set d_strm.state to null, and aec_decode uses it.
DecompressNoDecoder ==
    /\ pc = "broken"
    /\ pc' = "crashed"
    /\ UNCHANGED <<size, d_iqzip_header_size, position, pending, d_strm,
                   locals, streams, file, sessions, taken>>

\* Mutant: the loop ends with the input.
MoreInput == input_avail

\* The condition of the loop.
More == input_avail \/ output_avail

\* d_strm.avail_in == 0 && input_avail
NeedsInput == pending = <<>> /\ input_avail

Fill(rd) ==
    /\ position' = position + rd.n
    /\ input_stream' = rd.stream
    /\ input_avail' = (rd.n = CHUNK)

FillFrom(rd) == [i \in 1..rd.n |-> position + i]

\* Mutant: the end of the output is never noticed.
WroteAlways(t) == TRUE

\* d_strm.total_out - total_out > 0, unsigned.
Wrote(t) == Unwritten(t) # 0

\* Mutant: what has been written is not counted.
CountNothing(t) == total_out

\* The count of the written bytes after a turn.
Count(t) == IF Wrote(t) THEN ToInt(t.total_out) ELSE total_out

\* Mutant: the room grows by the buffer and is not reset to it.
RoomAdding(t) == IF Wrote(t) THEN [t EXCEPT !.avail_out = @ + CHUNK] ELSE t

\* The room of the next turn: the whole buffer when it has been written.
Room(t) == IF Wrote(t) THEN [t EXCEPT !.avail_out = CHUNK] ELSE t

\* What the decoder does with the bytes in, and decompress with its output.
Turn(in) ==
    \E r \in DecodeOutcomes(d_strm, Len(in)) :
       LET t == AfterDecode(d_strm, r)
       IN  /\ taken' = taken \o SubSeq(in, 1, r.took)
           /\ pending' = SubSeq(in, r.took + 1, Len(in))
           /\ \E w \in WriteOutcomes(t) :
                 output_stream' = w.stream /\ file' = w.file
           /\ output_avail' = Wrote(t)
           /\ total_out' = Count(t)
           /\ d_strm' = Room(t)

\* A turn of the loop that reads the input first.
IterateRefill ==
    /\ pc = "loop" /\ More /\ NeedsInput
    /\ \E rd \in ReadOutcomes : Fill(rd) /\ Turn(FillFrom(rd))
    /\ UNCHANGED <<pc, size, d_iqzip_header_size, sessions>>

\* A turn of the loop on what is left in the buffer.
IterateDrain ==
    /\ pc = "loop" /\ More /\ ~NeedsInput
    /\ Turn(pending)
    /\ UNCHANGED <<pc, size, d_iqzip_header_size, position, input_avail,
                   input_stream, sessions>>

\* The decoder reports an error: decompress returns it.
IterateError ==
    /\ pc = "loop" /\ More /\ "decode" \in Faults
    /\ \/ /\ NeedsInput
          /\ \E rd \in ReadOutcomes : Fill(rd) /\ pending' = FillFrom(rd)
       \/ ~NeedsInput /\ UNCHANGED <<position, input_stream, input_avail, pending>>
    /\ pc' = "failed"
    /\ UNCHANGED <<size, d_iqzip_header_size, d_strm, total_out, output_avail,
                   output_stream, file, sessions, taken>>

\* Behind the loop nothing is flushed: 0.
DecompressReturn ==
    /\ pc = "loop" /\ ~More
    /\ pc' = "done"
    /\ UNCHANGED <<size, d_iqzip_header_size, position, pending, d_strm,
                   locals, streams, file, sessions, taken>>

\* decompress_fin: aec_decode_end frees the decoder and reports no error.
DecompressFin ==
    /\ pc \in {"done", "failed"}
    /\ pc' = "closed"
    /\ input_stream' = "closed" /\ output_stream' = "closed"
    /\ UNCHANGED <<size, d_iqzip_header_size, position, pending, d_strm,
                   locals, file, sessions, taken>>

-----------------------------------------------------------------------------
Start ==
    \/ DecompressInit
    \/ DecompressInitNoOutput \/ DecompressInitNoInput
    \/ DecompressInitShort \/ DecompressInitNoFile

Loop == IterateRefill \/ IterateDrain \/ IterateError \/ DecompressReturn

Next == Start \/ DecompressEnter \/ DecompressNoDecoder \/ Loop \/ DecompressFin

Spec == Init /\ [][Next]_vars

\* A call that has begun runs on to its return; no error is bound to happen.
FairSpec == Spec /\ WF_vars(IterateRefill \/ IterateDrain \/ DecompressReturn)

-----------------------------------------------------------------------------
\* The first n bytes, in order.
Iota(n) == [i \in 1..n |-> i]

\* The type of every variable.
TypeOK ==
    /\ pc \in States
    /\ size \in Nat /\ d_iqzip_header_size \in 0..max_header_size
    /\ position \in Nat /\ pending \in Seq(Nat)
    /\ d_strm \in [avail_out : 0..CHUNK, total_out : Nat, owed : Nat]
    /\ total_out \in (-INT_RANGE)..INT_RANGE
    /\ input_avail \in BOOLEAN /\ output_avail \in BOOLEAN
    /\ input_stream \in {"closed", "good", "eof", "failed"}
    /\ output_stream \in {"closed", "good", "failed"}
    /\ file \in Seq(Nat) /\ sessions \in Nat /\ taken \in Seq(Nat)

\* The states in which decompress works, or has worked, on this file.
Decompressing == pc \in {"ready", "loop", "done", "failed"}

\* The bytes of the compressed file behind its header, up to byte n.
Payload(n) == [i \in 1..(n - d_iqzip_header_size) |-> d_iqzip_header_size + i]

\* The decoder is fed from the first byte behind the header on, each byte once
\* and in order, and nothing behind the end of the file, however the reads fall
\* and whatever fails: what it took and what waits for it are together what
\* the stream has read since the header was skipped.
FedBehindHeader ==
    Decompressing => /\ taken \o pending = Payload(position)
                     /\ position <= size

\* What this session has written is, at any moment and whatever write fails, a
\* prefix of what the decoder put out.
WrittenIsPrefix ==
    Decompressing => file = Iota(Len(file)) /\ Len(file) <= d_strm.total_out

\* When decompress has returned 0 and neither stream has a failure the code
\* does not look for, the decoder took the whole payload, nothing it decoded
\* waits for room, and all it put out is written: there is no flush, so it is
\* the last turn of the loop that has to find the decoder empty.
SuccessMeansComplete ==
    pc = "done" /\ input_stream # "failed" /\ output_stream # "failed" =>
        /\ taken = Payload(size)
        /\ d_strm.owed = 0
        /\ file = Iota(d_strm.total_out)

\* decompress returns.
DecompressReturns == pc = "loop" ~> pc # "loop"
=============================================================================
