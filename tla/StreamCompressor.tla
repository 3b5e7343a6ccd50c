-------------------------- MODULE StreamCompressor --------------------------
(***************************************************************************)
(* The stream interface of compressor_impl: stream_compress_init,          *)
(* stream_compress and stream_compress_fin, called by one thread.  A call  *)
(* to stream_compress that completes a chunk is a loop; each turn of the   *)
(* loop is a step here.  Bytes of the input are named by the session they  *)
(* were given in and their place in it; coded bytes are numbered from 1 in *)
(* the order libaec puts them out since its stream was initialised.        *)
(***************************************************************************)
EXTENDS Integers, Sequences, Libaec

CONSTANTS
    STREAM_CHUNK,  \* size of a chunk handed to the coder
    CHUNK,         \* size of d_out
    Faults,        \* which of the fault kinds below can happen
    MaxSessions,   \* bound: sessions on one object
    MaxBytes,      \* bound: bytes given in one session
    MaxCall        \* bound: samples given in one call

FaultKinds == {"init", "fopen", "open", "encode", "write"}

ASSUME StreamAssumption ==
    /\ STREAM_CHUNK \in Nat \ {0}
    /\ CHUNK \in Nat \ {0}
    /\ Faults \subseteq FaultKinds
    /\ MaxSessions \in Nat /\ MaxBytes \in Nat /\ MaxCall \in Nat

VARIABLES
    pc,             \* where the caller and the object stand, see States
    d_tmp_stream,   \* the first d_stream_avail_in bytes of d_tmp_stream
    inbuf,          \* what stream_compress has yet to read of its argument
    d_strm,         \* the coder, see Libaec
    d_total_out,    \* coded bytes the object believes it has written
    output_stream,  \* "closed", "open", or "failed": open, failbit/badbit set
    file,           \* the coded bytes behind the header in the output file
    sessions,       \* history: sessions begun
    residue,        \* history: d_tmp_stream when the session began
    given,          \* history: bytes given in this session
    taken           \* history: bytes the coder took in this session

vars == <<pc, d_tmp_stream, inbuf, d_strm, d_total_out, output_stream, file,
          sessions, residue, given, taken>>

States == {"closed",     \* no session
           "ready",      \* in a session, between calls
           "loop",       \* inside stream_compress
           "failed",     \* stream_compress returned an error
           "broken",     \* init or the flush returned an error
           "unflushed",  \* aec_encode_end returned an error
           "crashed"}    \* fwrite on the null FILE of a failed fopen

Init ==
    /\ pc = "closed"
    /\ d_tmp_stream = <<>> /\ inbuf = <<>>
    /\ d_strm = NewStream(CHUNK) /\ d_total_out = 0
    /\ output_stream = "closed" /\ file = <<>>
    /\ sessions = 0 /\ residue = <<>> /\ given = <<>> /\ taken = <<>>

-----------------------------------------------------------------------------
\* total_out - d_total_out, computed in size_t and passed on as a streamsize:
\* below zero it is a length no write accepts.
Unwritten(t) == t.total_out - d_total_out

\* The bytes write finds at d_out after the coder went from d_strm to t: those
\* it has just put out, then (0) whatever was there before.
Coded(t) == [i \in 1..Unwritten(t) |->
                IF d_strm.total_out + i <= t.total_out
                THEN d_strm.total_out + i ELSE 0]

\* Mutant: the file is not opened for appending, every write begins it anew.
WriteOutcomesAnew(t) ==
    IF output_stream # "open" \/ Unwritten(t) <= 0
    THEN {[stream |-> output_stream, file |-> file]}
    ELSE {[stream |-> "open", file |-> Coded(t)]}

\* output_stream.write(d_out, Unwritten(t)): a stream with a bit set writes
\* nothing; a negative length sets badbit; a failing disk takes only some of
\* the bytes and sets badbit.
WriteOutcomes(t) ==
    IF output_stream # "open" \/ Unwritten(t) = 0
    THEN {[stream |-> output_stream, file |-> file]}
    ELSE IF Unwritten(t) < 0
    THEN {[stream |-> "failed", file |-> file]}
    ELSE {[stream |-> "open", file |-> file \o Coded(t)]}
         \cup {[stream |-> "failed", file |-> file \o SubSeq(Coded(t), 1, k)] :
                 k \in IF "write" \in Faults THEN 0..(Unwritten(t) - 1) ELSE {}}

\* Mutants: the written bytes are not counted; the room is added to, not reset.
AccountNothing(t) == d_total_out
RefillAdding(t) ==
    IF Unwritten(t) # 0 THEN [t EXCEPT !.avail_out = @ + CHUNK] ELSE t

\* What stream_compress does to the object after a write: the room is the
\* whole buffer again and everything put out counts as written.
Account(t) == IF Unwritten(t) # 0 THEN t.total_out ELSE d_total_out
Refill(t) == IF Unwritten(t) # 0 THEN [t EXCEPT !.avail_out = CHUNK] ELSE t

-----------------------------------------------------------------------------
\* stream_compress_init.  The header is written before the stream is opened,
\* which truncates the file; d_stream_avail_in and d_total_out keep the value
\* of the session before.  open() on a stream left open by an earlier error
\* sets failbit and is_open() stays true, so that error is not reported.
Opened == IF output_stream = "closed" THEN "open" ELSE "failed"

Begin ==
    /\ file' = <<>>
    /\ sessions' = sessions + 1
    /\ residue' = d_tmp_stream /\ given' = <<>> /\ taken' = <<>>
    /\ inbuf' = <<>>
    /\ d_strm' = NewStream(CHUNK)

MayInit == pc \in {"closed", "failed", "broken", "unflushed"} /\ sessions < MaxSessions

StreamCompressInit ==
    /\ MayInit
    /\ Begin
    /\ output_stream' = Opened
    /\ \/ pc' = "ready"
       \/ "init" \in Faults /\ pc' = "broken"
    /\ UNCHANGED <<d_tmp_stream, d_total_out>>

\* The output file cannot be opened for appending: -1.
StreamCompressInitNoOutput ==
    /\ MayInit /\ "open" \in Faults /\ output_stream = "closed"
    /\ Begin
    /\ pc' = "broken"
    /\ UNCHANGED <<d_tmp_stream, d_total_out, output_stream>>

\* The header cannot be written: write_header_to_file uses a null FILE.
StreamCompressInitNoHeader ==
    /\ MayInit /\ "fopen" \in Faults
    /\ pc' = "crashed"
    /\ UNCHANGED <<d_tmp_stream, inbuf, d_strm, d_total_out, output_stream,
                   file, sessions, residue, given, taken>>

-----------------------------------------------------------------------------
\* The bytes of a call with k samples.
Bytes(k) == [i \in 1..(k * SampleBytes) |-> <<sessions, Len(given) + i>>]

\* Mutant: a full chunk is left for the next call.
FitsExactly(n) == Len(d_tmp_stream) + n <= STREAM_CHUNK

\* d_stream_avail_in + nbytes < STREAM_CHUNK
Fits(n) == Len(d_tmp_stream) + n < STREAM_CHUNK

\* Mutant: memcpy to the start of d_tmp_stream.
Overwrite(bytes) == bytes

\* memcpy to d_tmp_stream, behind the bytes already there.
Append2Tmp(bytes) == d_tmp_stream \o bytes

\* stream_compress, no chunk complete: the bytes are stored.
StreamCompressStore(k) ==
    /\ pc = "ready"
    /\ Fits(k * SampleBytes)
    /\ given' = given \o Bytes(k)
    /\ d_tmp_stream' = Append2Tmp(Bytes(k))
    /\ UNCHANGED <<pc, inbuf, d_strm, d_total_out, output_stream, file,
                   sessions, residue, taken>>

\* stream_compress, a chunk complete: into the loop.
StreamCompressEnter(k) ==
    /\ pc = "ready"
    /\ ~Fits(k * SampleBytes)
    /\ pc' = "loop"
    /\ given' = given \o Bytes(k)
    /\ inbuf' = Bytes(k)
    /\ UNCHANGED <<d_tmp_stream, d_strm, d_total_out, output_stream, file,
                   sessions, residue, taken>>

\* The bytes of inbuf that complete the chunk, and those behind them.
Missing == STREAM_CHUNK - Len(d_tmp_stream)
Filled == d_tmp_stream \o SubSeq(inbuf, 1, Missing)

\* Mutant: nbytes is reduced but inbuf is not moved on.
RemainingUnmoved == SubSeq(inbuf, 1, Len(inbuf) - Missing)

Remaining == SubSeq(inbuf, Missing + 1, Len(inbuf))

\* One turn of the loop, remainder >= 0: complete the chunk, hand it to the
\* coder, write what it put out and forget the chunk, taken or not.
EncodeChunk ==
    /\ pc = "loop"
    /\ ~Fits(Len(inbuf))
    /\ \E r \in EncodeOutcomes(d_strm, STREAM_CHUNK, FALSE) :
          LET t == AfterEncode(d_strm, r)
          IN  /\ taken' = taken \o SubSeq(Filled, 1, r.took)
              /\ \E w \in WriteOutcomes(t) :
                    output_stream' = w.stream /\ file' = w.file
              /\ d_total_out' = Account(t)
              /\ d_strm' = Refill(t)
    /\ inbuf' = Remaining
    /\ d_tmp_stream' = <<>>
    /\ UNCHANGED <<pc, sessions, residue, given>>

\* aec_encode returns an error: the call returns it, the chunk still stored.
EncodeChunkError ==
    /\ pc = "loop" /\ "encode" \in Faults
    /\ ~Fits(Len(inbuf))
    /\ d_tmp_stream' = Filled
    /\ inbuf' = Remaining
    /\ pc' = "failed"
    /\ UNCHANGED <<d_strm, d_total_out, output_stream, file, sessions,
                   residue, given, taken>>

\* Mutant: the loop does not end on an argument used up to its last byte.
LoopExitNonEmpty ==
    /\ pc = "loop"
    /\ Fits(Len(inbuf)) /\ inbuf # <<>>
    /\ d_tmp_stream' = Append2Tmp(inbuf)
    /\ inbuf' = <<>>
    /\ pc' = "ready"
    /\ UNCHANGED <<d_strm, d_total_out, output_stream, file, sessions,
                   residue, given, taken>>

\* remainder < 0: what is left is stored for the next call.
LoopExit ==
    /\ pc = "loop"
    /\ Fits(Len(inbuf))
    /\ d_tmp_stream' = Append2Tmp(inbuf)
    /\ inbuf' = <<>>
    /\ pc' = "ready"
    /\ UNCHANGED <<d_strm, d_total_out, output_stream, file, sessions,
                   residue, given, taken>>

-----------------------------------------------------------------------------
\* stream_compress_fin: one flushing call of the coder on what is stored, its
\* output written, the coder ended and the file closed.  When aec_encode_end
\* reports an error the file stays open.  d_stream_avail_in and d_total_out
\* keep their values.
StreamCompressFin ==
    /\ pc \in {"ready", "failed"}
    /\ \E r \in EncodeOutcomes(d_strm, Len(d_tmp_stream), TRUE) :
          LET t == AfterEncode(d_strm, r)
          IN  /\ taken' = taken \o SubSeq(d_tmp_stream, 1, r.took)
              /\ d_strm' = t
              /\ pc' = IF EncodeEndOK(t) THEN "closed" ELSE "unflushed"
              /\ \E w \in WriteOutcomes(t) :
                    /\ file' = w.file
                    /\ output_stream' = IF EncodeEndOK(t) THEN "closed"
                                        ELSE w.stream
    /\ UNCHANGED <<d_tmp_stream, inbuf, d_total_out, sessions, residue, given>>

\* The flush returns an error: -1, the file stays open.
StreamCompressFinError ==
    /\ pc \in {"ready", "failed"} /\ "encode" \in Faults
    /\ pc' = "broken"
    /\ UNCHANGED <<d_tmp_stream, inbuf, d_strm, d_total_out, output_stream,
                   file, sessions, residue, given, taken>>

-----------------------------------------------------------------------------
Loop == EncodeChunk \/ EncodeChunkError \/ LoopExit

StreamCompress ==
    \E k \in 1..MaxCall :
        /\ Len(given) + k * SampleBytes <= MaxBytes
        /\ StreamCompressStore(k) \/ StreamCompressEnter(k)

Next ==
    \/ StreamCompressInit \/ StreamCompressInitNoOutput
    \/ StreamCompressInitNoHeader
    \/ StreamCompress
    \/ Loop
    \/ StreamCompressFin \/ StreamCompressFinError

Spec == Init /\ [][Next]_vars

\* A call that has begun runs on to its return; no error is bound to happen.
FairSpec == Spec /\ WF_vars(EncodeChunk \/ LoopExit)

-----------------------------------------------------------------------------
\* The first n coded bytes, in order.
Iota(n) == [i \in 1..n |-> i]

\* The type of every variable.
TypeOK ==
    /\ pc \in States
    /\ d_tmp_stream \in Seq(Nat \X Nat) /\ inbuf \in Seq(Nat \X Nat)
    /\ d_strm \in [avail_out : 0..CHUNK, total_out : Nat, owed : Nat]
    /\ d_total_out \in Nat
    /\ output_stream \in {"closed", "open", "failed"}
    /\ file \in Seq(Nat)
    /\ sessions \in Nat
    /\ residue \in Seq(Nat \X Nat) /\ given \in Seq(Nat \X Nat)
    /\ taken \in Seq(Nat \X Nat)

\* Where the bytes that have not been taken are stored: in d_tmp_stream and
\* inbuf, until a finished session has flushed the former to the coder.
Stored == IF pc \in {"closed", "unflushed"} THEN inbuf
          ELSE d_tmp_stream \o inbuf

\* No byte given to stream_compress is lost, doubled or put out of order by
\* the copying between the caller's buffer, d_tmp_stream and the coder,
\* whatever the sizes of the calls, errors of the coder included: the bytes
\* taken followed by those stored are the bytes found in d_tmp_stream by
\* stream_compress_init followed by the bytes given since.
DeliveryInOrder == pc # "crashed" => taken \o Stored = residue \o given

\* d_tmp_stream never holds more than a chunk, so no memcpy writes or counts
\* past it, and less than a chunk between calls and in the loop: a complete
\* chunk waits for no further call.  The one exception is a session begun with
\* a full chunk left behind by an error of the coder, before its first turn.
BufferBounded ==
    /\ Len(d_tmp_stream) <= STREAM_CHUNK
    /\ pc \in {"ready", "loop"} /\ Len(d_tmp_stream) = STREAM_CHUNK =>
         d_tmp_stream = residue /\ taken = <<>>

\* What the file of the first session holds behind the header is, at any
\* moment and whatever write fails, a prefix of what the coder put out: no
\* gap, no byte twice, no stale byte of d_out.
WrittenIsPrefix ==
    sessions = 1 => /\ file = Iota(Len(file))
                    /\ Len(file) <= d_strm.total_out

\* When stream_compress_fin returns success after the first session, every
\* byte the coder put out is in the file and it holds none back.
OutputComplete ==
    pc = "closed" /\ sessions = 1 =>
        file = Iota(d_strm.total_out) /\ d_strm.owed = 0

\* stream_compress returns, however many chunks its argument completes and
\* whatever error the coder reports.
CallReturns == pc = "loop" ~> pc # "loop"

-----------------------------------------------------------------------------
\* What the documentation says and the code does not do.

\* "Finalizes the compression and clears internal variables", "@return 0 on
\* success": a successful stream_compress_fin means that the file is complete,
\* in every session.
SuccessMeansComplete == pc = "closed" => file = Iota(d_strm.total_out)

-----------------------------------------------------------------------------
\* Without faults and in the first session, the object delivers its input as
\* ChunkedDelivery promises.
Phase == CASE pc = "ready" -> "open" [] pc = "loop" -> "giving"
           [] OTHER -> "closed"

\* The byte sequences a call may bring.
CallBytes ==
    { [i \in 1..n |-> <<s, f + i>>] :
        n \in 1..MaxBytes, s \in 1..MaxSessions, f \in 0..MaxBytes }

Delivery == INSTANCE ChunkedDelivery WITH
    Chunk <- STREAM_CHUNK,
    Calls <- CallBytes,
    phase <- Phase,
    pending <- Stored,
    delivered <- taken

ImplementsDelivery == Delivery!DSpec
=============================================================================
