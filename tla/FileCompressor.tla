--------------------------- MODULE FileCompressor ---------------------------
(***************************************************************************)
(* The file interface of compressor_impl: compress_init, compress and      *)
(* compress_fin, called in that order by one thread, once per file.  The   *)
(* caller may look at what compress_init returns or, as the command line   *)
(* does, go on whatever it is.  A turn of the loop of compress is a step   *)
(* here, and so is its flush.                                              *)
(* Bytes of the input file are numbered from 1, coded bytes too, in the    *)
(* order libaec puts them out since its stream was initialised.            *)
(***************************************************************************)
EXTENDS Integers, Sequences, Libaec

CONSTANTS
    CHUNK,         \* size of the buffers in and out
    INT_RANGE,     \* values of an int, 2^32 in the code
    Faults,        \* which of the fault kinds below can happen
    MaxSessions,   \* bound: calls of compress_init on one object
    MaxSize        \* bound: size of an input file

FaultKinds == {"init", "fopen", "open_in", "open_out", "read", "encode",
               "flush", "write"}

ASSUME FileAssumption ==
    /\ CHUNK \in Nat \ {0}
    /\ INT_RANGE \in {2 * n : n \in 1..(INT_RANGE \div 2)}
    /\ Faults \subseteq FaultKinds
    /\ MaxSessions \in Nat /\ MaxSize \in Nat

VARIABLES
    pc,             \* where the caller and the object stand, see States
    size,           \* size of the input file
    position,       \* bytes read from it
    pending,        \* the avail_in bytes at next_in
    d_strm,         \* the coder, see Libaec
    coder,          \* aec_encode_init has made d_strm.state
    total_out,      \* the int compress counts the written bytes in
    input_avail,    \* compress: the input may have more
    output_avail,   \* compress: the last turn wrote something
    input_stream,   \* "closed", "good", "eof", or "failed"
    output_stream,  \* "closed", "good", or "failed"
    file,           \* the coded bytes behind the header in the output file
    sessions,       \* history: calls of compress_init
    taken           \* history: bytes the coder took in this session

locals == <<total_out, input_avail, output_avail>>
streams == <<input_stream, output_stream>>
vars == <<pc, size, position, pending, d_strm, coder, locals, streams, file,
          sessions, taken>>

States == {"closed",     \* nothing open
           "ready",      \* compress_init returned 0
           "loop",       \* inside compress
           "done",       \* compress returned 0
           "failed",     \* compress returned an error
           "broken",     \* compress_init returned an error
           "unflushed",  \* aec_encode_end returned an error
           "crashed"}    \* a null FILE or a null coder was used

Init ==
    /\ pc = "closed"
    /\ size = 0 /\ position = 0 /\ pending = <<>>
    /\ d_strm = NewStream(CHUNK) /\ coder = FALSE
    /\ total_out = 0 /\ input_avail = FALSE /\ output_avail = FALSE
    /\ input_stream = "closed" /\ output_stream = "closed" /\ file = <<>>
    /\ sessions = 0 /\ taken = <<>>

-----------------------------------------------------------------------------
\* compress_init.  In the order of the code: the coder, the header, the input,
\* the output; the first failure to open returns, a failure of the coder only
\* shows in the value returned at the end, and in d_strm.state.  open() on a stream that is still
\* open sets failbit and leaves is_open() true.
Opened(stream) == IF stream = "closed" THEN "good" ELSE "failed"

Begin ==
    /\ pc \in {"closed", "broken", "unflushed"} /\ sessions < MaxSessions
    /\ sessions' = sessions + 1
    /\ size' \in 0..MaxSize /\ position' = 0 /\ pending' = <<>> /\ taken' = <<>>
    /\ d_strm' = NewStream(CHUNK)
    /\ coder' \in (IF "init" \in Faults THEN BOOLEAN ELSE {TRUE})
    /\ UNCHANGED locals

CompressInit ==
    /\ Begin
    /\ file' = <<>>
    /\ input_stream' = Opened(input_stream)
    /\ output_stream' = Opened(output_stream)
    /\ pc' = IF coder' THEN "ready" ELSE "broken"

CompressInitNoOutput ==
    /\ Begin /\ "open_out" \in Faults /\ output_stream = "closed"
    /\ file' = <<>>
    /\ input_stream' = Opened(input_stream)
    /\ pc' = "broken"
    /\ UNCHANGED output_stream

CompressInitNoInput ==
    /\ Begin /\ "open_in" \in Faults /\ input_stream = "closed"
    /\ file' = <<>>
    /\ pc' = "broken"
    /\ UNCHANGED streams

\* write_header_to_file uses the null FILE of a failed fopen.
CompressInitNoHeader ==
    /\ Begin /\ "fopen" \in Faults
    /\ pc' = "crashed"
    /\ UNCHANGED <<streams, file>>

-----------------------------------------------------------------------------
\* An int holding n.
ToInt(n) ==
    LET half == INT_RANGE \div 2
    IN  ((n + half) % INT_RANGE) - half

\* Mutant: everything put out so far is written at every turn.
UnwrittenAll(t) == t.total_out

\* total_out - d_strm.total_out: the int is widened to size_t.
Unwritten(t) == t.total_out - total_out

\* The bytes write finds at out: those just put out, then (0) what lies there.
Coded(t) == [i \in 1..Unwritten(t) |->
                IF d_strm.total_out + i <= t.total_out
                THEN d_strm.total_out + i ELSE 0]

\* output_stream.write(out, Unwritten(t)).  More than the buffer holds is read
\* from whatever lies behind it: the kernel stops where nothing is mapped.
WriteOutcomes(t) ==
    IF output_stream # "good" \/ Unwritten(t) = 0
    THEN {[stream |-> output_stream, file |-> file]}
    ELSE IF Unwritten(t) > CHUNK
    THEN {[stream |-> "failed", file |-> file \o SubSeq(Coded(t), 1, CHUNK + 1)]}
    ELSE {[stream |-> "good", file |-> file \o Coded(t)]}
         \cup {[stream |-> "failed", file |-> file \o SubSeq(Coded(t), 1, k)] :
                 k \in IF "write" \in Faults THEN 0..(Unwritten(t) - 1) ELSE {}}

\* Mutant: avail_in is the size of the buffer and not what was read.
ReadOutcomesFull ==
    IF input_stream # "good" THEN {[n |-> 0, stream |-> input_stream]}
    ELSE {[n |-> CHUNK,
           stream |-> IF size - position >= CHUNK THEN "good" ELSE "eof"]}

\* input_stream.read(in, CHUNK): a short read sets eofbit and failbit, a
\* failing disk badbit; a stream with a bit set reads nothing.
ReadOutcomes ==
    IF input_stream # "good" THEN {[n |-> 0, stream |-> input_stream]}
    ELSE {IF size - position >= CHUNK THEN [n |-> CHUNK, stream |-> "good"]
          ELSE [n |-> size - position, stream |-> "eof"]}
         \cup {[n |-> k, stream |-> "failed"] :
                 k \in IF "read" \in Faults
                       THEN { j \in 0..(size - position) : j < CHUNK } ELSE {}}

-----------------------------------------------------------------------------
\* compress, up to its loop.  A compress_init that could not open a file has
\* left a coder all the same; reading and writing then do nothing.
CompressEnter ==
    /\ pc \in {"ready", "broken"} /\ coder
    /\ pc' = "loop"
    /\ total_out' = 0 /\ input_avail' = TRUE /\ output_avail' = TRUE
    /\ UNCHANGED <<size, position, pending, d_strm, coder, streams, file,
                   sessions, taken>>

\* aec_encode uses the null d_strm.state a failed aec_encode_init has left.
CompressNoCoder ==
    /\ pc = "broken" /\ ~coder
    /\ pc' = "crashed"
    /\ UNCHANGED <<size, position, pending, d_strm, coder, locals, streams,
                   file, sessions, taken>>

\* Mutant: the buffer is filled again before the coder has emptied it.
NeedsInputEagerly == input_avail

\* d_strm.avail_in == 0 && input_avail
NeedsInput == pending = <<>> /\ input_avail

\* The buffer in when the coder is called, and the effect of filling it.
FillFrom(rd) == [i \in 1..rd.n |-> position + i]

\* Mutants: the input is taken to end with its first buffer; the comparison
\* that finds its end is inverted.
FillOnce(rd) ==
    /\ position' = position + rd.n
    /\ input_stream' = rd.stream
    /\ input_avail' = FALSE

FillInverted(rd) ==
    /\ position' = position + rd.n
    /\ input_stream' = rd.stream
    /\ input_avail' = (rd.n # CHUNK)

Fill(rd) ==
    /\ position' = position + rd.n
    /\ input_stream' = rd.stream
    /\ input_avail' = (rd.n = CHUNK)

Keep == UNCHANGED <<position, input_stream, input_avail>>

\* What the coder does with the bytes in and what compress does with its output.
Turn(in) ==
    \E r \in EncodeOutcomes(d_strm, Len(in), FALSE) :
       LET t == AfterEncode(d_strm, r)
       IN  /\ taken' = taken \o SubSeq(in, 1, r.took)
           /\ pending' = SubSeq(in, r.took + 1, Len(in))
           /\ \E w \in WriteOutcomes(t) :
                 output_stream' = w.stream /\ file' = w.file
           /\ output_avail' = (Unwritten(t) # 0)
           /\ IF Unwritten(t) # 0
              THEN /\ total_out' = ToInt(t.total_out)
                   /\ d_strm' = [t EXCEPT !.avail_out = CHUNK]
              ELSE d_strm' = t /\ UNCHANGED total_out

\* A turn of the loop that reads the input first.
IterateRefill ==
    /\ pc = "loop" /\ (input_avail \/ output_avail)
    /\ NeedsInput
    /\ \E rd \in ReadOutcomes : Fill(rd) /\ Turn(FillFrom(rd))
    /\ UNCHANGED <<pc, size, coder, sessions>>

\* A turn of the loop on what is left in the buffer.
IterateDrain ==
    /\ pc = "loop" /\ (input_avail \/ output_avail)
    /\ ~NeedsInput
    /\ Keep /\ Turn(pending)
    /\ UNCHANGED <<pc, size, coder, sessions>>

\* The coder reports an error: compress returns it.
IterateError ==
    /\ pc = "loop" /\ (input_avail \/ output_avail) /\ "encode" \in Faults
    /\ \/ /\ NeedsInput
          /\ \E rd \in ReadOutcomes : Fill(rd) /\ pending' = FillFrom(rd)
       \/ ~NeedsInput /\ Keep /\ UNCHANGED pending
    /\ pc' = "failed"
    /\ UNCHANGED <<size, d_strm, coder, total_out, output_avail,
                   output_stream, file, sessions, taken>>

\* Behind the loop: one flushing call, its output written, 0 returned.
CompressFlush ==
    /\ pc = "loop" /\ ~input_avail /\ ~output_avail
    /\ \E r \in EncodeOutcomes(d_strm, Len(pending), TRUE) :
          LET t == AfterEncode(d_strm, r)
          IN  /\ taken' = taken \o SubSeq(pending, 1, r.took)
              /\ pending' = SubSeq(pending, r.took + 1, Len(pending))
              /\ \E w \in WriteOutcomes(t) :
                    output_stream' = w.stream /\ file' = w.file
              /\ d_strm' = t
    /\ pc' = "done"
    /\ UNCHANGED <<size, position, coder, locals, input_stream, sessions>>

CompressFlushError ==
    /\ pc = "loop" /\ ~input_avail /\ ~output_avail /\ "flush" \in Faults
    /\ pc' = "failed"
    /\ UNCHANGED <<size, position, pending, d_strm, coder, locals, streams,
                   file, sessions, taken>>

\* compress_fin: the streams are closed unless aec_encode_end reports that
\* flushed output is still owed.  After an error of the coder it may do either.
CompressFin ==
    /\ pc \in {"done", "failed"}
    /\ \/ /\ pc = "failed" \/ EncodeEndOK(d_strm)
          /\ pc' = "closed"
          /\ input_stream' = "closed" /\ output_stream' = "closed"
       \/ /\ pc = "failed" \/ ~EncodeEndOK(d_strm)
          /\ pc' = "unflushed"
          /\ UNCHANGED streams
    /\ UNCHANGED <<size, position, pending, d_strm, coder, locals, file,
                   sessions, taken>>

-----------------------------------------------------------------------------
Loop == \/ IterateRefill \/ IterateDrain \/ IterateError
        \/ CompressFlush \/ CompressFlushError

Next ==
    \/ CompressInit \/ CompressInitNoOutput \/ CompressInitNoInput
    \/ CompressInitNoHeader
    \/ CompressEnter \/ CompressNoCoder
    \/ Loop
    \/ CompressFin

Spec == Init /\ [][Next]_vars

\* A call that has begun runs on to its return; no error is bound to happen.
FairSpec == Spec /\ WF_vars(IterateRefill \/ IterateDrain \/ CompressFlush)

-----------------------------------------------------------------------------
\* The first n bytes, in order.
Iota(n) == [i \in 1..n |-> i]

\* The type of every variable.
TypeOK ==
    /\ pc \in States
    /\ size \in Nat /\ position \in 0..size /\ pending \in Seq(Nat)
    /\ d_strm \in [avail_out : 0..CHUNK, total_out : Nat, owed : Nat]
    /\ coder \in BOOLEAN
    /\ total_out \in (-INT_RANGE)..INT_RANGE
    /\ input_avail \in BOOLEAN /\ output_avail \in BOOLEAN
    /\ input_stream \in {"closed", "good", "eof", "failed"}
    /\ output_stream \in {"closed", "good", "failed"}
    /\ file \in Seq(Nat) /\ sessions \in Nat /\ taken \in Seq(Nat)

\* Refilling the buffer only when the coder has emptied it loses and repeats
\* nothing: what the coder took and what waits for it are together the bytes
\* read from the file, in order, whatever fails.
ReadInOrder == taken \o pending = Iota(position)

\* What the file holds behind the header is, at any moment and whatever write
\* fails, a prefix of what the coder put out in this session.
WrittenIsPrefix ==
    pc \notin {"closed", "crashed"} =>
        file = Iota(Len(file)) /\ Len(file) <= d_strm.total_out

\* When compress has returned 0, aec_encode_end will succeed and both streams
\* were opened and have no failure the code does not look for, the coder took
\* every whole sample of the input and the file holds all it put out: no error
\* but one of the two streams can pass unreported.
SuccessMeansComplete ==
    /\ pc = "done" /\ EncodeEndOK(d_strm)
    /\ input_stream \in {"good", "eof"} /\ output_stream = "good"
    => /\ taken = Iota(size - (size % SampleBytes))
       /\ file = Iota(d_strm.total_out)

\* compress returns.
CompressReturns == pc = "loop" ~> pc # "loop"
=============================================================================
