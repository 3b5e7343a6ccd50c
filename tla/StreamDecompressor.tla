-------------------------- MODULE StreamDecompressor --------------------------
(***************************************************************************)
(* The stream interface of decompressor_impl: a session is begun by        *)
(* decompress_init, which takes the header from a file, brings the coded   *)
(* bytes by calls of stream_decompress, and is ended by                    *)
(* stream_decompress_fin.  A turn of the loop of stream_decompress is a    *)
(* step.  Coded bytes are named by the session they were given in and      *)
(* their place in it; decoded bytes are numbered from 1 in the order       *)
(* libaec puts them out since its stream was initialised.                  *)
(***************************************************************************)
EXTENDS Integers, Sequences, LibaecDecoder

CONSTANTS
    STREAM_CHUNK,  \* size of a chunk handed to the decoder
    CHUNK,         \* size of d_out
    Faults,        \* which of the fault kinds below can happen
    MaxSessions,   \* bound: sessions on one object
    MaxBytes,      \* bound: bytes given in one session
    MaxCall        \* bound: bytes given in one call

FaultKinds == {"fopen", "parse", "open_in", "open_out", "init", "decode", "write"}

ASSUME StreamAssumption ==
    /\ STREAM_CHUNK \in Nat \ {0}
    /\ CHUNK \in Nat /\ CHUNK >= SampleBytes
    /\ Faults \subseteq FaultKinds
    /\ MaxSessions \in Nat /\ MaxBytes \in Nat /\ MaxCall \in Nat

VARIABLES
    pc,             \* where the caller and the object stand, see States
    d_tmp_stream,   \* the first d_stream_avail_in bytes of d_tmp_stream
    inbuf,          \* what stream_decompress has yet to read of its argument
    d_strm,         \* the decoder, see LibaecDecoder
    d_total_out,    \* decoded bytes the object believes it has written
    input_open,     \* input_stream.is_open(); nothing is read from it
    output_stream,  \* "closed", "open", or "failed": open, failbit/badbit set
    file,           \* the bytes written to the output in this session
    sessions,       \* history: sessions begun
    residue,        \* history: d_tmp_stream when the session began
    given,          \* history: bytes given in this session
    taken,          \* history: bytes the decoder took in this session
    mishaps         \* history: "room", "write" or "decode", see Mishaps

object == <<d_tmp_stream, inbuf, d_strm, d_total_out>>
output == <<output_stream, file>>
history == <<sessions, residue, given, taken, mishaps>>
vars == <<pc, object, input_open, output, history>>

States == {"closed",     \* no session
           "ready",      \* in a session, between calls
           "loop",       \* inside stream_decompress
           "failed",     \* stream_decompress returned an error
           "broken",     \* init or the last decoding returned an error
           "thrown",     \* decompress_init threw
           "crashed"}    \* fread from the null FILE of a failed fopen

Init ==
    /\ pc = "closed"
    /\ d_tmp_stream = <<>> /\ inbuf = <<>>
    /\ d_strm = NewDecoder(CHUNK) /\ d_total_out = 0
    /\ input_open = FALSE /\ output_stream = "closed" /\ file = <<>>
    /\ sessions = 0 /\ residue = <<>> /\ given = <<>> /\ taken = <<>>
    /\ mishaps = {}

-----------------------------------------------------------------------------
\* decompress_init, the header apart.  d_stream_avail_in and d_total_out keep
\* the value of the session before.  open() on a stream left open by an earlier
\* error sets failbit and is_open() stays true.
Opened == IF output_stream = "closed" THEN "open" ELSE "failed"

MayInit == pc \in {"closed", "failed", "broken", "thrown"} /\ sessions < MaxSessions

Begin ==
    /\ MayInit
    /\ sessions' = sessions + 1
    /\ residue' = d_tmp_stream /\ given' = <<>> /\ taken' = <<>>
    /\ inbuf' = <<>> /\ d_strm' = NewDecoder(CHUNK) /\ file' = <<>>
    /\ UNCHANGED <<d_tmp_stream, d_total_out>>

DecompressInit ==
    /\ Begin
    /\ input_open' = TRUE
    /\ output_stream' = Opened
    /\ mishaps' = IF output_stream = "closed" THEN {} ELSE {"write"}
    /\ \/ pc' = "ready"
       \/ "init" \in Faults /\ pc' = "broken"

\* One of the files cannot be opened: -1.
DecompressInitNoFile ==
    /\ Begin
    /\ \/ "open_in" \in Faults /\ ~input_open /\ input_open' = FALSE
       \/ "open_out" \in Faults /\ output_stream = "closed" /\ input_open' = TRUE
    /\ pc' = "broken"
    /\ mishaps' = {}
    /\ UNCHANGED output_stream

\* The header cannot be read: fopen returns null, or too few bytes are there.
DecompressInitNoHeader ==
    /\ MayInit
    /\ \/ "fopen" \in Faults /\ pc' = "crashed"
       \/ "parse" \in Faults /\ pc' = "thrown"
    /\ sessions' = sessions + 1
    /\ UNCHANGED <<object, input_open, output, residue, given, taken, mishaps>>

-----------------------------------------------------------------------------
\* total_out - d_total_out, computed in size_t and passed on as a streamsize:
\* below zero it is a length no write accepts.
Unwritten(t) == t.total_out - d_total_out

\* The bytes write finds at d_out after the decoder went from d_strm to t:
\* those just put out, then (0) whatever was there before.
Decoded(t) == [i \in 1..Unwritten(t) |->
                  IF d_strm.total_out + i <= t.total_out
                  THEN d_strm.total_out + i ELSE 0]

\* output_stream.write(d_out, Unwritten(t)): a stream with a bit set writes
\* nothing; a negative length sets badbit; a failing disk takes only some of
\* the bytes and sets badbit.
WriteOutcomes(t) ==
    IF output_stream # "open" \/ Unwritten(t) = 0
    THEN {[stream |-> output_stream, file |-> file]}
    ELSE IF Unwritten(t) < 0
    THEN {[stream |-> "failed", file |-> file]}
    ELSE {[stream |-> "open", file |-> file \o Decoded(t)]}
         \cup {[stream |-> "failed", file |-> file \o SubSeq(Decoded(t), 1, k)] :
                 k \in IF "write" \in Faults THEN 0..(Unwritten(t) - 1) ELSE {}}

\* Mutant: the written bytes are not counted.
AccountNothing(t) == d_total_out

\* Everything put out counts as written.
Account(t) == IF Unwritten(t) # 0 THEN t.total_out ELSE d_total_out

\* Mutant: the room is added to and not reset.
RefillAdding(t) ==
    IF Unwritten(t) # 0 THEN [t EXCEPT !.avail_out = @ + CHUNK] ELSE t

\* After a write the room is the whole buffer again.
Refill(t) == IF Unwritten(t) # 0 THEN [t EXCEPT !.avail_out = CHUNK] ELSE t

\* What a call of the decoder and the write behind it fail to do without a call
\* reporting it: the decoder stopped for want of room, the stream has failed.
Mishaps(t, stream) ==
    (IF t.avail_out < SampleBytes THEN {"room"} ELSE {})
    \cup (IF stream = "failed" THEN {"write"} ELSE {})

-----------------------------------------------------------------------------
\* The bytes of a call with n bytes.
Bytes(n) == [i \in 1..n |-> <<sessions, Len(given) + i>>]

\* Mutant: a full chunk is left for the next call.
FitsExactly(n) == Len(d_tmp_stream) + n <= STREAM_CHUNK

\* d_stream_avail_in + nbytes < STREAM_CHUNK
Fits(n) == Len(d_tmp_stream) + n < STREAM_CHUNK

\* stream_decompress, no chunk complete: the bytes are stored.
StreamDecompressStore(n) ==
    /\ pc = "ready" /\ Fits(n)
    /\ given' = given \o Bytes(n)
    /\ d_tmp_stream' = d_tmp_stream \o Bytes(n)
    /\ UNCHANGED <<pc, inbuf, d_strm, d_total_out, input_open, output,
                   sessions, residue, taken, mishaps>>

\* stream_decompress, a chunk complete: into the loop.
StreamDecompressEnter(n) ==
    /\ pc = "ready" /\ ~Fits(n)
    /\ pc' = "loop"
    /\ given' = given \o Bytes(n)
    /\ inbuf' = Bytes(n)
    /\ UNCHANGED <<d_tmp_stream, d_strm, d_total_out, input_open, output,
                   sessions, residue, taken, mishaps>>

\* The bytes of inbuf that complete the chunk, and those behind them.
Missing == STREAM_CHUNK - Len(d_tmp_stream)
Filled == d_tmp_stream \o SubSeq(inbuf, 1, Missing)

\* Mutant: nbytes is reduced but inbuf is not moved on.
RemainingUnmoved == SubSeq(inbuf, 1, Len(inbuf) - Missing)

Remaining == SubSeq(inbuf, Missing + 1, Len(inbuf))

\* One turn of the loop, remainder >= 0: complete the chunk, hand it to the
\* decoder, write what it put out and forget the chunk, taken or not.
DecodeChunk ==
    /\ pc = "loop"
    /\ ~Fits(Len(inbuf))
    /\ \E r \in DecodeOutcomes(d_strm, STREAM_CHUNK) :
          LET t == AfterDecode(d_strm, r)
          IN  /\ taken' = taken \o SubSeq(Filled, 1, r.took)
              /\ \E w \in WriteOutcomes(t) :
                    /\ output_stream' = w.stream /\ file' = w.file
                    /\ mishaps' = mishaps \cup Mishaps(t, w.stream)
              /\ d_total_out' = Account(t)
              /\ d_strm' = Refill(t)
    /\ inbuf' = Remaining
    /\ d_tmp_stream' = <<>>
    /\ UNCHANGED <<pc, input_open, sessions, residue, given>>

\* aec_decode returns an error, having used some of the chunk: the call returns
\* the error, the whole chunk still stored.
DecodeChunkError ==
    /\ pc = "loop" /\ "decode" \in Faults
    /\ ~Fits(Len(inbuf))
    /\ d_tmp_stream' = Filled
    /\ inbuf' = Remaining
    /\ \E k \in 0..STREAM_CHUNK : taken' = taken \o SubSeq(Filled, 1, k)
    /\ mishaps' = mishaps \cup {"decode"}
    /\ pc' = "failed"
    /\ UNCHANGED <<d_strm, d_total_out, input_open, output, sessions, residue,
                   given>>

\* Mutant: the loop does not end on an argument used up to its last byte.
LoopExitNonEmpty ==
    /\ pc = "loop"
    /\ Fits(Len(inbuf)) /\ inbuf # <<>>
    /\ d_tmp_stream' = d_tmp_stream \o inbuf
    /\ inbuf' = <<>>
    /\ pc' = "ready"
    /\ UNCHANGED <<d_strm, d_total_out, input_open, output, history>>

\* remainder < 0: what is left is stored for the next call.
LoopExit ==
    /\ pc = "loop"
    /\ Fits(Len(inbuf))
    /\ d_tmp_stream' = d_tmp_stream \o inbuf
    /\ inbuf' = <<>>
    /\ pc' = "ready"
    /\ UNCHANGED <<d_strm, d_total_out, input_open, output, history>>

-----------------------------------------------------------------------------
\* Mutant: the end of the session takes what the decoder puts out for written.
FinWritesNothing(t) == {[stream |-> output_stream, file |-> file]}

FinWrites(t) == WriteOutcomes(t)

\* stream_decompress_fin: one call of the decoder on what is stored, its output
\* written, the decoder freed and the files closed.  d_stream_avail_in and
\* d_total_out keep their values.
StreamDecompressFin ==
    /\ pc \in {"ready", "failed"}
    /\ \E r \in DecodeOutcomes(d_strm, Len(d_tmp_stream)) :
          LET t == AfterDecode(d_strm, r)
          IN  /\ taken' = taken \o SubSeq(d_tmp_stream, 1, r.took)
              /\ d_strm' = t
              /\ \E w \in FinWrites(t) :
                    /\ file' = w.file
                    /\ mishaps' = mishaps \cup Mishaps(t, w.stream)
    /\ pc' = "closed"
    /\ output_stream' = "closed" /\ input_open' = FALSE
    /\ UNCHANGED <<d_tmp_stream, inbuf, d_total_out, sessions, residue, given>>

\* The decoder returns an error: -1, the files stay open.
StreamDecompressFinError ==
    /\ pc \in {"ready", "failed"} /\ "decode" \in Faults
    /\ pc' = "broken"
    /\ UNCHANGED <<object, input_open, output, history>>

-----------------------------------------------------------------------------
Start == DecompressInit \/ DecompressInitNoFile \/ DecompressInitNoHeader

Loop == DecodeChunk \/ DecodeChunkError \/ LoopExit

StreamDecompress ==
    \E n \in 1..MaxCall :
        /\ Len(given) + n <= MaxBytes
        /\ StreamDecompressStore(n) \/ StreamDecompressEnter(n)

Next == Start \/ StreamDecompress \/ Loop
        \/ StreamDecompressFin \/ StreamDecompressFinError

Spec == Init /\ [][Next]_vars

\* A call that has begun runs on to its return; no error is bound to happen.
FairSpec == Spec /\ WF_vars(DecodeChunk \/ LoopExit)

-----------------------------------------------------------------------------
\* The first n decoded bytes, in order.
Iota(n) == [i \in 1..n |-> i]

\* The type of every variable.
TypeOK ==
    /\ pc \in States
    /\ d_tmp_stream \in Seq(Nat \X Nat) /\ inbuf \in Seq(Nat \X Nat)
    /\ d_strm \in [avail_out : 0..CHUNK, total_out : Nat, owed : Nat]
    /\ d_total_out \in Nat
    /\ input_open \in BOOLEAN
    /\ output_stream \in {"closed", "open", "failed"}
    /\ file \in Seq(Nat) /\ sessions \in Nat
    /\ residue \in Seq(Nat \X Nat) /\ given \in Seq(Nat \X Nat)
    /\ taken \in Seq(Nat \X Nat) /\ mishaps \subseteq {"room", "write", "decode"}

\* Where the bytes that have not been taken are stored.
Stored == IF pc = "closed" THEN inbuf ELSE d_tmp_stream \o inbuf

Before(a, b) == a[1] < b[1] \/ (a[1] = b[1] /\ a[2] < b[2])

\* Until the decoder reports an error, the coded bytes reach it in the order
\* they were given, none twice, whatever the sizes of the calls; and none is
\* lost unless, in this session, it has stopped for want of room.  That is the
\* only way a byte can be lost: a chunk is forgotten, used up or not.
DeliveryInOrder ==
    LET stream == taken \o Stored
    IN  pc \notin {"thrown", "crashed"} /\ "decode" \notin mishaps =>
            /\ \A i, j \in 1..Len(stream) : i < j => Before(stream[i], stream[j])
            /\ "room" \in mishaps \/ stream = residue \o given

\* d_tmp_stream never holds more than a chunk, so no memcpy writes or counts
\* past it, and less than a chunk between calls and in the loop, but for a
\* session begun with a full chunk left behind by an error of the decoder.
BufferBounded ==
    /\ Len(d_tmp_stream) <= STREAM_CHUNK
    /\ pc \in {"ready", "loop"} /\ Len(d_tmp_stream) = STREAM_CHUNK =>
         d_tmp_stream = residue /\ taken = <<>>

\* What the first session has written is, at any moment and whatever write
\* fails, a prefix of what the decoder put out.
WrittenIsPrefix ==
    sessions = 1 /\ pc \notin {"thrown", "crashed"} =>
        file = Iota(Len(file)) /\ Len(file) <= d_strm.total_out

\* A first session that ends with 0 and without a mishap has decoded every byte
\* it was given and written every byte it decoded.
OutputComplete ==
    pc = "closed" /\ sessions = 1 /\ mishaps = {} =>
        /\ taken = given
        /\ d_strm.owed = 0
        /\ file = Iota(d_strm.total_out)

\* stream_decompress returns, however many chunks its argument completes.
CallReturns == pc = "loop" ~> pc # "loop"
=============================================================================
