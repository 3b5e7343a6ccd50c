----------------------- MODULE StreamCompressorProofs -----------------------
(***************************************************************************)
(* Theorems about StreamCompressor for every value of its constants.       *)
(***************************************************************************)
EXTENDS StreamCompressor, SequenceFacts

Byte == Nat \X Nat

-----------------------------------------------------------------------------
\* What the coder put out has the type of an outcome, and the stream after it
\* the type of a stream.
LEMMA OutcomeType ==
    ASSUME NEW s \in [avail_out : 0..CHUNK, total_out : Nat, owed : Nat],
           NEW n \in Nat, NEW flush \in BOOLEAN,
           NEW r \in EncodeOutcomes(s, n, flush)
    PROVE  /\ r.took \in 0..n /\ r.out \in 0..s.avail_out /\ r.owed \in Nat
           /\ AfterEncode(s, r) \in
                [avail_out : 0..CHUNK, total_out : Nat, owed : Nat]
  <1>1. r.took \in 0..n /\ r.out \in 0..s.avail_out /\ r.owed \in Nat
    BY DEF EncodeOutcomes
  <1> QED
    BY <1>1, StreamAssumption DEF AfterEncode

\* Whatever is written, the file stays a sequence of numbers.
LEMMA WriteType ==
    ASSUME TypeOK,
           NEW t \in [avail_out : 0..CHUNK, total_out : Nat, owed : Nat],
           NEW w \in WriteOutcomes(t)
    PROVE  w.stream \in {"closed", "open", "failed"} /\ w.file \in Seq(Nat)
  <1>1. CASE output_stream # "open" \/ Unwritten(t) = 0
    BY <1>1 DEF WriteOutcomes, TypeOK
  <1>2. CASE output_stream = "open" /\ Unwritten(t) < 0
    BY <1>2 DEF WriteOutcomes, TypeOK, Unwritten
  <1>3. CASE output_stream = "open" /\ Unwritten(t) > 0
    <2>1. Unwritten(t) \in Nat
      BY <1>3 DEF Unwritten, TypeOK
    <2>2. Coded(t) \in [1..Unwritten(t) -> Nat]
      BY <2>1 DEF Coded, TypeOK
    <2>3. Coded(t) \in Seq(Nat) /\ Len(Coded(t)) = Unwritten(t)
      BY <2>1, <2>2, SeqOfFunction
    <2>4. ASSUME NEW k \in 0..(Unwritten(t) - 1)
          PROVE  SubSeq(Coded(t), 1, k) \in Seq(Nat)
      BY <2>1, <2>3, Prefix
    <2>5. file \in Seq(Nat)
      BY DEF TypeOK
    <2>6. \/ w = [stream |-> "open", file |-> file \o Coded(t)]
          \/ \E k \in 0..(Unwritten(t) - 1) :
               w = [stream |-> "failed", file |-> file \o SubSeq(Coded(t), 1, k)]
      <3>1. Unwritten(t) # 0 /\ ~(Unwritten(t) < 0) /\ ~(output_stream # "open")
        BY <1>3, <2>1
      <3>2. w \in {[stream |-> "open", file |-> file \o Coded(t)]}
                  \cup {[stream |-> "failed", file |-> file \o SubSeq(Coded(t), 1, k)] :
                          k \in IF "write" \in Faults
                                THEN 0..(Unwritten(t) - 1) ELSE {}}
        BY <3>1, Zenon DEF WriteOutcomes
      <3> QED
        BY <3>2, Zenon
    <2>7. CASE w = [stream |-> "open", file |-> file \o Coded(t)]
      BY <2>7, <2>3, <2>5, ConcatProperties
    <2>8. ASSUME NEW k \in 0..(Unwritten(t) - 1),
                 w = [stream |-> "failed", file |-> file \o SubSeq(Coded(t), 1, k)]
          PROVE  w.stream \in {"closed", "open", "failed"} /\ w.file \in Seq(Nat)
      <3>1. file \o SubSeq(Coded(t), 1, k) \in Seq(Nat)
        BY <2>4, <2>5, ConcatProperties
      <3> QED
        BY <2>8, <3>1
    <2> QED
      BY <2>6, <2>7, <2>8
  <1> QED
    BY <1>1, <1>2, <1>3 DEF Unwritten, TypeOK

\* What the object makes of the stream and of d_total_out after a write.
LEMMA AccountType ==
    ASSUME TypeOK,
           NEW t \in [avail_out : 0..CHUNK, total_out : Nat, owed : Nat]
    PROVE  /\ Account(t) \in Nat
           /\ Refill(t) \in [avail_out : 0..CHUNK, total_out : Nat, owed : Nat]
           /\ Refill(t).total_out = t.total_out /\ Refill(t).owed = t.owed
           /\ Unwritten(t) # 0 =>
                Account(t) = t.total_out /\ Refill(t).avail_out = CHUNK
           /\ Unwritten(t) = 0 => Account(t) = d_total_out /\ Refill(t) = t
           /\ Account(t) = t.total_out
  <1>1. /\ CHUNK \in 0..CHUNK /\ t.total_out \in Nat /\ d_total_out \in Nat
        /\ t = [avail_out |-> t.avail_out, total_out |-> t.total_out,
                owed |-> t.owed]
    BY StreamAssumption DEF TypeOK
  <1>2. Unwritten(t) = 0 => d_total_out = t.total_out
    BY <1>1 DEF Unwritten
  <1>3. CASE Unwritten(t) = 0
    BY <1>1, <1>2, <1>3 DEF Account, Refill
  <1>4. CASE Unwritten(t) # 0
    <2>1. /\ Account(t) = t.total_out
          /\ Refill(t) = [t EXCEPT !.avail_out = CHUNK]
      BY <1>4 DEF Account, Refill
    <2> QED
      BY <1>1, <1>4, <2>1
  <1> QED
    BY <1>3, <1>4

-----------------------------------------------------------------------------
\* The bytes of a call are a sequence of bytes, a whole number of samples.
LEMMA BytesType ==
    ASSUME TypeOK, NEW k \in Nat
    PROVE  /\ Bytes(k) \in Seq(Byte) /\ Len(Bytes(k)) = k * SampleBytes
           /\ k * SampleBytes \in Nat
  <1>1. k * SampleBytes \in Nat
    BY CoderAssumption
  <1>2. Len(given) \in Nat /\ sessions \in Nat
    BY LenProperties DEF TypeOK
  <1>3. Bytes(k) \in [1..(k * SampleBytes) -> Byte]
    BY <1>1, <1>2 DEF Bytes, Byte
  <1> QED
    BY <1>1, <1>3, SeqOfFunction

\* The chunk completed from inbuf, and what is left of inbuf.
LEMMA FilledType ==
    ASSUME TypeOK, ~Fits(Len(inbuf)), Len(d_tmp_stream) <= STREAM_CHUNK
    PROVE  /\ Filled \in Seq(Byte) /\ Len(Filled) = STREAM_CHUNK
           /\ Remaining \in Seq(Byte)
           /\ Len(Remaining) = Len(inbuf) + Len(d_tmp_stream) - STREAM_CHUNK
           /\ Filled \o Remaining = d_tmp_stream \o inbuf
  <1>1. d_tmp_stream \in Seq(Byte) /\ inbuf \in Seq(Byte)
    BY DEF TypeOK, Byte
  <1>2. Missing \in 0..Len(inbuf) /\ STREAM_CHUNK \in Nat
    BY <1>1, StreamAssumption, LenProperties DEF Missing, Fits
  <1>3. /\ SubSeq(inbuf, 1, Missing) \in Seq(Byte)
        /\ Len(SubSeq(inbuf, 1, Missing)) = Missing
        /\ Remaining \in Seq(Byte) /\ Len(Remaining) = Len(inbuf) - Missing
        /\ SubSeq(inbuf, 1, Missing) \o Remaining = inbuf
    BY <1>1, <1>2, Prefix DEF Remaining
  <1>4. /\ Filled \in Seq(Byte)
        /\ Len(Filled) = Len(d_tmp_stream) + Len(SubSeq(inbuf, 1, Missing))
    BY <1>1, <1>3, ConcatProperties DEF Filled
  <1>5. Filled \o Remaining =
          d_tmp_stream \o (SubSeq(inbuf, 1, Missing) \o Remaining)
    <2> DEFINE head == SubSeq(inbuf, 1, Missing)
    <2>1. d_tmp_stream \in Seq(Byte) /\ head \in Seq(Byte)
          /\ Remaining \in Seq(Byte)
      BY <1>1, <1>3
    <2>2. Filled = d_tmp_stream \o head
      BY DEF Filled
    <2> HIDE DEF head
    <2>3. (d_tmp_stream \o head) \o Remaining
            = d_tmp_stream \o (head \o Remaining)
      BY <2>1, ConcatAssociative, SMTT(60)
    <2> QED
      BY <2>2, <2>3 DEF head
  <1>6. Len(d_tmp_stream) \in Nat /\ Len(inbuf) \in Nat
    BY <1>1, LenProperties
  <1>7. Filled \o Remaining = d_tmp_stream \o inbuf
    BY <1>3, <1>5, Zenon
  <1>8. Len(Filled) = STREAM_CHUNK
    BY <1>2, <1>3, <1>4, <1>6 DEF Missing
  <1>9. Len(Remaining) = Len(inbuf) + Len(d_tmp_stream) - STREAM_CHUNK
    BY <1>2, <1>3, <1>6 DEF Missing
  <1> QED
    BY <1>3, <1>4, <1>7, <1>8, <1>9, Zenon

\* The variables keep their types, and d_tmp_stream never holds more than a
\* chunk.  The two go together: the lengths of the memcpy's are only natural
\* numbers because of the second.
TypeInv == TypeOK /\ Len(d_tmp_stream) <= STREAM_CHUNK

\* It holds of a new object.
LEMMA TypeInit == Init => TypeInv
  <1> SUFFICES ASSUME Init PROVE TypeInv
    OBVIOUS
  <1>1. <<>> \in Seq(Byte) /\ <<>> \in Seq(Nat) /\ Len(<<>>) = 0
    BY EmptySeq
  <1> QED
    BY <1>1, StreamAssumption
    DEF Init, TypeInv, TypeOK, Byte, NewStream, States

\* Every step keeps it.
LEMMA TypeStep == TypeInv /\ [Next]_vars => TypeInv'
  <1> SUFFICES ASSUME TypeInv, [Next]_vars PROVE TypeInv'
    OBVIOUS
  <1> USE DEF TypeInv
  <1>0. /\ <<>> \in Seq(Byte) /\ <<>> \in Seq(Nat) /\ Len(<<>>) = 0
        /\ d_tmp_stream \in Seq(Byte) /\ inbuf \in Seq(Byte)
        /\ residue \in Seq(Byte) /\ given \in Seq(Byte)
        /\ taken \in Seq(Byte)
    BY EmptySeq DEF TypeOK, Byte
  <1>1. CASE StreamCompressInit
    BY <1>0, <1>1, StreamAssumption
    DEF StreamCompressInit, Begin, Opened, NewStream, TypeOK, Byte, States
  <1>2. CASE StreamCompressInitNoOutput
    BY <1>0, <1>2, StreamAssumption
    DEF StreamCompressInitNoOutput, Begin, NewStream, TypeOK, Byte, States
  <1>3. CASE StreamCompressInitNoHeader
    BY <1>3 DEF StreamCompressInitNoHeader, TypeOK, States
  <1>4. ASSUME NEW k \in 1..MaxCall, StreamCompressStore(k)
        PROVE  TypeInv'
    <2>1. /\ Bytes(k) \in Seq(Byte) /\ Len(Bytes(k)) = k * SampleBytes
          /\ k * SampleBytes \in Nat
      <3>1. k \in Nat
        BY StreamAssumption
      <3> QED
        BY <3>1, BytesType
    <2>2. given' \in Seq(Byte)
      BY <1>0, <1>4, <2>1, ConcatProperties DEF StreamCompressStore
    <2>3. /\ d_tmp_stream' \in Seq(Byte)
          /\ Len(d_tmp_stream') = Len(d_tmp_stream) + Len(Bytes(k))
      BY <1>0, <1>4, <2>1, ConcatProperties
      DEF StreamCompressStore, Append2Tmp
    <2>4. Len(d_tmp_stream') <= STREAM_CHUNK
      BY <1>0, <1>4, <2>1, <2>3, StreamAssumption, LenProperties
      DEF StreamCompressStore, Fits
    <2> QED
      BY <1>4, <2>2, <2>3, <2>4 DEF StreamCompressStore, TypeOK, Byte
  <1>5. ASSUME NEW k \in 1..MaxCall, StreamCompressEnter(k)
        PROVE  TypeInv'
    <2>1. Bytes(k) \in Seq(Byte)
      BY BytesType, StreamAssumption
    <2>2. given' \in Seq(Byte)
      BY <1>0, <1>5, <2>1, ConcatProperties DEF StreamCompressEnter
    <2> QED
      BY <1>5, <2>1, <2>2 DEF StreamCompressEnter, TypeOK, Byte, States
  <1>6. CASE EncodeChunk
    <2>1. /\ Filled \in Seq(Byte) /\ Len(Filled) = STREAM_CHUNK
          /\ Remaining \in Seq(Byte)
      BY <1>6, FilledType DEF EncodeChunk
    <2>2. STREAM_CHUNK \in Nat
      BY StreamAssumption
    <2>3. PICK r \in EncodeOutcomes(d_strm, STREAM_CHUNK, FALSE) :
            LET t == AfterEncode(d_strm, r)
            IN  /\ taken' = taken \o SubSeq(Filled, 1, r.took)
                /\ \E w \in WriteOutcomes(t) :
                      output_stream' = w.stream /\ file' = w.file
                /\ d_total_out' = Account(t)
                /\ d_strm' = Refill(t)
      BY <1>6 DEF EncodeChunk
    <2> DEFINE t == AfterEncode(d_strm, r)
    <2>4. /\ r.took \in 0..STREAM_CHUNK
          /\ t \in [avail_out : 0..CHUNK, total_out : Nat, owed : Nat]
      BY <2>2, <2>3, OutcomeType DEF TypeOK
    <2>5. taken' \in Seq(Byte)
      BY <1>0, <2>1, <2>3, <2>4, Prefix, ConcatProperties
    <2>6. output_stream' \in {"closed", "open", "failed"} /\ file' \in Seq(Nat)
      BY <2>3, <2>4, WriteType
    <2>7. /\ d_total_out' \in Nat
          /\ d_strm' \in [avail_out : 0..CHUNK, total_out : Nat, owed : Nat]
      <3> HIDE DEF t
      <3>1. d_total_out' = Account(t) /\ d_strm' = Refill(t)
        BY <2>3 DEF t
      <3> QED
        BY <2>4, <3>1, AccountType
    <2>8. /\ d_tmp_stream' = <<>> /\ inbuf' = Remaining
          /\ UNCHANGED <<pc, sessions, residue, given>>
      BY <1>6 DEF EncodeChunk
    <2> QED
      BY <1>0, <2>1, <2>2, <2>5, <2>6, <2>7, <2>8 DEF TypeOK, Byte
  <1>7. CASE EncodeChunkError
    BY <1>7, FilledType, StreamAssumption
    DEF EncodeChunkError, TypeOK, Byte, States
  <1>8. CASE LoopExit
    <2>1. /\ d_tmp_stream' \in Seq(Byte)
          /\ Len(d_tmp_stream') = Len(d_tmp_stream) + Len(inbuf)
      BY <1>0, <1>8, ConcatProperties DEF LoopExit, Append2Tmp
    <2>2. Len(d_tmp_stream') <= STREAM_CHUNK
      BY <1>0, <1>8, <2>1, StreamAssumption, LenProperties DEF LoopExit, Fits
    <2> QED
      BY <1>0, <1>8, <2>1, <2>2 DEF LoopExit, TypeOK, Byte, States
  <1>9. CASE StreamCompressFin
    <2>1. Len(d_tmp_stream) \in Nat
      BY <1>0, LenProperties
    <2>2. PICK r \in EncodeOutcomes(d_strm, Len(d_tmp_stream), TRUE) :
            LET t == AfterEncode(d_strm, r)
            IN  /\ taken' = taken \o SubSeq(d_tmp_stream, 1, r.took)
                /\ d_strm' = t
                /\ pc' = IF EncodeEndOK(t) THEN "closed" ELSE "unflushed"
                /\ \E w \in WriteOutcomes(t) :
                      /\ file' = w.file
                      /\ output_stream' = IF EncodeEndOK(t) THEN "closed"
                                          ELSE w.stream
      BY <1>9 DEF StreamCompressFin
    <2> DEFINE t == AfterEncode(d_strm, r)
    <2>3. /\ r.took \in 0..Len(d_tmp_stream)
          /\ t \in [avail_out : 0..CHUNK, total_out : Nat, owed : Nat]
      BY <2>1, <2>2, OutcomeType DEF TypeOK
    <2>4. taken' \in Seq(Byte)
      BY <1>0, <2>2, <2>3, Prefix, ConcatProperties
    <2>5. output_stream' \in {"closed", "open", "failed"} /\ file' \in Seq(Nat)
      BY <2>2, <2>3, WriteType
    <2>6. d_strm' \in [avail_out : 0..CHUNK, total_out : Nat, owed : Nat]
      BY <2>2, <2>3
    <2>7. pc' \in States
      BY <2>2 DEF States
    <2> QED
      BY <1>0, <1>9, <2>4, <2>5, <2>6, <2>7 DEF StreamCompressFin, TypeOK, Byte
  <1>10. CASE StreamCompressFinError
    BY <1>10 DEF StreamCompressFinError, TypeOK, States
  <1>11. CASE UNCHANGED vars
    BY <1>11 DEF vars, TypeOK
  <1> QED
    BY <1>1, <1>2, <1>3, <1>4, <1>5, <1>6, <1>7, <1>8, <1>9, <1>10, <1>11
    DEF Next, StreamCompress, Loop

\* Every variable keeps its type: in particular the room behind next_out never
\* exceeds the buffer d_out, and every count stays a natural number.
THEOREM TypeCorrect == Spec => []TypeOK
  <1>1. TypeInv => TypeOK
    BY DEF TypeInv
  <1> QED
    BY <1>1, TypeInit, TypeStep, PTL DEF Spec

-----------------------------------------------------------------------------
\* The bound on d_tmp_stream is inductive together with the types.
LEMMA BoundStep == TypeInv /\ BufferBounded /\ [Next]_vars => BufferBounded'
  <1> SUFFICES ASSUME TypeInv, BufferBounded, [Next]_vars PROVE BufferBounded'
    OBVIOUS
  <1>0. /\ TypeInv' /\ STREAM_CHUNK \in Nat \ {0} /\ Len(<<>>) = 0
        /\ d_tmp_stream \in Seq(Byte) /\ inbuf \in Seq(Byte)
    BY TypeStep, EmptySeq, StreamAssumption DEF TypeInv, TypeOK, Byte
  <1>1. CASE \/ StreamCompressInit \/ StreamCompressInitNoOutput
             \/ StreamCompressInitNoHeader
    BY <1>0, <1>1
    DEF BufferBounded, TypeInv, StreamCompressInit, StreamCompressInitNoOutput,
        StreamCompressInitNoHeader, Begin
  <1>2. ASSUME NEW k \in 1..MaxCall, StreamCompressStore(k)
        PROVE  BufferBounded'
    <2>1. Bytes(k) \in Seq(Byte) /\ Len(Bytes(k)) = k * SampleBytes
      <3>1. k \in Nat
        BY StreamAssumption
      <3> QED
        BY <3>1, BytesType DEF TypeInv
    <2>2. Len(d_tmp_stream') = Len(d_tmp_stream) + k * SampleBytes
      BY <1>0, <1>2, <2>1, ConcatProperties
      DEF StreamCompressStore, Append2Tmp
    <2>3. Len(d_tmp_stream') < STREAM_CHUNK
      BY <1>2, <2>2 DEF StreamCompressStore, Fits
    <2>4. Len(d_tmp_stream') \in Nat
      BY <1>0, <2>1, <1>2, ConcatProperties, LenProperties
      DEF StreamCompressStore, Append2Tmp
    <2> QED
      BY <1>0, <2>3, <2>4 DEF BufferBounded
  <1>3. ASSUME NEW k \in 1..MaxCall, StreamCompressEnter(k)
        PROVE  BufferBounded'
    BY <1>3 DEF BufferBounded, StreamCompressEnter
  <1>4. CASE EncodeChunk
    BY <1>0, <1>4 DEF EncodeChunk, BufferBounded
  <1>5. CASE LoopExit
    <2>1. Len(d_tmp_stream') = Len(d_tmp_stream) + Len(inbuf)
      BY <1>0, <1>5, ConcatProperties DEF LoopExit, Append2Tmp
    <2>2. Len(d_tmp_stream') < STREAM_CHUNK /\ Len(d_tmp_stream') \in Nat
      BY <1>0, <1>5, <2>1, LenProperties DEF LoopExit, Fits
    <2> QED
      BY <1>0, <2>2 DEF BufferBounded
  <1>6. CASE EncodeChunkError
    BY <1>0, <1>6 DEF EncodeChunkError, BufferBounded, TypeInv
  <1>7. CASE StreamCompressFin
    BY <1>7 DEF StreamCompressFin, BufferBounded, EncodeEndOK
  <1>8. CASE StreamCompressFinError
    BY <1>8 DEF StreamCompressFinError, BufferBounded
  <1>9. CASE UNCHANGED vars
    BY <1>9 DEF vars, BufferBounded
  <1> QED
    BY <1>1, <1>2, <1>3, <1>4, <1>5, <1>6, <1>7, <1>8, <1>9
    DEF Next, StreamCompress, Loop

\* No call writes past the chunk in d_tmp_stream, and no complete chunk is
\* left waiting for a later call, for any chunk, sample and call size and
\* whatever error the coder reports.
THEOREM BufferStaysBounded == Spec => []BufferBounded
  <1>1. Init => BufferBounded
    <2>1. Init => d_tmp_stream = <<>> /\ taken = <<>> /\ residue = <<>>
      BY DEF Init
    <2>2. Len(<<>>) = 0
      BY EmptySeq
    <2> QED
      BY <2>1, <2>2, StreamAssumption DEF BufferBounded
  <1> QED
    BY <1>1, TypeInit, TypeStep, BoundStep, PTL DEF Spec

-----------------------------------------------------------------------------
\* The coder never runs out of room in d_out: it holds, twice over, all that
\* a chunk and what was held back before can become.
RoomForAll == CHUNK > 2 * (Hold + Gain * STREAM_CHUNK) + 1

\* A whole number of samples.
WholeSamples(n) == Multiple(n, SampleBytes)

\* Whole numbers of samples add up and subtract to such.
LEMMA WholeArithmetic ==
    ASSUME NEW m, NEW n, WholeSamples(m), WholeSamples(n)
    PROVE  /\ m \in Nat /\ n \in Nat
           /\ WholeSamples(m + n)
           /\ n <= m => WholeSamples(m - n)
           /\ n <= m /\ m - n < SampleBytes => m = n
  BY CoderAssumption, Multiples DEF WholeSamples

\* The room left behind next_out while a session lasts: the whole buffer, or
\* as much less as one chunk can have put out when that happened to end at
\* d_total_out, the case in which nothing is written and the room not reset.
RoomLeft(s) ==
    /\ s.owed <= Hold
    /\ s.avail_out >= CHUNK - (Hold + Gain * STREAM_CHUNK)
    /\ s.avail_out # CHUNK => s.total_out = d_total_out

\* With that room a call takes all its input and does not fill the buffer.
LEMMA TakesAll ==
    ASSUME RoomForAll,
           NEW s \in [avail_out : 0..CHUNK, total_out : Nat, owed : Nat],
           RoomLeft(s),
           NEW n \in 0..STREAM_CHUNK, WholeSamples(n), NEW flush \in BOOLEAN,
           NEW r \in EncodeOutcomes(s, n, flush)
    PROVE  /\ r.took = n
           /\ ~flush => /\ r.owed <= Hold
                        /\ r.out <= Hold + Gain * STREAM_CHUNK
           /\ flush => r.owed = 0
  <1>1. /\ STREAM_CHUNK \in Nat /\ CHUNK \in Nat /\ Gain \in Nat /\ Hold \in Nat
        /\ SampleBytes \in Nat
    BY StreamAssumption, CoderAssumption
  <1> DEFINE pad == IF flush THEN 1 ELSE 0
  <1>2. /\ r.took \in 0..n /\ r.out \in 0..s.avail_out /\ r.owed \in Nat
        /\ \E q \in 0..n : r.took = q * SampleBytes
        /\ r.out + r.owed <= s.owed + Gain * r.took + pad
        /\ r.out < s.avail_out =>
             /\ n - r.took < SampleBytes
             /\ r.owed <= (IF flush THEN 0 ELSE Hold)
    BY <1>1 DEF EncodeOutcomes
  <1>3. Gain * r.took \in Nat /\ Gain * STREAM_CHUNK \in Nat
        /\ Gain * r.took <= Gain * STREAM_CHUNK
    <2>1. PICK d \in Nat : STREAM_CHUNK = r.took + d
      <3>1. STREAM_CHUNK - r.took \in Nat
            /\ STREAM_CHUNK = r.took + (STREAM_CHUNK - r.took)
        BY <1>1, <1>2
      <3> QED
        BY <3>1
    <2>2. Gain * STREAM_CHUNK = Gain * r.took + Gain * d
      BY <1>1, <1>2, <2>1
    <2>3. Gain * d \in Nat /\ Gain * r.took \in Nat
      BY <1>1, <1>2, <2>1
    <2> QED
      BY <2>2, <2>3
  <1>4. r.out <= Hold + Gain * STREAM_CHUNK + pad
    BY <1>1, <1>2, <1>3 DEF RoomLeft
  <1>5. r.out < s.avail_out
    BY <1>1, <1>2, <1>3, <1>4 DEF RoomForAll, RoomLeft
  <1>6. WholeSamples(r.took)
    BY <1>2 DEF WholeSamples, Multiple
  <1>7. r.took = n
    BY <1>2, <1>5, <1>6, WholeArithmetic
  <1>8. ASSUME ~flush
        PROVE  r.owed <= Hold /\ r.out <= Hold + Gain * STREAM_CHUNK
    <2>1. pad = 0
      BY <1>8
    <2>2. r.owed <= Hold
      BY <1>2, <1>5, <1>8
    <2> HIDE DEF pad
    <2> QED
      BY <1>1, <1>3, <1>4, <2>1, <2>2
  <1>9. flush => r.owed = 0
    BY <1>2, <1>5
  <1> QED
    BY <1>7, <1>8, <1>9

\* The inductive invariant behind DeliveryInOrder.  A chunk is forgotten after
\* the call of the coder, so the order is kept only if the coder took all of
\* it: it must end on a sample (the lengths) and find room for its output.
OrderInv ==
    /\ TypeInv
    /\ DeliveryInOrder
    /\ pc = "ready" => inbuf = <<>>
    /\ WholeSamples(Len(d_tmp_stream)) /\ WholeSamples(Len(inbuf))
    /\ pc \in {"ready", "loop", "failed"} => RoomLeft(d_strm)

\* The invariant behind the order of the input holds of a new object.
LEMMA OrderInit == RoomForAll /\ Init => OrderInv
  <1> SUFFICES ASSUME RoomForAll, Init PROVE OrderInv
    OBVIOUS
  <1>1. TypeInv
    BY TypeInit
  <1>2. Len(<<>>) = 0 /\ 0 = 0 * SampleBytes
    BY EmptySeq, CoderAssumption
  <1>3. <<>> \o (<<>> \o <<>>) = <<>> \o <<>> /\ <<>> \o <<>> = <<>>
    BY EmptySeq, ConcatEmptySeq
  <1>4. WholeSamples(0)
    BY <1>2 DEF WholeSamples, Multiple
  <1> QED
    BY <1>1, <1>2, <1>3, <1>4 DEF Init, OrderInv, DeliveryInOrder, Stored

\* Concatenation of byte sequences is associative.
LEMMA Assoc ==
    \A s, t, u \in Seq(Byte) : (s \o t) \o u = s \o (t \o u)
  BY ConcatAssociative

\* Every step keeps it.
LEMMA OrderStep ==
    ASSUME RoomForAll, WholeSamples(STREAM_CHUNK), OrderInv, [Next]_vars
    PROVE  OrderInv'
  <1>0. /\ TypeInv /\ TypeInv' /\ TypeOK
        /\ DeliveryInOrder /\ (pc = "ready" => inbuf = <<>>)
        /\ Len(<<>>) = 0 /\ <<>> \in Seq(Byte)
        /\ d_tmp_stream \in Seq(Byte) /\ inbuf \in Seq(Byte)
        /\ residue \in Seq(Byte) /\ given \in Seq(Byte)
        /\ taken \in Seq(Byte)
        /\ WholeSamples(0)
        /\ WholeSamples(Len(d_tmp_stream)) /\ WholeSamples(Len(inbuf))
    <2>1. WholeSamples(0)
      <3>1. 0 = 0 * SampleBytes
        BY CoderAssumption
      <3> QED
        BY <3>1 DEF WholeSamples, Multiple
    <2> QED
      BY <2>1, TypeStep, EmptySeq DEF OrderInv, TypeInv, TypeOK, Byte
  <1>1. ASSUME Begin, UNCHANGED d_tmp_stream, pc' \in {"ready", "broken"}
        PROVE  OrderInv'
    <2>1. taken' \o Stored' = residue' \o given'
      <3>1. /\ taken' = <<>> /\ given' = <<>> /\ residue' = d_tmp_stream
            /\ Stored' = d_tmp_stream \o <<>>
        BY <1>1 DEF Begin, Stored
      <3>2. d_tmp_stream \o <<>> = d_tmp_stream
            /\ <<>> \o d_tmp_stream = d_tmp_stream
        BY <1>0, ConcatEmptySeq
      <3> QED
        BY <3>1, <3>2
    <2>2. RoomLeft(d_strm)'
      <3>1. CHUNK \in Nat /\ Hold \in Nat /\ Gain * STREAM_CHUNK \in Nat
        BY StreamAssumption, CoderAssumption
      <3> QED
        BY <1>1, <3>1 DEF Begin, NewStream, RoomLeft
    <2>3. WholeSamples(Len(d_tmp_stream')) /\ WholeSamples(Len(inbuf'))
      BY <1>0, <1>1 DEF Begin
    <2> QED
      BY <1>0, <1>1, <2>1, <2>2, <2>3 DEF OrderInv, DeliveryInOrder, Begin
  <1>2. CASE StreamCompressInit
    BY <1>1, <1>2 DEF StreamCompressInit
  <1>3. CASE StreamCompressInitNoOutput
    BY <1>1, <1>3 DEF StreamCompressInitNoOutput
  <1>4. CASE StreamCompressInitNoHeader
    BY <1>0, <1>4 DEF StreamCompressInitNoHeader, OrderInv, DeliveryInOrder
  <1>5. ASSUME NEW k \in 1..MaxCall,
               StreamCompressStore(k) \/ StreamCompressEnter(k)
        PROVE  OrderInv'
    <2>1. /\ Bytes(k) \in Seq(Byte) /\ Len(Bytes(k)) = k * SampleBytes
          /\ WholeSamples(k * SampleBytes)
      <3>1. k \in Nat
        BY StreamAssumption
      <3> QED
        BY <1>0, <3>1, BytesType DEF WholeSamples, Multiple
    <2>2. pc = "ready" /\ inbuf = <<>>
      BY <1>0, <1>5 DEF StreamCompressStore, StreamCompressEnter
    <2>3. d_tmp_stream' \o inbuf' = d_tmp_stream \o Bytes(k)
      <3>1. d_tmp_stream \o Bytes(k) \in Seq(Byte)
        BY <1>0, <2>1, ConcatProperties
      <3>2. (d_tmp_stream \o Bytes(k)) \o <<>> = d_tmp_stream \o Bytes(k)
        BY <3>1, ConcatEmptySeq
      <3> QED
        BY <1>5, <2>2, <3>2
        DEF StreamCompressStore, StreamCompressEnter, Append2Tmp
    <2>4. taken \o d_tmp_stream = residue \o given
      <3>1. d_tmp_stream \o <<>> = d_tmp_stream
        BY <1>0, ConcatEmptySeq
      <3> QED
        BY <1>0, <2>2, <3>1 DEF DeliveryInOrder, Stored
    <2>5. taken' \o Stored' = residue' \o given'
      <3>1. taken \o (d_tmp_stream \o Bytes(k))
              = (taken \o d_tmp_stream) \o Bytes(k)
        BY <1>0, <2>1, Assoc, ZenonT(60)
      <3>2. residue \o (given \o Bytes(k)) = (residue \o given) \o Bytes(k)
        <4>1. /\ residue \in Seq(Byte) /\ given \in Seq(Byte)
              /\ Bytes(k) \in Seq(Byte)
          BY <1>0, <2>1
        <4> QED
          BY <4>1, Assoc, Zenon
      <3>3. /\ taken' = taken /\ residue' = residue
            /\ given' = given \o Bytes(k) /\ Stored' = d_tmp_stream' \o inbuf'
        BY <1>5, <2>2 DEF StreamCompressStore, StreamCompressEnter, Stored
      <3> QED
        BY <2>3, <2>4, <3>1, <3>2, <3>3
    <2>6. WholeSamples(Len(d_tmp_stream')) /\ WholeSamples(Len(inbuf'))
      <3>1. CASE StreamCompressStore(k)
        <4>1. Len(d_tmp_stream') = Len(d_tmp_stream) + k * SampleBytes
          BY <1>0, <2>1, <3>1, ConcatProperties
          DEF StreamCompressStore, Append2Tmp
        <4> QED
          BY <1>0, <2>1, <3>1, <4>1, WholeArithmetic DEF StreamCompressStore
      <3>2. CASE StreamCompressEnter(k)
        BY <1>0, <2>1, <3>2 DEF StreamCompressEnter
      <3> QED
        BY <1>5, <3>1, <3>2
    <2>7. RoomLeft(d_strm)' /\ (pc' = "ready" => inbuf' = <<>>)
      BY <1>5, <2>2
      DEF StreamCompressStore, StreamCompressEnter, OrderInv, RoomLeft
    <2> QED
      BY <1>0, <2>5, <2>6, <2>7 DEF OrderInv, DeliveryInOrder
  <1>6. CASE EncodeChunk
    <2>1. /\ Filled \in Seq(Byte) /\ Len(Filled) = STREAM_CHUNK
          /\ Remaining \in Seq(Byte)
          /\ Len(Remaining) = Len(inbuf) + Len(d_tmp_stream) - STREAM_CHUNK
          /\ Filled \o Remaining = d_tmp_stream \o inbuf
      BY <1>0, <1>6, FilledType DEF EncodeChunk, TypeInv
    <2>2. STREAM_CHUNK \in 0..STREAM_CHUNK /\ STREAM_CHUNK \in Nat
      BY StreamAssumption
    <2>3. PICK r \in EncodeOutcomes(d_strm, STREAM_CHUNK, FALSE) :
            LET t == AfterEncode(d_strm, r)
            IN  /\ taken' = taken \o SubSeq(Filled, 1, r.took)
                /\ \E w \in WriteOutcomes(t) :
                      output_stream' = w.stream /\ file' = w.file
                /\ d_total_out' = Account(t)
                /\ d_strm' = Refill(t)
      BY <1>6 DEF EncodeChunk
    <2> DEFINE t == AfterEncode(d_strm, r)
    <2>4. /\ d_strm \in [avail_out : 0..CHUNK, total_out : Nat, owed : Nat]
          /\ RoomLeft(d_strm) /\ pc = "loop"
      BY <1>0, <1>6 DEF EncodeChunk, OrderInv, TypeOK
    <2>5. /\ r.took = STREAM_CHUNK /\ r.owed <= Hold
          /\ r.out <= Hold + Gain * STREAM_CHUNK
      BY <2>2, <2>3, <2>4, TakesAll
    <2>6. /\ t \in [avail_out : 0..CHUNK, total_out : Nat, owed : Nat]
          /\ r.out \in 0..d_strm.avail_out
      BY <2>2, <2>3, <2>4, OutcomeType
    <2>7. taken' = taken \o Filled
      BY <2>1, <2>3, <2>5, SubSeqFull
    <2>8. taken' \o Stored' = residue' \o given'
      <3>1. Stored' = <<>> \o Remaining
        BY <1>6, <2>4 DEF EncodeChunk, Stored
      <3>2. <<>> \o Remaining = Remaining
        BY <2>1, ConcatEmptySeq
      <3>3. (taken \o Filled) \o Remaining = taken \o (Filled \o Remaining)
        BY <1>0, <2>1, Assoc, ZenonT(60)
      <3>4. taken \o (d_tmp_stream \o inbuf) = residue \o given
        BY <1>0, <2>4 DEF DeliveryInOrder, Stored
      <3>5. residue' = residue /\ given' = given
        BY <1>6 DEF EncodeChunk
      <3> QED
        BY <2>1, <2>7, <3>1, <3>2, <3>3, <3>4, <3>5
    <2>9. WholeSamples(Len(d_tmp_stream')) /\ WholeSamples(Len(inbuf'))
      <3>1. /\ WholeSamples(Len(inbuf) + Len(d_tmp_stream))
            /\ STREAM_CHUNK <= Len(inbuf) + Len(d_tmp_stream)
        <4>1. Len(inbuf) \in Nat /\ Len(d_tmp_stream) \in Nat
          BY <1>0, LenProperties
        <4>2. WholeSamples(Len(inbuf) + Len(d_tmp_stream))
          BY <1>0, WholeArithmetic
        <4>3. ~(Len(d_tmp_stream) + Len(inbuf) < STREAM_CHUNK)
          BY <1>6 DEF EncodeChunk, Fits
        <4> QED
          BY <2>2, <4>1, <4>2, <4>3
      <3>2. WholeSamples(Len(Remaining))
        BY <2>1, <3>1, WholeArithmetic
      <3> QED
        BY <1>0, <1>6, <3>2 DEF EncodeChunk
    <2>10. RoomLeft(d_strm)'
      <3> HIDE DEF t
      <3>1. d_total_out' = Account(t) /\ d_strm' = Refill(t)
        BY <2>3 DEF t
      <3>2. /\ t.avail_out = d_strm.avail_out - r.out /\ t.owed = r.owed
            /\ t.total_out = d_strm.total_out + r.out
        BY DEF t, AfterEncode
      <3>3. /\ CHUNK \in Nat /\ Hold \in Nat /\ Gain * STREAM_CHUNK \in Nat
            /\ d_total_out \in Nat
        BY <1>0, StreamAssumption, CoderAssumption DEF TypeOK
      <3>4. /\ d_strm'.total_out = d_total_out' /\ d_strm'.owed <= Hold
        BY <1>0, <2>5, <2>6, <3>1, <3>2, AccountType
      <3>5. d_strm'.avail_out >= CHUNK - (Hold + Gain * STREAM_CHUNK)
        <4>1. CASE Unwritten(t) # 0
          <5>1. d_strm'.avail_out = CHUNK
            BY <1>0, <2>6, <3>1, <4>1, AccountType
          <5> QED
            BY <3>3, <5>1
        <4>2. CASE Unwritten(t) = 0
          <5>1. /\ d_strm'.avail_out = d_strm.avail_out - r.out
                /\ t.total_out = d_total_out
            BY <1>0, <2>6, <3>1, <3>2, <4>2, AccountType
          <5>2. CASE d_strm.avail_out = CHUNK
            BY <2>4, <2>5, <2>6, <3>3, <5>1, <5>2
          <5>3. CASE d_strm.avail_out # CHUNK
            <6>1. d_strm.total_out = d_total_out
              BY <2>4, <5>3 DEF RoomLeft
            <6>2. r.out = 0
              BY <2>4, <2>6, <3>2, <3>3, <5>1, <6>1
            <6> QED
              BY <2>4, <3>3, <5>1, <6>2 DEF RoomLeft
          <5> QED
            BY <5>2, <5>3
        <4> QED
          BY <4>1, <4>2
      <3> QED
        BY <3>4, <3>5 DEF RoomLeft
    <2> QED
      BY <1>0, <1>6, <2>4, <2>8, <2>9, <2>10
      DEF OrderInv, DeliveryInOrder, EncodeChunk
  <1>7. CASE EncodeChunkError
    <2>1. /\ Len(Filled) = STREAM_CHUNK
          /\ Len(Remaining) = Len(inbuf) + Len(d_tmp_stream) - STREAM_CHUNK
          /\ Filled \o Remaining = d_tmp_stream \o inbuf
      BY <1>0, <1>7, FilledType DEF EncodeChunkError, TypeInv
    <2>2. taken' \o Stored' = residue' \o given'
      BY <1>0, <1>7, <2>1 DEF EncodeChunkError, DeliveryInOrder, Stored
    <2>3. WholeSamples(Len(Remaining))
      <3>1. Len(inbuf) \in Nat /\ Len(d_tmp_stream) \in Nat
        BY <1>0, LenProperties
      <3>2. STREAM_CHUNK <= Len(inbuf) + Len(d_tmp_stream)
        BY <1>7, <3>1, StreamAssumption DEF EncodeChunkError, Fits
      <3>3. WholeSamples(Len(inbuf) + Len(d_tmp_stream))
        BY <1>0, WholeArithmetic
      <3> QED
        BY <2>1, <3>2, <3>3, WholeArithmetic
    <2>4. RoomLeft(d_strm)'
      BY <1>7 DEF EncodeChunkError, OrderInv, RoomLeft
    <2> QED
      BY <1>0, <1>7, <2>1, <2>2, <2>3, <2>4
      DEF EncodeChunkError, OrderInv, DeliveryInOrder
  <1>8. CASE LoopExit
    <2>1. /\ d_tmp_stream \o inbuf \in Seq(Byte)
          /\ Len(d_tmp_stream \o inbuf) = Len(d_tmp_stream) + Len(inbuf)
      BY <1>0, ConcatProperties
    <2>2. (d_tmp_stream \o inbuf) \o <<>> = d_tmp_stream \o inbuf
      BY <2>1, ConcatEmptySeq
    <2>3. taken' \o Stored' = residue' \o given'
      BY <1>0, <1>8, <2>2 DEF LoopExit, DeliveryInOrder, Stored, Append2Tmp
    <2>4. WholeSamples(Len(d_tmp_stream')) /\ WholeSamples(Len(inbuf'))
      BY <1>0, <1>8, <2>1, WholeArithmetic DEF LoopExit, Append2Tmp
    <2>5. RoomLeft(d_strm)'
      BY <1>8 DEF LoopExit, OrderInv, RoomLeft
    <2> QED
      BY <1>0, <1>8, <2>3, <2>4, <2>5 DEF LoopExit, OrderInv, DeliveryInOrder
  <1>9. CASE StreamCompressFin
    <2>1. PICK r \in EncodeOutcomes(d_strm, Len(d_tmp_stream), TRUE) :
            LET t == AfterEncode(d_strm, r)
            IN  /\ taken' = taken \o SubSeq(d_tmp_stream, 1, r.took)
                /\ pc' = IF EncodeEndOK(t) THEN "closed" ELSE "unflushed"
      BY <1>9 DEF StreamCompressFin
    <2>2. /\ Len(d_tmp_stream) \in 0..STREAM_CHUNK
          /\ d_strm \in [avail_out : 0..CHUNK, total_out : Nat, owed : Nat]
          /\ RoomLeft(d_strm)
      BY <1>0, <1>9, StreamAssumption, LenProperties
      DEF StreamCompressFin, OrderInv, TypeInv, TypeOK
    <2>3. r.took = Len(d_tmp_stream)
      BY <1>0, <2>1, <2>2, TakesAll, ZenonT(60)
    <2>4. taken' = taken \o d_tmp_stream
      BY <1>0, <2>1, <2>3, SubSeqFull
    <2>5. taken' \o Stored' = residue' \o given'
      <3>1. Stored' = inbuf
        BY <1>9, <2>1 DEF StreamCompressFin, Stored
      <3>2. (taken \o d_tmp_stream) \o inbuf = taken \o (d_tmp_stream \o inbuf)
        BY <1>0, Assoc, ZenonT(60)
      <3>3. taken \o (d_tmp_stream \o inbuf) = residue \o given
        BY <1>0, <1>9 DEF StreamCompressFin, DeliveryInOrder, Stored
      <3>4. residue' = residue /\ given' = given
        BY <1>9 DEF StreamCompressFin
      <3> QED
        BY <2>4, <3>1, <3>2, <3>3, <3>4
    <2> QED
      BY <1>0, <1>9, <2>1, <2>5 DEF StreamCompressFin, OrderInv, DeliveryInOrder
  <1>10. CASE StreamCompressFinError
    BY <1>0, <1>10
    DEF StreamCompressFinError, OrderInv, DeliveryInOrder, Stored
  <1>11. CASE UNCHANGED vars
    BY <1>0, <1>11 DEF vars, OrderInv, DeliveryInOrder, Stored, RoomLeft
  <1> QED
    BY <1>2, <1>3, <1>4, <1>5, <1>6, <1>7, <1>8, <1>9, <1>10, <1>11
    DEF Next, StreamCompress, Loop

\* Whatever the sizes of chunk, samples, calls and sessions, and whatever
\* fails: if a chunk is a whole number of samples and the output buffer has
\* room for all that a chunk can become, no byte given to stream_compress is
\* lost, doubled or put out of order on its way to the coder.
THEOREM DeliveryCorrect ==
    ASSUME RoomForAll, WholeSamples(STREAM_CHUNK)
    PROVE  Spec => []DeliveryInOrder
  <1>1. Init => OrderInv
    BY OrderInit
  <1>2. OrderInv /\ [Next]_vars => OrderInv'
    BY OrderStep
  <1>3. OrderInv => DeliveryInOrder
    BY DEF OrderInv
  <1> QED
    BY <1>1, <1>2, <1>3, PTL DEF Spec

-----------------------------------------------------------------------------
\* In the first session the count of the written bytes agrees with the coder's
\* own, and the file holds what has been written.
FileHolds == Holds(file, output_stream = "open", d_strm.total_out)

\* A write that begins where the file ends leaves it with a beginning of what
\* was put out; only a failing disk makes the stream fail.
LEMMA WriteHolds ==
    ASSUME TypeOK, d_total_out = d_strm.total_out, FileHolds,
           NEW t \in [avail_out : 0..CHUNK, total_out : Nat, owed : Nat],
           d_strm.total_out <= t.total_out,
           NEW w \in WriteOutcomes(t)
    PROVE  /\ Holds(w.file, w.stream = "open", t.total_out)
           /\ "write" \notin Faults => w.stream = output_stream
           /\ output_stream # "closed" => w.stream # "closed"
  <1> DEFINE m == d_strm.total_out
             u == Unwritten(t)
  <1>0. m \in Nat /\ t.total_out \in Nat /\ u \in Nat /\ m + u = t.total_out
    BY DEF TypeOK, Unwritten
  <1>1. CASE output_stream # "open" \/ u = 0
    <2>1. w = [stream |-> output_stream, file |-> file]
      BY <1>1 DEF WriteOutcomes
    <2>2. Len(file) \in Nat
      BY LenProperties DEF TypeOK
    <2> QED
      BY <1>0, <1>1, <2>1, <2>2 DEF Holds, FileHolds
  <1>2. CASE output_stream = "open" /\ u # 0
    <2>1. Coded(t) = Run(m, u)
      <3>1. \A i \in 1..u : m + i <= t.total_out
        BY <1>0
      <3> QED
        BY <3>1 DEF Coded, Run
    <2>2. Holds(file, TRUE, m)
      BY <1>2 DEF FileHolds, Holds
    <2>3. \/ w = [stream |-> "open", file |-> file \o Coded(t)]
          \/ /\ "write" \in Faults
             /\ \E k \in 0..u : w = [stream |-> "failed",
                                     file |-> file \o SubSeq(Coded(t), 1, k)]
      <3>1. ~(output_stream # "open" \/ Unwritten(t) = 0) /\ ~(Unwritten(t) < 0)
        BY <1>0, <1>2
      <3>2. w \in {[stream |-> "open", file |-> file \o Coded(t)]}
                  \cup {[stream |-> "failed", file |-> file \o SubSeq(Coded(t), 1, k)] :
                          k \in IF "write" \in Faults
                                THEN 0..(Unwritten(t) - 1) ELSE {}}
        BY <3>1, Zenon DEF WriteOutcomes
      <3>3. \A k \in 0..(Unwritten(t) - 1) : k \in 0..u
        BY <1>0
      <3> QED
        BY <3>2, <3>3, Zenon
    <2> HIDE DEF m, u
    <2>4. /\ Holds(file \o Coded(t), TRUE, t.total_out)
          /\ \A k \in 0..u :
               Holds(file \o SubSeq(Coded(t), 1, k), FALSE, t.total_out)
      BY <1>0, <2>1, <2>2, HoldsMore, Zenon
    <2>5. CASE w = [stream |-> "open", file |-> file \o Coded(t)]
      <3>1. w.stream = "open" /\ w.file = file \o Coded(t)
        BY <2>5
      <3> QED
        BY <1>2, <2>4, <3>1, Zenon
    <2>6. ASSUME NEW k \in 0..u, "write" \in Faults,
                 w = [stream |-> "failed", file |-> file \o SubSeq(Coded(t), 1, k)]
          PROVE  /\ Holds(w.file, w.stream = "open", t.total_out)
                 /\ w.stream = "failed"
      <3>1. /\ (w.stream = "open") = FALSE /\ w.stream = "failed"
            /\ w.file = file \o SubSeq(Coded(t), 1, k)
        BY <2>6
      <3> QED
        BY <2>4, <3>1
    <2> QED
      BY <2>3, <2>5, <2>6
  <1> QED
    BY <1>1, <1>2

\* The inductive invariant behind what the file of the first session holds.
\* Only there does d_total_out begin where the coder does, at 0.
FileInv ==
    /\ TypeInv
    /\ sessions = 0 =>
         d_total_out = 0 /\ output_stream = "closed" /\ pc \in {"closed", "crashed"}
    /\ sessions = 1 =>
         /\ FileHolds
         /\ pc \in {"ready", "loop", "failed"} =>
              d_total_out = d_strm.total_out /\ output_stream # "closed"
         /\ "write" \notin Faults =>
              /\ output_stream # "failed"
              /\ pc = "closed" =>
                   Holds(file, TRUE, d_strm.total_out) /\ d_strm.owed = 0

\* The invariant behind the output file holds of a new object.
LEMMA FileInit == Init => FileInv
  BY TypeInit DEF Init, FileInv

\* Every step keeps it.
LEMMA FileStep ==
    ASSUME FileInv, [Next]_vars
    PROVE  FileInv'
  <1>0. /\ TypeInv /\ TypeInv' /\ TypeOK /\ sessions \in Nat
        /\ d_strm \in [avail_out : 0..CHUNK, total_out : Nat, owed : Nat]
        /\ d_strm.total_out \in Nat
    BY TypeStep DEF FileInv, TypeInv, TypeOK
  <1>1. ASSUME Begin, UNCHANGED d_total_out,
               \/ output_stream' = Opened
               \/ pc' = "broken" /\ UNCHANGED output_stream,
               pc' \in {"ready", "broken"}
        PROVE  FileInv'
    <2>1. sessions' # 0 /\ (sessions' = 1 => sessions = 0)
      BY <1>0, <1>1 DEF Begin
    <2>2. CASE sessions = 0
      <3>1. <<>> = Run(0, 0) /\ Len(<<>>) = 0
        BY EmptySeq DEF Run
      <3>2. FileHolds' /\ d_strm'.total_out = 0
        BY <1>1, <3>1 DEF Begin, NewStream, FileHolds, Holds
      <3>3. /\ d_total_out' = 0 /\ output_stream' \in {"open", "closed"}
            /\ pc' = "ready" => output_stream' = "open"
        BY <1>1, <2>2 DEF Opened, FileInv
      <3> QED
        BY <1>0, <1>1, <2>1, <3>2, <3>3 DEF FileInv
    <2> QED
      BY <1>0, <2>1, <2>2 DEF FileInv
  <1>2. CASE StreamCompressInit
    BY <1>1, <1>2 DEF StreamCompressInit
  <1>3. CASE StreamCompressInitNoOutput
    BY <1>1, <1>3 DEF StreamCompressInitNoOutput
  <1>4. CASE StreamCompressInitNoHeader
    BY <1>0, <1>4 DEF StreamCompressInitNoHeader, FileInv, FileHolds
  <1>5. ASSUME NEW k \in 1..MaxCall,
               StreamCompressStore(k) \/ StreamCompressEnter(k)
        PROVE  FileInv'
    BY <1>0, <1>5
    DEF StreamCompressStore, StreamCompressEnter, FileInv, FileHolds
  <1>6. CASE EncodeChunk
    <2>1. PICK r \in EncodeOutcomes(d_strm, STREAM_CHUNK, FALSE) :
            LET t == AfterEncode(d_strm, r)
            IN  /\ \E w \in WriteOutcomes(t) :
                      output_stream' = w.stream /\ file' = w.file
                /\ d_total_out' = Account(t)
                /\ d_strm' = Refill(t)
      BY <1>6 DEF EncodeChunk
    <2> DEFINE t == AfterEncode(d_strm, r)
    <2>2. /\ t \in [avail_out : 0..CHUNK, total_out : Nat, owed : Nat]
          /\ r.out \in 0..d_strm.avail_out
      BY <1>0, <2>1, OutcomeType, StreamAssumption
    <2>3. d_strm.total_out <= t.total_out
      <3>1. t.total_out = d_strm.total_out + r.out
        BY DEF AfterEncode
      <3>2. d_strm.avail_out \in Nat
        BY <1>0, StreamAssumption
      <3> QED
        BY <1>0, <2>2, <3>1, <3>2
    <2>4. PICK w \in WriteOutcomes(t) : output_stream' = w.stream /\ file' = w.file
      BY <2>1
    <2>5. d_total_out' = Account(t) /\ d_strm' = Refill(t)
      BY <2>1
    <2> HIDE DEF t
    <2>6. d_strm'.total_out = t.total_out /\ d_total_out' = t.total_out
      BY <1>0, <2>2, <2>5, AccountType
    <2>7. ASSUME sessions = 1
          PROVE  /\ FileHolds' /\ output_stream' # "closed"
                 /\ "write" \notin Faults => output_stream' # "failed"
      <3>1. /\ d_total_out = d_strm.total_out /\ FileHolds
            /\ output_stream # "closed"
            /\ "write" \notin Faults => output_stream # "failed"
        BY <1>6, <2>7 DEF EncodeChunk, FileInv
      <3>2. /\ Holds(w.file, w.stream = "open", t.total_out)
            /\ "write" \notin Faults => w.stream = output_stream
            /\ w.stream # "closed"
        BY <1>0, <2>2, <2>3, <3>1, WriteHolds
      <3> QED
        BY <2>4, <2>6, <3>1, <3>2 DEF FileHolds
    <2> QED
      BY <1>0, <1>6, <2>6, <2>7 DEF EncodeChunk, FileInv
  <1>7. CASE EncodeChunkError
    BY <1>0, <1>7 DEF EncodeChunkError, FileInv, FileHolds
  <1>8. CASE LoopExit
    BY <1>0, <1>8 DEF LoopExit, FileInv, FileHolds
  <1>9. CASE StreamCompressFin
    <2>0. Len(d_tmp_stream) \in Nat
      BY <1>0, LenProperties DEF TypeOK
    <2>1. PICK r \in EncodeOutcomes(d_strm, Len(d_tmp_stream), TRUE) :
            LET t == AfterEncode(d_strm, r)
            IN  /\ d_strm' = t
                /\ pc' = IF EncodeEndOK(t) THEN "closed" ELSE "unflushed"
                /\ \E w \in WriteOutcomes(t) :
                      /\ file' = w.file
                      /\ output_stream' = IF EncodeEndOK(t) THEN "closed"
                                          ELSE w.stream
      BY <1>9 DEF StreamCompressFin
    <2> DEFINE t == AfterEncode(d_strm, r)
    <2>2. /\ t \in [avail_out : 0..CHUNK, total_out : Nat, owed : Nat]
          /\ r.out \in 0..d_strm.avail_out
      BY <1>0, <2>0, <2>1, OutcomeType
    <2>3. d_strm.total_out <= t.total_out
      <3>1. t.total_out = d_strm.total_out + r.out
        BY DEF AfterEncode
      <3>2. d_strm.avail_out \in Nat
        BY <1>0, StreamAssumption
      <3> QED
        BY <1>0, <2>2, <3>1, <3>2
    <2>4. PICK w \in WriteOutcomes(t) :
            /\ file' = w.file
            /\ output_stream' = IF EncodeEndOK(t) THEN "closed" ELSE w.stream
      BY <2>1
    <2>5. /\ d_strm' = t
          /\ pc' = IF EncodeEndOK(t) THEN "closed" ELSE "unflushed"
      BY <2>1
    <2> HIDE DEF t
    <2>6. ASSUME sessions = 1
          PROVE  /\ FileHolds'
                 /\ "write" \notin Faults =>
                      /\ output_stream' # "failed"
                      /\ Holds(file', TRUE, d_strm'.total_out)
      <3>1. /\ d_total_out = d_strm.total_out /\ FileHolds
            /\ output_stream # "closed"
            /\ "write" \notin Faults => output_stream # "failed"
        BY <1>9, <2>6 DEF StreamCompressFin, FileInv
      <3>2. /\ Holds(w.file, w.stream = "open", t.total_out)
            /\ "write" \notin Faults => w.stream = output_stream
        BY <1>0, <2>2, <2>3, <3>1, WriteHolds
      <3>3. output_stream \in {"closed", "open", "failed"}
        BY <1>0 DEF TypeOK
      <3> QED
        BY <2>4, <2>5, <3>1, <3>2, <3>3 DEF FileHolds, Holds
    <2> QED
      BY <1>0, <1>9, <2>5, <2>6 DEF StreamCompressFin, FileInv, EncodeEndOK
  <1>10. CASE StreamCompressFinError
    BY <1>0, <1>10 DEF StreamCompressFinError, FileInv, FileHolds
  <1>11. CASE UNCHANGED vars
    BY <1>0, <1>11 DEF vars, FileInv, FileHolds
  <1> QED
    BY <1>2, <1>3, <1>4, <1>5, <1>6, <1>7, <1>8, <1>9, <1>10, <1>11
    DEF Next, StreamCompress, Loop

\* The run from place 1 on is the numbering of coded bytes.
LEMMA HeldIsIota ==
    ASSUME NEW n \in Nat
    PROVE  Run(0, n) = Iota(n)
  BY DEF Run, Iota

\* Whatever fails, and however small the buffers: the file of the first session
\* never holds a gap, a byte twice or a stale byte of d_out.
THEOREM WrittenCorrect == Spec => []WrittenIsPrefix
  <1>1. FileInv => WrittenIsPrefix
    <2> SUFFICES ASSUME FileInv, sessions = 1
                 PROVE  file = Iota(Len(file)) /\ Len(file) <= d_strm.total_out
      BY DEF WrittenIsPrefix
    <2>1. Len(file) \in Nat
      BY LenProperties DEF FileInv, TypeInv, TypeOK
    <2> QED
      BY <2>1, HeldIsIota DEF FileInv, FileHolds, Holds
  <1> QED
    BY <1>1, FileInit, FileStep, PTL DEF Spec

\* Unless the disk fails, a first session that ends with 0 has the whole output
\* of the coder in the file, whatever sizes of buffers, chunks and calls.
THEOREM OutputCorrect ==
    ASSUME "write" \notin Faults
    PROVE  Spec => []OutputComplete
  <1>1. FileInv => OutputComplete
    <2> SUFFICES ASSUME FileInv, sessions = 1, pc = "closed"
                 PROVE  file = Iota(d_strm.total_out) /\ d_strm.owed = 0
      BY DEF OutputComplete
    <2>1. d_strm.total_out \in Nat
      BY DEF FileInv, TypeInv, TypeOK
    <2>2. Holds(file, TRUE, d_strm.total_out) /\ d_strm.owed = 0
      BY DEF FileInv
    <2> QED
      BY <2>1, <2>2, HeldIsIota DEF Holds
  <1> QED
    BY <1>1, FileInit, FileStep, PTL DEF Spec

-----------------------------------------------------------------------------
\* What holds in the first session without faults.  Only there is the store
\* empty when the session begins, as ChunkedDelivery has it.
RefineInv ==
    /\ OrderInv
    /\ pc \in {"closed", "ready", "loop"}
    /\ pc = "closed" => inbuf = <<>>
    /\ sessions <= MaxSessions
    /\ sessions = 0 => pc = "closed" /\ d_tmp_stream = <<>>
    /\ Len(given) <= MaxBytes

\* It holds of a new object.
LEMMA RefineInit ==
    ASSUME RoomForAll, Init
    PROVE  RefineInv
  <1>1. OrderInv
    BY OrderInit
  <1>2. Len(<<>>) = 0
    BY EmptySeq
  <1> QED
    BY <1>1, <1>2, StreamAssumption DEF RefineInv, Init

\* Without faults a flush leaves nothing owed, so the coder ends without error.
LEMMA FinCloses ==
    ASSUME RoomForAll, OrderInv, StreamCompressFin
    PROVE  pc' = "closed" /\ taken' = taken \o d_tmp_stream
  <1>1. PICK r \in EncodeOutcomes(d_strm, Len(d_tmp_stream), TRUE) :
          LET t == AfterEncode(d_strm, r)
          IN  /\ taken' = taken \o SubSeq(d_tmp_stream, 1, r.took)
              /\ pc' = IF EncodeEndOK(t) THEN "closed" ELSE "unflushed"
    BY DEF StreamCompressFin
  <1>2. /\ Len(d_tmp_stream) \in 0..STREAM_CHUNK
        /\ d_strm \in [avail_out : 0..CHUNK, total_out : Nat, owed : Nat]
        /\ RoomLeft(d_strm) /\ WholeSamples(Len(d_tmp_stream))
        /\ d_tmp_stream \in Seq(Byte)
    BY StreamAssumption, LenProperties
    DEF StreamCompressFin, OrderInv, TypeInv, TypeOK, Byte
  <1>3. r.took = Len(d_tmp_stream) /\ r.owed = 0
    BY <1>1, <1>2, TakesAll
  <1>4. pc' = "closed"
    BY <1>1, <1>3 DEF EncodeEndOK, AfterEncode
  <1> QED
    BY <1>1, <1>2, <1>3, <1>4, SubSeqFull

\* Every step keeps it.
LEMMA RefineStep ==
    ASSUME RoomForAll, WholeSamples(STREAM_CHUNK), Faults = {},
           RefineInv, [Next]_vars
    PROVE  RefineInv'
  <1>0. /\ OrderInv /\ OrderInv' /\ Len(<<>>) = 0
        /\ given \in Seq(Byte) /\ sessions \in Nat /\ MaxBytes \in Nat
        /\ MaxCall \in Nat /\ TypeOK
    <2>1. OrderInv
      BY DEF RefineInv
    <2>2. OrderInv'
      BY <2>1, OrderStep
    <2> QED
      BY <2>1, <2>2, EmptySeq, StreamAssumption
      DEF OrderInv, TypeInv, TypeOK, Byte
  <1>1. CASE StreamCompressInit
    <2>1. /\ pc' = "ready" /\ given' = <<>> /\ sessions' = sessions + 1
          /\ sessions < MaxSessions
      BY <1>1 DEF StreamCompressInit, Begin, MayInit
    <2> QED
      BY <1>0, <2>1, StreamAssumption DEF RefineInv
  <1>2. ASSUME NEW k \in 1..MaxCall, Len(given) + k * SampleBytes <= MaxBytes,
               StreamCompressStore(k) \/ StreamCompressEnter(k)
        PROVE  RefineInv'
    <2>1. /\ given' = given \o Bytes(k) /\ UNCHANGED sessions
          /\ pc = "ready" /\ pc' \in {"ready", "loop"}
      BY <1>2 DEF StreamCompressStore, StreamCompressEnter
    <2>2. Bytes(k) \in Seq(Byte) /\ Len(Bytes(k)) = k * SampleBytes
      <3>1. k \in Nat /\ TypeOK
        BY <1>0
      <3> QED
        BY <3>1, BytesType
    <2>3. Len(given') = Len(given) + k * SampleBytes
      <3>1. given \in Seq(Byte)
        BY <1>0
      <3>2. Len(given \o Bytes(k)) = Len(given) + Len(Bytes(k))
        BY <2>2, <3>1, ConcatProperties
      <3> QED
        BY <2>1, <2>2, <3>2
    <2> QED
      BY <1>0, <1>2, <2>1, <2>3 DEF RefineInv
  <1>3. CASE EncodeChunk
    BY <1>0, <1>3 DEF EncodeChunk, RefineInv
  <1>4. CASE LoopExit
    BY <1>0, <1>4 DEF LoopExit, RefineInv
  <1>5. CASE StreamCompressFin
    <2>1. pc' = "closed" /\ pc = "ready" /\ inbuf' = inbuf /\ inbuf = <<>>
          /\ UNCHANGED <<sessions, given>>
      BY <1>0, <1>5, FinCloses DEF StreamCompressFin, RefineInv, OrderInv
    <2> QED
      BY <1>0, <2>1 DEF RefineInv
  <1>6. ~StreamCompressInitNoOutput /\ ~StreamCompressInitNoHeader
        /\ ~EncodeChunkError /\ ~StreamCompressFinError
    BY DEF StreamCompressInitNoOutput, StreamCompressInitNoHeader,
           EncodeChunkError, StreamCompressFinError
  <1>7. CASE UNCHANGED vars
    BY <1>0, <1>7 DEF vars, RefineInv
  <1> QED
    BY <1>1, <1>2, <1>3, <1>4, <1>5, <1>6, <1>7
    DEF Next, StreamCompress, Loop

\* What ChunkedDelivery sees of the object.
LEMMA PhaseIs ==
    /\ pc = "ready" => Phase = "open"
    /\ pc = "loop" => Phase = "giving"
    /\ pc = "closed" => Phase = "closed"
  BY DEF Phase

\* The bytes of a call are one of the sequences a call may bring.
LEMMA BytesAreCall ==
    ASSUME RefineInv, pc # "closed", NEW k \in 1..MaxCall,
           Len(given) + k * SampleBytes <= MaxBytes
    PROVE  Bytes(k) \in CallBytes
  <1>1. /\ sessions \in Nat /\ sessions # 0 /\ sessions <= MaxSessions
        /\ Len(given) \in Nat /\ Len(given) <= MaxBytes
        /\ MaxSessions \in Nat /\ MaxBytes \in Nat /\ k \in Nat
    BY StreamAssumption, LenProperties DEF RefineInv, OrderInv, TypeInv, TypeOK
  <1>2. k * SampleBytes \in 1..MaxBytes
    <2>1. PICK d \in Nat : k = 1 + d
      <3>1. k - 1 \in Nat /\ k = 1 + (k - 1)
        BY <1>1
      <3> QED
        BY <3>1
    <2>2. SampleBytes \in Nat /\ SampleBytes >= 1 /\ d * SampleBytes \in Nat
      BY CoderAssumption
    <2>3. k * SampleBytes = SampleBytes + d * SampleBytes
      BY <2>1, <2>2
    <2> HIDE DEF RefineInv
    <2>4. k * SampleBytes \in Nat /\ k * SampleBytes >= 1
      BY <2>2, <2>3
    <2> QED
      BY <1>1, <2>4
  <1>3. sessions \in 1..MaxSessions /\ Len(given) \in 0..MaxBytes
    BY <1>1
  <1>4. Bytes(k) = [i \in 1..(k * SampleBytes) |-> <<sessions, Len(given) + i>>]
    BY DEF Bytes
  <1> QED
    BY <1>2, <1>3, <1>4, SMT DEF CallBytes

\* Every step of the object is a step of ChunkedDelivery, or none.
LEMMA Simulation ==
    ASSUME RoomForAll, WholeSamples(STREAM_CHUNK), Faults = {}, MaxSessions <= 1,
           RefineInv, [Next]_vars
    PROVE  [Delivery!DNext]_(Delivery!dvars)
  <1>0. /\ RefineInv' /\ OrderInv /\ TypeInv /\ TypeOK /\ Len(<<>>) = 0
        /\ d_tmp_stream \in Seq(Byte) /\ inbuf \in Seq(Byte)
        /\ <<>> \o <<>> = <<>>
        /\ pc \in {"closed", "ready", "loop"}
    BY RefineStep, EmptySeq, ConcatEmptySeq
    DEF RefineInv, OrderInv, TypeInv, TypeOK, Byte
  <1>1. CASE StreamCompressInit
    <2>1. /\ pc = "closed" /\ sessions = 0
      BY <1>0, <1>1, StreamAssumption
      DEF StreamCompressInit, MayInit, RefineInv, TypeOK
    <2>2. /\ pc' = "ready" /\ taken' = <<>> /\ inbuf' = <<>>
          /\ d_tmp_stream' = <<>>
      BY <1>1, <2>1 DEF StreamCompressInit, Begin, RefineInv
    <2>3. Stored' = <<>>
      BY <1>0, <2>2 DEF Stored
    <2>4. Phase = "closed" /\ Phase' = "open"
      BY <2>1, <2>2 DEF Phase
    <2> QED
      BY <2>2, <2>3, <2>4 DEF Delivery!DNext, Delivery!Open
  <1>2. ASSUME NEW k \in 1..MaxCall, Len(given) + k * SampleBytes <= MaxBytes,
               StreamCompressStore(k) \/ StreamCompressEnter(k)
        PROVE  Delivery!Give
    <2>1. /\ pc = "ready" /\ inbuf = <<>> /\ taken' = taken
      BY <1>0, <1>2
      DEF StreamCompressStore, StreamCompressEnter, OrderInv
    <2>2. Bytes(k) \in Seq(Byte) /\ Len(Bytes(k)) = k * SampleBytes
          /\ k * SampleBytes \in Nat
      <3>1. k \in Nat
        BY StreamAssumption
      <3> QED
        BY <1>0, <3>1, BytesType
    <2>3. d_tmp_stream \o Bytes(k) \in Seq(Byte)
          /\ Len(d_tmp_stream \o Bytes(k)) = Len(d_tmp_stream) + k * SampleBytes
      <3>1. /\ d_tmp_stream \o Bytes(k) \in Seq(Byte)
            /\ Len(d_tmp_stream \o Bytes(k))
                 = Len(d_tmp_stream) + Len(Bytes(k))
        BY <1>0, <2>2, ConcatProperties
      <3> QED
        BY <2>2, <3>1
    <2>4. Stored = d_tmp_stream /\ Stored' = d_tmp_stream \o Bytes(k)
      <3>1. /\ d_tmp_stream \o <<>> = d_tmp_stream
            /\ (d_tmp_stream \o Bytes(k)) \o <<>> = d_tmp_stream \o Bytes(k)
        BY <1>0, <2>3, ConcatEmptySeq
      <3>2. Stored = d_tmp_stream
        BY <2>1, <3>1 DEF Stored
      <3>3. Stored' = d_tmp_stream \o Bytes(k)
        BY <1>2, <2>1, <3>1
        DEF StreamCompressStore, StreamCompressEnter, Stored, Append2Tmp
      <3> QED
        BY <3>2, <3>3
    <2>5. Phase' = IF Len(Stored') < STREAM_CHUNK THEN "open" ELSE "giving"
      <3>1. CASE StreamCompressStore(k)
        BY <2>2, <2>3, <2>4, <3>1 DEF StreamCompressStore, Fits, Phase
      <3>2. CASE StreamCompressEnter(k)
        BY <2>2, <2>3, <2>4, <3>2 DEF StreamCompressEnter, Fits, Phase
      <3> QED
        BY <1>2, <3>1, <3>2
    <2>6. Bytes(k) \in CallBytes
      BY <1>2, <2>1, BytesAreCall
    <2>7. Phase = "open"
      BY <2>1, PhaseIs
    <2> QED
      BY <2>1, <2>4, <2>5, <2>6, <2>7, Zenon DEF Delivery!Give
  <1>3. CASE EncodeChunk
    <2>1. /\ Filled \in Seq(Byte) /\ Len(Filled) = STREAM_CHUNK
          /\ Remaining \in Seq(Byte)
          /\ Len(Remaining) = Len(inbuf) + Len(d_tmp_stream) - STREAM_CHUNK
          /\ Filled \o Remaining = d_tmp_stream \o inbuf
      BY <1>0, <1>3, FilledType DEF EncodeChunk, TypeInv
    <2>2. PICK r \in EncodeOutcomes(d_strm, STREAM_CHUNK, FALSE) :
            taken' = taken \o SubSeq(Filled, 1, r.took)
      BY <1>3 DEF EncodeChunk
    <2>3. r.took = STREAM_CHUNK
      <3>1. /\ d_strm \in [avail_out : 0..CHUNK, total_out : Nat, owed : Nat]
            /\ RoomLeft(d_strm) /\ STREAM_CHUNK \in 0..STREAM_CHUNK
        BY <1>0, <1>3, StreamAssumption DEF EncodeChunk, OrderInv, TypeOK
      <3> QED
        BY <2>2, <3>1, TakesAll
    <2>4. taken' = taken \o Filled
      BY <2>1, <2>2, <2>3, SubSeqFull
    <2>5. pc = "loop" /\ pc' = "loop" /\ Stored = Filled \o Remaining
          /\ Stored' = Remaining
      <3>1. <<>> \o Remaining = Remaining
        BY <2>1, ConcatEmptySeq
      <3> QED
        BY <1>3, <2>1, <3>1 DEF EncodeChunk, Stored
    <2>6. /\ Len(Stored) >= STREAM_CHUNK
          /\ Filled = SubSeq(Stored, 1, STREAM_CHUNK)
          /\ Remaining = SubSeq(Stored, STREAM_CHUNK + 1, Len(Stored))
      BY <2>1, <2>5, SplitAt, SMTT(60), ZenonT(60)
    <2>7. Phase = "giving" /\ Phase' = "giving"
      BY <2>5 DEF Phase
    <2> QED
      BY <2>4, <2>5, <2>6, <2>7 DEF Delivery!DNext, Delivery!Deliver
  <1>4. CASE LoopExit
    <2>1. /\ pc = "loop" /\ pc' = "ready" /\ taken' = taken
          /\ Stored = d_tmp_stream \o inbuf /\ Len(Stored) < STREAM_CHUNK
          /\ Stored' = Stored
      <3>1. /\ d_tmp_stream \o inbuf \in Seq(Byte)
            /\ Len(d_tmp_stream \o inbuf) = Len(d_tmp_stream) + Len(inbuf)
        BY <1>0, ConcatProperties
      <3>2. (d_tmp_stream \o inbuf) \o <<>> = d_tmp_stream \o inbuf
        BY <3>1, ConcatEmptySeq
      <3> QED
        BY <1>4, <3>1, <3>2 DEF LoopExit, Fits, Append2Tmp, Stored
    <2>2. Phase = "giving" /\ Phase' = "open"
      BY <2>1 DEF Phase
    <2> QED
      BY <2>1, <2>2 DEF Delivery!DNext, Delivery!Return
  <1>5. CASE StreamCompressFin
    <2>1. /\ pc = "ready" /\ pc' = "closed" /\ taken' = taken \o d_tmp_stream
          /\ inbuf = <<>> /\ inbuf' = <<>>
      BY <1>0, <1>5, FinCloses DEF StreamCompressFin, OrderInv
    <2>2. Stored = d_tmp_stream /\ Stored' = <<>>
      <3>1. d_tmp_stream \o <<>> = d_tmp_stream
        BY <1>0, ConcatEmptySeq
      <3> QED
        BY <2>1, <3>1 DEF Stored
    <2>3. Phase = "open" /\ Phase' = "closed"
      BY <2>1 DEF Phase
    <2> QED
      BY <2>1, <2>2, <2>3 DEF Delivery!DNext, Delivery!Finish
  <1>6. ~StreamCompressInitNoOutput /\ ~StreamCompressInitNoHeader
        /\ ~EncodeChunkError /\ ~StreamCompressFinError
    BY DEF StreamCompressInitNoOutput, StreamCompressInitNoHeader,
           EncodeChunkError, StreamCompressFinError
  <1>7. CASE UNCHANGED vars
    BY <1>7 DEF vars, Delivery!dvars, Phase, Stored
  <1> QED
    BY <1>1, <1>2, <1>3, <1>4, <1>5, <1>6, <1>7
    DEF Next, StreamCompress, Loop, Delivery!DNext

\* In the first session and without faults, stream_compress delivers what it is
\* given as ChunkedDelivery promises: in whole chunks, each as soon as it is
\* complete, with less than a chunk in store between calls and nothing after
\* stream_compress_fin.  That a call also returns is left to the runs.
THEOREM DeliveryRefined ==
    ASSUME RoomForAll, WholeSamples(STREAM_CHUNK), Faults = {}, MaxSessions <= 1
    PROVE  Spec => Delivery!DInit /\ [][Delivery!DNext]_(Delivery!dvars)
  <1>1. Init => RefineInv
    BY RefineInit
  <1>2. RefineInv /\ [Next]_vars => RefineInv'
    BY RefineStep
  <1>3. RefineInv /\ [Next]_vars => [Delivery!DNext]_(Delivery!dvars)
    BY Simulation
  <1>4. Init => Delivery!DInit
    <2>1. Init => Phase = "closed" /\ Stored = <<>> /\ taken = <<>>
      BY DEF Init, Phase, Stored
    <2> QED
      BY <2>1 DEF Delivery!DInit
  <1> QED
    BY <1>1, <1>2, <1>3, <1>4, PTL DEF Spec
=============================================================================
