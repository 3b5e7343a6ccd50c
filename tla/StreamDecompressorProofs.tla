---------------------- MODULE StreamDecompressorProofs ----------------------
(***************************************************************************)
(* Theorems about StreamDecompressor for every value of its constants.     *)
(***************************************************************************)
EXTENDS StreamDecompressor, SequenceFacts

Byte == Nat \X Nat

Strm == [avail_out : 0..CHUNK, total_out : Nat, owed : Nat]

-----------------------------------------------------------------------------
\* What a call of the decoder returns, and the stream after it.
LEMMA OutcomeType ==
    ASSUME NEW s \in Strm, NEW n \in Nat, NEW r \in DecodeOutcomes(s, n)
    PROVE  /\ r.took \in 0..n /\ r.out \in 0..s.avail_out /\ r.owed \in Nat
           /\ AfterDecode(s, r) \in Strm
           /\ AfterDecode(s, r).avail_out = s.avail_out - r.out
           /\ AfterDecode(s, r).total_out = s.total_out + r.out
           /\ AfterDecode(s, r).owed = r.owed
  <1>1. /\ r.took \in 0..n /\ r.out \in 0..s.avail_out
        /\ r.owed \in 0..(s.owed + Expand * n)
    BY DEF DecodeOutcomes, Samples
  <1>2. r.owed \in Nat
    BY <1>1
  <1>3. AfterDecode(s, r) \in Strm
    BY <1>1, <1>2, StreamAssumption DEF AfterDecode, Strm
  <1> QED
    BY <1>1, <1>2, <1>3 DEF AfterDecode

\* It puts out no more than its input and what it owed can become, and with
\* room left for a sample it takes everything and owes nothing.
LEMMA OutcomeBound ==
    ASSUME NEW s, NEW n, NEW r \in DecodeOutcomes(s, n)
    PROVE  /\ r.out + r.owed <= s.owed + Expand * r.took
           /\ s.avail_out - r.out >= SampleBytes => r.took = n /\ r.owed = 0
  BY DEF DecodeOutcomes

\* Whatever is written, the file stays a sequence of numbers.
LEMMA WriteType ==
    ASSUME TypeOK,
           NEW t \in Strm,
           NEW w \in WriteOutcomes(t)
    PROVE  w.stream \in {"closed", "open", "failed"} /\ w.file \in Seq(Nat)
  <1>1. CASE output_stream # "open" \/ Unwritten(t) = 0
    BY <1>1 DEF WriteOutcomes, TypeOK
  <1>2. CASE output_stream = "open" /\ Unwritten(t) < 0
    BY <1>2 DEF WriteOutcomes, TypeOK, Unwritten, Strm
  <1>3. CASE output_stream = "open" /\ Unwritten(t) > 0
    <2>0. t.total_out \in Nat /\ d_total_out \in Nat
      BY DEF TypeOK, Strm
    <2>1. Unwritten(t) \in Nat
      BY <1>3, <2>0 DEF Unwritten
    <2>2. Decoded(t) \in [1..Unwritten(t) -> Nat]
      BY <2>1 DEF Decoded, TypeOK, Strm
    <2>3. Decoded(t) \in Seq(Nat) /\ Len(Decoded(t)) = Unwritten(t)
      BY <2>1, <2>2, SeqOfFunction
    <2>4. ASSUME NEW k \in 0..(Unwritten(t) - 1)
          PROVE  SubSeq(Decoded(t), 1, k) \in Seq(Nat)
      BY <2>1, <2>3, Prefix
    <2>5. file \in Seq(Nat)
      BY DEF TypeOK
    <2>6. \/ w = [stream |-> "open", file |-> file \o Decoded(t)]
          \/ \E k \in 0..(Unwritten(t) - 1) :
               w = [stream |-> "failed", file |-> file \o SubSeq(Decoded(t), 1, k)]
      <3>1. Unwritten(t) # 0 /\ ~(Unwritten(t) < 0) /\ ~(output_stream # "open")
        BY <1>3, <2>1
      <3>2. w \in {[stream |-> "open", file |-> file \o Decoded(t)]}
                  \cup {[stream |-> "failed", file |-> file \o SubSeq(Decoded(t), 1, k)] :
                          k \in IF "write" \in Faults
                                THEN 0..(Unwritten(t) - 1) ELSE {}}
        BY <3>1, Zenon DEF WriteOutcomes
      <3> QED
        BY <3>2, Zenon
    <2>7. CASE w = [stream |-> "open", file |-> file \o Decoded(t)]
      BY <2>7, <2>3, <2>5, ConcatProperties
    <2>8. ASSUME NEW k \in 0..(Unwritten(t) - 1),
                 w = [stream |-> "failed", file |-> file \o SubSeq(Decoded(t), 1, k)]
          PROVE  w.stream \in {"closed", "open", "failed"} /\ w.file \in Seq(Nat)
      <3>1. file \o SubSeq(Decoded(t), 1, k) \in Seq(Nat)
        BY <2>4, <2>5, ConcatProperties
      <3> QED
        BY <2>8, <3>1
    <2> QED
      BY <2>6, <2>7, <2>8
  <1> QED
    BY <1>1, <1>2, <1>3 DEF Unwritten, TypeOK, Strm

\* What the object makes of the stream and of d_total_out after a write.
LEMMA AccountType ==
    ASSUME TypeOK,
           NEW t \in Strm
    PROVE  /\ Account(t) \in Nat
           /\ Refill(t) \in Strm
           /\ Refill(t).total_out = t.total_out /\ Refill(t).owed = t.owed
           /\ Unwritten(t) # 0 =>
                Account(t) = t.total_out /\ Refill(t).avail_out = CHUNK
           /\ Unwritten(t) = 0 => Account(t) = d_total_out /\ Refill(t) = t
           /\ Account(t) = t.total_out
  <1>1. /\ CHUNK \in 0..CHUNK /\ t.total_out \in Nat /\ d_total_out \in Nat
        /\ t = [avail_out |-> t.avail_out, total_out |-> t.total_out,
                owed |-> t.owed]
    BY StreamAssumption DEF TypeOK, Strm
  <1>2. Unwritten(t) = 0 => d_total_out = t.total_out
    BY <1>1 DEF Unwritten
  <1>3. CASE Unwritten(t) = 0
    BY <1>1, <1>2, <1>3 DEF Account, Refill, Strm
  <1>4. CASE Unwritten(t) # 0
    <2>1. /\ Account(t) = t.total_out
          /\ Refill(t) = [t EXCEPT !.avail_out = CHUNK]
      BY <1>4 DEF Account, Refill
    <2> QED
      BY <1>1, <1>4, <2>1 DEF Strm
  <1> QED
    BY <1>3, <1>4

-----------------------------------------------------------------------------
\* The bytes of a call are a sequence of bytes.
LEMMA BytesType ==
    ASSUME TypeOK, NEW n \in Nat
    PROVE  Bytes(n) \in Seq(Byte) /\ Len(Bytes(n)) = n
  <1>1. Len(given) \in Nat /\ sessions \in Nat
    BY LenProperties DEF TypeOK
  <1>2. Bytes(n) \in [1..n -> Byte]
    BY <1>1 DEF Bytes, Byte
  <1> QED
    BY <1>2, SeqOfFunction

\* The chunk completed from inbuf, and what is left of inbuf.
LEMMA FilledType ==
    ASSUME TypeOK, ~Fits(Len(inbuf)), Len(d_tmp_stream) <= STREAM_CHUNK
    PROVE  /\ Filled \in Seq(Byte) /\ Len(Filled) = STREAM_CHUNK
           /\ Remaining \in Seq(Byte)
           /\ Len(Remaining) = Len(inbuf) + Len(d_tmp_stream) - STREAM_CHUNK
           /\ Filled \o Remaining = d_tmp_stream \o inbuf
  <1>1. d_tmp_stream \in Seq(Byte) /\ inbuf \in Seq(Byte)
    BY DEF TypeOK, Byte
  <1>2. Missing \in 0..Len(inbuf) /\ STREAM_CHUNK \in Nat
    BY <1>1, StreamAssumption, LenProperties DEF Missing, Fits
  <1>3. /\ SubSeq(inbuf, 1, Missing) \in Seq(Byte)
        /\ Len(SubSeq(inbuf, 1, Missing)) = Missing
        /\ Remaining \in Seq(Byte) /\ Len(Remaining) = Len(inbuf) - Missing
        /\ SubSeq(inbuf, 1, Missing) \o Remaining = inbuf
    BY <1>1, <1>2, Prefix DEF Remaining
  <1>4. /\ Filled \in Seq(Byte)
        /\ Len(Filled) = Len(d_tmp_stream) + Len(SubSeq(inbuf, 1, Missing))
    BY <1>1, <1>3, ConcatProperties DEF Filled
  <1>5. Filled \o Remaining =
          d_tmp_stream \o (SubSeq(inbuf, 1, Missing) \o Remaining)
    <2> DEFINE head == SubSeq(inbuf, 1, Missing)
    <2>1. d_tmp_stream \in Seq(Byte) /\ head \in Seq(Byte)
          /\ Remaining \in Seq(Byte)
      BY <1>1, <1>3
    <2>2. Filled = d_tmp_stream \o head
      BY DEF Filled
    <2> HIDE DEF head
    <2>3. (d_tmp_stream \o head) \o Remaining
            = d_tmp_stream \o (head \o Remaining)
      BY <2>1, ConcatAssociative, SMTT(60)
    <2> QED
      BY <2>2, <2>3 DEF head
  <1>6. Len(d_tmp_stream) \in Nat /\ Len(inbuf) \in Nat
    BY <1>1, LenProperties
  <1>7. Filled \o Remaining = d_tmp_stream \o inbuf
    BY <1>3, <1>5, Zenon
  <1>8. Len(Filled) = STREAM_CHUNK
    BY <1>2, <1>3, <1>4, <1>6 DEF Missing
  <1>9. Len(Remaining) = Len(inbuf) + Len(d_tmp_stream) - STREAM_CHUNK
    BY <1>2, <1>3, <1>6 DEF Missing
  <1> QED
    BY <1>3, <1>4, <1>7, <1>8, <1>9, Zenon

\* The variables keep their types, and d_tmp_stream never holds more than a
\* chunk.  The two go together: the lengths of the memcpy's are only natural
\* numbers because of the second.
TypeInv == TypeOK /\ Len(d_tmp_stream) <= STREAM_CHUNK

\* The type invariant holds of a new object.
LEMMA TypeInit == Init => TypeInv
  <1> SUFFICES ASSUME Init PROVE TypeInv
    OBVIOUS
  <1>1. <<>> \in Seq(Byte) /\ <<>> \in Seq(Nat) /\ Len(<<>>) = 0
    BY EmptySeq
  <1>2. NewDecoder(CHUNK) \in Strm
    BY StreamAssumption DEF NewDecoder, Strm
  <1>3. input_open \in BOOLEAN
    BY DEF Init
  <1> QED
    BY <1>1, <1>2, <1>3, StreamAssumption
    DEF Init, TypeInv, TypeOK, Byte, Strm, States

\* Every step keeps it.
LEMMA TypeStep ==
    ASSUME TypeInv, [Next]_vars
    PROVE  TypeInv'
  <1>0. /\ <<>> \in Seq(Byte) /\ <<>> \in Seq(Nat) /\ Len(<<>>) = 0
        /\ d_tmp_stream \in Seq(Byte) /\ inbuf \in Seq(Byte)
        /\ residue \in Seq(Byte) /\ given \in Seq(Byte)
        /\ taken \in Seq(Byte) /\ d_strm \in Strm /\ sessions \in Nat
        /\ STREAM_CHUNK \in Nat \ {0} /\ MaxCall \in Nat /\ TypeOK
        /\ Len(d_tmp_stream) <= STREAM_CHUNK /\ Len(d_tmp_stream) \in Nat
        /\ NewDecoder(CHUNK) \in Strm
    <2>1. NewDecoder(CHUNK) \in Strm
      BY StreamAssumption DEF NewDecoder, Strm
    <2> QED
      BY <2>1, EmptySeq, LenProperties, StreamAssumption
      DEF TypeInv, TypeOK, Byte, Strm
  <1>1. ASSUME Begin, pc' \in States, input_open' \in BOOLEAN,
               output_stream' \in {"closed", "open", "failed"},
               mishaps' \subseteq {"room", "write", "decode"}
        PROVE  TypeInv'
    BY <1>0, <1>1 DEF Begin, TypeInv, TypeOK, Byte, Strm
  <1>2. CASE DecompressInit
    BY <1>1, <1>2 DEF DecompressInit, Opened, States
  <1>3. CASE DecompressInitNoFile
    <2>1. input_open' \in BOOLEAN
      BY <1>3 DEF DecompressInitNoFile
    <2> QED
      BY <1>0, <1>1, <1>3, <2>1 DEF DecompressInitNoFile, States, TypeOK
  <1>4. CASE DecompressInitNoHeader
    BY <1>0, <1>4
    DEF DecompressInitNoHeader, TypeInv, TypeOK, States, object, output
  <1>5. ASSUME NEW n \in 1..MaxCall, StreamDecompressStore(n)
        PROVE  TypeInv'
    <2>1. Bytes(n) \in Seq(Byte) /\ Len(Bytes(n)) = n
      BY <1>0, BytesType
    <2>2. given' \in Seq(Byte)
      BY <1>0, <1>5, <2>1, ConcatProperties DEF StreamDecompressStore
    <2>3. /\ d_tmp_stream' \in Seq(Byte)
          /\ Len(d_tmp_stream') = Len(d_tmp_stream) + n
      BY <1>0, <1>5, <2>1, ConcatProperties, SMTT(60),
         ZenonT(60) DEF StreamDecompressStore
    <2>4. Len(d_tmp_stream') <= STREAM_CHUNK
      BY <1>0, <1>5, <2>3 DEF StreamDecompressStore, Fits
    <2> QED
      BY <1>0, <1>5, <2>2, <2>3, <2>4
      DEF StreamDecompressStore, TypeInv, TypeOK, Byte, output
  <1>6. ASSUME NEW n \in 1..MaxCall, StreamDecompressEnter(n)
        PROVE  TypeInv'
    <2>1. Bytes(n) \in Seq(Byte)
      BY <1>0, BytesType
    <2>2. given' \in Seq(Byte)
      BY <1>0, <1>6, <2>1, ConcatProperties DEF StreamDecompressEnter
    <2> QED
      BY <1>0, <1>6, <2>1, <2>2
      DEF StreamDecompressEnter, TypeInv, TypeOK, Byte, States, output
  <1>7. CASE DecodeChunk
    <2>1. /\ Filled \in Seq(Byte) /\ Len(Filled) = STREAM_CHUNK
          /\ Remaining \in Seq(Byte)
      BY <1>0, <1>7, FilledType DEF DecodeChunk
    <2>2. PICK r \in DecodeOutcomes(d_strm, STREAM_CHUNK) :
            LET t == AfterDecode(d_strm, r)
            IN  /\ taken' = taken \o SubSeq(Filled, 1, r.took)
                /\ \E w \in WriteOutcomes(t) :
                      /\ output_stream' = w.stream /\ file' = w.file
                      /\ mishaps' = mishaps \cup Mishaps(t, w.stream)
                /\ d_total_out' = Account(t)
                /\ d_strm' = Refill(t)
      BY <1>7 DEF DecodeChunk
    <2> DEFINE t == AfterDecode(d_strm, r)
    <2>3. r.took \in 0..STREAM_CHUNK /\ t \in Strm
      BY <1>0, <2>2, OutcomeType
    <2>4. taken' \in Seq(Byte)
      BY <1>0, <2>1, <2>2, <2>3, Prefix, ConcatProperties
    <2>5. PICK w \in WriteOutcomes(t) :
            /\ output_stream' = w.stream /\ file' = w.file
            /\ mishaps' = mishaps \cup Mishaps(t, w.stream)
      BY <2>2
    <2>6. d_total_out' = Account(t) /\ d_strm' = Refill(t)
      BY <2>2
    <2> HIDE DEF t
    <2>7. output_stream' \in {"closed", "open", "failed"} /\ file' \in Seq(Nat)
      BY <1>0, <2>3, <2>5, WriteType
    <2>8. mishaps' \subseteq {"room", "write", "decode"}
      BY <1>0, <2>5 DEF Mishaps, TypeOK
    <2>9. d_total_out' \in Nat /\ d_strm' \in Strm
      BY <1>0, <2>3, <2>6, AccountType
    <2>10. /\ d_tmp_stream' = <<>> /\ inbuf' = Remaining
           /\ UNCHANGED <<pc, input_open, sessions, residue, given>>
      BY <1>7 DEF DecodeChunk
    <2> QED
      BY <1>0, <2>1, <2>4, <2>7, <2>8, <2>9, <2>10
      DEF TypeInv, TypeOK, Byte, Strm
  <1>8. CASE DecodeChunkError
    <2>1. /\ Filled \in Seq(Byte) /\ Len(Filled) = STREAM_CHUNK
          /\ Remaining \in Seq(Byte)
      BY <1>0, <1>8, FilledType DEF DecodeChunkError
    <2>2. taken' \in Seq(Byte)
      BY <1>0, <1>8, <2>1, Prefix, ConcatProperties DEF DecodeChunkError
    <2> QED
      BY <1>0, <1>8, <2>1, <2>2, SMTT(60)
      DEF DecodeChunkError, TypeInv, TypeOK, Byte, States, output
  <1>9. CASE LoopExit
    <2>1. /\ d_tmp_stream' \in Seq(Byte)
          /\ Len(d_tmp_stream') = Len(d_tmp_stream) + Len(inbuf)
          /\ Len(inbuf) \in Nat
      BY <1>0, <1>9, ConcatProperties, LenProperties DEF LoopExit
    <2>2. Len(d_tmp_stream') <= STREAM_CHUNK
      BY <1>0, <1>9, <2>1 DEF LoopExit, Fits
    <2> QED
      BY <1>0, <1>9, <2>1, <2>2
      DEF LoopExit, TypeInv, TypeOK, Byte, States, output, history
  <1>10. CASE StreamDecompressFin
    <2>1. PICK r \in DecodeOutcomes(d_strm, Len(d_tmp_stream)) :
            LET t == AfterDecode(d_strm, r)
            IN  /\ taken' = taken \o SubSeq(d_tmp_stream, 1, r.took)
                /\ d_strm' = t
                /\ \E w \in FinWrites(t) :
                      /\ file' = w.file
                      /\ mishaps' = mishaps \cup Mishaps(t, w.stream)
      BY <1>10 DEF StreamDecompressFin
    <2> DEFINE t == AfterDecode(d_strm, r)
    <2>2. r.took \in 0..Len(d_tmp_stream) /\ t \in Strm
      BY <1>0, <2>1, OutcomeType
    <2>3. taken' \in Seq(Byte)
      BY <1>0, <2>1, <2>2, Prefix, ConcatProperties
    <2>4. PICK w \in WriteOutcomes(t) :
            file' = w.file /\ mishaps' = mishaps \cup Mishaps(t, w.stream)
      BY <2>1 DEF FinWrites
    <2>5. d_strm' = t
      BY <2>1
    <2> HIDE DEF t
    <2>6. file' \in Seq(Nat)
      BY <1>0, <2>2, <2>4, WriteType
    <2>7. mishaps' \subseteq {"room", "write", "decode"}
      BY <1>0, <2>4 DEF Mishaps, TypeOK
    <2>8. /\ pc' = "closed" /\ output_stream' = "closed" /\ input_open' = FALSE
          /\ UNCHANGED <<d_tmp_stream, inbuf, d_total_out, sessions, residue, given>>
      BY <1>10 DEF StreamDecompressFin
    <2> QED
      BY <1>0, <2>2, <2>3, <2>5, <2>6, <2>7, <2>8
      DEF TypeInv, TypeOK, Byte, Strm, States
  <1>11. CASE StreamDecompressFinError
    BY <1>0, <1>11
    DEF StreamDecompressFinError, TypeInv, TypeOK, States, object, output, history
  <1>12. CASE UNCHANGED vars
    BY <1>0, <1>12 DEF vars, TypeInv, TypeOK, object, output, history
  <1> QED
    BY <1>2, <1>3, <1>4, <1>5, <1>6, <1>7, <1>8, <1>9, <1>10, <1>11, <1>12
    DEF Next, Start, StreamDecompress, Loop

\* Every variable keeps its type: in particular the room behind next_out never
\* exceeds the buffer d_out, and every count stays a natural number.
THEOREM TypeCorrect == Spec => []TypeOK
  <1>1. TypeInv => TypeOK
    BY DEF TypeInv
  <1> QED
    BY <1>1, TypeInit, TypeStep, PTL DEF Spec

-----------------------------------------------------------------------------
\* The bound on d_tmp_stream is inductive together with the types.
LEMMA BoundStep ==
    ASSUME TypeInv, BufferBounded, [Next]_vars
    PROVE  BufferBounded'
  <1>0. /\ TypeInv' /\ STREAM_CHUNK \in Nat \ {0} /\ Len(<<>>) = 0
        /\ d_tmp_stream \in Seq(Byte) /\ inbuf \in Seq(Byte) /\ TypeOK
        /\ Len(d_tmp_stream) \in Nat /\ Len(inbuf) \in Nat /\ MaxCall \in Nat
    BY TypeStep, EmptySeq, LenProperties, StreamAssumption
    DEF TypeInv, TypeOK, Byte
  <1>1. CASE Start
    BY <1>0, <1>1
    DEF BufferBounded, TypeInv, Start, DecompressInit, DecompressInitNoFile,
        DecompressInitNoHeader, Begin
  <1>2. ASSUME NEW n \in 1..MaxCall, StreamDecompressStore(n)
        PROVE  BufferBounded'
    <2>1. Bytes(n) \in Seq(Byte) /\ Len(Bytes(n)) = n
      BY <1>0, BytesType
    <2>2. Len(d_tmp_stream') = Len(d_tmp_stream) + n
      BY <1>0, <1>2, <2>1, ConcatProperties DEF StreamDecompressStore
    <2>3. Len(d_tmp_stream') < STREAM_CHUNK
      BY <1>2, <2>2 DEF StreamDecompressStore, Fits
    <2> QED
      BY <1>0, <2>2, <2>3 DEF BufferBounded
  <1>3. ASSUME NEW n \in 1..MaxCall, StreamDecompressEnter(n)
        PROVE  BufferBounded'
    BY <1>3 DEF BufferBounded, StreamDecompressEnter
  <1>4. CASE DecodeChunk
    BY <1>0, <1>4 DEF DecodeChunk, BufferBounded
  <1>5. CASE LoopExit
    <2>1. Len(d_tmp_stream') = Len(d_tmp_stream) + Len(inbuf)
      BY <1>0, <1>5, ConcatProperties DEF LoopExit
    <2>2. Len(d_tmp_stream') < STREAM_CHUNK
      BY <1>0, <1>5, <2>1 DEF LoopExit, Fits
    <2> QED
      BY <1>0, <2>1, <2>2 DEF BufferBounded
  <1>6. CASE DecodeChunkError
    BY <1>0, <1>6 DEF DecodeChunkError, BufferBounded, TypeInv
  <1>7. CASE StreamDecompressFin
    BY <1>7 DEF StreamDecompressFin, BufferBounded
  <1>8. CASE StreamDecompressFinError
    BY <1>8 DEF StreamDecompressFinError, BufferBounded, object, history
  <1>9. CASE UNCHANGED vars
    BY <1>9 DEF vars, BufferBounded, object, history
  <1> QED
    BY <1>1, <1>2, <1>3, <1>4, <1>5, <1>6, <1>7, <1>8, <1>9
    DEF Next, StreamDecompress, Loop

\* No call writes past the chunk in d_tmp_stream, and no complete chunk is
\* left waiting for a later call, for any chunk and call size and whatever error
\* the decoder reports.
THEOREM BufferStaysBounded == Spec => []BufferBounded
  <1>1. Init => BufferBounded
    <2>1. Init => d_tmp_stream = <<>> /\ taken = <<>> /\ residue = <<>>
      BY DEF Init
    <2>2. Len(<<>>) = 0
      BY EmptySeq
    <2> QED
      BY <2>1, <2>2, StreamAssumption DEF BufferBounded
  <1> QED
    BY <1>1, TypeInit, TypeStep, BoundStep, PTL DEF Spec

-----------------------------------------------------------------------------
\* Each byte of s was given before the next.
Ordered(s) == \A i, j \in 1..Len(s) : i < j => Before(s[i], s[j])

\* None was given after byte g of session k.
Known(s, k, g) ==
    \A i \in 1..Len(s) : s[i][1] < k \/ (s[i][1] = k /\ s[i][2] <= g)

InOrder(s, k, g) == Ordered(s) /\ Known(s, k, g)

\* Forgetting some bytes leaves the others in order.
LEMMA PartInOrder ==
    ASSUME NEW s \in Seq(Byte), NEW m \in Seq(Byte), NEW t \in Seq(Byte),
           NEW k, NEW g, InOrder(s \o (m \o t), k, g)
    PROVE  InOrder(s \o t, k, g)
  <1> DEFINE u == s \o (m \o t)
             v == s \o t
             a == Len(s)
             n == Len(m)
  <1>1. Embeds(v, u, a, n) /\ Ordered(u) /\ Known(u, k, g)
    BY DropMiddle DEF InOrder
  <1>2. a \in Nat /\ n \in Nat
    BY LenProperties
  <1> HIDE DEF u, v, a, n
  <1>3. ASSUME NEW i \in 1..Len(v), NEW j \in 1..Len(v), i < j
        PROVE  Before(v[i], v[j])
    <2> DEFINE ki == IF i <= a THEN i ELSE i + n
               kj == IF j <= a THEN j ELSE j + n
    <2>1. /\ ki \in 1..Len(u) /\ v[i] = u[ki]
          /\ kj \in 1..Len(u) /\ v[j] = u[kj]
      BY <1>1 DEF Embeds
    <2>2. ki < kj
      BY <1>2, <1>3
    <2> HIDE DEF ki, kj
    <2>3. Before(u[ki], u[kj])
      BY <1>1, <2>1, <2>2 DEF Ordered
    <2> QED
      BY <2>1, <2>3
  <1>4. Known(v, k, g)
    BY <1>1 DEF Embeds, Known
  <1> QED
    BY <1>3, <1>4 DEF InOrder, Ordered, v

\* So does looking at their beginning, or at their end, only.
LEMMA EndsInOrder ==
    ASSUME NEW s \in Seq(Byte), NEW t \in Seq(Byte), NEW k, NEW g,
           InOrder(s \o t, k, g)
    PROVE  InOrder(s, k, g) /\ InOrder(t, k, g)
  <1>1. /\ <<>> \in Seq(Byte) /\ t \o <<>> = t /\ s \o <<>> = s
        /\ <<>> \o (s \o t) = s \o t /\ <<>> \o t = t
    <2>1. s \o t \in Seq(Byte)
      BY ConcatProperties
    <2> QED
      BY <2>1, EmptySeq, ConcatEmptySeq
  <1>2. InOrder(s, k, g)
    <2>1. InOrder(s \o (t \o <<>>), k, g)
      BY <1>1
    <2>2. InOrder(s \o <<>>, k, g)
      BY <1>1, <2>1, PartInOrder
    <2> QED
      BY <1>1, <2>2
  <1>3. InOrder(t, k, g)
    <2>1. InOrder(<<>> \o (s \o t), k, g)
      BY <1>1
    <2>2. InOrder(<<>> \o t, k, g)
      BY <1>1, <2>1, PartInOrder
    <2> QED
      BY <1>1, <2>2
  <1> QED
    BY <1>2, <1>3

\* A later session knows all bytes of the sessions before it.
LEMMA LaterInOrder ==
    ASSUME NEW s \in Seq(Byte), NEW k \in Nat, NEW g, NEW h, InOrder(s, k, g)
    PROVE  InOrder(s, k + 1, h)
  <1>1. ASSUME NEW i \in 1..Len(s) PROVE s[i][1] < k + 1
    <2>1. s[i] \in Byte
      BY <1>1, ElementOfSeq
    <2>2. s[i][1] < k \/ s[i][1] = k
      BY <1>1 DEF InOrder, Known
    <2> QED
      BY <2>1, <2>2 DEF Byte
  <1> QED
    BY <1>1 DEF InOrder, Known

\* The bytes of a call come behind all others.
LEMMA BytesInOrder ==
    ASSUME TypeOK, NEW s \in Seq(Byte), NEW n \in Nat,
           InOrder(s, sessions, Len(given))
    PROVE  InOrder(s \o Bytes(n), sessions, Len(given) + n)
  <1> DEFINE b == Bytes(n)
             g == Len(given)
             u == s \o b
  <1>1. /\ b \in Seq(Byte) /\ Len(b) = n /\ g \in Nat /\ sessions \in Nat
        /\ Len(s) \in Nat
    BY BytesType, LenProperties DEF TypeOK
  <1>2. \A i \in 1..n : b[i] = <<sessions, g + i>>
    BY DEF Bytes
  <1>3. \A i \in 1..Len(s) : s[i] \in Byte
    BY ElementOfSeq
  <1> HIDE DEF b, g
  <1>4. /\ Len(u) = Len(s) + n
        /\ \A i \in 1..(Len(s) + n) :
             u[i] = IF i <= Len(s) THEN s[i] ELSE b[i - Len(s)]
    <2>1. b \in Seq(Byte) /\ Len(b) = n
      BY <1>1
    <2> QED
      BY <2>1, ConcatProperties
  <1>5. Ordered(s) /\ Known(s, sessions, g)
    BY DEF InOrder, g
  <1> HIDE DEF u
  <1>6. ASSUME NEW i \in 1..Len(u), i <= Len(s)
        PROVE  /\ i \in 1..Len(s) /\ u[i] = s[i] /\ u[i] \in Byte
               /\ u[i][1] < sessions \/ (u[i][1] = sessions /\ u[i][2] <= g)
    <2>1. i \in 1..Len(s) /\ i \in 1..(Len(s) + n)
      BY <1>1, <1>4, <1>6
    <2>2. u[i] = s[i]
      BY <1>4, <1>6, <2>1
    <2> QED
      BY <1>3, <1>5, <2>1, <2>2 DEF Known
  <1>7. ASSUME NEW i \in 1..Len(u), ~(i <= Len(s))
        PROVE  i - Len(s) \in 1..n /\ u[i] = <<sessions, g + (i - Len(s))>>
    <2>1. i - Len(s) \in 1..n /\ i \in 1..(Len(s) + n)
      BY <1>1, <1>4, <1>7
    <2>2. u[i] = b[i - Len(s)]
      BY <1>4, <1>7, <2>1
    <2> QED
      BY <1>2, <2>1, <2>2
  <1>8. ASSUME NEW i \in 1..Len(u), NEW j \in 1..Len(u), i < j
        PROVE  Before(u[i], u[j])
    <2>1. CASE j <= Len(s)
      <3>1. i <= Len(s)
        BY <1>1, <1>4, <1>8, <2>1
      <3>2. /\ i \in 1..Len(s) /\ u[i] = s[i]
            /\ j \in 1..Len(s) /\ u[j] = s[j]
        BY <1>6, <2>1, <3>1
      <3> QED
        BY <1>5, <1>8, <3>2 DEF Ordered
    <2>2. CASE i <= Len(s) /\ ~(j <= Len(s))
      <3>1. /\ u[i] \in Byte
            /\ u[i][1] < sessions \/ (u[i][1] = sessions /\ u[i][2] <= g)
        BY <1>6, <2>2
      <3>2. j - Len(s) \in 1..n /\ u[j] = <<sessions, g + (j - Len(s))>>
        BY <1>7, <2>2
      <3>3. u[j][1] = sessions /\ u[j][2] > g /\ u[j][2] \in Nat
        BY <1>1, <3>2
      <3> QED
        BY <1>1, <3>1, <3>3 DEF Before, Byte
    <2>3. CASE ~(i <= Len(s))
      <3>1. ~(j <= Len(s))
        BY <1>1, <1>4, <1>8, <2>3
      <3>2. u[i] = <<sessions, g + (i - Len(s))>>
        BY <1>7, <2>3
      <3>3. u[j] = <<sessions, g + (j - Len(s))>>
        BY <1>7, <3>1
      <3>4. /\ u[i][1] = sessions /\ u[i][2] = g + (i - Len(s))
            /\ u[j][1] = sessions /\ u[j][2] = g + (j - Len(s))
        BY <3>2, <3>3
      <3>5. g + (i - Len(s)) < g + (j - Len(s))
        BY <1>1, <1>4, <1>8
      <3> QED
        BY <3>4, <3>5 DEF Before
    <2> QED
      BY <2>1, <2>2, <2>3
  <1>9. ASSUME NEW i \in 1..Len(u)
        PROVE  u[i][1] < sessions \/ (u[i][1] = sessions /\ u[i][2] <= g + n)
    <2>1. CASE i <= Len(s)
      <3>1. /\ u[i] \in Byte
            /\ u[i][1] < sessions \/ (u[i][1] = sessions /\ u[i][2] <= g)
        BY <1>6, <2>1
      <3> QED
        BY <1>1, <3>1 DEF Byte
    <2>2. CASE ~(i <= Len(s))
      <3>1. i - Len(s) \in 1..n /\ u[i] = <<sessions, g + (i - Len(s))>>
        BY <1>7, <2>2
      <3>2. u[i][1] = sessions /\ u[i][2] <= g + n
        BY <1>1, <3>1
      <3> QED
        BY <3>2
    <2> QED
      BY <2>1, <2>2
  <1>10. InOrder(u, sessions, g + n)
    BY <1>8, <1>9 DEF InOrder, Ordered, Known
  <1> QED
    BY <1>10 DEF u, b, g

\* Concatenation of byte sequences is associative.
LEMMA Assoc ==
    \A s, t, u \in Seq(Byte) : (s \o t) \o u = s \o (t \o u)
  BY ConcatAssociative

\* A call that leaves room for a sample has taken all its input.
LEMMA RoomMeansTaken ==
    ASSUME NEW s \in Strm, NEW n \in Nat, NEW r \in DecodeOutcomes(s, n),
           \E w \in WriteOutcomes(AfterDecode(s, r)) :
               mishaps' = mishaps \cup Mishaps(AfterDecode(s, r), w.stream),
           "room" \notin mishaps'
    PROVE  "room" \notin mishaps /\ r.took = n /\ r.owed = 0
  <1>1. s.avail_out - r.out \in Int /\ SampleBytes \in Nat
    <2>1. r.out \in 0..s.avail_out /\ s.avail_out \in Nat
      BY OutcomeType, StreamAssumption DEF Strm
    <2> QED
      BY <2>1, DecoderAssumption
  <1>2. "room" \notin mishaps /\ ~(AfterDecode(s, r).avail_out < SampleBytes)
    BY DEF Mishaps
  <1>3. s.avail_out - r.out >= SampleBytes
    BY <1>1, <1>2 DEF AfterDecode
  <1> QED
    BY <1>2, <1>3, OutcomeBound

-----------------------------------------------------------------------------
Alive == pc \notin {"thrown", "crashed"}

Waiting == d_tmp_stream \o inbuf

\* What DeliveryInOrder says, and that between the calls nothing is left to read.
Delivered ==
    /\ InOrder(taken \o Stored, sessions, Len(given))
    /\ "room" \in mishaps \/ taken \o Stored = residue \o given
    /\ pc = "loop" \/ inbuf = <<>>

\* The inductive invariant behind DeliveryInOrder.  What waits is in order even
\* where the property says nothing, after an error: the next session begins
\* with it.
OrderInv ==
    /\ TypeInv
    /\ InOrder(Waiting, sessions, Len(given))
    /\ pc \in {"ready", "loop"} => "decode" \notin mishaps
    /\ pc = "failed" => "decode" \in mishaps
    /\ Alive /\ "decode" \notin mishaps => Delivered

\* It holds of a new object.
LEMMA OrderInit == Init => OrderInv
  <1> SUFFICES ASSUME Init PROVE OrderInv
    OBVIOUS
  <1>1. /\ Len(<<>>) = 0 /\ <<>> \o <<>> = <<>>
        /\ <<>> \o (<<>> \o <<>>) = <<>>
    BY EmptySeq, ConcatEmptySeq
  <1>2. InOrder(<<>>, sessions, Len(given))
    BY <1>1 DEF InOrder, Ordered, Known
  <1> QED
    BY <1>1, <1>2, TypeInit DEF Init, OrderInv, Waiting, Delivered, Stored

\* A step that only moves bytes from inbuf into d_tmp_stream keeps it.
LEMMA OrderKept ==
    ASSUME OrderInv, TypeInv', Waiting' = Waiting,
           UNCHANGED <<sessions, residue, given, taken, mishaps>>,
           pc \in {"ready", "loop", "failed"},
           \/ pc' = "ready" /\ pc = "loop" /\ inbuf' = <<>>
           \/ pc' = "broken" /\ UNCHANGED inbuf /\ pc # "loop"
    PROVE  OrderInv'
  <1>1. /\ Stored = Waiting /\ Stored' = Waiting'
    BY DEF Stored, Waiting
  <1>2. /\ TypeInv' /\ InOrder(Waiting', sessions', Len(given'))
        /\ pc' \in {"ready", "loop"} => "decode" \notin mishaps'
        /\ pc' # "failed"
    BY DEF OrderInv
  <1>3. "decode" \notin mishaps' => Delivered'
    BY <1>1 DEF OrderInv, Delivered, Alive
  <1> QED
    BY <1>2, <1>3 DEF OrderInv

\* Every step keeps it.
LEMMA OrderStep ==
    ASSUME OrderInv, [Next]_vars
    PROVE  OrderInv'
  <1>0. /\ TypeInv /\ TypeInv' /\ TypeOK
        /\ Len(<<>>) = 0 /\ <<>> \in Seq(Byte)
        /\ d_tmp_stream \in Seq(Byte) /\ inbuf \in Seq(Byte)
        /\ residue \in Seq(Byte) /\ given \in Seq(Byte)
        /\ taken \in Seq(Byte) /\ sessions \in Nat
        /\ STREAM_CHUNK \in Nat \ {0} /\ MaxCall \in Nat
        /\ Len(d_tmp_stream) <= STREAM_CHUNK /\ d_strm \in Strm
        /\ InOrder(d_tmp_stream \o inbuf, sessions, Len(given))
    BY TypeStep, EmptySeq, StreamAssumption
    DEF OrderInv, TypeInv, TypeOK, Byte, Strm, Waiting
  <1>1. ASSUME Begin, pc' \in {"ready", "broken"}, "decode" \notin mishaps'
        PROVE  OrderInv'
    <2>1. /\ taken' = <<>> /\ given' = <<>> /\ residue' = d_tmp_stream
          /\ inbuf' = <<>> /\ sessions' = sessions + 1
          /\ d_tmp_stream' = d_tmp_stream
      BY <1>1 DEF Begin
    <2>2. d_tmp_stream \o <<>> = d_tmp_stream /\ <<>> \o d_tmp_stream = d_tmp_stream
      BY <1>0, ConcatEmptySeq
    <2>3. /\ Waiting' = d_tmp_stream
          /\ taken' \o Stored' = d_tmp_stream
          /\ residue' \o given' = d_tmp_stream
      BY <1>1, <2>1, <2>2 DEF Waiting, Stored
    <2>4. InOrder(d_tmp_stream, sessions, Len(given))
      BY <1>0, EndsInOrder
    <2>5. InOrder(d_tmp_stream, sessions', Len(given'))
      BY <1>0, <2>1, <2>4, LaterInOrder
    <2>6. Delivered'
      BY <2>1, <2>3, <2>5 DEF Delivered
    <2> QED
      BY <1>0, <1>1, <2>3, <2>5, <2>6 DEF OrderInv
  <1>2. CASE DecompressInit
    BY <1>1, <1>2 DEF DecompressInit
  <1>3. CASE DecompressInitNoFile
    BY <1>1, <1>3 DEF DecompressInitNoFile
  <1>4. CASE DecompressInitNoHeader
    <2>1. /\ pc' \in {"thrown", "crashed"} /\ sessions' = sessions + 1
          /\ Waiting' = Waiting
      BY <1>4 DEF DecompressInitNoHeader, Waiting, object
    <2>2. Waiting \in Seq(Byte)
      BY <1>0, ConcatProperties DEF Waiting
    <2>3. InOrder(Waiting', sessions', Len(given'))
      BY <1>0, <2>1, <2>2, LaterInOrder DEF Waiting
    <2> QED
      BY <1>0, <2>1, <2>3 DEF OrderInv, Alive
  <1>5. ASSUME NEW n \in 1..MaxCall,
               StreamDecompressStore(n) \/ StreamDecompressEnter(n)
        PROVE  OrderInv'
    <2>1. Bytes(n) \in Seq(Byte) /\ Len(Bytes(n)) = n /\ n \in Nat
      BY <1>0, BytesType
    <2>2. pc = "ready" /\ "decode" \notin mishaps /\ inbuf = <<>> /\ Delivered
      BY <1>5
      DEF StreamDecompressStore, StreamDecompressEnter, OrderInv, Alive, Delivered
    <2>3. /\ taken' = taken /\ residue' = residue /\ sessions' = sessions
          /\ mishaps' = mishaps /\ given' = given \o Bytes(n)
          /\ pc' \in {"ready", "loop"} /\ (pc' = "loop" \/ inbuf' = <<>>)
      BY <1>5, <2>2 DEF StreamDecompressStore, StreamDecompressEnter
    <2>4. Len(given') = Len(given) + n
      BY <1>0, <2>1, <2>3, ConcatProperties, SMTT(60), ZenonT(60)
    <2>5. d_tmp_stream \o <<>> = d_tmp_stream
      BY <1>0, ConcatEmptySeq
    <2>6. Waiting' = d_tmp_stream \o Bytes(n)
      <3>1. d_tmp_stream \o Bytes(n) \in Seq(Byte)
        BY <1>0, <2>1, ConcatProperties
      <3>2. (d_tmp_stream \o Bytes(n)) \o <<>> = d_tmp_stream \o Bytes(n)
        BY <3>1, ConcatEmptySeq
      <3> QED
        BY <1>5, <2>2, <3>2
        DEF StreamDecompressStore, StreamDecompressEnter, Waiting
    <2>7. InOrder(Waiting', sessions', Len(given'))
      <3>1. InOrder(d_tmp_stream, sessions, Len(given))
        BY <1>0, <2>2, <2>5
      <3> QED
        BY <1>0, <2>1, <2>3, <2>4, <2>6, <3>1, BytesInOrder
    <2>8. /\ taken \o Stored = taken \o d_tmp_stream
          /\ taken' \o Stored' = (taken \o d_tmp_stream) \o Bytes(n)
      <3>1. taken \o (d_tmp_stream \o Bytes(n)) = (taken \o d_tmp_stream) \o Bytes(n)
        BY <1>0, <2>1, Assoc, ZenonT(60)
      <3>2. pc # "closed" /\ pc' # "closed"
        BY <2>2, <2>3
      <3>3. Stored = d_tmp_stream \o inbuf /\ Stored' = Waiting'
        BY <3>2, Zenon DEF Stored, Waiting
      <3> QED
        BY <2>2, <2>3, <2>5, <2>6, <3>1, <3>3
    <2>9. InOrder(taken' \o Stored', sessions', Len(given'))
      <3>1. taken \o d_tmp_stream \in Seq(Byte)
        BY <1>0, ConcatProperties
      <3>2. InOrder(taken \o d_tmp_stream, sessions, Len(given))
        BY <2>2, <2>8 DEF Delivered
      <3> QED
        BY <1>0, <2>1, <2>3, <2>4, <2>8, <3>1, <3>2, BytesInOrder
    <2>10. "room" \in mishaps' \/ taken' \o Stored' = residue' \o given'
      <3>1. residue \o (given \o Bytes(n)) = (residue \o given) \o Bytes(n)
        BY <1>0, <2>1, Assoc, SMTT(60), ZenonT(60)
      <3>2. "room" \in mishaps \/ taken \o d_tmp_stream = residue \o given
        BY <2>2, <2>8 DEF Delivered
      <3> QED
        BY <2>3, <2>8, <3>1, <3>2
    <2> QED
      BY <1>0, <2>2, <2>3, <2>7, <2>9, <2>10 DEF OrderInv, Delivered
  <1>6. CASE DecodeChunk
    <2>1. /\ Filled \in Seq(Byte) /\ Len(Filled) = STREAM_CHUNK
          /\ Remaining \in Seq(Byte)
          /\ Filled \o Remaining = d_tmp_stream \o inbuf
      BY <1>0, <1>6, FilledType DEF DecodeChunk
    <2>2. /\ pc = "loop" /\ pc' = "loop" /\ d_tmp_stream' = <<>>
          /\ inbuf' = Remaining
          /\ UNCHANGED <<sessions, residue, given>>
      BY <1>6 DEF DecodeChunk
    <2>3. "decode" \notin mishaps /\ Delivered
      BY <2>2 DEF OrderInv, Alive
    <2>4. PICK r \in DecodeOutcomes(d_strm, STREAM_CHUNK) :
            LET t == AfterDecode(d_strm, r)
            IN  /\ taken' = taken \o SubSeq(Filled, 1, r.took)
                /\ \E w \in WriteOutcomes(t) :
                      mishaps' = mishaps \cup Mishaps(t, w.stream)
      BY <1>6 DEF DecodeChunk
    <2>5. r.took \in 0..STREAM_CHUNK
      BY <1>0, <2>4, OutcomeType
    <2>6. "decode" \notin mishaps'
      BY <2>3, <2>4 DEF Mishaps
    <2>7. "room" \notin mishaps' => "room" \notin mishaps /\ r.took = STREAM_CHUNK
      BY <1>0, <2>4, RoomMeansTaken
    <2> DEFINE head == SubSeq(Filled, 1, r.took)
               mid == SubSeq(Filled, r.took + 1, STREAM_CHUNK)
    <2>8. /\ head \in Seq(Byte) /\ mid \in Seq(Byte) /\ head \o mid = Filled
          /\ r.took = STREAM_CHUNK => head = Filled
      BY <2>1, <2>5, Prefix, SubSeqFull
    <2>9. taken' = taken \o head
      BY <2>4
    <2> HIDE DEF head, mid
    <2>10. Waiting' = Remaining /\ Stored' = Remaining
      <3>1. <<>> \o Remaining = Remaining
        BY <2>1, ConcatEmptySeq
      <3> QED
        BY <2>2, <3>1 DEF Waiting, Stored
    <2>11. InOrder(Waiting', sessions', Len(given'))
      <3>1. InOrder(Filled \o Remaining, sessions, Len(given))
        BY <1>0, <2>1
      <3> QED
        BY <2>1, <2>2, <2>10, <3>1, EndsInOrder
    <2>12. /\ taken \o Stored = (taken \o head) \o (mid \o Remaining)
           /\ taken \o Stored = taken \o (Filled \o Remaining)
           /\ taken \o head \in Seq(Byte)
      <3>1. Stored = Filled \o Remaining
        BY <2>1, <2>2 DEF Stored
      <3>2. (head \o mid) \o Remaining = head \o (mid \o Remaining)
        BY <2>1, <2>8, Assoc, ZenonT(60)
      <3>3. mid \o Remaining \in Seq(Byte) /\ taken \o head \in Seq(Byte)
        BY <1>0, <2>1, <2>8, ConcatProperties
      <3>4. (taken \o head) \o (mid \o Remaining)
              = taken \o (head \o (mid \o Remaining))
        BY <1>0, <2>8, <3>3, Assoc, SMTT(60), ZenonT(60)
      <3> QED
        BY <2>8, <3>1, <3>2, <3>3, <3>4
    <2>13. InOrder(taken' \o Stored', sessions', Len(given'))
      <3>1. InOrder((taken \o head) \o (mid \o Remaining), sessions, Len(given))
        BY <2>3, <2>12 DEF Delivered
      <3>2. InOrder((taken \o head) \o Remaining, sessions, Len(given))
        BY <2>1, <2>8, <2>12, <3>1, PartInOrder
      <3> QED
        BY <2>2, <2>9, <2>10, <3>2
    <2>14. "room" \in mishaps' \/ taken' \o Stored' = residue' \o given'
      <3> SUFFICES ASSUME "room" \notin mishaps'
                   PROVE  taken' \o Stored' = residue' \o given'
        OBVIOUS
      <3>1. taken' = taken \o Filled /\ "room" \notin mishaps
        BY <2>7, <2>8, <2>9
      <3>2. (taken \o Filled) \o Remaining = taken \o (Filled \o Remaining)
        BY <1>0, <2>1, Assoc, ZenonT(60)
      <3>3. taken \o (Filled \o Remaining) = residue \o given
        BY <2>3, <2>12, <3>1 DEF Delivered
      <3> QED
        BY <2>2, <2>10, <3>1, <3>2, <3>3
    <2>15. Delivered'
      BY <2>2, <2>13, <2>14 DEF Delivered
    <2> QED
      BY <1>0, <2>2, <2>6, <2>11, <2>15 DEF OrderInv
  <1>7. CASE DecodeChunkError
    <2>1. Filled \o Remaining = d_tmp_stream \o inbuf
      BY <1>0, <1>7, FilledType DEF DecodeChunkError
    <2>2. /\ Waiting' = Waiting /\ UNCHANGED <<sessions, given>>
          /\ pc' = "failed" /\ "decode" \in mishaps'
      BY <1>7, <2>1 DEF DecodeChunkError, Waiting
    <2> QED
      BY <1>0, <2>2 DEF OrderInv
  <1>8. CASE LoopExit
    <2>1. Waiting' = Waiting
      <3>1. d_tmp_stream \o inbuf \in Seq(Byte)
        BY <1>0, ConcatProperties
      <3>2. (d_tmp_stream \o inbuf) \o <<>> = d_tmp_stream \o inbuf
        BY <3>1, ConcatEmptySeq
      <3> QED
        BY <1>8, <3>2 DEF LoopExit, Waiting
    <2> QED
      BY <1>0, <1>8, <2>1, OrderKept DEF LoopExit, history
  <1>9. CASE StreamDecompressFin
    <2>1. PICK r \in DecodeOutcomes(d_strm, Len(d_tmp_stream)) :
            LET t == AfterDecode(d_strm, r)
            IN  /\ taken' = taken \o SubSeq(d_tmp_stream, 1, r.took)
                /\ \E w \in WriteOutcomes(t) :
                      mishaps' = mishaps \cup Mishaps(t, w.stream)
      BY <1>9 DEF StreamDecompressFin, FinWrites
    <2>2. /\ pc \in {"ready", "failed"} /\ pc' = "closed"
          /\ UNCHANGED <<d_tmp_stream, inbuf, sessions, residue, given>>
      BY <1>9 DEF StreamDecompressFin
    <2>3. InOrder(Waiting', sessions', Len(given'))
      BY <2>2 DEF OrderInv, Waiting
    <2>4. ASSUME "decode" \notin mishaps' PROVE Delivered'
      <3>1. "decode" \notin mishaps
        BY <2>1, <2>4
      <3>2. pc = "ready" /\ Delivered /\ inbuf = <<>>
        BY <2>2, <3>1 DEF OrderInv, Alive, Delivered
      <3>3. Len(d_tmp_stream) \in Nat
        BY <1>0, LenProperties
      <3>4. r.took \in 0..Len(d_tmp_stream)
        BY <1>0, <2>1, <3>3, OutcomeType
      <3>5. "room" \notin mishaps' =>
              "room" \notin mishaps /\ r.took = Len(d_tmp_stream)
        BY <1>0, <2>1, <3>3, RoomMeansTaken
      <3> DEFINE head == SubSeq(d_tmp_stream, 1, r.took)
                 mid == SubSeq(d_tmp_stream, r.took + 1, Len(d_tmp_stream))
      <3>6. /\ head \in Seq(Byte) /\ mid \in Seq(Byte)
            /\ head \o mid = d_tmp_stream
            /\ r.took = Len(d_tmp_stream) => head = d_tmp_stream
        BY <1>0, <3>4, Prefix, SubSeqFull, SMTT(60), ZenonT(60)
      <3>7. taken' = taken \o head
        BY <2>1
      <3> HIDE DEF head, mid
      <3>8. /\ taken \o head \in Seq(Byte)
            /\ taken \o Stored = taken \o d_tmp_stream
            /\ taken \o d_tmp_stream = (taken \o head) \o mid
            /\ taken' \o Stored' = taken'
        <4>1. taken \o head \in Seq(Byte)
          BY <1>0, <3>6, ConcatProperties
        <4>2. d_tmp_stream \o <<>> = d_tmp_stream
              /\ (taken \o head) \o <<>> = taken \o head
          BY <1>0, <4>1, ConcatEmptySeq
        <4>3. (taken \o head) \o mid = taken \o (head \o mid)
          BY <1>0, <3>6, Assoc, ZenonT(60)
        <4>4. Stored = d_tmp_stream \o <<>> /\ Stored' = <<>>
          BY <2>2, <3>2 DEF Stored
        <4> QED
          BY <3>6, <3>7, <4>1, <4>2, <4>3, <4>4
      <3>9. InOrder(taken' \o Stored', sessions', Len(given'))
        <4>1. InOrder((taken \o head) \o mid, sessions, Len(given))
          BY <3>2, <3>8 DEF Delivered
        <4>2. InOrder(taken \o head, sessions, Len(given))
          BY <3>6, <3>8, <4>1, EndsInOrder
        <4> QED
          BY <2>2, <3>7, <3>8, <4>2
      <3>10. "room" \in mishaps' \/ taken' \o Stored' = residue' \o given'
        BY <2>2, <3>2, <3>5, <3>6, <3>7, <3>8 DEF Delivered
      <3> QED
        BY <2>2, <3>2, <3>9, <3>10 DEF Delivered
    <2> QED
      BY <1>0, <2>2, <2>3, <2>4 DEF OrderInv
  <1>10. CASE StreamDecompressFinError
    BY <1>0, <1>10, OrderKept
    DEF StreamDecompressFinError, object, history, Waiting
  <1>11. CASE UNCHANGED vars
    BY <1>0, <1>11
    DEF vars, OrderInv, Delivered, Waiting, Stored, Alive, object, history
  <1> QED
    BY <1>2, <1>3, <1>4, <1>5, <1>6, <1>7, <1>8, <1>9, <1>10, <1>11
    DEF Next, Start, StreamDecompress, Loop

\* Whatever the sizes of chunk, calls, buffers and sessions, and whatever fails:
\* until the decoder reports an error the coded bytes reach it in the order they
\* were given, and none is lost unless it has stopped for want of room.
THEOREM DeliveryCorrect == Spec => []DeliveryInOrder
  <1>1. OrderInv => DeliveryInOrder
    <2> SUFFICES ASSUME OrderInv, Alive, "decode" \notin mishaps
                 PROVE  LET stream == taken \o Stored
                        IN  /\ \A i, j \in 1..Len(stream) :
                                 i < j => Before(stream[i], stream[j])
                            /\ "room" \in mishaps \/ stream = residue \o given
      BY DEF DeliveryInOrder, Alive
    <2>1. /\ Ordered(taken \o Stored)
          /\ "room" \in mishaps \/ taken \o Stored = residue \o given
      BY DEF OrderInv, Delivered, InOrder
    <2> QED
      BY <2>1 DEF Ordered
  <1> QED
    BY <1>1, OrderInit, OrderStep, PTL DEF Spec

-----------------------------------------------------------------------------
\* The numbering of decoded bytes is a run from place 1 on.
LEMMA IotaIsRun ==
    ASSUME NEW n \in Nat
    PROVE  Iota(n) = Run(0, n)
  BY DEF Iota, Run

\* The file holds the beginning of what the decoder has put out, all of it as
\* long as the stream is open and well.
FileHolds == Holds(file, output_stream = "open", d_strm.total_out)

\* A write that begins where the file ends keeps that up.
LEMMA WriteHolds ==
    ASSUME TypeOK, d_total_out = d_strm.total_out, FileHolds,
           NEW t \in Strm,
           d_strm.total_out <= t.total_out,
           NEW w \in WriteOutcomes(t)
    PROVE  /\ Holds(w.file, w.stream = "open", t.total_out)
           /\ output_stream # "closed" => w.stream # "closed"
  <1> DEFINE m == d_strm.total_out
             u == Unwritten(t)
  <1>0. m \in Nat /\ t.total_out \in Nat /\ u \in Nat /\ m + u = t.total_out
    BY DEF TypeOK, Unwritten, Strm
  <1>1. CASE output_stream # "open" \/ u = 0
    <2>1. w = [stream |-> output_stream, file |-> file]
      BY <1>1 DEF WriteOutcomes
    <2>2. Len(file) \in Nat
      BY LenProperties DEF TypeOK
    <2> QED
      BY <1>0, <1>1, <2>1, <2>2 DEF Holds, FileHolds
  <1>2. CASE output_stream = "open" /\ u # 0
    <2>1. Decoded(t) = Run(m, u)
      <3>1. \A i \in 1..u : m + i <= t.total_out
        BY <1>0
      <3> QED
        BY <3>1 DEF Decoded, Run
    <2>2. Holds(file, TRUE, m)
      BY <1>2 DEF FileHolds, Holds
    <2>3. \/ w = [stream |-> "open", file |-> file \o Decoded(t)]
          \/ /\ "write" \in Faults
             /\ \E k \in 0..u : w = [stream |-> "failed",
                                     file |-> file \o SubSeq(Decoded(t), 1, k)]
      <3>1. ~(output_stream # "open" \/ Unwritten(t) = 0) /\ ~(Unwritten(t) < 0)
        BY <1>0, <1>2
      <3>2. w \in {[stream |-> "open", file |-> file \o Decoded(t)]}
                  \cup {[stream |-> "failed", file |-> file \o SubSeq(Decoded(t), 1, k)] :
                          k \in IF "write" \in Faults
                                THEN 0..(Unwritten(t) - 1) ELSE {}}
        BY <3>1, Zenon DEF WriteOutcomes
      <3>3. \A k \in 0..(Unwritten(t) - 1) : k \in 0..u
        BY <1>0
      <3> QED
        BY <3>2, <3>3, Zenon
    <2> HIDE DEF m, u
    <2>4. /\ Holds(file \o Decoded(t), TRUE, t.total_out)
          /\ \A k \in 0..u :
               Holds(file \o SubSeq(Decoded(t), 1, k), FALSE, t.total_out)
      BY <1>0, <2>1, <2>2, HoldsMore, Zenon
    <2>5. CASE w = [stream |-> "open", file |-> file \o Decoded(t)]
      <3>1. w.stream = "open" /\ w.file = file \o Decoded(t)
        BY <2>5
      <3> QED
        BY <1>2, <2>4, <3>1, Zenon
    <2>6. ASSUME NEW k \in 0..u, "write" \in Faults,
                 w = [stream |-> "failed", file |-> file \o SubSeq(Decoded(t), 1, k)]
          PROVE  /\ Holds(w.file, w.stream = "open", t.total_out)
                 /\ w.stream = "failed"
      <3>1. /\ (w.stream = "open") = FALSE /\ w.stream = "failed"
            /\ w.file = file \o SubSeq(Decoded(t), 1, k)
        BY <2>6
      <3> QED
        BY <2>4, <3>1
    <2> QED
      BY <2>3, <2>5, <2>6
  <1> QED
    BY <1>1, <1>2

Working == pc \in {"ready", "loop", "failed"}

\* The inductive invariant behind what the file of the first session holds.
\* Only there does d_total_out begin where the decoder does, at 0.  While nothing
\* has gone wrong the decoder owes nothing between calls and the stream is well.
FileInv ==
    /\ OrderInv
    /\ sessions = 0 =>
         /\ d_total_out = 0 /\ output_stream = "closed" /\ pc = "closed"
         /\ d_tmp_stream = <<>>
    /\ sessions = 1 /\ Alive =>
         /\ FileHolds /\ residue = <<>>
         /\ Working =>
              /\ d_total_out = d_strm.total_out /\ output_stream # "closed"
              /\ "room" \notin mishaps => d_strm.owed = 0
              /\ "write" \notin mishaps => output_stream = "open"
         /\ pc = "closed" /\ mishaps = {} =>
              Holds(file, TRUE, d_strm.total_out) /\ d_strm.owed = 0

\* It holds of a new object.
LEMMA FileInit == Init => FileInv
  BY OrderInit DEF Init, FileInv

\* Every step keeps it.
LEMMA FileStep ==
    ASSUME FileInv, [Next]_vars
    PROVE  FileInv'
  <1>0. /\ OrderInv /\ OrderInv' /\ TypeOK /\ sessions \in Nat
        /\ d_strm \in Strm /\ d_strm.total_out \in Nat /\ d_strm.avail_out \in Nat
        /\ STREAM_CHUNK \in Nat
        /\ output_stream \in {"closed", "open", "failed"}
    <2>1. OrderInv
      BY DEF FileInv
    <2>2. OrderInv'
      BY <2>1, OrderStep
    <2>3. TypeOK
      BY <2>1 DEF OrderInv, TypeInv
    <2>4. /\ sessions \in Nat /\ d_strm \in Strm
          /\ output_stream \in {"closed", "open", "failed"}
      BY <2>3 DEF TypeOK, Strm
    <2>5. d_strm.total_out \in Nat /\ d_strm.avail_out \in Nat
      BY <2>4 DEF Strm
    <2> QED
      BY <2>1, <2>2, <2>3, <2>4, <2>5, StreamAssumption
  <1>1. ASSUME Begin, pc' \in {"ready", "broken"},
               pc' = "ready" => output_stream' = Opened
        PROVE  FileInv'
    <2>1. sessions' # 0 /\ (sessions' = 1 => sessions = 0)
      BY <1>0, <1>1 DEF Begin
    <2>2. CASE sessions = 0
      <3>1. <<>> = Run(0, 0) /\ Len(<<>>) = 0
        BY EmptySeq DEF Run
      <3>2. /\ d_strm'.total_out = 0 /\ d_strm'.owed = 0 /\ file' = <<>>
            /\ d_total_out' = d_total_out /\ residue' = d_tmp_stream
        BY <1>1 DEF Begin, NewDecoder
      <3>3. FileHolds'
        BY <3>1, <3>2 DEF FileHolds, Holds
      <3>4. /\ d_total_out' = 0 /\ residue' = <<>>
            /\ pc' = "ready" => output_stream' = "open"
        BY <1>1, <2>2, <3>2 DEF Opened, FileInv
      <3>5. Working' => pc' = "ready"
        BY <1>1 DEF Working
      <3> QED
        BY <1>0, <1>1, <2>1, <3>2, <3>3, <3>4, <3>5 DEF FileInv
    <2> QED
      BY <1>0, <2>1, <2>2 DEF FileInv
  <1>2. CASE DecompressInit
    BY <1>1, <1>2 DEF DecompressInit
  <1>3. CASE DecompressInitNoFile
    BY <1>1, <1>3 DEF DecompressInitNoFile
  <1>4. CASE DecompressInitNoHeader
    <2>1. pc' \in {"thrown", "crashed"} /\ sessions' = sessions + 1
      BY <1>4 DEF DecompressInitNoHeader
    <2>2. ~Alive' /\ sessions' # 0
      BY <1>0, <2>1 DEF Alive
    <2> QED
      BY <1>0, <2>2 DEF FileInv
  <1>5. ASSUME NEW n \in 1..MaxCall,
               StreamDecompressStore(n) \/ StreamDecompressEnter(n)
        PROVE  FileInv'
    <2>1. /\ UNCHANGED <<d_strm, d_total_out, output_stream, file, sessions,
                         residue, mishaps>>
          /\ pc = "ready" /\ pc' \in {"ready", "loop"}
      BY <1>5 DEF StreamDecompressStore, StreamDecompressEnter, output
    <2> QED
      BY <1>0, <2>1 DEF FileInv, FileHolds, Working, Alive
  <1>6. CASE DecodeChunk
    <2>1. PICK r \in DecodeOutcomes(d_strm, STREAM_CHUNK) :
            LET t == AfterDecode(d_strm, r)
            IN  /\ \E w \in WriteOutcomes(t) :
                      /\ output_stream' = w.stream /\ file' = w.file
                      /\ mishaps' = mishaps \cup Mishaps(t, w.stream)
                /\ d_total_out' = Account(t)
                /\ d_strm' = Refill(t)
      BY <1>6 DEF DecodeChunk
    <2> DEFINE t == AfterDecode(d_strm, r)
    <2>2. /\ t \in Strm /\ r.out \in Nat
          /\ t.total_out = d_strm.total_out + r.out /\ t.owed = r.owed
      <3>1. /\ t \in Strm /\ r.out \in 0..d_strm.avail_out
            /\ t.total_out = d_strm.total_out + r.out /\ t.owed = r.owed
        BY <1>0, <2>1, OutcomeType
      <3> QED
        BY <1>0, <3>1
    <2>3. "room" \notin mishaps' => r.owed = 0
      BY <1>0, <2>1, RoomMeansTaken
    <2>4. PICK w \in WriteOutcomes(t) :
            /\ output_stream' = w.stream /\ file' = w.file
            /\ mishaps' = mishaps \cup Mishaps(t, w.stream)
      BY <2>1
    <2>5. d_total_out' = Account(t) /\ d_strm' = Refill(t)
      BY <2>1
    <2> HIDE DEF t
    <2>6. d_strm'.total_out = t.total_out /\ d_total_out' = t.total_out
          /\ d_strm'.owed = t.owed
      BY <1>0, <2>2, <2>5, AccountType
    <2>7. pc = "loop" /\ pc' = "loop" /\ UNCHANGED <<sessions, residue>>
      BY <1>6 DEF DecodeChunk
    <2>8. ASSUME sessions = 1
          PROVE  /\ FileHolds' /\ output_stream' # "closed"
                 /\ "write" \notin mishaps' => output_stream' = "open"
      <3>1. /\ d_total_out = d_strm.total_out /\ FileHolds
            /\ output_stream # "closed"
        BY <2>7, <2>8 DEF FileInv, Working, Alive
      <3>2. d_strm.total_out <= t.total_out
        BY <1>0, <2>2
      <3>3. /\ Holds(w.file, w.stream = "open", t.total_out)
            /\ w.stream # "closed"
        BY <1>0, <2>2, <3>1, <3>2, WriteHolds
      <3>4. w.stream \in {"closed", "open", "failed"}
        BY <1>0, <2>2, WriteType
      <3>5. "write" \notin mishaps' => w.stream # "failed"
        BY <2>4 DEF Mishaps
      <3> QED
        BY <2>4, <2>6, <3>3, <3>4, <3>5 DEF FileHolds
    <2> QED
      BY <1>0, <2>2, <2>3, <2>6, <2>7, <2>8 DEF FileInv, Working, Alive
  <1>7. CASE DecodeChunkError
    <2>1. /\ UNCHANGED <<d_strm, d_total_out, output_stream, file, sessions, residue>>
          /\ pc = "loop" /\ pc' = "failed" /\ mishaps \subseteq mishaps'
      BY <1>7 DEF DecodeChunkError, output
    <2> QED
      BY <1>0, <2>1 DEF FileInv, FileHolds, Working, Alive
  <1>8. CASE LoopExit
    <2>1. /\ UNCHANGED <<d_strm, d_total_out, output_stream, file, sessions,
                         residue, mishaps>>
          /\ pc = "loop" /\ pc' = "ready"
      BY <1>8 DEF LoopExit, output, history
    <2> QED
      BY <1>0, <2>1 DEF FileInv, FileHolds, Working, Alive
  <1>9. CASE StreamDecompressFin
    <2>0. Len(d_tmp_stream) \in Nat
      BY <1>0, LenProperties DEF TypeOK
    <2>1. PICK r \in DecodeOutcomes(d_strm, Len(d_tmp_stream)) :
            LET t == AfterDecode(d_strm, r)
            IN  /\ d_strm' = t
                /\ \E w \in WriteOutcomes(t) :
                      /\ file' = w.file
                      /\ mishaps' = mishaps \cup Mishaps(t, w.stream)
      BY <1>9 DEF StreamDecompressFin, FinWrites
    <2> DEFINE t == AfterDecode(d_strm, r)
    <2>2. /\ t \in Strm /\ r.out \in Nat
          /\ t.total_out = d_strm.total_out + r.out /\ t.owed = r.owed
      <3>1. /\ t \in Strm /\ r.out \in 0..d_strm.avail_out
            /\ t.total_out = d_strm.total_out + r.out /\ t.owed = r.owed
        BY <1>0, <2>0, <2>1, OutcomeType
      <3> QED
        BY <1>0, <3>1
    <2>3. "room" \notin mishaps' => r.owed = 0
      BY <1>0, <2>0, <2>1, RoomMeansTaken
    <2>4. PICK w \in WriteOutcomes(t) :
            file' = w.file /\ mishaps' = mishaps \cup Mishaps(t, w.stream)
      BY <2>1
    <2>5. d_strm' = t
      BY <2>1
    <2> HIDE DEF t
    <2>6. /\ pc \in {"ready", "failed"} /\ pc' = "closed"
          /\ output_stream' = "closed" /\ UNCHANGED <<sessions, residue>>
      BY <1>9 DEF StreamDecompressFin
    <2>7. ASSUME sessions = 1
          PROVE  /\ FileHolds'
                 /\ mishaps' = {} => Holds(file', TRUE, d_strm'.total_out)
      <3>1. /\ d_total_out = d_strm.total_out /\ FileHolds
            /\ output_stream # "closed"
        BY <2>6, <2>7 DEF FileInv, Working, Alive
      <3>2. d_strm.total_out <= t.total_out
        BY <1>0, <2>2
      <3>3. /\ Holds(w.file, w.stream = "open", t.total_out)
            /\ w.stream # "closed"
        BY <1>0, <2>2, <3>1, <3>2, WriteHolds
      <3>4. w.stream \in {"closed", "open", "failed"}
        BY <1>0, <2>2, WriteType
      <3>5. mishaps' = {} => w.stream # "failed"
        BY <2>4 DEF Mishaps
      <3> QED
        BY <2>4, <2>5, <2>6, <3>3, <3>4, <3>5 DEF FileHolds, Holds
    <2> QED
      BY <1>0, <2>2, <2>3, <2>5, <2>6, <2>7 DEF FileInv, Working, Alive
  <1>10. CASE StreamDecompressFinError
    <2>1. /\ UNCHANGED <<d_strm, d_total_out, output_stream, file, sessions, residue>>
          /\ pc \in {"ready", "failed"} /\ pc' = "broken"
      BY <1>10 DEF StreamDecompressFinError, object, output, history
    <2> QED
      BY <1>0, <2>1 DEF FileInv, FileHolds, Working, Alive
  <1>11. CASE UNCHANGED vars
    BY <1>0, <1>11
    DEF vars, FileInv, FileHolds, Working, Alive, object, output, history
  <1> QED
    BY <1>2, <1>3, <1>4, <1>5, <1>6, <1>7, <1>8, <1>9, <1>10, <1>11
    DEF Next, Start, StreamDecompress, Loop

\* Whatever buffers, chunks and calls, and whatever write fails: the output of
\* the first session never holds a gap, a byte twice or a stale byte of d_out.
THEOREM WrittenCorrect == Spec => []WrittenIsPrefix
  <1>1. FileInv => WrittenIsPrefix
    <2> SUFFICES ASSUME FileInv, sessions = 1, Alive
                 PROVE  file = Iota(Len(file)) /\ Len(file) <= d_strm.total_out
      BY DEF WrittenIsPrefix, Alive
    <2>1. Len(file) \in Nat
      BY LenProperties DEF FileInv, OrderInv, TypeInv, TypeOK
    <2> QED
      BY <2>1, IotaIsRun DEF FileInv, FileHolds, Holds
  <1> QED
    BY <1>1, FileInit, FileStep, PTL DEF Spec

\* A first session that ends with 0 has decoded every byte it was given and
\* written every byte it decoded, unless the decoder stopped for want of room,
\* the stream failed or the decoder reported an error on the way.
THEOREM OutputCorrect == Spec => []OutputComplete
  <1>1. FileInv => OutputComplete
    <2> SUFFICES ASSUME FileInv, pc = "closed", sessions = 1, mishaps = {}
                 PROVE  /\ taken = given
                        /\ d_strm.owed = 0
                        /\ file = Iota(d_strm.total_out)
      BY DEF OutputComplete
    <2>1. /\ Delivered /\ residue = <<>> /\ d_strm.owed = 0
          /\ Holds(file, TRUE, d_strm.total_out)
      BY DEF FileInv, OrderInv, Alive
    <2>2. /\ taken \in Seq(Byte) /\ given \in Seq(Byte)
          /\ d_strm.total_out \in Nat
      BY DEF FileInv, OrderInv, TypeInv, TypeOK, Byte
    <2>3. taken = given
      <3>1. taken \o <<>> = taken /\ <<>> \o given = given
        BY <2>2, ConcatEmptySeq
      <3>2. taken \o Stored = residue \o given /\ Stored = <<>>
        BY <2>1 DEF Delivered, Stored
      <3> QED
        BY <2>1, <3>1, <3>2
    <2> QED
      BY <2>1, <2>2, <2>3, IotaIsRun DEF Holds
  <1> QED
    BY <1>1, FileInit, FileStep, PTL DEF Spec
=============================================================================
