------------------------ MODULE FileCompressorProofs ------------------------
(***************************************************************************)
(* Theorems about FileCompressor for every value of its constants.         *)
(***************************************************************************)
EXTENDS FileCompressor, SequenceFacts

Strm == [avail_out : 0..CHUNK, total_out : Nat, owed : Nat]

-----------------------------------------------------------------------------
\* The numbering of bytes is a run from place 1 on.
LEMMA IotaIsRun ==
    ASSUME NEW n \in Nat
    PROVE  Iota(n) = Run(0, n)
  BY DEF Iota, Run

\* What a read brings: the bytes behind position, fewer than the buffer holds
\* only when the stream is no longer good, all of them when it meets the end.
LEMMA ReadType ==
    ASSUME TypeOK, NEW rd \in ReadOutcomes
    PROVE  /\ rd.n \in 0..CHUNK /\ position + rd.n \in 0..size
           /\ rd.stream \in {"closed", "good", "eof", "failed"}
           /\ rd.n # CHUNK => rd.stream # "good"
           /\ rd.stream = "eof" =>
                \/ input_stream = "eof" /\ rd.n = 0
                \/ position + rd.n = size
           /\ FillFrom(rd) = Run(position, rd.n)
           /\ FillFrom(rd) \in Seq(Nat) /\ Len(FillFrom(rd)) = rd.n
  <1>0. /\ CHUNK \in Nat \ {0} /\ size \in Nat /\ position \in 0..size
        /\ input_stream \in {"closed", "good", "eof", "failed"}
    BY FileAssumption DEF TypeOK
  <1>1. /\ rd.n \in 0..CHUNK /\ position + rd.n \in 0..size
        /\ rd.stream \in {"closed", "good", "eof", "failed"}
        /\ rd.n # CHUNK => rd.stream # "good"
        /\ rd.stream = "eof" =>
             \/ input_stream = "eof" /\ rd.n = 0
             \/ position + rd.n = size
    <2>1. CASE input_stream # "good"
      <3>1. rd = [n |-> 0, stream |-> input_stream]
        BY <2>1 DEF ReadOutcomes
      <3> QED
        BY <1>0, <2>1, <3>1
    <2>2. CASE input_stream = "good" /\ size - position >= CHUNK
      <3>1. \/ rd = [n |-> CHUNK, stream |-> "good"]
            \/ \E k \in 0..(size - position) :
                 k < CHUNK /\ rd = [n |-> k, stream |-> "failed"]
        BY <2>2 DEF ReadOutcomes
      <3> QED
        BY <1>0, <2>2, <3>1
    <2>3. CASE input_stream = "good" /\ ~(size - position >= CHUNK)
      <3>1. \/ rd = [n |-> size - position, stream |-> "eof"]
            \/ \E k \in 0..(size - position) :
                 k < CHUNK /\ rd = [n |-> k, stream |-> "failed"]
        BY <2>3 DEF ReadOutcomes
      <3> QED
        BY <1>0, <2>3, <3>1
    <2> QED
      BY <2>1, <2>2, <2>3
  <1>2. FillFrom(rd) = Run(position, rd.n)
    BY DEF FillFrom, Run
  <1>3. Run(position, rd.n) \in Seq(Nat) /\ Len(Run(position, rd.n)) = rd.n
    <2>1. position \in Nat /\ rd.n \in Nat
      BY <1>0, <1>1
    <2> QED
      BY <2>1, RunType
  <1> QED
    BY <1>1, <1>2, <1>3, Zenon

\* What a call of the coder returns, and the stream after it.
LEMMA OutcomeType ==
    ASSUME NEW s \in Strm, NEW n \in Nat, NEW flush \in BOOLEAN,
           NEW r \in EncodeOutcomes(s, n, flush)
    PROVE  /\ r.took \in 0..n /\ r.out \in 0..s.avail_out /\ r.owed \in Nat
           /\ AfterEncode(s, r) \in Strm
           /\ AfterEncode(s, r).avail_out = s.avail_out - r.out
           /\ AfterEncode(s, r).total_out = s.total_out + r.out
           /\ AfterEncode(s, r).owed = r.owed
           /\ Multiple(r.took, SampleBytes)
           /\ r.out + r.owed <= s.owed + Gain * r.took + (IF flush THEN 1 ELSE 0)
           /\ r.out < s.avail_out => n - r.took < SampleBytes
  <1>1. /\ r.took \in 0..n /\ r.out \in 0..s.avail_out /\ r.owed \in Nat
        /\ \E q \in 0..n : r.took = q * SampleBytes
        /\ r.out + r.owed <= s.owed + Gain * r.took + (IF flush THEN 1 ELSE 0)
        /\ r.out < s.avail_out => n - r.took < SampleBytes
    BY DEF EncodeOutcomes
  <1>2. AfterEncode(s, r) \in Strm
    BY <1>1, FileAssumption DEF AfterEncode, Strm
  <1>3. Multiple(r.took, SampleBytes)
    BY <1>1 DEF Multiple
  <1> QED
    BY <1>1, <1>2, <1>3 DEF AfterEncode

\* What waits to be written is an integer.
LEMMA UnwrittenType ==
    ASSUME TypeOK, NEW t \in Strm
    PROVE  Unwritten(t) \in Int
  <1>1. t.total_out \in Int
    BY DEF Strm
  <1>2. INT_RANGE \in Int
    BY FileAssumption
  <1>3. total_out \in Int
    BY <1>2 DEF TypeOK
  <1> QED
    BY <1>1, <1>3 DEF Unwritten

\* The three outcomes of a write: nothing to do or a stream that takes nothing,
\* everything written, only a beginning of it.
LEMMA WriteCases ==
    ASSUME TypeOK, NEW t \in Strm, NEW w \in WriteOutcomes(t)
    PROVE  \/ /\ output_stream # "good" \/ Unwritten(t) = 0
              /\ w = [stream |-> output_stream, file |-> file]
           \/ /\ output_stream = "good" /\ Unwritten(t) <= CHUNK
              /\ w = [stream |-> "good", file |-> file \o Coded(t)]
           \/ /\ output_stream = "good"
              /\ \E k \in 0..Unwritten(t) :
                   w = [stream |-> "failed",
                        file |-> file \o SubSeq(Coded(t), 1, k)]
  <1>0. Unwritten(t) \in Int /\ CHUNK \in Nat
    BY UnwrittenType, FileAssumption
  <1>1. CASE output_stream # "good" \/ Unwritten(t) = 0
    BY <1>1 DEF WriteOutcomes
  <1>2. CASE output_stream = "good" /\ Unwritten(t) # 0 /\ Unwritten(t) > CHUNK
    <2>1. w = [stream |-> "failed", file |-> file \o SubSeq(Coded(t), 1, CHUNK + 1)]
      BY <1>2, Zenon DEF WriteOutcomes
    <2>2. CHUNK + 1 \in 0..Unwritten(t)
      BY <1>0, <1>2
    <2> QED
      BY <1>2, <2>1, <2>2, Zenon
  <1>3. CASE /\ output_stream = "good" /\ Unwritten(t) # 0
             /\ ~(Unwritten(t) > CHUNK)
    <2>1. w \in {[stream |-> "good", file |-> file \o Coded(t)]}
                \cup {[stream |-> "failed", file |-> file \o SubSeq(Coded(t), 1, k)] :
                        k \in IF "write" \in Faults
                              THEN 0..(Unwritten(t) - 1) ELSE {}}
      BY <1>3, Zenon DEF WriteOutcomes
    <2>2. \/ w = [stream |-> "good", file |-> file \o Coded(t)]
          \/ \E k \in 0..(Unwritten(t) - 1) :
               w = [stream |-> "failed", file |-> file \o SubSeq(Coded(t), 1, k)]
      BY <2>1, Zenon
    <2>3. \A k \in 0..(Unwritten(t) - 1) : k \in 0..Unwritten(t)
      BY <1>0
    <2>4. Unwritten(t) <= CHUNK
      BY <1>0, <1>3
    <2> QED
      BY <1>3, <2>2, <2>3, <2>4, Zenon
  <1> QED
    BY <1>1, <1>2, <1>3

\* The bytes a write may take are numbers, as many as there are to write.
LEMMA CodedType ==
    ASSUME TypeOK, NEW t \in Strm
    PROVE  /\ Unwritten(t) \in Int
           /\ Coded(t) \in Seq(Nat)
           /\ Unwritten(t) >= 0 => Len(Coded(t)) = Unwritten(t)
  <1>1. Unwritten(t) \in Int
    BY UnwrittenType
  <1>2. CASE Unwritten(t) >= 0
    <2>1. Coded(t) \in [1..Unwritten(t) -> Nat] /\ Unwritten(t) \in Nat
      BY <1>1, <1>2 DEF Coded, TypeOK, Strm
    <2> QED
      BY <2>1, SeqOfFunction
  <1>3. CASE Unwritten(t) < 0
    <2>1. 1..Unwritten(t) = 1..0 /\ 0 \in Nat
      BY <1>1, <1>3
    <2>2. Coded(t) \in [1..0 -> Nat]
      BY <2>1 DEF Coded
    <2>3. Coded(t) \in Seq(Nat)
      BY <2>1, <2>2, SeqOfFunction
    <2> QED
      BY <1>1, <1>3, <2>3
  <1> QED
    BY <1>1, <1>2, <1>3

\* Whatever is written, the file stays a sequence of numbers.
LEMMA WriteType ==
    ASSUME TypeOK, NEW t \in Strm, NEW w \in WriteOutcomes(t)
    PROVE  w.stream \in {"closed", "good", "failed"} /\ w.file \in Seq(Nat)
  <1>0. /\ file \in Seq(Nat) /\ output_stream \in {"closed", "good", "failed"}
        /\ Coded(t) \in Seq(Nat) /\ Unwritten(t) \in Int
        /\ Unwritten(t) >= 0 => Len(Coded(t)) = Unwritten(t)
    BY CodedType DEF TypeOK
  <1>1. CASE w = [stream |-> output_stream, file |-> file]
    BY <1>0, <1>1
  <1>2. CASE w = [stream |-> "good", file |-> file \o Coded(t)]
    BY <1>0, <1>2, ConcatProperties
  <1>3. ASSUME NEW k \in 0..Unwritten(t),
               w = [stream |-> "failed", file |-> file \o SubSeq(Coded(t), 1, k)]
        PROVE  w.stream \in {"closed", "good", "failed"} /\ w.file \in Seq(Nat)
    <2>1. SubSeq(Coded(t), 1, k) \in Seq(Nat)
      BY <1>0, Prefix
    <2>2. file \o SubSeq(Coded(t), 1, k) \in Seq(Nat)
      BY <1>0, <2>1, ConcatProperties
    <2> QED
      BY <1>3, <2>2
  <1> QED
    BY <1>1, <1>2, <1>3, WriteCases

\* An int stays in its range, and holds every number below half of it.
LEMMA IntHolds ==
    ASSUME NEW n \in Nat
    PROVE  /\ ToInt(n) \in (-INT_RANGE)..INT_RANGE
           /\ n < INT_RANGE \div 2 => ToInt(n) = n
  <1> DEFINE half == INT_RANGE \div 2
  <1>1. half \in Nat /\ INT_RANGE = 2 * half /\ half > 0
    <2>1. PICK k \in 1..half : INT_RANGE = 2 * k
      BY FileAssumption
    <2>2. (2 * k) \div 2 = k
      OBVIOUS
    <2> QED
      BY <2>1, <2>2
  <1>2. ToInt(n) = ((n + half) % INT_RANGE) - half
    BY DEF ToInt
  <1> HIDE DEF half
  <1> DEFINE m == n + half
  <1>3. m \in Nat /\ INT_RANGE \in Nat \ {0}
    BY <1>1
  <1>4. ToInt(n) = (m % INT_RANGE) - half
    BY <1>2
  <1> HIDE DEF m
  <1>5. /\ m % INT_RANGE \in 0..(INT_RANGE - 1)
        /\ m < INT_RANGE => m % INT_RANGE = m
    BY <1>3
  <1>6. ToInt(n) \in (-INT_RANGE)..INT_RANGE
    BY <1>1, <1>4, <1>5
  <1>7. n < half => ToInt(n) = n
    BY <1>1, <1>4, <1>5 DEF m
  <1> QED
    BY <1>6, <1>7 DEF half

-----------------------------------------------------------------------------
\* A turn of the loop keeps the types and the order of the input.
LEMMA TurnType ==
    ASSUME TypeOK, NEW in \in Seq(Nat), Turn(in)
    PROVE  /\ taken' \in Seq(Nat) /\ pending' \in Seq(Nat)
           /\ taken' \o pending' = taken \o in
           /\ output_stream' \in {"closed", "good", "failed"}
           /\ file' \in Seq(Nat)
           /\ output_avail' \in BOOLEAN
           /\ total_out' \in (-INT_RANGE)..INT_RANGE
           /\ d_strm' \in Strm
  <1>0. /\ Len(in) \in Nat /\ d_strm \in Strm /\ taken \in Seq(Nat)
        /\ total_out \in (-INT_RANGE)..INT_RANGE
    BY LenProperties DEF TypeOK, Strm
  <1>1. PICK r \in EncodeOutcomes(d_strm, Len(in), FALSE) :
          LET t == AfterEncode(d_strm, r)
          IN  /\ taken' = taken \o SubSeq(in, 1, r.took)
              /\ pending' = SubSeq(in, r.took + 1, Len(in))
              /\ \E w \in WriteOutcomes(t) :
                    output_stream' = w.stream /\ file' = w.file
              /\ output_avail' = (Unwritten(t) # 0)
              /\ IF Unwritten(t) # 0
                 THEN /\ total_out' = ToInt(t.total_out)
                      /\ d_strm' = [t EXCEPT !.avail_out = CHUNK]
                 ELSE d_strm' = t /\ UNCHANGED total_out
    BY DEF Turn
  <1> DEFINE t == AfterEncode(d_strm, r)
  <1>2. r.took \in 0..Len(in) /\ t \in Strm
    BY <1>0, <1>1, OutcomeType
  <1>3. /\ taken' \in Seq(Nat) /\ pending' \in Seq(Nat)
        /\ taken' \o pending' = taken \o in
    <2>1. Moved(Nat, taken, in, taken \o SubSeq(in, 1, r.took),
                SubSeq(in, r.took + 1, Len(in)))
      BY <1>0, <1>2, TakeFrom
    <2> QED
      BY <1>1, <2>1, Zenon DEF Moved
  <1>4. output_stream' \in {"closed", "good", "failed"} /\ file' \in Seq(Nat)
    BY <1>1, <1>2, WriteType
  <1>5. /\ output_avail' \in BOOLEAN
        /\ total_out' \in (-INT_RANGE)..INT_RANGE /\ d_strm' \in Strm
    <2>1. /\ output_avail' = (Unwritten(t) # 0)
          /\ IF Unwritten(t) # 0
             THEN /\ total_out' = ToInt(t.total_out)
                  /\ d_strm' = [t EXCEPT !.avail_out = CHUNK]
             ELSE d_strm' = t /\ UNCHANGED total_out
      BY <1>1
    <2> HIDE DEF t
    <2>2. t.total_out \in Nat /\ [t EXCEPT !.avail_out = CHUNK] \in Strm
      <3>1. CHUNK \in 0..CHUNK
        BY FileAssumption
      <3> QED
        BY <1>2, <3>1 DEF Strm
    <2> QED
      BY <1>0, <1>2, <2>1, <2>2, IntHolds
  <1> QED
    BY <1>3, <1>4, <1>5

\* It holds of a new object.
LEMMA TypeInit == Init => TypeOK /\ ReadInOrder
  <1> SUFFICES ASSUME Init PROVE TypeOK /\ ReadInOrder
    OBVIOUS
  <1>1. <<>> \in Seq(Nat) /\ <<>> \o <<>> = <<>>
    BY EmptySeq, ConcatEmptySeq
  <1>2. NewStream(CHUNK) \in Strm
    BY FileAssumption DEF NewStream, Strm
  <1>3. 0 \in (-INT_RANGE)..INT_RANGE
    BY FileAssumption
  <1>4. Iota(0) = <<>>
    BY DEF Iota
  <1>5. TypeOK
    <2>1. /\ size \in Nat /\ position \in 0..size /\ sessions \in Nat
          /\ pending \in Seq(Nat) /\ file \in Seq(Nat) /\ taken \in Seq(Nat)
          /\ pc \in States /\ total_out \in (-INT_RANGE)..INT_RANGE
          /\ input_stream = "closed" /\ output_stream = "closed"
      BY <1>1, <1>3 DEF Init, States
    <2>2. coder \in BOOLEAN /\ input_avail \in BOOLEAN /\ output_avail \in BOOLEAN
      BY DEF Init
    <2>3. d_strm \in Strm
      BY <1>2 DEF Init
    <2> QED
      BY <2>1, <2>2, <2>3 DEF TypeOK, Strm
  <1>6. ReadInOrder
    BY <1>1, <1>4 DEF Init, ReadInOrder
  <1> QED
    BY <1>5, <1>6

\* The types are inductive, and with them the order of the input: the buffer is
\* filled only when it is empty, and what a turn leaves in it is what the coder
\* has not taken.
LEMMA TypeStep ==
    ASSUME TypeOK, ReadInOrder, [Next]_vars
    PROVE  TypeOK' /\ ReadInOrder'
  <1>0. /\ <<>> \in Seq(Nat) /\ <<>> \o <<>> = <<>> /\ Iota(0) = <<>>
        /\ CHUNK \in Nat \ {0} /\ MaxSize \in Nat
        /\ pending \in Seq(Nat) /\ taken \in Seq(Nat)
        /\ position \in 0..size /\ size \in Nat /\ position \in Nat
    BY EmptySeq, ConcatEmptySeq, FileAssumption DEF TypeOK, Iota
  <1>1. ASSUME Begin, file' \in Seq(Nat), pc' \in States,
               input_stream' \in {"closed", "good", "eof", "failed"},
               output_stream' \in {"closed", "good", "failed"}
        PROVE  TypeOK' /\ ReadInOrder'
    <2>1. NewStream(CHUNK) \in Strm
      BY <1>0 DEF NewStream, Strm
    <2>2. /\ sessions' = sessions + 1 /\ size' \in Nat /\ position' = 0
          /\ pending' = <<>> /\ taken' = <<>> /\ d_strm' \in Strm
          /\ coder' \in BOOLEAN /\ UNCHANGED locals
      <3>1. coder' \in BOOLEAN
        BY <1>1, Zenon DEF Begin
      <3> QED
        BY <1>0, <1>1, <2>1, <3>1 DEF Begin
    <2> QED
      BY <1>0, <1>1, <2>2 DEF TypeOK, ReadInOrder, Strm, locals
  <1>2. CASE CompressInit
    BY <1>0, <1>1, <1>2 DEF CompressInit, Opened, States
  <1>3. CASE CompressInitNoOutput
    BY <1>0, <1>1, <1>3 DEF CompressInitNoOutput, Opened, States, TypeOK
  <1>4. CASE CompressInitNoInput
    BY <1>0, <1>1, <1>4 DEF CompressInitNoInput, States, streams, TypeOK
  <1>5. CASE CompressInitNoHeader
    BY <1>1, <1>5 DEF CompressInitNoHeader, States, streams, TypeOK
  <1>6. CASE CompressEnter
    <2>1. 0 \in (-INT_RANGE)..INT_RANGE
      BY FileAssumption
    <2> QED
      BY <1>6, <2>1 DEF CompressEnter, TypeOK, ReadInOrder, States, streams
  <1>7. CASE CompressNoCoder
    BY <1>7
    DEF CompressNoCoder, TypeOK, ReadInOrder, States, streams, locals
  <1>8. CASE IterateRefill
    <2>1. PICK rd \in ReadOutcomes : Fill(rd) /\ Turn(FillFrom(rd))
      BY <1>8 DEF IterateRefill
    <2>2. /\ rd.n \in Nat /\ position + rd.n \in 0..size
          /\ rd.stream \in {"closed", "good", "eof", "failed"}
          /\ FillFrom(rd) = Run(position, rd.n) /\ FillFrom(rd) \in Seq(Nat)
      BY <1>0, ReadType
    <2>3. TypeOK'
      BY <1>8, <2>1, <2>2, TurnType DEF IterateRefill, Fill, TypeOK, Strm
    <2>4. taken' \o pending' = Run(0, position) \o Run(position, rd.n)
      <3>1. taken \o <<>> = taken
        BY <1>0, ConcatEmptySeq
      <3>2. taken = Run(0, position)
        BY <1>0, <1>8, <3>1, IotaIsRun
        DEF IterateRefill, NeedsInput, ReadInOrder
      <3>3. taken' \o pending' = taken \o FillFrom(rd)
        BY <2>1, <2>2, TurnType
      <3> QED
        BY <2>2, <3>2, <3>3
    <2>5. Run(0, position) \o Run(0 + position, rd.n) = Run(0, position + rd.n)
      BY <1>0, <2>2, RunGoesOn, SMTT(60), ZenonT(60)
    <2>6. position' = position + rd.n
      BY <2>1 DEF Fill
    <2>7. Iota(position + rd.n) = Run(0, position + rd.n)
      BY <1>0, <2>2, IotaIsRun
    <2> QED
      BY <1>0, <2>3, <2>4, <2>5, <2>6, <2>7 DEF ReadInOrder
  <1>9. CASE IterateDrain
    BY <1>0, <1>9, TurnType
    DEF IterateDrain, Keep, TypeOK, Strm, ReadInOrder
  <1>10. CASE IterateError
    <2>1. ASSUME NeedsInput, NEW rd \in ReadOutcomes, Fill(rd),
                 pending' = FillFrom(rd)
          PROVE  TypeOK' /\ ReadInOrder'
      <3>1. /\ rd.n \in Nat /\ position + rd.n \in 0..size
            /\ rd.stream \in {"closed", "good", "eof", "failed"}
            /\ FillFrom(rd) = Run(position, rd.n) /\ FillFrom(rd) \in Seq(Nat)
        BY <1>0, ReadType
      <3>2. TypeOK'
        BY <1>10, <2>1, <3>1 DEF IterateError, Fill, TypeOK, States
      <3>3. taken \o <<>> = taken
        BY <1>0, ConcatEmptySeq
      <3>4. taken = Run(0, position)
        BY <1>0, <2>1, <3>3, IotaIsRun DEF NeedsInput, ReadInOrder
      <3>5. Run(0, position) \o Run(0 + position, rd.n) = Run(0, position + rd.n)
        BY <1>0, <3>1, RunGoesOn, SMTT(60), ZenonT(60)
      <3>6. Iota(position + rd.n) = Run(0, position + rd.n)
        BY <1>0, <3>1, IotaIsRun
      <3>7. taken' = taken /\ position' = position + rd.n
        BY <1>10, <2>1 DEF IterateError, Fill
      <3> QED
        BY <1>0, <2>1, <3>1, <3>2, <3>4, <3>5, <3>6, <3>7 DEF ReadInOrder
    <2>2. ASSUME ~NeedsInput, Keep, UNCHANGED pending
          PROVE  TypeOK' /\ ReadInOrder'
      BY <1>10, <2>2 DEF IterateError, Keep, TypeOK, States, ReadInOrder
    <2> QED
      BY <1>10, <2>1, <2>2 DEF IterateError
  <1>11. CASE CompressFlush
    <2>1. Len(pending) \in Nat /\ d_strm \in Strm
      BY <1>0, LenProperties DEF TypeOK, Strm
    <2>2. PICK r \in EncodeOutcomes(d_strm, Len(pending), TRUE) :
            LET t == AfterEncode(d_strm, r)
            IN  /\ taken' = taken \o SubSeq(pending, 1, r.took)
                /\ pending' = SubSeq(pending, r.took + 1, Len(pending))
                /\ \E w \in WriteOutcomes(t) :
                      output_stream' = w.stream /\ file' = w.file
                /\ d_strm' = t
      BY <1>11 DEF CompressFlush
    <2> DEFINE t == AfterEncode(d_strm, r)
    <2>3. r.took \in 0..Len(pending) /\ t \in Strm
      BY <2>1, <2>2, OutcomeType
    <2>4. /\ taken' \in Seq(Nat) /\ pending' \in Seq(Nat)
          /\ taken' \o pending' = taken \o pending
      <3>1. Moved(Nat, taken, pending, taken \o SubSeq(pending, 1, r.took),
                  SubSeq(pending, r.took + 1, Len(pending)))
        BY <1>0, <2>3, TakeFrom
      <3> QED
        BY <2>2, <3>1, Zenon DEF Moved
    <2>5. /\ output_stream' \in {"closed", "good", "failed"}
          /\ file' \in Seq(Nat) /\ d_strm' \in Strm
      BY <2>2, <2>3, WriteType
    <2> QED
      BY <1>11, <2>4, <2>5
      DEF CompressFlush, TypeOK, States, ReadInOrder, Strm, locals
  <1>12. CASE CompressFlushError
    BY <1>12
    DEF CompressFlushError, TypeOK, ReadInOrder, States, streams, locals
  <1>13. CASE CompressFin
    BY <1>13 DEF CompressFin, TypeOK, ReadInOrder, States, streams, locals
  <1>14. CASE UNCHANGED vars
    BY <1>14 DEF vars, TypeOK, ReadInOrder, streams, locals
  <1> QED
    BY <1>2, <1>3, <1>4, <1>5, <1>6, <1>7, <1>8, <1>9, <1>10, <1>11, <1>12,
       <1>13, <1>14
    DEF Next, Loop

\* The types of the variables: position never passes the end of the input.
THEOREM TypeCorrect == Spec => []TypeOK
  BY TypeInit, TypeStep, PTL DEF Spec

\* Whatever fails, and however small the buffer: the coder gets every byte of
\* the input once and in order.
THEOREM InputInOrder == Spec => []ReadInOrder
  BY TypeInit, TypeStep, PTL DEF Spec

-----------------------------------------------------------------------------
\* The coded form of every input file is countable in the int of compress.
NoWrap == Gain * MaxSize < INT_RANGE \div 2

\* The output file holds the beginning of what the coder has put out, all of it
\* as long as the stream is good.
FileHolds == Holds(file, output_stream = "good", d_strm.total_out)

\* A write keeps that up if it begins where the file ends.
LEMMA WriteHolds ==
    ASSUME TypeOK, total_out = d_strm.total_out, FileHolds,
           NEW t \in Strm, d_strm.total_out <= t.total_out,
           NEW w \in WriteOutcomes(t)
    PROVE  Holds(w.file, w.stream = "good", t.total_out)
  <1> DEFINE m == d_strm.total_out
             u == Unwritten(t)
  <1>0. m \in Nat /\ t.total_out \in Nat /\ u \in Nat /\ m + u = t.total_out
    BY DEF TypeOK, Strm, Unwritten
  <1>1. CASE output_stream # "good" \/ u = 0
    <2>1. w = [stream |-> output_stream, file |-> file]
      BY <1>1 DEF WriteOutcomes
    <2>2. Len(file) \in Nat
      BY LenProperties DEF TypeOK
    <2> QED
      BY <1>0, <1>1, <2>1, <2>2 DEF Holds, FileHolds
  <1>2. CASE output_stream = "good" /\ u # 0
    <2>1. Coded(t) = Run(m, u)
      <3>1. \A i \in 1..u : m + i <= t.total_out
        BY <1>0
      <3> QED
        BY <3>1 DEF Coded, Run
    <2>2. Holds(file, TRUE, m)
      BY <1>2 DEF FileHolds, Holds
    <2>3. \/ w = [stream |-> "good", file |-> file \o Coded(t)]
          \/ \E k \in 0..u : w = [stream |-> "failed",
                                  file |-> file \o SubSeq(Coded(t), 1, k)]
      BY <1>2, WriteCases
    <2> HIDE DEF m, u
    <2>4. /\ Holds(file \o Coded(t), TRUE, t.total_out)
          /\ \A k \in 0..u :
               Holds(file \o SubSeq(Coded(t), 1, k), FALSE, t.total_out)
      BY <1>0, <2>1, <2>2, HoldsMore, Zenon
    <2>5. CASE w = [stream |-> "good", file |-> file \o Coded(t)]
      <3>1. w.stream = "good" /\ w.file = file \o Coded(t)
        BY <2>5
      <3> QED
        BY <2>4, <3>1, Zenon
    <2>6. ASSUME NEW k \in 0..u,
                 w = [stream |-> "failed", file |-> file \o SubSeq(Coded(t), 1, k)]
          PROVE  Holds(w.file, w.stream = "good", t.total_out)
      <3>1. /\ (w.stream = "good") = FALSE
            /\ w.file = file \o SubSeq(Coded(t), 1, k)
        BY <2>6
      <3> QED
        BY <2>4, <3>1
    <2> QED
      BY <2>3, <2>5, <2>6
  <1> QED
    BY <1>1, <1>2

\* What a turn of the loop does to the output and to what waits in the buffer.
\* The count of the written bytes must fit the int it is kept in.
LEMMA TurnOutput ==
    ASSUME TypeOK, NEW in \in Seq(Nat), Turn(in),
           total_out = d_strm.total_out, d_strm.avail_out = CHUNK,
           d_strm.total_out + d_strm.owed <= Gain * Len(taken),
           Gain * Len(taken') < INT_RANGE \div 2,
           Multiple(Len(taken), SampleBytes),
           FileHolds
    PROVE  /\ total_out' = d_strm'.total_out /\ d_strm'.avail_out = CHUNK
           /\ d_strm'.total_out + d_strm'.owed <= Gain * Len(taken')
           /\ Multiple(Len(taken'), SampleBytes)
           /\ FileHolds'
           /\ ~output_avail' => Len(pending') < SampleBytes
  <1>0. /\ Len(in) \in Nat /\ d_strm \in Strm /\ taken \in Seq(Nat)
        /\ Len(taken) \in Nat /\ CHUNK \in Nat \ {0} /\ Gain \in Nat
        /\ SampleBytes \in Nat \ {0}
        /\ d_strm.total_out \in Nat /\ d_strm.owed \in Nat
    BY LenProperties, FileAssumption, CoderAssumption DEF TypeOK, Strm
  <1>1. PICK r \in EncodeOutcomes(d_strm, Len(in), FALSE) :
          LET t == AfterEncode(d_strm, r)
          IN  /\ taken' = taken \o SubSeq(in, 1, r.took)
              /\ pending' = SubSeq(in, r.took + 1, Len(in))
              /\ \E w \in WriteOutcomes(t) :
                    output_stream' = w.stream /\ file' = w.file
              /\ output_avail' = (Unwritten(t) # 0)
              /\ IF Unwritten(t) # 0
                 THEN /\ total_out' = ToInt(t.total_out)
                      /\ d_strm' = [t EXCEPT !.avail_out = CHUNK]
                 ELSE d_strm' = t /\ UNCHANGED total_out
    BY DEF Turn
  <1> DEFINE t == AfterEncode(d_strm, r)
  <1>2. /\ r.took \in 0..Len(in) /\ r.out \in 0..CHUNK /\ r.owed \in Nat
        /\ t \in Strm /\ t.avail_out = CHUNK - r.out
        /\ t.total_out = d_strm.total_out + r.out /\ t.owed = r.owed
        /\ Multiple(r.took, SampleBytes)
        /\ r.out + r.owed <= d_strm.owed + Gain * r.took
        /\ r.out < CHUNK => Len(in) - r.took < SampleBytes
        /\ t.total_out \in Nat /\ t.owed \in Nat
    <2>1. /\ r.took \in 0..Len(in) /\ r.out \in 0..d_strm.avail_out
          /\ r.owed \in Nat /\ t \in Strm
          /\ t.avail_out = d_strm.avail_out - r.out
          /\ t.total_out = d_strm.total_out + r.out /\ t.owed = r.owed
          /\ Multiple(r.took, SampleBytes)
          /\ r.out + r.owed <= d_strm.owed + Gain * r.took
                                + (IF FALSE THEN 1 ELSE 0)
          /\ r.out < d_strm.avail_out => Len(in) - r.took < SampleBytes
      BY <1>0, <1>1, OutcomeType, SMTT(60), ZenonT(60)
    <2>2. t.total_out \in Nat /\ t.owed \in Nat
      BY <2>1 DEF Strm
    <2>3. Gain * r.took \in Nat
      <3>1. r.took \in Nat
        BY <1>0, <2>1
      <3> QED
        BY <1>0, <3>1
    <2> HIDE DEF t
    <2> QED
      BY <1>0, <2>1, <2>2, <2>3, SMTT(60)
  <1>3. /\ Len(taken') = Len(taken) + r.took
        /\ Len(pending') = Len(in) - r.took
    <2>1. /\ Len(taken \o SubSeq(in, 1, r.took)) = Len(taken) + r.took
          /\ Len(SubSeq(in, r.took + 1, Len(in))) = Len(in) - r.took
      BY <1>0, <1>2, TakeFrom, SMTT(60), ZenonT(60)
    <2> QED
      BY <1>1, <2>1
  <1>4. \E w \in WriteOutcomes(t) : output_stream' = w.stream /\ file' = w.file
    BY <1>1
  <1>5. /\ output_avail' = (Unwritten(t) # 0)
        /\ IF Unwritten(t) # 0
           THEN /\ total_out' = ToInt(t.total_out)
                /\ d_strm' = [t EXCEPT !.avail_out = CHUNK]
           ELSE d_strm' = t /\ UNCHANGED total_out
    BY <1>1
  <1> HIDE DEF t
  <1>6. Unwritten(t) = r.out
    BY <1>0, <1>2, SMTT(60) DEF Unwritten, Strm
  <1>7. Multiple(Len(taken'), SampleBytes)
    BY <1>0, <1>2, <1>3, Multiples
  <1>8. t.total_out + t.owed <= Gain * Len(taken')
    <2> DEFINE before == Gain * Len(taken)
               more == Gain * r.took
    <2>1. Gain * Len(taken') = before + more
      BY <1>0, <1>2, <1>3
    <2>2. before \in Nat /\ more \in Nat
      <3>1. r.took \in Nat
        BY <1>0, <1>2
      <3> QED
        BY <1>0, <3>1
    <2>3. /\ d_strm.total_out + d_strm.owed <= before
          /\ r.out + r.owed <= d_strm.owed + more
          /\ r.out \in Nat /\ r.owed \in Nat
          /\ t.total_out = d_strm.total_out + r.out /\ t.owed = r.owed
      BY <1>0, <1>2
    <2> HIDE DEF before, more
    <2>4. t.total_out + t.owed <= before + more
      BY <1>0, <2>2, <2>3, SMTT(60)
    <2> QED
      BY <2>1, <2>4
  <1>9. t.total_out \in Nat /\ t.owed \in Nat /\ t.total_out < INT_RANGE \div 2
    <2>1. Gain * Len(taken') \in Nat
      <3>1. Len(taken') \in Nat
        BY <1>0, <1>2, <1>3
      <3> QED
        BY <1>0, <3>1
    <2>2. INT_RANGE \div 2 \in Int
      BY FileAssumption
    <2> QED
      BY <1>2, <1>8, <2>1, <2>2
  <1>10. /\ total_out' = d_strm'.total_out /\ d_strm'.avail_out = CHUNK
         /\ d_strm'.total_out = t.total_out /\ d_strm'.owed = t.owed
    <2>1. CASE r.out # 0
      BY <1>2, <1>5, <1>6, <1>9, <2>1, IntHolds DEF Strm
    <2>2. CASE r.out = 0
      BY <1>0, <1>2, <1>5, <1>6, <2>2 DEF Strm
    <2> QED
      BY <2>1, <2>2
  <1>11. FileHolds'
    <2>1. d_strm.total_out <= t.total_out
      BY <1>0, <1>2, SMTT(60) DEF Strm
    <2>2. PICK w \in WriteOutcomes(t) :
            output_stream' = w.stream /\ file' = w.file
      BY <1>4
    <2>3. Holds(w.file, w.stream = "good", t.total_out)
      BY <1>2, <2>1, WriteHolds
    <2> QED
      BY <1>10, <2>2, <2>3 DEF FileHolds
  <1>12. ~output_avail' => Len(pending') < SampleBytes
    <2>1. ~output_avail' => Unwritten(t) = 0
      BY <1>5, Zenon
    <2>2. r.out = 0 => Len(pending') < SampleBytes
      BY <1>0, <1>2, <1>3
    <2> QED
      BY <1>6, <2>1, <2>2
  <1> QED
    BY <1>7, <1>8, <1>10, <1>11, <1>12

-----------------------------------------------------------------------------
InSession == pc \notin {"closed", "crashed"}

\* The inductive invariant behind what the file holds and behind success.
\* While compress works, the count of the written bytes agrees with the coder's
\* own and the whole buffer is free; the coder has put out no more than what it
\* took can become, so the count fits the int.  The input has ended when the
\* buffer is no longer filled; and the last turn, having written nothing, has
\* left less than a sample.
OutputInv ==
    /\ TypeOK /\ ReadInOrder
    /\ size <= MaxSize
    /\ Multiple(Len(taken), SampleBytes)
    /\ InSession => FileHolds
    /\ pc \in {"ready", "broken"} =>
         d_strm = NewStream(CHUNK) /\ pending = <<>> /\ taken = <<>>
    /\ pc = "loop" =>
         /\ total_out = d_strm.total_out /\ d_strm.avail_out = CHUNK
         /\ d_strm.total_out + d_strm.owed <= Gain * Len(taken)
    /\ pc # "crashed" /\ input_stream = "eof" => position = size
    /\ pc \in {"loop", "done"} /\ ~input_avail => input_stream # "good"
    /\ pc = "loop" /\ ~output_avail => Len(pending) < SampleBytes
    /\ pc = "done" => ~input_avail /\ Len(pending) < SampleBytes

\* The output invariant holds of a new object.
LEMMA OutputInit == Init => OutputInv
  <1> SUFFICES ASSUME Init PROVE OutputInv
    OBVIOUS
  <1>1. TypeOK /\ ReadInOrder
    BY TypeInit
  <1>2. Multiple(0, SampleBytes)
    <2>1. 0 = 0 * SampleBytes
      BY CoderAssumption
    <2> QED
      BY <2>1 DEF Multiple
  <1>3. Len(<<>>) = 0 /\ 0 <= MaxSize
    BY EmptySeq, FileAssumption
  <1> QED
    BY <1>1, <1>2, <1>3 DEF Init, OutputInv, InSession

\* Every step keeps the output invariant.
LEMMA OutputStep ==
    ASSUME NoWrap, OutputInv, [Next]_vars
    PROVE  OutputInv'
  <1>0. /\ TypeOK /\ ReadInOrder /\ TypeOK' /\ ReadInOrder'
        /\ Multiple(0, SampleBytes) /\ Len(<<>>) = 0
        /\ CHUNK \in Nat \ {0} /\ MaxSize \in Nat /\ Gain \in Nat
        /\ SampleBytes \in Nat \ {0}
    <2>1. 0 = 0 * SampleBytes
      BY CoderAssumption
    <2> QED
      BY <2>1, TypeStep, EmptySeq, FileAssumption, CoderAssumption
      DEF OutputInv, Multiple
  <1>1. Gain * Len(taken') < INT_RANGE \div 2
        \/ ~(size' <= MaxSize)
    <2>1. /\ taken' \in Seq(Nat) /\ pending' \in Seq(Nat)
          /\ position' \in Nat /\ position' <= size' /\ size' \in Nat
          /\ taken' \o pending' = Run(0, position')
      BY <1>0, IotaIsRun DEF TypeOK, ReadInOrder
    <2>2. Len(taken') \in 0..position'
      BY <2>1, RunBegins
    <2>3. size' <= MaxSize => Len(taken') <= MaxSize
      BY <1>0, <2>1, <2>2
    <2>4. ASSUME Len(taken') <= MaxSize
          PROVE  Gain * Len(taken') < INT_RANGE \div 2
      <3>1. /\ Gain * Len(taken') \in Nat /\ Gain * MaxSize \in Nat
            /\ Gain * Len(taken') <= Gain * MaxSize
        <4>1. Len(taken') \in Nat
          BY <2>1, <2>2
        <4> QED
          BY <1>0, <2>4, <4>1, ProductGrows
      <3>2. INT_RANGE \div 2 \in Int
        BY FileAssumption
      <3> QED
        BY <3>1, <3>2 DEF NoWrap
    <2> QED
      BY <2>3, <2>4
  <1>2. ASSUME Begin, file' = <<>>, pc' \in {"ready", "broken"},
               input_stream' # "eof"
        PROVE  OutputInv'
    <2>1. /\ size' <= MaxSize /\ d_strm' = NewStream(CHUNK)
          /\ pending' = <<>> /\ taken' = <<>>
      BY <1>0, <1>2 DEF Begin
    <2>2. FileHolds'
      <3>1. <<>> = Run(0, 0)
        BY DEF Run
      <3> QED
        BY <1>0, <1>2, <2>1, <3>1 DEF FileHolds, Holds, NewStream
    <2> QED
      BY <1>0, <1>2, <2>1, <2>2 DEF OutputInv
  <1>3. CASE CompressInit
    BY <1>2, <1>3 DEF CompressInit, Opened
  <1>4. CASE CompressInitNoOutput
    BY <1>2, <1>4 DEF CompressInitNoOutput, Opened
  <1>5. CASE CompressInitNoInput
    BY <1>2, <1>5 DEF CompressInitNoInput, streams
  <1>6. CASE CompressInitNoHeader
    BY <1>0, <1>6
    DEF CompressInitNoHeader, Begin, OutputInv, InSession, streams
  <1>7. CASE CompressEnter
    <2>1. /\ d_strm.total_out = 0 /\ d_strm.owed = 0
          /\ d_strm.avail_out = CHUNK
      BY <1>7 DEF CompressEnter, OutputInv, NewStream
    <2>2. Gain * Len(taken) \in Nat
      BY <1>0, LenProperties DEF TypeOK
    <2> QED
      BY <1>0, <1>7, <2>1, <2>2
      DEF CompressEnter, OutputInv, InSession, FileHolds, streams
  <1>8. CASE CompressNoCoder
    BY <1>0, <1>8 DEF CompressNoCoder, OutputInv, InSession, streams
  <1>9. ASSUME NEW in \in Seq(Nat), Turn(in), pc = "loop",
               UNCHANGED <<pc, size, coder, sessions>>,
               input_stream' = "eof" => position' = size',
               ~input_avail' => input_stream' # "good"
        PROVE  OutputInv'
    <2>1. /\ total_out = d_strm.total_out /\ d_strm.avail_out = CHUNK
          /\ d_strm.total_out + d_strm.owed <= Gain * Len(taken)
          /\ Multiple(Len(taken), SampleBytes) /\ FileHolds
          /\ size' <= MaxSize
      BY <1>9 DEF OutputInv, InSession
    <2>2. Gain * Len(taken') < INT_RANGE \div 2
      BY <1>1, <2>1
    <2>3. /\ total_out' = d_strm'.total_out /\ d_strm'.avail_out = CHUNK
          /\ d_strm'.total_out + d_strm'.owed <= Gain * Len(taken')
          /\ Multiple(Len(taken'), SampleBytes)
          /\ FileHolds'
          /\ ~output_avail' => Len(pending') < SampleBytes
      BY <1>0, <1>9, <2>1, <2>2, TurnOutput
    <2> QED
      BY <1>0, <1>9, <2>1, <2>3 DEF OutputInv
  <1>10. CASE IterateRefill
    <2>1. PICK rd \in ReadOutcomes : Fill(rd) /\ Turn(FillFrom(rd))
      BY <1>10 DEF IterateRefill
    <2>2. /\ rd.n # CHUNK => rd.stream # "good"
          /\ rd.stream = "eof" =>
               \/ input_stream = "eof" /\ rd.n = 0
               \/ position + rd.n = size
          /\ FillFrom(rd) \in Seq(Nat) /\ position \in Nat
      BY <1>0, ReadType DEF TypeOK
    <2>3. input_stream = "eof" => position = size
      BY <1>10 DEF IterateRefill, OutputInv
    <2>4. /\ position' = position + rd.n /\ input_stream' = rd.stream
          /\ UNCHANGED <<pc, size, coder, sessions>> /\ pc = "loop"
      BY <1>10, <2>1 DEF IterateRefill, Fill
    <2>5. ~input_avail' => rd.n # CHUNK
      BY <2>1, Zenon DEF Fill
    <2>6. input_stream' = "eof" => position' = size'
      BY <2>2, <2>3, <2>4
    <2> QED
      BY <1>9, <2>1, <2>2, <2>4, <2>5, <2>6
  <1>11. CASE IterateDrain
    <2>1. pending \in Seq(Nat)
      BY <1>0 DEF TypeOK
    <2> QED
      BY <1>9, <1>11, <2>1 DEF IterateDrain, Keep, OutputInv
  <1>12. CASE IterateError
    <2>1. position' = size' \/ input_stream' # "eof"
      <3>1. input_stream = "eof" => position = size
        BY <1>12 DEF IterateError, OutputInv
      <3>2. ASSUME NEW rd \in ReadOutcomes, Fill(rd)
            PROVE  position' = size' \/ input_stream' # "eof"
        <4>1. /\ rd.stream = "eof" =>
                   \/ input_stream = "eof" /\ rd.n = 0
                   \/ position + rd.n = size
              /\ position \in Nat
          BY <1>0, ReadType, SMTT(60) DEF TypeOK
        <4> QED
          BY <1>12, <3>1, <3>2, <4>1 DEF IterateError, Fill
      <3>3. CASE Keep
        BY <1>12, <3>1, <3>3 DEF IterateError, Keep
      <3> QED
        BY <1>12, <3>2, <3>3 DEF IterateError
    <2>2. FileHolds' /\ pc' = "failed"
      BY <1>12 DEF IterateError, OutputInv, InSession, FileHolds
    <2> QED
      BY <1>0, <1>12, <2>1, <2>2 DEF IterateError, OutputInv
  <1>13. CASE CompressFlush
    <2>1. /\ Len(pending) \in Nat /\ d_strm \in Strm /\ Len(taken) \in Nat
          /\ pending \in Seq(Nat) /\ taken \in Seq(Nat)
      BY <1>0, LenProperties DEF TypeOK, Strm
    <2>2. PICK r \in EncodeOutcomes(d_strm, Len(pending), TRUE) :
            LET t == AfterEncode(d_strm, r)
            IN  /\ taken' = taken \o SubSeq(pending, 1, r.took)
                /\ pending' = SubSeq(pending, r.took + 1, Len(pending))
                /\ \E w \in WriteOutcomes(t) :
                      output_stream' = w.stream /\ file' = w.file
                /\ d_strm' = t
      BY <1>13 DEF CompressFlush
    <2> DEFINE t == AfterEncode(d_strm, r)
    <2>3. /\ r.took \in 0..Len(pending) /\ r.out \in Nat
          /\ t \in Strm /\ t.total_out = d_strm.total_out + r.out
          /\ Multiple(r.took, SampleBytes)
      <3>1. /\ r.took \in 0..Len(pending) /\ r.out \in 0..d_strm.avail_out
            /\ t \in Strm /\ t.total_out = d_strm.total_out + r.out
            /\ Multiple(r.took, SampleBytes)
        BY <2>1, <2>2, OutcomeType
      <3>2. d_strm.avail_out \in Nat
        BY <1>0, <2>1 DEF Strm
      <3> QED
        BY <3>1, <3>2
    <2>4. /\ Len(taken') = Len(taken) + r.took
          /\ Len(pending') = Len(pending) - r.took
      <3>1. /\ Len(taken \o SubSeq(pending, 1, r.took)) = Len(taken) + r.took
            /\ Len(SubSeq(pending, r.took + 1, Len(pending)))
                 = Len(pending) - r.took
        BY <2>1, <2>3, TakeFrom
      <3> QED
        BY <2>2, <3>1
    <2>5. Multiple(Len(taken'), SampleBytes)
      <3>1. Multiple(Len(taken), SampleBytes)
        BY DEF OutputInv
      <3> QED
        BY <1>0, <2>3, <2>4, <3>1, Multiples
    <2>6. Len(pending') < SampleBytes
      <3>1. Len(pending) < SampleBytes
        BY <1>13 DEF CompressFlush, OutputInv
      <3> QED
        BY <1>0, <2>1, <2>3, <2>4, <3>1
    <2>7. FileHolds'
      <3>1. PICK w \in WriteOutcomes(t) :
              output_stream' = w.stream /\ file' = w.file
        BY <2>2
      <3>2. d_strm.total_out <= t.total_out
        BY <2>1, <2>3 DEF Strm
      <3>3. total_out = d_strm.total_out /\ FileHolds
        BY <1>13 DEF CompressFlush, OutputInv, InSession
      <3>4. Holds(w.file, w.stream = "good", t.total_out)
        BY <1>0, <2>3, <3>2, <3>3, WriteHolds
      <3>5. d_strm'.total_out = t.total_out
        BY <2>2
      <3> QED
        BY <3>1, <3>4, <3>5 DEF FileHolds
    <2> QED
      BY <1>0, <1>13, <2>5, <2>6, <2>7 DEF CompressFlush, OutputInv, locals
  <1>14. CASE CompressFlushError
    BY <1>0, <1>14
    DEF CompressFlushError, OutputInv, InSession, FileHolds, streams, locals
  <1>15. CASE CompressFin
    BY <1>0, <1>15
    DEF CompressFin, OutputInv, InSession, FileHolds, streams, locals
  <1>16. CASE UNCHANGED vars
    BY <1>0, <1>16
    DEF vars, OutputInv, InSession, FileHolds, streams, locals
  <1> QED
    BY <1>3, <1>4, <1>5, <1>6, <1>7, <1>8, <1>10, <1>11, <1>12, <1>13, <1>14,
       <1>15, <1>16
    DEF Next, Loop

\* If no coded file is too long for the int of compress, the output file never
\* holds a gap, a byte twice or a byte the coder did not put out, whatever the
\* coder holds back, however often it fills the buffer and whatever write fails.
THEOREM WrittenCorrect ==
    ASSUME NoWrap
    PROVE  Spec => []WrittenIsPrefix
  <1>1. OutputInv => WrittenIsPrefix
    <2> SUFFICES ASSUME OutputInv, InSession
                 PROVE  file = Iota(Len(file)) /\ Len(file) <= d_strm.total_out
      BY DEF WrittenIsPrefix, InSession
    <2>1. Len(file) \in Nat
      BY LenProperties DEF OutputInv, TypeOK
    <2> QED
      BY <2>1, IotaIsRun DEF OutputInv, FileHolds, Holds
  <1> QED
    BY <1>1, OutputInit, OutputStep, PTL DEF Spec

\* In a state of the invariant, success means that everything was done.
LEMMA SuccessHolds == OutputInv => SuccessMeansComplete
  <1> SUFFICES ASSUME OutputInv, pc = "done",
                      input_stream \in {"good", "eof"},
                      output_stream = "good"
               PROVE  /\ taken = Iota(size - (size % SampleBytes))
                      /\ file = Iota(d_strm.total_out)
    BY DEF SuccessMeansComplete
  <1>0. /\ taken \in Seq(Nat) /\ pending \in Seq(Nat) /\ file \in Seq(Nat)
        /\ size \in Nat /\ SampleBytes \in Nat \ {0}
        /\ Len(pending) \in Nat /\ Len(taken) \in Nat /\ Len(file) \in Nat
    BY CoderAssumption, LenProperties DEF OutputInv, TypeOK
  <1>1. position = size /\ Len(pending) < SampleBytes
    BY DEF OutputInv
  <1>2. taken \o pending = Run(0, size)
    BY <1>0, <1>1, IotaIsRun DEF OutputInv, ReadInOrder
  <1>3. taken = Run(0, Len(taken))
    <2>1. 0 \in Nat
      OBVIOUS
    <2>2. IsRun(0, taken)
      BY <1>0, <1>2, <2>1, RunBegins
    <2> QED
      BY <2>2 DEF IsRun
  <1>4. Len(taken) = size - (size % SampleBytes)
    <2>1. size = Len(taken) + Len(pending)
      <3>1. Len(taken \o pending) = Len(taken) + Len(pending)
        BY <1>0, ConcatProperties
      <3>2. Len(Run(0, size)) = size
        BY <1>0, RunType
      <3> QED
        BY <1>2, <3>1, <3>2
    <2>2. PICK q \in Nat : Len(taken) = q * SampleBytes
      BY DEF OutputInv, Multiple
    <2>3. (q * SampleBytes + Len(pending)) % SampleBytes = Len(pending)
      BY <1>0, <1>1, RemainderUnique
    <2>4. size = q * SampleBytes + Len(pending)
      BY <2>1, <2>2
    <2>5. size % SampleBytes = Len(pending)
      BY <2>3, <2>4
    <2> QED
      BY <1>0, <2>1, <2>5
  <1>5. file = Run(0, d_strm.total_out) /\ d_strm.total_out \in Nat
    <2>1. FileHolds
      BY DEF OutputInv, InSession
    <2> QED
      BY <1>0, <2>1 DEF FileHolds, Holds
  <1> QED
    BY <1>0, <1>3, <1>4, <1>5, IotaIsRun

\* If no coded file is too long for the int of compress, a compress that
\* returned 0 has lost nothing but what one of the two streams has lost.
THEOREM SuccessCorrect ==
    ASSUME NoWrap
    PROVE  Spec => []SuccessMeansComplete
  BY SuccessHolds, OutputInit, OutputStep, PTL DEF Spec
=============================================================================
