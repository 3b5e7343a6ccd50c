----------------------- MODULE FileDecompressorProofs -----------------------
(***************************************************************************)
(* Theorems about FileDecompressor for every value of its constants.       *)
(***************************************************************************)
EXTENDS FileDecompressor, SequenceFacts

Strm == [avail_out : 0..CHUNK, total_out : Nat, owed : Nat]

-----------------------------------------------------------------------------
\* The numbering of bytes is a run from place 1 on.
LEMMA IotaIsRun ==
    ASSUME NEW n \in Nat
    PROVE  Iota(n) = Run(0, n)
  BY DEF Iota, Run

\* The bytes behind the header are a run from its end on.
LEMMA PayloadIsRun ==
    ASSUME NEW n \in Int
    PROVE  Payload(n) = Run(d_iqzip_header_size, n - d_iqzip_header_size)
  BY DEF Payload, Run

\* What a read brings: the bytes behind position, fewer than the buffer holds
\* only when the stream is no longer good, all of them when it meets the end.
LEMMA ReadType ==
    ASSUME TypeOK, position <= size, NEW rd \in ReadOutcomes
    PROVE  /\ rd.n \in 0..CHUNK /\ position + rd.n \in 0..size
           /\ rd.stream \in {"closed", "good", "eof", "failed"}
           /\ rd.n # CHUNK => rd.stream # "good"
           /\ rd.stream = "eof" =>
                \/ input_stream = "eof" /\ rd.n = 0
                \/ position + rd.n = size
           /\ FillFrom(rd) = Run(position, rd.n)
           /\ FillFrom(rd) \in Seq(Nat) /\ Len(FillFrom(rd)) = rd.n
  <1>0. /\ CHUNK \in Nat \ {0} /\ size \in Nat /\ position \in 0..size
        /\ input_stream \in {"closed", "good", "eof", "failed"}
    BY DecompressorAssumption, DecoderAssumption DEF TypeOK
  <1>1. /\ rd.n \in 0..CHUNK /\ position + rd.n \in 0..size
        /\ rd.stream \in {"closed", "good", "eof", "failed"}
        /\ rd.n # CHUNK => rd.stream # "good"
        /\ rd.stream = "eof" =>
             \/ input_stream = "eof" /\ rd.n = 0
             \/ position + rd.n = size
    <2>1. CASE input_stream # "good"
      <3>1. rd = [n |-> 0, stream |-> input_stream]
        BY <2>1 DEF ReadOutcomes
      <3> QED
        BY <1>0, <2>1, <3>1
    <2>2. CASE input_stream = "good" /\ size - position >= CHUNK
      <3>1. \/ rd = [n |-> CHUNK, stream |-> "good"]
            \/ \E k \in 0..(size - position) :
                 k < CHUNK /\ rd = [n |-> k, stream |-> "failed"]
        BY <2>2 DEF ReadOutcomes
      <3> QED
        BY <1>0, <2>2, <3>1
    <2>3. CASE input_stream = "good" /\ ~(size - position >= CHUNK)
      <3>1. \/ rd = [n |-> size - position, stream |-> "eof"]
            \/ \E k \in 0..(size - position) :
                 k < CHUNK /\ rd = [n |-> k, stream |-> "failed"]
        BY <2>3 DEF ReadOutcomes
      <3> QED
        BY <1>0, <2>3, <3>1
    <2> QED
      BY <2>1, <2>2, <2>3
  <1>2. FillFrom(rd) = Run(position, rd.n)
    BY DEF FillFrom, Run
  <1>3. Run(position, rd.n) \in Seq(Nat) /\ Len(Run(position, rd.n)) = rd.n
    <2>1. position \in Nat /\ rd.n \in Nat
      BY <1>0, <1>1
    <2> QED
      BY <2>1, RunType
  <1> QED
    BY <1>1, <1>2, <1>3, Zenon

\* What a call of the decoder returns, and the stream after it.
LEMMA OutcomeType ==
    ASSUME NEW s \in Strm, NEW n \in Nat, NEW r \in DecodeOutcomes(s, n)
    PROVE  /\ r.took \in 0..n /\ r.out \in 0..s.avail_out /\ r.owed \in Nat
           /\ AfterDecode(s, r) \in Strm
           /\ AfterDecode(s, r).avail_out = s.avail_out - r.out
           /\ AfterDecode(s, r).total_out = s.total_out + r.out
           /\ AfterDecode(s, r).owed = r.owed
  <1>1. /\ r.took \in 0..n /\ r.out \in 0..s.avail_out
        /\ r.owed \in 0..(s.owed + Expand * n)
    BY DEF DecodeOutcomes, Samples
  <1>2. r.owed \in Nat
    BY <1>1
  <1>3. AfterDecode(s, r) \in Strm
    BY <1>1, <1>2, DecompressorAssumption DEF AfterDecode, Strm
  <1> QED
    BY <1>1, <1>2, <1>3 DEF AfterDecode

\* It puts out no more than its input and what it owed can become, and with
\* room left for a sample it takes everything and owes nothing.
LEMMA OutcomeBound ==
    ASSUME NEW s, NEW n, NEW r \in DecodeOutcomes(s, n)
    PROVE  /\ r.out + r.owed <= s.owed + Expand * r.took
           /\ s.avail_out - r.out >= SampleBytes => r.took = n /\ r.owed = 0
  BY DEF DecodeOutcomes

\* What waits to be written is an integer.
LEMMA UnwrittenType ==
    ASSUME TypeOK, NEW t \in Strm
    PROVE  Unwritten(t) \in Int
  <1>1. t.total_out \in Int
    BY DEF Strm
  <1>2. INT_RANGE \in Int
    BY DecompressorAssumption
  <1>3. total_out \in Int
    BY <1>2 DEF TypeOK
  <1> QED
    BY <1>1, <1>3 DEF Unwritten

\* The three outcomes of a write: nothing to do or a stream that takes nothing,
\* everything written, only a beginning of it.
LEMMA WriteCases ==
    ASSUME TypeOK, NEW t \in Strm, NEW w \in WriteOutcomes(t)
    PROVE  \/ /\ output_stream # "good" \/ Unwritten(t) = 0
              /\ w = [stream |-> output_stream, file |-> file]
           \/ /\ output_stream = "good" /\ Unwritten(t) <= CHUNK
              /\ w = [stream |-> "good", file |-> file \o Decoded(t)]
           \/ /\ output_stream = "good"
              /\ \E k \in 0..Unwritten(t) :
                   w = [stream |-> "failed",
                        file |-> file \o SubSeq(Decoded(t), 1, k)]
  <1>0. Unwritten(t) \in Int /\ CHUNK \in Nat
    BY UnwrittenType, DecompressorAssumption
  <1>1. CASE output_stream # "good" \/ Unwritten(t) = 0
    BY <1>1 DEF WriteOutcomes
  <1>2. CASE output_stream = "good" /\ Unwritten(t) # 0 /\ Unwritten(t) > CHUNK
    <2>1. w = [stream |-> "failed", file |-> file \o SubSeq(Decoded(t), 1, CHUNK + 1)]
      BY <1>2, Zenon DEF WriteOutcomes
    <2>2. CHUNK + 1 \in 0..Unwritten(t)
      BY <1>0, <1>2
    <2> QED
      BY <1>2, <2>1, <2>2, Zenon
  <1>3. CASE /\ output_stream = "good" /\ Unwritten(t) # 0
             /\ ~(Unwritten(t) > CHUNK)
    <2>1. w \in {[stream |-> "good", file |-> file \o Decoded(t)]}
                \cup {[stream |-> "failed", file |-> file \o SubSeq(Decoded(t), 1, k)] :
                        k \in IF "write" \in Faults
                              THEN 0..(Unwritten(t) - 1) ELSE {}}
      BY <1>3, Zenon DEF WriteOutcomes
    <2>2. \/ w = [stream |-> "good", file |-> file \o Decoded(t)]
          \/ \E k \in 0..(Unwritten(t) - 1) :
               w = [stream |-> "failed", file |-> file \o SubSeq(Decoded(t), 1, k)]
      BY <2>1, Zenon
    <2>3. \A k \in 0..(Unwritten(t) - 1) : k \in 0..Unwritten(t)
      BY <1>0
    <2>4. Unwritten(t) <= CHUNK
      BY <1>0, <1>3
    <2> QED
      BY <1>3, <2>2, <2>3, <2>4, Zenon
  <1> QED
    BY <1>1, <1>2, <1>3

\* The bytes a write may take are numbers, as many as there are to write.
LEMMA DecodedType ==
    ASSUME TypeOK, NEW t \in Strm
    PROVE  /\ Unwritten(t) \in Int
           /\ Decoded(t) \in Seq(Nat)
           /\ Unwritten(t) >= 0 => Len(Decoded(t)) = Unwritten(t)
  <1>1. Unwritten(t) \in Int
    BY UnwrittenType
  <1>2. CASE Unwritten(t) >= 0
    <2>1. Decoded(t) \in [1..Unwritten(t) -> Nat] /\ Unwritten(t) \in Nat
      BY <1>1, <1>2 DEF Decoded, TypeOK, Strm
    <2> QED
      BY <2>1, SeqOfFunction
  <1>3. CASE Unwritten(t) < 0
    <2>1. 1..Unwritten(t) = 1..0 /\ 0 \in Nat
      BY <1>1, <1>3
    <2>2. Decoded(t) \in [1..0 -> Nat]
      BY <2>1 DEF Decoded
    <2>3. Decoded(t) \in Seq(Nat)
      BY <2>1, <2>2, SeqOfFunction
    <2> QED
      BY <1>1, <1>3, <2>3
  <1> QED
    BY <1>1, <1>2, <1>3

\* Whatever is written, the file stays a sequence of numbers.
LEMMA WriteType ==
    ASSUME TypeOK, NEW t \in Strm, NEW w \in WriteOutcomes(t)
    PROVE  w.stream \in {"closed", "good", "failed"} /\ w.file \in Seq(Nat)
  <1>0. /\ file \in Seq(Nat) /\ output_stream \in {"closed", "good", "failed"}
        /\ Decoded(t) \in Seq(Nat) /\ Unwritten(t) \in Int
        /\ Unwritten(t) >= 0 => Len(Decoded(t)) = Unwritten(t)
    BY DecodedType DEF TypeOK
  <1>1. CASE w = [stream |-> output_stream, file |-> file]
    BY <1>0, <1>1
  <1>2. CASE w = [stream |-> "good", file |-> file \o Decoded(t)]
    BY <1>0, <1>2, ConcatProperties
  <1>3. ASSUME NEW k \in 0..Unwritten(t),
               w = [stream |-> "failed", file |-> file \o SubSeq(Decoded(t), 1, k)]
        PROVE  w.stream \in {"closed", "good", "failed"} /\ w.file \in Seq(Nat)
    <2>1. SubSeq(Decoded(t), 1, k) \in Seq(Nat)
      BY <1>0, Prefix
    <2>2. file \o SubSeq(Decoded(t), 1, k) \in Seq(Nat)
      BY <1>0, <2>1, ConcatProperties
    <2> QED
      BY <1>3, <2>2
  <1> QED
    BY <1>1, <1>2, <1>3, WriteCases

\* An int stays in its range, and holds every number below half of it.
LEMMA IntHolds ==
    ASSUME NEW n \in Nat
    PROVE  /\ ToInt(n) \in (-INT_RANGE)..INT_RANGE
           /\ n < INT_RANGE \div 2 => ToInt(n) = n
  <1> DEFINE half == INT_RANGE \div 2
  <1>1. half \in Nat /\ INT_RANGE = 2 * half /\ half > 0
    <2>1. PICK k \in 1..half : INT_RANGE = 2 * k
      BY DecompressorAssumption
    <2>2. (2 * k) \div 2 = k
      OBVIOUS
    <2> QED
      BY <2>1, <2>2
  <1>2. ToInt(n) = ((n + half) % INT_RANGE) - half
    BY DEF ToInt
  <1> HIDE DEF half
  <1> DEFINE m == n + half
  <1>3. m \in Nat /\ INT_RANGE \in Nat \ {0}
    BY <1>1
  <1>4. ToInt(n) = (m % INT_RANGE) - half
    BY <1>2
  <1> HIDE DEF m
  <1>5. /\ m % INT_RANGE \in 0..(INT_RANGE - 1)
        /\ m < INT_RANGE => m % INT_RANGE = m
    BY <1>3
  <1>6. ToInt(n) \in (-INT_RANGE)..INT_RANGE
    BY <1>1, <1>4, <1>5
  <1>7. n < half => ToInt(n) = n
    BY <1>1, <1>4, <1>5 DEF m
  <1> QED
    BY <1>6, <1>7 DEF half

-----------------------------------------------------------------------------
\* A turn of the loop keeps the types and the order of the input.
LEMMA TurnType ==
    ASSUME TypeOK, NEW in \in Seq(Nat), Turn(in)
    PROVE  /\ taken' \in Seq(Nat) /\ pending' \in Seq(Nat)
           /\ taken' \o pending' = taken \o in
           /\ output_stream' \in {"closed", "good", "failed"}
           /\ file' \in Seq(Nat)
           /\ output_avail' \in BOOLEAN
           /\ total_out' \in (-INT_RANGE)..INT_RANGE
           /\ d_strm' \in Strm
  <1>0. /\ Len(in) \in Nat /\ d_strm \in Strm /\ taken \in Seq(Nat)
        /\ total_out \in (-INT_RANGE)..INT_RANGE
    BY LenProperties DEF TypeOK, Strm
  <1>1. PICK r \in DecodeOutcomes(d_strm, Len(in)) :
          LET t == AfterDecode(d_strm, r)
          IN  /\ taken' = taken \o SubSeq(in, 1, r.took)
              /\ pending' = SubSeq(in, r.took + 1, Len(in))
              /\ \E w \in WriteOutcomes(t) :
                    output_stream' = w.stream /\ file' = w.file
              /\ output_avail' = Wrote(t)
              /\ total_out' = Count(t)
              /\ d_strm' = Room(t)
    BY DEF Turn
  <1> DEFINE t == AfterDecode(d_strm, r)
  <1>2. r.took \in 0..Len(in) /\ t \in Strm
    BY <1>0, <1>1, OutcomeType
  <1>3. /\ taken' \in Seq(Nat) /\ pending' \in Seq(Nat)
        /\ taken' \o pending' = taken \o in
    <2>1. Moved(Nat, taken, in, taken \o SubSeq(in, 1, r.took),
                SubSeq(in, r.took + 1, Len(in)))
      BY <1>0, <1>2, TakeFrom
    <2> QED
      BY <1>1, <2>1, Zenon DEF Moved
  <1>4. output_stream' \in {"closed", "good", "failed"} /\ file' \in Seq(Nat)
    BY <1>1, <1>2, WriteType
  <1>5. /\ output_avail' = Wrote(t) /\ total_out' = Count(t)
        /\ d_strm' = Room(t)
    BY <1>1
  <1> HIDE DEF t
  <1>6. output_avail' \in BOOLEAN
    BY <1>5 DEF Wrote
  <1>7. total_out' \in (-INT_RANGE)..INT_RANGE
    <2>1. t.total_out \in Nat
      BY <1>2 DEF Strm
    <2> QED
      BY <1>0, <1>5, <2>1, IntHolds DEF Count
  <1>8. d_strm' \in Strm
    <2>1. [t EXCEPT !.avail_out = CHUNK] \in Strm
      <3>1. CHUNK \in 0..CHUNK
        BY DecompressorAssumption
      <3> QED
        BY <1>2, <3>1 DEF Strm
    <2> QED
      BY <1>2, <1>5, <2>1 DEF Room
  <1> QED
    BY <1>3, <1>4, <1>6, <1>7, <1>8

-----------------------------------------------------------------------------
\* The decoder and the buffer have, between them, what was read from the end of
\* the header on.
FedSoFar ==
    /\ position \in d_iqzip_header_size..size
    /\ taken \o pending = Run(d_iqzip_header_size, position - d_iqzip_header_size)

\* The inductive invariant behind the order of the input: decompress_init
\* leaves the input stream behind the header, inside the file.
FedInv == TypeOK /\ (Decompressing => FedSoFar)

\* The state of a new object has the types, and nothing is decompressed in it.
LEMMA FedInit == Init => FedInv
  <1> SUFFICES ASSUME Init PROVE FedInv
    OBVIOUS
  <1>1. <<>> \in Seq(Nat)
    BY EmptySeq
  <1>2. NewDecoder(CHUNK) \in Strm
    BY DecompressorAssumption DEF NewDecoder, Strm
  <1>3. 0 \in (-INT_RANGE)..INT_RANGE /\ 0 \in 0..max_header_size
    BY DecompressorAssumption
  <1>4. TypeOK
    <2>1. /\ size \in Nat /\ position \in Nat /\ sessions \in Nat
          /\ d_iqzip_header_size \in 0..max_header_size
          /\ pending \in Seq(Nat) /\ file \in Seq(Nat) /\ taken \in Seq(Nat)
          /\ pc \in States /\ total_out \in (-INT_RANGE)..INT_RANGE
          /\ input_stream = "closed" /\ output_stream = "closed"
      BY <1>1, <1>3 DEF Init, States
    <2>2. input_avail \in BOOLEAN /\ output_avail \in BOOLEAN
      BY DEF Init
    <2>3. d_strm \in Strm
      BY <1>2 DEF Init
    <2> QED
      BY <2>1, <2>2, <2>3 DEF TypeOK, Strm
  <1> QED
    BY <1>4 DEF Init, FedInv, Decompressing

\* Reading more into the empty buffer keeps the bytes in order.
LEMMA ReadGoesOn ==
    ASSUME FedInv, Decompressing, pending = <<>>,
           NEW rd \in ReadOutcomes, Fill(rd)
    PROVE  /\ rd.n \in Nat /\ rd.stream \in {"closed", "good", "eof", "failed"}
           /\ position' \in d_iqzip_header_size..size
           /\ FillFrom(rd) \in Seq(Nat)
           /\ taken \o FillFrom(rd)
                = Run(d_iqzip_header_size, position' - d_iqzip_header_size)
  <1> DEFINE h == d_iqzip_header_size
  <1>1. /\ h \in Nat /\ position \in h..size /\ size \in Nat
        /\ position \in Nat /\ taken \in Seq(Nat) /\ TypeOK
        /\ taken \o <<>> = Run(h, position - h)
    BY DecompressorAssumption DEF FedInv, FedSoFar, TypeOK
  <1>2. /\ rd.n \in Nat /\ position + rd.n \in 0..size
        /\ rd.stream \in {"closed", "good", "eof", "failed"}
        /\ FillFrom(rd) = Run(position, rd.n) /\ FillFrom(rd) \in Seq(Nat)
    <2>1. position <= size /\ CHUNK \in Nat
      BY <1>1, DecompressorAssumption
    <2> QED
      BY <1>1, <2>1, ReadType
  <1>3. position' = position + rd.n
    BY DEF Fill
  <1>4. taken = Run(h, position - h)
    <2>1. taken \o <<>> = taken
      BY <1>1, ConcatEmptySeq
    <2> QED
      BY <1>1, <2>1
  <1>5. Run(h, position - h) \o Run(h + (position - h), rd.n)
          = Run(h, (position - h) + rd.n)
    <2>1. position - h \in Nat
      BY <1>1
    <2> QED
      BY <1>1, <1>2, <2>1, RunGoesOn, SMTT(60), ZenonT(60)
  <1>6. h + (position - h) = position /\ (position - h) + rd.n = position' - h
    BY <1>1, <1>2, <1>3
  <1>7. taken \o FillFrom(rd) = Run(h, position' - h)
    BY <1>2, <1>4, <1>5, <1>6
  <1> QED
    BY <1>1, <1>2, <1>3, <1>7

\* Every step keeps it: the buffer is refilled only when it is empty, and what a
\* turn leaves in it is what the decoder has not taken.
LEMMA FedStep ==
    ASSUME FedInv, [Next]_vars
    PROVE  FedInv'
  <1>0. /\ <<>> \in Seq(Nat) /\ <<>> \o <<>> = <<>>
        /\ CHUNK \in Nat /\ MaxSize \in Nat /\ max_header_size \in Nat
        /\ pending \in Seq(Nat) /\ taken \in Seq(Nat) /\ TypeOK
    BY EmptySeq, ConcatEmptySeq, DecompressorAssumption DEF FedInv, TypeOK
  <1>1. ASSUME Begin, pc' \in {"broken", "thrown", "crashed"}, position' \in Nat,
               d_iqzip_header_size' \in 0..max_header_size, d_strm' \in Strm,
               pending' \in Seq(Nat), taken' \in Seq(Nat), file' \in Seq(Nat),
               input_stream' \in {"closed", "good", "eof", "failed"},
               output_stream' \in {"closed", "good", "failed"}
        PROVE  FedInv'
    BY <1>0, <1>1, SMTT(60) DEF Begin, FedInv, TypeOK, Strm, locals, States,
       Decompressing
  <1>2. ASSUME Parsed
        PROVE  /\ Begin /\ size' \in Nat /\ sessions' \in Nat
               /\ d_iqzip_header_size' \in 0..max_header_size
               /\ d_iqzip_header_size' \in 0..size'
               /\ d_strm' \in Strm
               /\ pending' = <<>> /\ taken' = <<>> /\ file' = <<>>
    <2>1. NewDecoder(CHUNK) \in Strm
      BY <1>0 DEF NewDecoder, Strm
    <2> QED
      BY <1>0, <1>2, <2>1, DecompressorAssumption, SMTT(60) DEF Parsed, Begin,
         TypeOK
  <1>3. CASE DecompressInit
    <2>1. /\ Parsed /\ position' = d_iqzip_header_size'
          /\ input_stream' \in {"good", "failed"}
          /\ output_stream' \in {"good", "failed"}
          /\ pc' \in {"ready", "broken"}
      BY <1>3 DEF DecompressInit, Skip, Opened
    <2>2. TypeOK'
      BY <1>0, <1>2, <2>1, SMTT(60) DEF Begin, TypeOK, Strm, locals, States
    <2>3. FedSoFar'
      <3>1. Run(d_iqzip_header_size', 0) = <<>>
        BY DEF Run
      <3>2. position' - d_iqzip_header_size' = 0
        BY <1>2, <2>1
      <3>3. taken' \o pending'
              = Run(d_iqzip_header_size', position' - d_iqzip_header_size')
        BY <1>0, <1>2, <2>1, <3>1, <3>2
      <3>4. position' \in d_iqzip_header_size'..size'
        BY <1>0, <1>2, <2>1
      <3> QED
        BY <3>3, <3>4 DEF FedSoFar
    <2> QED
      BY <2>2, <2>3 DEF FedInv
  <1>4. CASE DecompressInitNoOutput
    BY <1>0, <1>1, <1>2, <1>4 DEF DecompressInitNoOutput, Opened, TypeOK
  <1>5. CASE DecompressInitNoInput
    BY <1>0, <1>1, <1>2, <1>5 DEF DecompressInitNoInput, streams, TypeOK
  <1>6. CASE DecompressInitShort
    BY <1>0, <1>1, <1>6 DEF DecompressInitShort, streams, TypeOK, Strm
  <1>7. CASE DecompressInitNoFile
    BY <1>0, <1>1, <1>7 DEF DecompressInitNoFile, streams, TypeOK, Strm
  <1>8. CASE DecompressEnter
    <2>1. 0 \in (-INT_RANGE)..INT_RANGE
      BY DecompressorAssumption
    <2> QED
      BY <1>8, <2>1
      DEF DecompressEnter, FedInv, TypeOK, FedSoFar, Decompressing, States, streams
  <1>9. CASE DecompressNoDecoder
    BY <1>9
    DEF DecompressNoDecoder, FedInv, TypeOK, Decompressing, States, streams, locals
  <1>10. CASE IterateRefill
    <2>1. PICK rd \in ReadOutcomes : Fill(rd) /\ Turn(FillFrom(rd))
      BY <1>10 DEF IterateRefill
    <2>2. Decompressing /\ pending = <<>>
      BY <1>10 DEF IterateRefill, NeedsInput, Decompressing
    <2>3. /\ rd.n \in Nat /\ rd.stream \in {"closed", "good", "eof", "failed"}
          /\ position' \in d_iqzip_header_size..size
          /\ FillFrom(rd) \in Seq(Nat)
          /\ taken \o FillFrom(rd)
               = Run(d_iqzip_header_size, position' - d_iqzip_header_size)
      BY <2>1, <2>2, ReadGoesOn
    <2>4. /\ UNCHANGED <<pc, size, d_iqzip_header_size, sessions>>
          /\ position' = position + rd.n /\ input_stream' = rd.stream
          /\ input_avail' \in BOOLEAN
      <3>1. input_avail' \in BOOLEAN
        BY <2>1, Zenon DEF Fill
      <3> QED
        BY <1>10, <2>1, <3>1 DEF IterateRefill, Fill
    <2>5. /\ taken' \in Seq(Nat) /\ pending' \in Seq(Nat)
          /\ taken' \o pending' = taken \o FillFrom(rd)
          /\ output_stream' \in {"closed", "good", "failed"}
          /\ file' \in Seq(Nat) /\ output_avail' \in BOOLEAN
          /\ total_out' \in (-INT_RANGE)..INT_RANGE /\ d_strm' \in Strm
      BY <1>0, <2>1, <2>3, TurnType
    <2>6. position' \in Nat
      BY <1>0, <2>3, <2>4, SMTT(60) DEF TypeOK
    <2>7. TypeOK'
      BY <1>0, <2>3, <2>4, <2>5, <2>6 DEF TypeOK, Strm
    <2> QED
      BY <2>3, <2>4, <2>5, <2>7 DEF FedInv, FedSoFar
  <1>11. CASE IterateDrain
    <2>1. Decompressing
      BY <1>11 DEF IterateDrain, Decompressing
    <2>2. /\ UNCHANGED <<pc, size, d_iqzip_header_size, position, input_avail,
                         input_stream, sessions>>
          /\ Turn(pending)
      BY <1>11 DEF IterateDrain
    <2>3. TypeOK' /\ taken' \o pending' = taken \o pending
      BY <1>0, <2>2, TurnType DEF TypeOK, Strm
    <2> QED
      BY <2>1, <2>2, <2>3 DEF FedInv, FedSoFar
  <1>12. CASE IterateError
    <2>0. /\ Decompressing /\ pc' = "failed"
          /\ UNCHANGED <<size, d_iqzip_header_size, d_strm, total_out,
                         output_avail, output_stream, file, sessions, taken>>
      BY <1>12 DEF IterateError, Decompressing
    <2>1. ASSUME NeedsInput, NEW rd \in ReadOutcomes, Fill(rd),
                 pending' = FillFrom(rd)
          PROVE  FedInv'
      <3>1. /\ rd.n \in Nat /\ rd.stream \in {"closed", "good", "eof", "failed"}
            /\ position' \in d_iqzip_header_size..size
            /\ FillFrom(rd) \in Seq(Nat)
            /\ taken \o FillFrom(rd)
                 = Run(d_iqzip_header_size, position' - d_iqzip_header_size)
        BY <2>0, <2>1, ReadGoesOn DEF NeedsInput
      <3>2. input_avail' \in BOOLEAN
        BY <2>1, Zenon DEF Fill
      <3>3. position' = position + rd.n /\ input_stream' = rd.stream
        BY <2>1 DEF Fill
      <3>4. TypeOK'
        BY <1>0, <2>0, <2>1, <3>1, <3>2, <3>3, SMTT(60) DEF TypeOK, States
      <3> QED
        BY <2>0, <2>1, <3>1, <3>4 DEF FedInv, FedSoFar
    <2>2. ASSUME ~NeedsInput, UNCHANGED <<position, input_stream, input_avail, pending>>
          PROVE  FedInv'
      BY <2>0, <2>2 DEF FedInv, TypeOK, States, FedSoFar
    <2> QED
      BY <1>12, <2>1, <2>2 DEF IterateError
  <1>13. CASE DecompressReturn
    BY <1>13
    DEF DecompressReturn, FedInv, FedSoFar, TypeOK, Decompressing, States, streams, locals
  <1>14. CASE DecompressFin
    BY <1>14
    DEF DecompressFin, FedInv, TypeOK, Decompressing, States, locals
  <1>15. CASE UNCHANGED vars
    BY <1>15
    DEF vars, FedInv, FedSoFar, TypeOK, Decompressing, streams, locals
  <1> QED
    BY <1>3, <1>4, <1>5, <1>6, <1>7, <1>8, <1>9, <1>10, <1>11, <1>12, <1>13,
       <1>14, <1>15
    DEF Next, Start, Loop

\* The types of the variables, for every buffer, header, decoder and width of
\* an int, under any faults.
THEOREM TypeCorrect == Spec => []TypeOK
  <1>1. FedInv => TypeOK
    BY DEF FedInv
  <1> QED
    BY <1>1, FedInit, FedStep, PTL DEF Spec

\* Whatever fails, and however small the buffer: the decoder gets every byte
\* behind the header once and in order, and none behind the end of the file.
THEOREM InputInOrder == Spec => []FedBehindHeader
  <1>1. FedInv => FedBehindHeader
    <2> SUFFICES ASSUME FedInv, Decompressing
                 PROVE  taken \o pending = Payload(position) /\ position <= size
      BY DEF FedBehindHeader
    <2>1. position \in Int /\ size \in Int /\ FedSoFar
      BY DEF FedInv, TypeOK
    <2>2. position <= size
      BY <2>1, DecompressorAssumption DEF FedInv, TypeOK, FedSoFar
    <2> QED
      BY <2>1, <2>2, PayloadIsRun DEF FedSoFar
  <1> QED
    BY <1>1, FedInit, FedStep, PTL DEF Spec

-----------------------------------------------------------------------------
\* The decoded form of every compressed file is countable in the int of
\* decompress.
Countable(n) == Expand * n < INT_RANGE \div 2

NoWrap == Countable(MaxSize)

\* The decoder has put out no more than what it took can become.
OutputBounded == d_strm.total_out + d_strm.owed <= Expand * Len(taken)

\* The output file holds the beginning of what the decoder has put out, all of it
\* as long as the stream is good.
FileHolds == Holds(file, output_stream = "good", d_strm.total_out)

\* A write keeps that up if it begins where the file ends.
LEMMA WriteHolds ==
    ASSUME TypeOK, total_out = d_strm.total_out, FileHolds,
           NEW t \in Strm, d_strm.total_out <= t.total_out,
           NEW w \in WriteOutcomes(t)
    PROVE  Holds(w.file, w.stream = "good", t.total_out)
  <1> DEFINE m == d_strm.total_out
             u == Unwritten(t)
  <1>0. m \in Nat /\ t.total_out \in Nat /\ u \in Nat /\ m + u = t.total_out
    BY DEF TypeOK, Strm, Unwritten
  <1>1. CASE output_stream # "good" \/ u = 0
    <2>1. w = [stream |-> output_stream, file |-> file]
      BY <1>1 DEF WriteOutcomes
    <2>2. Len(file) \in Nat
      BY LenProperties DEF TypeOK
    <2> QED
      BY <1>0, <1>1, <2>1, <2>2 DEF Holds, FileHolds
  <1>2. CASE output_stream = "good" /\ u # 0
    <2>1. Decoded(t) = Run(m, u)
      <3>1. \A i \in 1..u : m + i <= t.total_out
        BY <1>0
      <3> QED
        BY <3>1 DEF Decoded, Run
    <2>2. Holds(file, TRUE, m)
      BY <1>2 DEF FileHolds, Holds
    <2>3. \/ w = [stream |-> "good", file |-> file \o Decoded(t)]
          \/ \E k \in 0..u : w = [stream |-> "failed",
                                  file |-> file \o SubSeq(Decoded(t), 1, k)]
      BY <1>2, WriteCases
    <2> HIDE DEF m, u
    <2>4. /\ Holds(file \o Decoded(t), TRUE, t.total_out)
          /\ \A k \in 0..u :
               Holds(file \o SubSeq(Decoded(t), 1, k), FALSE, t.total_out)
      BY <1>0, <2>1, <2>2, HoldsMore, Zenon
    <2>5. CASE w = [stream |-> "good", file |-> file \o Decoded(t)]
      <3>1. w.stream = "good" /\ w.file = file \o Decoded(t)
        BY <2>5
      <3> QED
        BY <2>4, <3>1, Zenon
    <2>6. ASSUME NEW k \in 0..u,
                 w = [stream |-> "failed", file |-> file \o SubSeq(Decoded(t), 1, k)]
          PROVE  Holds(w.file, w.stream = "good", t.total_out)
      <3>1. /\ (w.stream = "good") = FALSE
            /\ w.file = file \o SubSeq(Decoded(t), 1, k)
        BY <2>6
      <3> QED
        BY <2>4, <3>1
    <2> QED
      BY <2>3, <2>5, <2>6
  <1> QED
    BY <1>1, <1>2

\* What a turn of the loop does to the output, and what it leaves when it writes
\* nothing.  The count of the written bytes must fit the int it is kept in.
LEMMA TurnOutput ==
    ASSUME TypeOK, NEW in \in Seq(Nat), Turn(in),
           total_out = d_strm.total_out, d_strm.avail_out = CHUNK,
           OutputBounded, Countable(Len(taken')),
           FileHolds, output_stream # "closed"
    PROVE  /\ total_out' = d_strm'.total_out /\ d_strm'.avail_out = CHUNK
           /\ OutputBounded'
           /\ FileHolds' /\ output_stream' # "closed"
           /\ ~output_avail' => pending' = <<>> /\ d_strm'.owed = 0
  <1>0. /\ Len(in) \in Nat /\ d_strm \in Strm /\ taken \in Seq(Nat)
        /\ Len(taken) \in Nat /\ CHUNK \in Nat /\ CHUNK >= SampleBytes
        /\ Expand \in Nat /\ SampleBytes \in Nat \ {0}
        /\ d_strm.total_out \in Nat /\ d_strm.owed \in Nat
    BY LenProperties, DecompressorAssumption, DecoderAssumption DEF TypeOK, Strm
  <1>1. PICK r \in DecodeOutcomes(d_strm, Len(in)) :
          LET t == AfterDecode(d_strm, r)
          IN  /\ taken' = taken \o SubSeq(in, 1, r.took)
              /\ pending' = SubSeq(in, r.took + 1, Len(in))
              /\ \E w \in WriteOutcomes(t) :
                    output_stream' = w.stream /\ file' = w.file
              /\ output_avail' = Wrote(t)
              /\ total_out' = Count(t)
              /\ d_strm' = Room(t)
    BY DEF Turn
  <1> DEFINE t == AfterDecode(d_strm, r)
  <1>2. /\ r.took \in 0..Len(in) /\ r.out \in 0..CHUNK /\ r.owed \in Nat
        /\ t \in Strm /\ t.avail_out = CHUNK - r.out
        /\ t.total_out = d_strm.total_out + r.out /\ t.owed = r.owed
        /\ t.total_out \in Nat /\ t.owed \in Nat
    <2>1. /\ r.took \in 0..Len(in) /\ r.out \in 0..d_strm.avail_out
          /\ r.owed \in Nat /\ t \in Strm
          /\ t.avail_out = d_strm.avail_out - r.out
          /\ t.total_out = d_strm.total_out + r.out /\ t.owed = r.owed
      BY <1>0, <1>1, OutcomeType
    <2>2. t.total_out \in Nat /\ t.owed \in Nat
      BY <2>1 DEF Strm
    <2> HIDE DEF t
    <2> QED
      BY <2>1, <2>2
  <1>3. /\ Len(taken') = Len(taken) + r.took
        /\ Len(pending') = Len(in) - r.took /\ pending' \in Seq(Nat)
    <2>1. /\ Len(taken \o SubSeq(in, 1, r.took)) = Len(taken) + r.took
          /\ Len(SubSeq(in, r.took + 1, Len(in))) = Len(in) - r.took
      BY <1>0, <1>2, TakeFrom, SMTT(60), ZenonT(60)
    <2>2. pending' \in Seq(Nat)
      BY TurnType
    <2> QED
      BY <1>1, <2>1, <2>2
  <1>4. PICK w \in WriteOutcomes(t) : output_stream' = w.stream /\ file' = w.file
    BY <1>1
  <1>5. output_avail' = Wrote(t) /\ total_out' = Count(t) /\ d_strm' = Room(t)
    BY <1>1
  <1> HIDE DEF t
  <1>6. Unwritten(t) = r.out
    BY <1>0, <1>2 DEF Unwritten
  <1>7. t.total_out + t.owed <= Expand * Len(taken')
    <2> DEFINE before == Expand * Len(taken)
               more == Expand * r.took
    <2>0. r.out + r.owed <= d_strm.owed + more
      BY OutcomeBound
    <2>1. Expand * Len(taken') = before + more
      BY <1>0, <1>2, <1>3
    <2>2. before \in Nat /\ more \in Nat
      <3>1. r.took \in Nat
        BY <1>0, <1>2
      <3> QED
        BY <1>0, <3>1
    <2>3. /\ d_strm.total_out + d_strm.owed <= before
          /\ r.out + r.owed <= d_strm.owed + more
          /\ r.out \in Nat /\ r.owed \in Nat
          /\ t.total_out = d_strm.total_out + r.out /\ t.owed = r.owed
      BY <1>0, <1>2, <2>0 DEF OutputBounded
    <2> HIDE DEF before, more
    <2>4. t.total_out + t.owed <= before + more
      BY <1>0, <2>2, <2>3, SMTT(60)
    <2> QED
      BY <2>1, <2>4
  <1>8. t.total_out < INT_RANGE \div 2
    <2>1. Expand * Len(taken') \in Nat
      <3>1. Len(taken') \in Nat
        BY <1>0, <1>2, <1>3
      <3> QED
        BY <1>0, <3>1
    <2>2. INT_RANGE \div 2 \in Int
      BY DecompressorAssumption
    <2> QED
      BY <1>2, <1>7, <2>1, <2>2 DEF Countable
  <1>9. /\ total_out' = d_strm'.total_out /\ d_strm'.avail_out = CHUNK
        /\ d_strm'.total_out = t.total_out /\ d_strm'.owed = t.owed
    <2>1. CASE r.out # 0
      <3>1. ToInt(t.total_out) = t.total_out
        BY <1>2, <1>8, IntHolds
      <3>2. Wrote(t)
        BY <1>0, <1>6, <2>1 DEF Wrote
      <3> QED
        BY <1>2, <1>5, <3>1, <3>2 DEF Strm, Count, Room
    <2>2. CASE r.out = 0
      BY <1>0, <1>2, <1>5, <1>6, <2>2 DEF Wrote, Count, Room
    <2> QED
      BY <2>1, <2>2
  <1>10. FileHolds' /\ output_stream' # "closed"
    <2>1. d_strm.total_out <= t.total_out
      BY <1>0, <1>2
    <2>2. Holds(w.file, w.stream = "good", t.total_out)
      BY <1>2, <2>1, WriteHolds
    <2>3. w.stream # "closed"
      BY <1>2, WriteCases
    <2> QED
      BY <1>4, <1>9, <2>2, <2>3 DEF FileHolds
  <1>11. ~output_avail' => pending' = <<>> /\ d_strm'.owed = 0
    <2>1. ~output_avail' => Unwritten(t) = 0
      BY <1>5, Zenon DEF Wrote
    <2>2. ASSUME r.out = 0
          PROVE  pending' = <<>> /\ t.owed = 0
      <3>1. r.took = Len(in) /\ r.owed = 0
        BY <1>0, <1>2, <2>2, OutcomeBound
      <3>2. Len(pending') = 0
        BY <1>0, <1>3, <3>1
      <3> QED
        BY <1>2, <1>3, <3>1, <3>2, EmptySeq
    <2> QED
      BY <1>6, <1>9, <2>1, <2>2
  <1>12. OutputBounded'
    BY <1>7, <1>9 DEF OutputBounded
  <1> QED
    BY <1>9, <1>10, <1>11, <1>12

-----------------------------------------------------------------------------
\* The inductive invariant behind what the file holds and behind success.
\* While decompress works, the count of the written bytes agrees with the
\* decoder's own and the whole buffer is free; the decoder has put out no more
\* than what it took can become, so the count fits the int.  The input has ended
\* when the buffer is no longer filled; and the last turn, having written
\* nothing, has left nothing.
OutputInv ==
    /\ FedInv
    /\ size <= MaxSize
    /\ Decompressing =>
         /\ FileHolds /\ output_stream # "closed" /\ input_stream # "closed"
         /\ input_stream = "eof" => position = size
    /\ pc = "ready" => d_strm = NewDecoder(CHUNK) /\ taken = <<>>
    /\ pc = "loop" =>
         total_out = d_strm.total_out /\ d_strm.avail_out = CHUNK /\ OutputBounded
    /\ pc \in {"loop", "done"} /\ ~input_avail => input_stream # "good"
    /\ pc = "loop" /\ ~output_avail => pending = <<>> /\ d_strm.owed = 0
    /\ pc = "done" => ~input_avail /\ pending = <<>> /\ d_strm.owed = 0

\* It holds of a new object.
LEMMA OutputInit == Init => OutputInv
  BY FedInit, DecompressorAssumption DEF Init, OutputInv, Decompressing

\* What the decoder took of a file that is not too long is countable.
LEMMA TakenCountable ==
    ASSUME NoWrap, FedInv, Decompressing, size <= MaxSize
    PROVE  Countable(Len(taken))
  <1> DEFINE h == d_iqzip_header_size
  <1>1. /\ h \in Nat /\ position \in h..size /\ size \in Nat
        /\ MaxSize \in Nat /\ Expand \in Nat
        /\ taken \in Seq(Nat) /\ pending \in Seq(Nat)
        /\ taken \o pending = Run(h, position - h)
    BY DecompressorAssumption, DecoderAssumption, SMTT(60) DEF FedInv,
       FedSoFar, TypeOK
  <1>2. Len(taken) \in 0..(position - h)
    <2>1. position - h \in Nat
      BY <1>1
    <2> QED
      BY <1>1, <2>1, RunBegins
  <1>3. Len(taken) \in Nat /\ Len(taken) <= MaxSize
    BY <1>1, <1>2
  <1>4. /\ Expand * Len(taken) \in Nat /\ Expand * MaxSize \in Nat
        /\ Expand * Len(taken) <= Expand * MaxSize
    BY <1>1, <1>3, ProductGrows
  <1>5. INT_RANGE \div 2 \in Int
    BY DecompressorAssumption
  <1> QED
    BY <1>4, <1>5 DEF NoWrap, Countable

\* Every step keeps the invariant.
LEMMA OutputStep ==
    ASSUME NoWrap, OutputInv, [Next]_vars
    PROVE  OutputInv'
  <1>0. /\ FedInv /\ FedInv' /\ TypeOK /\ TypeOK' /\ size <= MaxSize
        /\ Len(<<>>) = 0 /\ CHUNK \in Nat /\ MaxSize \in Nat
        /\ Expand \in Nat /\ d_strm \in Strm
    BY FedStep, EmptySeq, DecompressorAssumption, DecoderAssumption
    DEF OutputInv, FedInv, TypeOK, Strm
  <1>1. ASSUME Decompressing', size' <= MaxSize
        PROVE  Countable(Len(taken'))
    <2>1. (NoWrap /\ FedInv /\ Decompressing /\ size <= MaxSize)'
            => Countable(Len(taken))'
      BY TakenCountable, PTL
    <2> QED
      BY <1>0, <1>1, <2>1 DEF NoWrap, Countable
  <1>2. ASSUME Begin, pc' \in {"broken", "thrown", "crashed"}
        PROVE  OutputInv'
    BY <1>0, <1>2 DEF Begin, OutputInv, Decompressing
  <1>3. CASE DecompressInit
    <2>1. /\ size' <= MaxSize /\ d_strm' = NewDecoder(CHUNK)
          /\ pending' = <<>> /\ taken' = <<>> /\ file' = <<>>
          /\ input_stream' \in {"good", "failed"}
          /\ output_stream' \in {"good", "failed"}
          /\ pc' \in {"ready", "broken"}
      BY <1>0, <1>3 DEF DecompressInit, Parsed, Begin, Opened
    <2>2. FileHolds'
      <3>1. <<>> = Run(0, 0)
        BY DEF Run
      <3> QED
        BY <1>0, <2>1, <3>1 DEF FileHolds, Holds, NewDecoder
    <2> QED
      BY <1>0, <2>1, <2>2 DEF OutputInv
  <1>4. CASE DecompressInitNoOutput
    BY <1>2, <1>4 DEF DecompressInitNoOutput, Parsed
  <1>5. CASE DecompressInitNoInput
    BY <1>2, <1>5 DEF DecompressInitNoInput, Parsed
  <1>6. CASE DecompressInitShort
    BY <1>2, <1>6 DEF DecompressInitShort
  <1>7. CASE DecompressInitNoFile
    BY <1>2, <1>7 DEF DecompressInitNoFile
  <1>8. CASE DecompressEnter
    <2>1. /\ d_strm.total_out = 0 /\ d_strm.owed = 0 /\ d_strm.avail_out = CHUNK
          /\ Expand * Len(taken) = 0
      BY <1>0, <1>8 DEF DecompressEnter, OutputInv, NewDecoder
    <2> QED
      BY <1>0, <1>8, <2>1
      DEF DecompressEnter, OutputInv, Decompressing, FileHolds, OutputBounded,
          streams
  <1>9. CASE DecompressNoDecoder
    BY <1>0, <1>9 DEF DecompressNoDecoder, OutputInv, Decompressing
  <1>10. ASSUME NEW in \in Seq(Nat), Turn(in), pc = "loop",
                UNCHANGED <<pc, size, d_iqzip_header_size, sessions>>,
                input_stream' # "closed",
                input_stream' = "eof" => position' = size',
                ~input_avail' => input_stream' # "good"
         PROVE  OutputInv'
    <2>1. /\ total_out = d_strm.total_out /\ d_strm.avail_out = CHUNK
          /\ OutputBounded /\ FileHolds /\ output_stream # "closed"
      BY <1>10 DEF OutputInv, Decompressing
    <2>2. Countable(Len(taken'))
      BY <1>0, <1>1, <1>10 DEF Decompressing
    <2>3. /\ total_out' = d_strm'.total_out /\ d_strm'.avail_out = CHUNK
          /\ OutputBounded' /\ FileHolds' /\ output_stream' # "closed"
          /\ ~output_avail' => pending' = <<>> /\ d_strm'.owed = 0
      BY <1>0, <1>10, <2>1, <2>2, TurnOutput
    <2> QED
      BY <1>0, <1>10, <2>3 DEF OutputInv
  <1>11. ASSUME pc = "loop", NEW rd \in ReadOutcomes, Fill(rd), UNCHANGED size
         PROVE  /\ input_stream' # "closed"
                /\ input_stream' = "eof" => position' = size'
                /\ ~input_avail' => input_stream' # "good"
                /\ FillFrom(rd) \in Seq(Nat)
    <2>1. /\ input_stream # "closed"
          /\ input_stream = "eof" => position = size
          /\ position \in Nat /\ position <= size
      BY <1>0, <1>11 DEF OutputInv, Decompressing, TypeOK, FedInv, FedSoFar
    <2>2. /\ rd.n # CHUNK => rd.stream # "good"
          /\ rd.stream = "eof" =>
               \/ input_stream = "eof" /\ rd.n = 0
               \/ position + rd.n = size
          /\ FillFrom(rd) \in Seq(Nat)
      BY <1>0, <2>1, ReadType
    <2>3. rd.stream # "closed"
      BY <1>11, <2>1 DEF ReadOutcomes
    <2>4. ~input_avail' => rd.n # CHUNK
      BY <1>11, Zenon DEF Fill
    <2>5. position' = position + rd.n /\ input_stream' = rd.stream
      BY <1>11 DEF Fill
    <2> QED
      BY <1>11, <2>1, <2>2, <2>3, <2>4, <2>5
  <1>12. CASE IterateRefill
    <2>1. PICK rd \in ReadOutcomes : Fill(rd) /\ Turn(FillFrom(rd))
      BY <1>12 DEF IterateRefill
    <2>2. pc = "loop" /\ UNCHANGED <<pc, size, d_iqzip_header_size, sessions>>
      BY <1>12 DEF IterateRefill
    <2> QED
      BY <1>10, <1>11, <2>1, <2>2
  <1>13. CASE IterateDrain
    <2>1. /\ pc = "loop" /\ Turn(pending) /\ pending \in Seq(Nat)
          /\ UNCHANGED <<pc, size, d_iqzip_header_size, position, input_avail,
                         input_stream, sessions>>
      BY <1>0, <1>13 DEF IterateDrain, TypeOK
    <2>2. /\ input_stream # "closed"
          /\ input_stream = "eof" => position = size
          /\ ~input_avail => input_stream # "good"
      BY <2>1 DEF OutputInv, Decompressing
    <2> QED
      BY <1>10, <2>1, <2>2
  <1>14. CASE IterateError
    <2>1. /\ pc = "loop" /\ pc' = "failed"
          /\ UNCHANGED <<size, d_strm, output_stream, file>>
      BY <1>14 DEF IterateError
    <2>2. FileHolds' /\ output_stream' # "closed"
      BY <2>1 DEF OutputInv, Decompressing, FileHolds
    <2>3. input_stream' # "closed" /\ (input_stream' = "eof" => position' = size')
      <3>1. CASE \E rd \in ReadOutcomes : Fill(rd)
        BY <1>11, <2>1, <3>1
      <3>2. CASE UNCHANGED <<position, input_stream>>
        BY <2>1, <3>2 DEF OutputInv, Decompressing
      <3> QED
        BY <1>14, <3>1, <3>2 DEF IterateError
    <2> QED
      BY <1>0, <2>1, <2>2, <2>3 DEF OutputInv
  <1>15. CASE DecompressReturn
    BY <1>0, <1>15
    DEF DecompressReturn, More, OutputInv, Decompressing, FileHolds, streams, locals
  <1>16. CASE DecompressFin
    BY <1>0, <1>16 DEF DecompressFin, OutputInv, Decompressing
  <1>17. CASE UNCHANGED vars
    BY <1>0, <1>17
    DEF vars, OutputInv, Decompressing, FileHolds, OutputBounded, streams, locals
  <1> QED
    BY <1>3, <1>4, <1>5, <1>6, <1>7, <1>8, <1>9, <1>12, <1>13, <1>14, <1>15,
       <1>16, <1>17
    DEF Next, Start, Loop

\* If no decoded file is too long for the int of decompress, the output file
\* never holds a gap, a byte twice or a byte the decoder did not put out, however
\* far the data expands and whatever write fails.
THEOREM WrittenCorrect ==
    ASSUME NoWrap
    PROVE  Spec => []WrittenIsPrefix
  <1>1. OutputInv => WrittenIsPrefix
    <2> SUFFICES ASSUME OutputInv, Decompressing
                 PROVE  file = Iota(Len(file)) /\ Len(file) <= d_strm.total_out
      BY DEF WrittenIsPrefix
    <2>1. Len(file) \in Nat
      BY LenProperties DEF OutputInv, FedInv, TypeOK
    <2> QED
      BY <2>1, IotaIsRun DEF OutputInv, FileHolds, Holds
  <1> QED
    BY <1>1, OutputInit, OutputStep, PTL DEF Spec

\* In a state of the invariant, success means that everything was done.
LEMMA SuccessHolds == OutputInv => SuccessMeansComplete
  <1> SUFFICES ASSUME OutputInv, pc = "done", input_stream # "failed",
                      output_stream # "failed"
               PROVE  /\ taken = Payload(size)
                      /\ d_strm.owed = 0
                      /\ file = Iota(d_strm.total_out)
    BY DEF SuccessMeansComplete
  <1>1. /\ Decompressing /\ FedSoFar /\ FileHolds /\ d_strm.owed = 0
        /\ pending = <<>> /\ position = size /\ output_stream = "good"
        /\ taken \in Seq(Nat) /\ size \in Nat /\ d_strm.total_out \in Nat
    <2>1. /\ TypeOK /\ Decompressing /\ FedSoFar /\ FileHolds
          /\ d_strm.owed = 0 /\ pending = <<>>
          /\ input_stream \notin {"closed", "good", "failed"}
          /\ output_stream \notin {"closed", "failed"}
          /\ input_stream = "eof" => position = size
      BY DEF OutputInv, FedInv, Decompressing
    <2> QED
      BY <2>1 DEF TypeOK
  <1>2. taken \o <<>> = taken
    BY <1>1, ConcatEmptySeq
  <1>3. taken = Payload(size)
    BY <1>1, <1>2, PayloadIsRun DEF FedSoFar
  <1>4. file = Iota(d_strm.total_out)
    BY <1>1, IotaIsRun DEF FileHolds, Holds
  <1> QED
    BY <1>1, <1>3, <1>4

\* If no decoded file is too long for the int of decompress, a decompress that
\* returned 0 has fed the decoder the whole payload and written all it put out,
\* but for what one of the two streams has lost: the last turn of the loop
\* leaves the decoder empty without a flush.
THEOREM SuccessCorrect ==
    ASSUME NoWrap
    PROVE  Spec => []SuccessMeansComplete
  BY SuccessHolds, OutputInit, OutputStep, PTL DEF Spec
=============================================================================
