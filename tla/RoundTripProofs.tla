--------------------------- MODULE RoundTripProofs ---------------------------
(***************************************************************************)
(* Theorems about RoundTrip for every value of its constants.  What is     *)
(* proved of the two objects carries over: every step of the two programs  *)
(* is a step of each object or leaves it alone.                            *)
(***************************************************************************)
EXTENDS RoundTrip, FileCompressorProofs

\* The decompressing object again, with the theorems about it.
DP == INSTANCE FileDecompressorProofs WITH
    HeaderSizes <- {h.parsed : h \in Headers},
    Faults <- DecompressFaults, MaxSize <- MaxArchive,
    pc <- x_pc, size <- x_size, d_iqzip_header_size <- x_header_size,
    position <- x_position, pending <- x_pending, d_strm <- x_strm,
    total_out <- x_total_out, input_avail <- x_input_avail,
    output_avail <- x_output_avail, input_stream <- x_input_stream,
    output_stream <- x_output_stream, file <- x_file,
    sessions <- x_sessions, taken <- x_taken

-----------------------------------------------------------------------------
\* The constants fit the decoder.
LEMMA DecoderFits == DP!DecoderAssumption
  BY CoderAssumption, RoundTripAssumption DEF DP!DecoderAssumption

\* The constants fit the decompressing object.
LEMMA DecompressorFits == DP!DecompressorAssumption
  <1>1. MaxArchive \in Nat
    <2>1. /\ max_header_size \in Nat /\ Hold \in Nat
          /\ Gain \in Nat /\ MaxSize \in Nat
      BY CoderAssumption, FileAssumption, RoundTripAssumption
    <2>2. Gain * MaxSize \in Nat
      BY <2>1
    <2> QED
      BY <2>1, <2>2 DEF MaxArchive
  <1>2. {h.parsed : h \in Headers} \subseteq 0..max_header_size
    BY RoundTripAssumption
  <1>3. DecompressFaults \subseteq DP!FaultKinds
    BY RoundTripAssumption DEF D!FaultKinds, DP!FaultKinds
  <1>4. /\ CHUNK \in Nat /\ CHUNK >= SampleBytes
        /\ INT_RANGE \in {2 * n : n \in 1..(INT_RANGE \div 2)}
        /\ max_header_size \in Nat /\ MaxSessions \in Nat
    BY FileAssumption, RoundTripAssumption
  <1> QED
    BY <1>1, <1>2, <1>3, <1>4 DEF DP!DecompressorAssumption

\* D is that object: the definitions are the same.
LEMMA SameState ==
    /\ D!Init <=> DP!Init
    /\ D!vars = DP!vars
    /\ D!Decompressing <=> DP!Decompressing
    /\ \A n : D!Payload(n) = DP!Payload(n) /\ D!Iota(n) = DP!Iota(n)
  BY DEF D!Init, DP!Init, D!NewDecoder, DP!NewDecoder, D!vars, DP!vars, D!locals,
      DP!locals, D!streams, DP!streams, D!Decompressing, DP!Decompressing,
      D!Payload, DP!Payload, D!Iota, DP!Iota

\* So are its steps.
LEMMA SameStep ==
    ASSUME D!Next
    PROVE  DP!Next
  BY DEF D!NewDecoder, DP!NewDecoder, D!Samples, DP!Samples, D!DecodeOutcomes,
      DP!DecodeOutcomes, D!AfterDecode, DP!AfterDecode, D!FaultKinds,
      DP!FaultKinds, D!locals, DP!locals, D!streams, DP!streams, D!vars,
      DP!vars, D!Opened, DP!Opened, D!MayInit, DP!MayInit, D!Begin, DP!Begin,
      D!Parsed, DP!Parsed, D!Skip, DP!Skip, D!DecompressInit,
      DP!DecompressInit, D!DecompressInitNoOutput, DP!DecompressInitNoOutput,
      D!DecompressInitNoInput, DP!DecompressInitNoInput,
      D!DecompressInitShort, DP!DecompressInitShort, D!DecompressInitNoFile,
      DP!DecompressInitNoFile, D!ToInt, DP!ToInt, D!Unwritten, DP!Unwritten,
      D!Decoded, DP!Decoded, D!WriteOutcomes, DP!WriteOutcomes,
      D!ReadOutcomes, DP!ReadOutcomes, D!DecompressEnter, DP!DecompressEnter,
      D!DecompressNoDecoder, DP!DecompressNoDecoder, D!More, DP!More,
      D!NeedsInput, DP!NeedsInput, D!Fill, DP!Fill, D!FillFrom, DP!FillFrom,
      D!Wrote, DP!Wrote, D!Count, DP!Count, D!Room, DP!Room, D!Turn, DP!Turn,
      D!IterateRefill, DP!IterateRefill, D!IterateDrain, DP!IterateDrain,
      D!IterateError, DP!IterateError, D!DecompressReturn,
      DP!DecompressReturn, D!DecompressFin, DP!DecompressFin, D!Start,
      DP!Start, D!Loop, DP!Loop, D!Next, DP!Next

-----------------------------------------------------------------------------
\* A step of the first program that ends it is compress_fin.
LEMMA ExitIsFin ==
    ASSUME Next, sessions \in {0, 1}
    PROVE  /\ sessions' \in {0, 1}
           /\ CompressExited' => CompressFin /\ sessions = 1
  <1>1. ASSUME CompressInit \/ CompressInitNoOutput \/ CompressInitNoInput
               \/ CompressInitNoHeader
        PROVE  sessions' = 1 /\ pc' \in {"ready", "broken", "crashed"}
    <2>1. Begin => sessions' = 1
      BY RoundTripAssumption DEF Begin
    <2> QED
      BY <1>1, <2>1
      DEF CompressInit, CompressInitNoOutput, CompressInitNoInput,
          CompressInitNoHeader
  <1>2. ASSUME CompressEnter \/ CompressNoCoder \/ Loop
        PROVE  sessions' = sessions
               /\ pc' \in {"loop", "crashed", "failed", "done"}
    BY <1>2
    DEF CompressEnter, CompressNoCoder, Loop, IterateRefill, IterateDrain,
        IterateError, CompressFlush, CompressFlushError
  <1>3. CompressFin => sessions' = sessions
    BY DEF CompressFin
  <1> QED
    BY <1>1, <1>2, <1>3 DEF Next, CompressExited

\* A step of the second program after decompress_init keeps what that found.
LEMMA StartedOnce ==
    ASSUME D!Next, x_sessions = 1
    PROVE  /\ UNCHANGED <<x_size, x_header_size, x_sessions>>
           /\ x_pc' \notin {"crashed", "thrown"} => x_pc \notin {"crashed", "thrown"}
           /\ x_pc' = "closed" => D!DecompressFin
           /\ x_pc' = "done" => D!DecompressReturn
  BY RoundTripAssumption
  DEF D!Next, D!Start, D!Loop, D!DecompressInit, D!DecompressInitNoOutput,
      D!DecompressInitNoInput, D!DecompressInitShort, D!DecompressInitNoFile,
      D!Parsed, D!Begin, D!MayInit, D!DecompressEnter, D!DecompressNoDecoder,
      D!IterateRefill, D!IterateDrain, D!IterateError, D!DecompressReturn,
      D!DecompressFin

\* decompress_init counts its call and leaves the object no further than ready.
LEMMA StartIsCall ==
    ASSUME D!Start, x_sessions = 0
    PROVE  /\ x_sessions' = 1
           /\ x_pc' \in {"ready", "broken", "thrown", "crashed"}
  BY DEF D!Start, D!DecompressInit, D!DecompressInitNoOutput,
         D!DecompressInitNoInput, D!DecompressInitShort,
         D!DecompressInitNoFile, D!Parsed, D!Begin

\* Every step is a step of each object, or leaves it alone.
LEMMA StepOfBoth ==
    ASSUME [RNext]_rvars
    PROVE  [Next]_vars /\ [DP!Next]_(DP!vars)
  <1>1. UNCHANGED xvars => UNCHANGED DP!vars
    BY DEF xvars, DP!vars, DP!locals, DP!streams
  <1>2. UNCHANGED rvars => UNCHANGED vars /\ UNCHANGED xvars
    BY DEF rvars
  <1>3. D!Start => D!Next
    BY DEF D!Next
  <1>4. [Next]_vars /\ (D!Next \/ UNCHANGED DP!vars)
    BY <1>1, <1>2, <1>3
    DEF RNext, CompressRun, DecompressStart, DecompressRun
  <1> QED
    BY <1>4, SameStep

-----------------------------------------------------------------------------
\* The inductive invariant behind what the decoder is fed.  Each object is in a
\* state of its own invariant; the archive of a first program that has exited is
\* the coder's output from its first byte on; and the second program works on
\* that archive, as long as it is, behind the header as it was parsed.
ArchiveInv ==
    /\ OutputInv /\ DP!FedInv
    /\ header \in Headers
    /\ sessions \in {0, 1} /\ x_sessions \in {0, 1}
    /\ CompressExited => IsRun(0, file)
    /\ x_sessions = 0 => x_pc = "closed"
    /\ x_sessions = 1 =>
         /\ CompressExited /\ x_size = Len(Archive)
         /\ x_pc \notin {"crashed", "thrown"} => x_header_size = header.parsed

\* It holds when the first program starts.
LEMMA ArchiveInit == RInit => ArchiveInv
  <1> SUFFICES ASSUME RInit PROVE ArchiveInv
    OBVIOUS
  <1>1. DP!FedInv
    BY DP!FedInit, DecoderFits, DecompressorFits, SameState DEF RInit
  <1>2. OutputInv
    BY OutputInit DEF RInit
  <1>3. sessions = 0 /\ x_sessions = 0 /\ x_pc = "closed"
    BY DEF RInit, Init, D!Init
  <1> QED
    BY <1>1, <1>2, <1>3 DEF RInit, ArchiveInv, CompressExited

\* Every step keeps it.
LEMMA ArchiveStep ==
    ASSUME NoWrap, ArchiveInv, [RNext]_rvars
    PROVE  ArchiveInv'
  <1>1. OutputInv'
    BY StepOfBoth, OutputStep DEF ArchiveInv
  <1>2. DP!FedInv'
    BY StepOfBoth, DP!FedStep, DecoderFits, DecompressorFits DEF ArchiveInv
  <1>3. UNCHANGED <<header, file>> => UNCHANGED Archive
    BY DEF Archive
  <1>4. UNCHANGED vars => UNCHANGED <<CompressExited, file, sessions>>
    BY DEF vars, CompressExited
  <1>5. UNCHANGED xvars => UNCHANGED <<x_pc, x_size, x_header_size, x_sessions>>
    BY DEF xvars
  <1>6. CASE CompressRun
    <2>1. /\ sessions' \in {0, 1}
          /\ CompressExited' => CompressFin /\ sessions = 1
      BY <1>6, ExitIsFin DEF CompressRun, ArchiveInv
    <2>2. ASSUME CompressFin PROVE IsRun(0, file')
      <3>1. FileHolds /\ file' = file
        BY <2>2 DEF CompressFin, ArchiveInv, OutputInv, InSession
      <3> QED
        BY <3>1 DEF FileHolds, Holds, IsRun
    <2> QED
      BY <1>1, <1>2, <1>5, <1>6, <2>1, <2>2 DEF CompressRun, ArchiveInv
  <1>7. CASE DecompressStart
    <2>1. /\ x_sessions' = 1
          /\ x_pc' \in {"ready", "broken", "thrown", "crashed"}
      BY <1>7, StartIsCall DEF DecompressStart
    <2> QED
      BY <1>1, <1>2, <1>3, <1>4, <1>7, <2>1 DEF DecompressStart, ArchiveInv, vars
  <1>8. CASE DecompressRun
    BY <1>1, <1>2, <1>3, <1>4, <1>8, StartedOnce DEF DecompressRun, ArchiveInv, vars
  <1>9. CASE UNCHANGED rvars
    BY <1>1, <1>2, <1>3, <1>4, <1>5, <1>9 DEF ArchiveInv, rvars, vars
  <1> QED
    BY <1>6, <1>7, <1>8, <1>9 DEF RNext

\* An archive of a header of w bytes and the file f behind it.
Behind(w, f) == [i \in 1..w |-> 0] \o f

\* The k bytes of a behind place p: zeros up to place w, numbers from there on.
ZerosThenNumbers(a, w, p, k) ==
    \A i \in 1..k : a[p + i] = IF p + i <= w THEN 0 ELSE p + i - w

\* In the archive a of a header of w bytes and numbered bytes, the k bytes
\* behind place p.
LEMMA BytesBehind ==
    ASSUME NEW w \in Nat, NEW p \in Nat, NEW k \in Nat,
           NEW f \in Seq(Nat), f = Run(0, Len(f)),
           NEW a, a = Behind(w, f), p + k <= Len(a)
    PROVE  ZerosThenNumbers(a, w, p, k)
  <1> DEFINE zeros == [i \in 1..w |-> 0]
  <1>1. zeros \in Seq(Nat) /\ Len(zeros) = w /\ \A i \in 1..w : zeros[i] = 0
    <2>1. zeros \in [1..w -> Nat]
      OBVIOUS
    <2> QED
      BY <2>1, SeqOfFunction
  <1>2. Len(f) \in Nat /\ \A i \in 1..Len(f) : f[i] = i
    <2>1. Len(f) \in Nat
      BY LenProperties
    <2> QED
      BY <2>1 DEF Run
  <1>3. a = zeros \o f
    BY DEF Behind
  <1> HIDE DEF zeros
  <1>4. /\ Len(a) = w + Len(f)
        /\ \A j \in 1..(w + Len(f)) : a[j] = IF j <= w THEN zeros[j] ELSE f[j - w]
    <2>1. /\ Len(zeros \o f) = Len(zeros) + Len(f)
          /\ \A j \in 1..(Len(zeros) + Len(f)) :
                (zeros \o f)[j] = IF j <= Len(zeros) THEN zeros[j] ELSE f[j - Len(zeros)]
      <3>1. zeros \in Seq(Nat)
        BY <1>1
      <3> QED
        BY <3>1, ConcatProperties, ZenonT(60)
    <2>2. Len(zeros) = w
      BY <1>1
    <2> QED
      BY <1>3, <2>1, <2>2, ZenonT(60)
  <1>5. ASSUME NEW i \in 1..k
        PROVE  a[p + i] = IF p + i <= w THEN 0 ELSE p + i - w
    <2>1. PICK j \in 1..(w + Len(f)) : j = p + i
      BY <1>2, <1>4
    <2>2. a[j] = IF j <= w THEN zeros[j] ELSE f[j - w]
      BY <1>4
    <2>3. CASE j <= w
      BY <1>1, <2>1, <2>2, <2>3
    <2>4. CASE ~(j <= w)
      <3>1. j - w \in 1..Len(f)
        BY <1>2, <2>4
      <3> QED
        BY <1>2, <2>1, <2>2, <2>4, <3>1
    <2> QED
      BY <2>3, <2>4
  <1> QED
    BY <1>5 DEF ZerosThenNumbers

\* What the decoder has taken when it has taken k bytes behind the header as it
\* was parsed: zeros as long as these are of the header that was written, then
\* the coder's output by number.
LEMMA FedBytes ==
    ASSUME ArchiveInv, CompressExited, NEW k \in Nat,
           x_taken = Run(header.parsed, k),
           header.parsed + k <= Len(Archive)
    PROVE  /\ Fed = [i \in 1..k |-> Fed[i]]
           /\ \A i \in 1..k :
                 Fed[i] = IF header.parsed + i <= header.written THEN 0
                          ELSE header.parsed + i - header.written
  <1>1. header.written \in Nat /\ header.parsed \in Nat
    BY RoundTripAssumption DEF ArchiveInv
  <1>2. file \in Seq(Nat) /\ file = Run(0, Len(file))
    BY DEF ArchiveInv, IsRun, OutputInv, TypeOK
  <1>3. ZerosThenNumbers(Archive, header.written, header.parsed, k)
    <2>1. Archive = Behind(header.written, file)
      BY DEF Archive, Behind
    <2> QED
      BY <1>1, <1>2, <2>1, BytesBehind, Zenon
  <1>4. Len(x_taken) = k /\ \A i \in 1..k : x_taken[i] = header.parsed + i
    BY <1>1, RunType
  <1>5. Fed = [i \in 1..k |-> Archive[x_taken[i]]]
    BY <1>4 DEF Fed
  <1> QED
    BY <1>3, <1>4, <1>5 DEF ZerosThenNumbers

\* The decoder is fed the coder's output from its first byte on exactly when the
\* parser infers the length of the header that was written, for every source,
\* buffer and header, if the coded form of a source is countable in the int of
\* compress.
THEOREM FedCorrect ==
    ASSUME NoWrap
    PROVE  RSpec => []FedIsCoded
  <1>1. ArchiveInv => FedIsCoded
    <2> SUFFICES ASSUME ArchiveInv, D!Decompressing, Fed # <<>>
                 PROVE  Fed = Iota(Len(Fed)) <=> header.parsed = header.written
      BY DEF FedIsCoded
    <2> DEFINE k == Len(x_taken)
               p == header.parsed
               w == header.written
    <2>1. /\ CompressExited /\ x_size = Len(Archive) /\ x_header_size = p
      <3>1. x_pc \notin {"closed", "crashed", "thrown"}
        BY DEF D!Decompressing
      <3> QED
        BY <3>1 DEF ArchiveInv
    <2>2. w \in Nat /\ p \in Nat
      BY RoundTripAssumption DEF ArchiveInv
    <2>3. /\ x_taken \in Seq(Nat) /\ x_pending \in Seq(Nat) /\ x_size \in Nat
          /\ x_position \in p..x_size
          /\ x_taken \o x_pending = Run(p, x_position - p)
      <3>1. DP!TypeOK /\ DP!FedSoFar
        BY SameState DEF ArchiveInv, DP!FedInv
      <3> QED
        BY <2>1, <3>1 DEF DP!TypeOK, DP!FedSoFar, DP!Run, Run
    <2>4. IsRun(p, x_taken) /\ k \in 0..(x_position - p)
      <3>1. x_position - p \in Nat
        BY <2>2, <2>3
      <3> QED
        BY <2>2, <2>3, <3>1, RunBegins
    <2>5. k \in Nat /\ x_taken = Run(p, k) /\ p + k <= Len(Archive)
      BY <2>1, <2>2, <2>3, <2>4 DEF IsRun
    <2>6. /\ Fed = [i \in 1..k |-> Fed[i]]
          /\ \A i \in 1..k : Fed[i] = IF p + i <= w THEN 0 ELSE p + i - w
      BY <2>1, <2>5, FedBytes
    <2> HIDE DEF k
    <2>7. Len(Fed) = k
      BY <2>5, <2>6
    <2>8. 1 \in 1..k
      <3>1. k # 0
        BY <2>6
      <3> QED
        BY <2>5, <3>1
    <2>9. ASSUME p = w PROVE Fed = Iota(k)
      <3>1. \A i \in 1..k : Fed[i] = i
        BY <2>2, <2>5, <2>6, <2>9
      <3> QED
        BY <2>6, <3>1 DEF Iota
    <2>10. ASSUME Fed = Iota(k) PROVE p = w
      <3>1. Fed[1] = 1
        BY <2>8, <2>10 DEF Iota
      <3>2. Fed[1] = IF p + 1 <= w THEN 0 ELSE p + 1 - w
        BY <2>6, <2>8
      <3>3. p + 1 - w = 1
        BY <3>1, <3>2
      <3> QED
        BY <2>2, <3>3
    <2> QED
      BY <2>7, <2>9, <2>10
  <1> QED
    BY <1>1, ArchiveInit, ArchiveStep, PTL DEF RSpec

-----------------------------------------------------------------------------
\* What the first and the second program have done when nothing was lost.
SourceCoded ==
    /\ taken = Iota(size - (size % SampleBytes))
    /\ file = Iota(d_strm.total_out)

ArchiveDecoded ==
    /\ x_taken = D!Payload(x_size)
    /\ x_strm.owed = 0
    /\ x_file = D!Iota(x_strm.total_out)

\* The inductive invariant behind what two exit statuses of 0 mean.  As long as
\* no mishap was recorded, neither loop works on a stream that failed, neither
\* coder nor decoder has reported an error, the flush was not cut short, and a
\* program that has exited has done all its work.
RestoredInv ==
    /\ ArchiveInv /\ DP!OutputInv
    /\ mishaps = {} =>
         /\ pc \notin {"failed", "unflushed"}
         /\ pc \in {"loop", "done"} =>
              input_stream \in {"good", "eof"} /\ output_stream = "good"
         /\ CompressExited => SourceCoded
         /\ x_pc # "failed"
         /\ x_pc \in {"loop", "done"} =>
              x_input_stream \in {"good", "eof"} /\ x_output_stream = "good"
         /\ DecompressExited => ArchiveDecoded

\* It holds when the first program starts.
LEMMA RestoredInit == RInit => RestoredInv
  <1> SUFFICES ASSUME RInit PROVE RestoredInv
    OBVIOUS
  <1>1. ArchiveInv
    BY ArchiveInit
  <1>2. DP!OutputInv
    BY DP!OutputInit, DecoderFits, DecompressorFits, SameState DEF RInit
  <1>3. /\ sessions = 0 /\ x_sessions = 0
        /\ pc = "closed" /\ x_pc = "closed"
    BY DEF RInit, Init, D!Init
  <1> QED
    BY <1>1, <1>2, <1>3 DEF RestoredInv, CompressExited, DecompressExited

\* A step of compress that ends it with 0 is its flush.
LEMMA DoneIsFlush ==
    ASSUME Next, pc' = "done"
    PROVE  pc = "loop" /\ input_stream' = input_stream
  BY DEF Next, Loop, CompressInit, CompressInitNoOutput, CompressInitNoInput,
         CompressInitNoHeader, CompressEnter, CompressNoCoder, IterateRefill,
         IterateDrain, IterateError, CompressFlush, CompressFlushError,
         CompressFin

\* A step of the first program, as long as nothing is recorded.
LEMMA QuietCompress ==
    ASSUME RestoredInv, CompressRun, mishaps' = {}
    PROVE  /\ pc' \notin {"failed", "unflushed"}
           /\ pc' \in {"loop", "done"} =>
                input_stream' \in {"good", "eof"} /\ output_stream' = "good"
           /\ CompressExited' => SourceCoded'
  <1>1. mishaps = {} /\ CompressMishaps' = {} /\ Next
    BY DEF CompressRun
  <1>2. /\ pc' \notin {"failed", "unflushed"}
        /\ pc' = "loop" => input_stream' \in {"good", "eof"}
        /\ pc' \in {"loop", "done"} => output_stream' = "good"
    BY <1>1 DEF CompressMishaps
  <1>3. pc' = "done" => input_stream' \in {"good", "eof"}
    BY <1>1, DoneIsFlush DEF RestoredInv
  <1>4. ASSUME CompressExited' PROVE SourceCoded'
    <2>1. CompressFin
      BY <1>1, <1>4, ExitIsFin DEF RestoredInv, ArchiveInv
    <2>2. pc = "done" /\ EncodeEndOK(d_strm)
      BY <1>1, <1>2, <2>1 DEF CompressFin, RestoredInv
    <2>3. input_stream \in {"good", "eof"} /\ output_stream = "good"
      BY <1>1, <2>2 DEF RestoredInv
    <2>4. SourceCoded
      BY <2>2, <2>3, SuccessHolds
      DEF RestoredInv, ArchiveInv, SuccessMeansComplete, SourceCoded
    <2>5. UNCHANGED <<size, file, taken, d_strm>>
      BY <2>1 DEF CompressFin
    <2> QED
      BY <2>4, <2>5 DEF SourceCoded, Iota
  <1> QED
    BY <1>2, <1>3, <1>4

\* A step of the second program, as long as nothing is recorded.
LEMMA QuietDecompress ==
    ASSUME RestoredInv, DecompressRun, mishaps' = {}
    PROVE  /\ x_pc' # "failed"
           /\ x_pc' \in {"loop", "done"} =>
                /\ x_input_stream' \in {"good", "eof"}
                /\ x_output_stream' = "good"
           /\ DecompressExited' => ArchiveDecoded'
  <1>1. mishaps = {} /\ DecompressMishaps' = {} /\ D!Next /\ x_sessions = 1
    BY DEF DecompressRun
  <1>2. /\ x_pc' # "failed"
        /\ x_pc' = "loop" => x_input_stream' \in {"good", "eof"}
        /\ x_pc' \in {"loop", "done"} => x_output_stream' = "good"
    BY <1>1 DEF DecompressMishaps
  <1>3. ASSUME x_pc' = "done" PROVE x_input_stream' \in {"good", "eof"}
    <2>1. D!DecompressReturn
      BY <1>1, <1>3, StartedOnce
    <2> QED
      BY <1>1, <2>1 DEF D!DecompressReturn, D!streams, RestoredInv
  <1>4. ASSUME DecompressExited' PROVE ArchiveDecoded'
    <2>1. D!DecompressFin
      BY <1>1, <1>4, StartedOnce DEF DecompressExited
    <2>2. /\ x_pc = "done" /\ x_input_stream \in {"good", "eof"}
          /\ x_output_stream = "good"
      BY <1>1, <2>1 DEF D!DecompressFin, RestoredInv
    <2>3. DP!SuccessMeansComplete
      BY DP!SuccessHolds, DecoderFits, DecompressorFits DEF RestoredInv
    <2>4. ArchiveDecoded
      BY <2>2, <2>3, SameState DEF DP!SuccessMeansComplete, ArchiveDecoded
    <2>5. UNCHANGED <<x_size, x_header_size, x_file, x_taken, x_strm>>
      BY <2>1 DEF D!DecompressFin
    <2> QED
      BY <2>4, <2>5 DEF ArchiveDecoded, D!Payload, D!Iota
  <1> QED
    BY <1>2, <1>3, <1>4

\* Every step keeps the invariant.
LEMMA RestoredStep ==
    ASSUME NoWrap, Expand * MaxArchive < INT_RANGE \div 2,
           RestoredInv, [RNext]_rvars
    PROVE  RestoredInv'
  <1>1. ArchiveInv'
    BY ArchiveStep DEF RestoredInv
  <1>2. DP!OutputInv'
    <2>1. DP!NoWrap
      BY DEF DP!NoWrap, DP!Countable
    <2> QED
      BY <2>1, StepOfBoth, DP!OutputStep, DecoderFits, DecompressorFits
      DEF RestoredInv
  <1>3. UNCHANGED vars =>
          UNCHANGED <<pc, input_stream, output_stream, CompressExited, SourceCoded>>
    BY DEF vars, streams, CompressExited, SourceCoded, Iota
  <1>4. UNCHANGED xvars =>
          UNCHANGED <<x_pc, x_input_stream, x_output_stream, DecompressExited,
                      ArchiveDecoded>>
    BY DEF xvars, DecompressExited, ArchiveDecoded, D!Payload, D!Iota
  <1>5. CASE CompressRun
    <2>1. UNCHANGED xvars /\ (mishaps' = {} => mishaps = {})
      BY <1>5 DEF CompressRun
    <2> QED
      BY <1>1, <1>2, <1>4, <1>5, <2>1, QuietCompress DEF RestoredInv
  <1>6. CASE DecompressStart
    <2>1. /\ x_sessions' = 1
          /\ x_pc' \in {"ready", "broken", "thrown", "crashed"}
      BY <1>6, StartIsCall DEF DecompressStart
    <2>2. UNCHANGED vars /\ UNCHANGED mishaps
      BY <1>6 DEF DecompressStart
    <2> QED
      BY <1>1, <1>2, <1>3, <2>1, <2>2 DEF RestoredInv, DecompressExited
  <1>7. CASE DecompressRun
    <2>1. UNCHANGED vars /\ (mishaps' = {} => mishaps = {})
      BY <1>7 DEF DecompressRun
    <2> QED
      BY <1>1, <1>2, <1>3, <1>7, <2>1, QuietDecompress DEF RestoredInv
  <1>8. CASE UNCHANGED rvars
    <2>1. UNCHANGED vars /\ UNCHANGED xvars /\ UNCHANGED mishaps
      BY <1>8 DEF rvars
    <2> QED
      BY <1>1, <1>2, <1>3, <1>4, <2>1 DEF RestoredInv
  <1> QED
    BY <1>5, <1>6, <1>7, <1>8 DEF RNext

\* The archive is as long as its two parts.
LEMMA ArchiveLength ==
    ASSUME ArchiveInv
    PROVE  Len(Archive) = header.written + Len(file)
  <1> DEFINE zeros == [i \in 1..header.written |-> 0]
  <1>1. zeros \in Seq(Nat) /\ Len(zeros) = header.written
    <2>1. header.written \in Nat
      BY RoundTripAssumption DEF ArchiveInv
    <2>2. zeros \in [1..header.written -> Nat]
      OBVIOUS
    <2> QED
      BY <2>1, <2>2, SeqOfFunction
  <1>2. file \in Seq(Nat)
    BY DEF ArchiveInv, OutputInv, TypeOK
  <1>3. Archive = zeros \o file
    BY DEF Archive
  <1> HIDE DEF zeros
  <1> QED
    BY <1>1, <1>2, <1>3, ConcatProperties, ZenonT(60)

\* If coded and decoded forms are countable in an int, and both programs have
\* exited without one of the mishaps an exit status hides, over a header of the
\* length it is parsed to have, then every whole sample was coded, every coded
\* byte was decoded and every decoded byte was written, for every source, buffer,
\* header, coder and decoder.
THEOREM RestoredCorrect ==
    ASSUME NoWrap, Expand * MaxArchive < INT_RANGE \div 2
    PROVE  RSpec => []ExitMeansRestored
  <1>1. RestoredInv => ExitMeansRestored
    <2> SUFFICES ASSUME RestoredInv, CompressExited, DecompressExited,
                        mishaps = {}, header.parsed = header.written
                 PROVE  /\ taken = Iota(size - (size % SampleBytes))
                        /\ Fed = Iota(d_strm.total_out)
                        /\ x_strm.owed = 0
                        /\ x_file = Iota(x_strm.total_out)
      BY DEF ExitMeansRestored
    <2>1. SourceCoded /\ ArchiveDecoded /\ ArchiveInv
      BY DEF RestoredInv
    <2> DEFINE n == d_strm.total_out
               h == header.written
    <2>2. n \in Nat /\ h \in Nat
      BY <2>1, RoundTripAssumption DEF ArchiveInv, OutputInv, TypeOK
    <2>3. Len(Archive) = h + n
      <3>1. Len(file) = n
        <4>1. file = Run(0, n)
          BY <2>1, <2>2, IotaIsRun DEF SourceCoded
        <4> QED
          BY <2>2, <4>1, RunType
      <3> QED
        BY <2>1, <3>1, ArchiveLength
    <2>4. x_size = Len(Archive) /\ x_header_size = header.parsed
      BY <2>1 DEF ArchiveInv, DecompressExited
    <2>5. x_taken = Run(header.parsed, n)
      <3>1. x_size - x_header_size = n
        BY <2>2, <2>3, <2>4
      <3> QED
        BY <2>1, <2>4, <3>1 DEF ArchiveDecoded, D!Payload, Run
    <2>6. /\ Fed = [i \in 1..n |-> Fed[i]]
          /\ \A i \in 1..n :
                Fed[i] = IF h + i <= h THEN 0 ELSE h + i - h
      BY <2>1, <2>2, <2>3, <2>5, FedBytes
    <2>7. ASSUME NEW i \in 1..n
          PROVE  Fed[i] = i
      <3>1. ~(h + i <= h) /\ h + i - h = i
        BY <2>2
      <3> QED
        BY <2>6, <3>1
    <2>8. Fed = Iota(n)
      BY <2>6, <2>7 DEF Iota
    <2>9. x_strm.owed = 0 /\ x_file = Iota(x_strm.total_out)
      BY <2>1 DEF ArchiveDecoded, D!Iota, Iota
    <2> QED
      BY <2>1, <2>8, <2>9 DEF SourceCoded
  <1> QED
    BY <1>1, RestoredInit, RestoredStep, PTL DEF RSpec
=============================================================================
