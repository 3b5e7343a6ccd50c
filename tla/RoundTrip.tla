------------------------------ MODULE RoundTrip ------------------------------
(***************************************************************************)
(* A source is compressed by one run of the iqzip program and the archive  *)
(* decompressed by a second.  Each run makes a new object and calls init,  *)
(* the work and fin of it, one after the other, whatever they return, and  *)
(* exits with 0; the second is started when the first has exited.  The     *)
(* compressing object is that of FileCompressor, under its own names; the  *)
(* decompressing one is D, its variables begin with x_.  Between the two   *)
(* is the archive: the header, then what the compressor has written.       *)
(***************************************************************************)
EXTENDS FileCompressor

CONSTANTS
    Expand,            \* see LibaecDecoder
    max_header_size,   \* see FileDecompressor
    Headers,           \* lengths of the header, written and as parsed
    DecompressFaults   \* which faults the second run can meet

VARIABLES
    header,     \* what the options make of the header
    mishaps,    \* history: what went wrong without any exit status telling
    x_pc, x_size, x_header_size, x_position, x_pending, x_strm, x_total_out,
    x_input_avail, x_output_avail, x_input_stream, x_output_stream, x_file,
    x_sessions, x_taken

\* The longest archive a run can write.
MaxArchive == max_header_size + Gain * MaxSize + Hold + 2

D == INSTANCE FileDecompressor WITH
    HeaderSizes <- {h.parsed : h \in Headers},
    Faults <- DecompressFaults, MaxSize <- MaxArchive,
    pc <- x_pc, size <- x_size, d_iqzip_header_size <- x_header_size,
    position <- x_position, pending <- x_pending, d_strm <- x_strm,
    total_out <- x_total_out, input_avail <- x_input_avail,
    output_avail <- x_output_avail, input_stream <- x_input_stream,
    output_stream <- x_output_stream, file <- x_file,
    sessions <- x_sessions, taken <- x_taken

\* Each program compresses or decompresses one file; the buffers of both have
\* the same size.
ASSUME RoundTripAssumption ==
    /\ MaxSessions = 1
    /\ CHUNK >= SampleBytes /\ Expand \in Nat
    /\ max_header_size \in Nat
    /\ Headers \subseteq [written : 0..max_header_size,
                          parsed : 0..max_header_size]
    /\ DecompressFaults \subseteq D!FaultKinds

xvars == <<x_pc, x_size, x_header_size, x_position, x_pending, x_strm,
           x_total_out, x_input_avail, x_output_avail, x_input_stream,
           x_output_stream, x_file, x_sessions, x_taken>>
rvars == <<vars, xvars, header, mishaps>>

RInit == Init /\ D!Init /\ header \in Headers /\ mishaps = {}

-----------------------------------------------------------------------------
\* The first run has exited with 0; the user then starts the second.
CompressExited == sessions = 1 /\ pc \in {"closed", "unflushed"}
DecompressExited == x_sessions = 1 /\ x_pc = "closed"

\* The archive; a byte of the header is 0, coded bytes have their number.
Archive == [i \in 1..header.written |-> 0] \o file

\* What goes wrong in a state of either object without an exit status telling:
\* an error that is returned, and a stream that was not opened or has failed.
CompressMishaps ==
    { m \in {"source", "archive", "coder", "flush"} :
        \/ m = "source" /\ pc = "loop" /\ input_stream \notin {"good", "eof"}
        \/ m = "archive" /\ pc \in {"loop", "done"} /\ output_stream # "good"
        \/ m = "coder" /\ pc = "failed"
        \/ m = "flush" /\ pc = "unflushed" }

DecompressMishaps ==
    { m \in {"input", "dest", "decoder"} :
        \/ m = "input" /\ x_pc = "loop" /\ x_input_stream \notin {"good", "eof"}
        \/ m = "dest" /\ x_pc \in {"loop", "done"} /\ x_output_stream # "good"
        \/ m = "decoder" /\ x_pc = "failed" }

\* iqzip SOURCE ARCHIVE: the next step of compress_init, compress, compress_fin.
CompressRun ==
    /\ x_sessions = 0
    /\ Next
    /\ mishaps' = mishaps \cup CompressMishaps'
    /\ UNCHANGED <<header, xvars>>

\* iqzip -d ARCHIVE DEST: decompress_init finds the archive of the first run.
DecompressStart ==
    /\ CompressExited /\ x_sessions = 0
    /\ D!Start
    /\ x_size' = Len(Archive)
    /\ x_pc' \in {"ready", "broken"} => x_header_size' = header.parsed
    /\ UNCHANGED <<header, mishaps, vars>>

\* The next step of decompress and decompress_fin.
DecompressRun ==
    /\ x_sessions = 1
    /\ D!Next
    /\ mishaps' = mishaps \cup DecompressMishaps'
    /\ UNCHANGED <<header, vars>>

RNext == CompressRun \/ DecompressStart \/ DecompressRun

RSpec == RInit /\ [][RNext]_rvars

\* A step that is not an error of the coder or the decoder.
Proceed == RNext /\ pc' # "failed" /\ x_pc' # "failed"

\* Both programs run on until they end; no error is bound to happen.
FairRSpec == RSpec /\ WF_rvars(Proceed)

-----------------------------------------------------------------------------
\* The bytes of the archive the decoder has taken.
Fed == [i \in 1..Len(x_taken) |-> Archive[x_taken[i]]]

\* Whatever fails on the way, the decoder is fed the coder's output from its
\* first byte on exactly when the parser infers the length of the header that
\* was written: otherwise it begins in the header, or inside the payload.
FedIsCoded ==
    D!Decompressing /\ Fed # <<>> =>
        (Fed = Iota(Len(Fed)) <=> header.parsed = header.written)

\* When both programs have exited and nothing went wrong but what an exit
\* status might have told, the coder took every whole sample of the source, the
\* decoder took all the coder put out, and all it decoded is in the destination.
\* Nothing else than these mishaps, and the header, can lose data silently.
ExitMeansRestored ==
    /\ CompressExited /\ DecompressExited
    /\ mishaps = {} /\ header.parsed = header.written
    => /\ taken = Iota(size - (size % SampleBytes))
       /\ Fed = Iota(d_strm.total_out)
       /\ x_strm.owed = 0
       /\ x_file = Iota(x_strm.total_out)

\* Both programs end, with an exit status or by a crash, though neither looks at
\* what its calls return and though every loop goes on after a failed stream.
BothEnd ==
    <>(DecompressExited \/ pc = "crashed" \/ x_pc \in {"crashed", "thrown"})
=============================================================================
