# IQzip in TLA+

A model of IQzip, the CCSDS 121.0-B lossless compressor for IQ recordings, and
proofs about it.  IQzip wraps the entropy coder libaec: it cuts the input into
buffers, drives the coder, writes what it puts out behind a CCSDS header, and
reads that header back to configure a decoder.

    cd tla
    tlc -workers 2 -config stream_input.cfg MCStreamCompressor   # any run of PROJECT.json
    tlapm RoundTripProofs.tla                                    # the proofs of a ...Proofs module

## 1. The system

| Part | Code | State | Operations |
|---|---|---|---|
| Compressor, stream interface | `lib/compressor_impl.cpp` 151-224, 247-281 | `d_tmp_stream` with `d_stream_avail_in`, `d_out`, `d_total_out`, `d_strm`, `output_stream` | `stream_compress_init`, `stream_compress`, `stream_compress_fin` |
| Compressor, file interface | `lib/compressor_impl.cpp` 65-149, 226-245 | `d_strm`, both streams; the locals of `compress` | `compress_init`, `compress`, `compress_fin` |
| Decompressor, file interface | `lib/decompressor_impl.cpp` 41-137, 192-210 | the same as the compressor's, and `d_iqzip_header_size` | `decompress_init`, `decompress`, `decompress_fin` |
| Decompressor, stream interface | `lib/decompressor_impl.cpp` 41-94, 139-190, 212-245 | the same as the compressor's | `decompress_init`, `stream_decompress`, `stream_decompress_fin` |
| `iqzip_impl` | `lib/iqzip_impl.cpp` | the options, `d_strm` | `init_aec_stream`, `print_error` |
| IQzip header | `lib/iqzip_compression_header.cpp` | the primary header, the identification packet, the two-byte extension | construction, `write_header_to_file`, `parse_header_from_file` |
| Identification packet | `lib/compression_identification_packet.cpp` | 4 fixed bytes, 6 bytes of subfields | setters, getters |
| Primary header | `lib/ccsds_packet_primary_header.cpp` | 6 bytes | setters, getters |
| Command line | `apps/iqzip.cpp` | `iarg`, the options, the two file names | the arguments; then init, work and fin of one object |
| libaec | external | the coder behind `aec_stream` | `aec_encode_init`, `aec_encode`, `aec_encode_end` and the decoding ones |

Everything runs on the caller's thread: the parts interact by calls, by the
`aec_stream` record that IQzip and libaec both write, and by the compressed file.
There is no concurrency and nothing survives the process.  The hard behaviour is
elsewhere:

* **Buffering.**  A call of `stream_compress` can store bytes, complete a chunk,
  or complete several; the coder can leave input untaken and output unwritten,
  because it fills its room or wants whole samples.  Three counters (`avail_in`,
  `d_stream_avail_in`, `remainder`) must agree about the input and two
  (`total_out`, `d_total_out`) about the output.
* **Failing calls.**  `open`, `fopen`, `read`, `write` and every function of
  libaec can fail.  Some failures are reported, some change the value returned
  much later, some are not looked at, and the object stays usable after all.
* **Sequences of calls.**  An object is used for one session or several, and an
  `init` may be tried again after it failed.
* **Two ends of a format.**  The writer decides from the options which segments
  the header has, the parser from the codes in the header.
* **Widths.**  An `int` counts what a `size_t` counts; fields have 1 to 16 bits.

What makes each part correct: the coder is given the caller's bytes once and in
order; what is in the file is what the coder put out; a call returns; success
means a complete file; a header field decodes to what was put into it; a file
can be decoded with no more than its own header; the decoder is fed exactly what
the coder put out; and arguments are read as options the program knows and two
file names.

## 2. The modules

| Module | Models | Extends |
|---|---|---|
| `Libaec` | the coder: `aec_stream` and the outcomes of a call (external) | |
| `LibaecDecoder` | the same of the decoder (external) | |
| `StreamCompressor` | the stream interface of the compressor | `Libaec` |
| `ChunkedDelivery` | what that interface promises, in six actions | |
| `SequenceFacts` | runs of numbers, prefixes of sequences, multiples: lemmas the proofs share | |
| `StreamCompressorProofs` | theorems | `StreamCompressor`, `SequenceFacts` |
| `FileCompressor` | the file interface of the compressor | `Libaec` |
| `FileCompressorProofs` | theorems | `FileCompressor`, `SequenceFacts` |
| `FileDecompressor` | the file interface of the decompressor | `LibaecDecoder` |
| `FileDecompressorProofs` | theorems | `FileDecompressor`, `SequenceFacts` |
| `StreamDecompressor` | the stream interface of the decompressor | `LibaecDecoder` |
| `StreamDecompressorProofs` | theorems | `StreamDecompressor`, `SequenceFacts` |
| `CommandLine` | the arguments of the program | |
| `CommandLineProofs` | theorems | `CommandLine`, `SequenceFacts` |
| `RoundTrip` | the program run twice: a compressor, the archive, a decompressor | `FileCompressor`, instance of `FileDecompressor` |
| `RoundTripProofs` | theorems | `RoundTrip`, `FileCompressorProofs`, instance of `FileDecompressorProofs` |
| `HeaderBits` | integers as sets of bit positions, bytes of a header | |
| `PrimaryCodec` | setters and getters of the primary header as functions of its bytes | `HeaderBits` |
| `PrimaryHeader` | one primary header object | `PrimaryCodec` |
| `CipCodec` | setters and getters of the identification packet as functions of its bytes | `HeaderBits` |
| `CipPacket` | one identification packet | `CipCodec` |
| `HeaderObjects` | the two objects a header is made of, one at a time | `PrimaryHeader`, instance of `CipPacket` |
| `HeaderProofs` | theorems | `HeaderObjects`, `IqzipHeader` |
| `IqzipHeader` | the whole header, written by a compressor and parsed by a decompressor | `CipCodec`, `PrimaryCodec` |

`MC...` modules give the runs their sets.  PROJECT.json maps every definition to
its lines.  Definitions named *Mutant* are wrong on purpose: each is a plausible
bug of the definition it precedes, and one of the properties fails when it takes
that definition's place.

**Libaec.**  What a call of `aec_encode` may do is the weakest the code relies on:
it takes whole samples; it stops before the end of its input only when the room
for its output is full; it puts out at most `Gain` bytes for each byte taken; it
holds back at most `Hold` bytes between calls, and nothing after a flush with
room to spare; `aec_encode_end` fails when something is held back.  What the
coded bytes are is abstracted: they are numbers in the order they are put out.

**LibaecDecoder.**  A call of `aec_decode` takes all its input and puts out all it
completes, unless there is no room left for a sample; a coded byte completes at
most `Expand` bytes, and what is decoded already and waits for room is `owed`.

**StreamCompressor.**  A state stands between two turns of the loop of
`stream_compress` or between two calls.  `d_tmp_stream` is the sequence of the
`d_stream_avail_in` bytes stored, so its length is that counter; `inbuf` what the
running call has yet to read, so its length is `nbytes`.  Every early return is
an action of its own: `StreamCompressInitNoOutput`, `EncodeChunkError`,
`StreamCompressFinError` and so on.  `output_stream` is `open`, `closed`, or
`failed` (open with failbit or badbit).  A negative length, which is what the
unsigned difference `total_out - d_total_out` is to `write` when `total_out` is
the smaller, sets badbit.  Bytes of the input carry their session and place, so
that loss, repetition and order are visible; `given`, `taken` and `residue` are
history.  The caller keeps to the order of `compressor.h`: init, calls, fin; it
may init again after an error, and may finish after a failed call.  It gives
whole samples.

**FileCompressor.**  A state stands between two turns of the loop of `compress`.
`IterateRefill` is a turn that reads the input, `IterateDrain` one that does not;
`Turn` is the rest of both, in the order of the code: the coder, the write, the
count, the flag.  `ToInt` cuts the count to `INT_RANGE` values.  A write longer
than the buffer reads whatever is behind it and then fails.  `coder` is
`d_strm.state`: the caller may go on after a `compress_init` that failed, as the
command line does, and then either finds a coder and no files (`CompressEnter`)
or no coder (`CompressNoCoder`).

**FileDecompressor.**  The same shape.  What is different is the beginning and the
end.  `decompress_init` parses the header through a `FILE` of its own
(`DecompressInitShort` throws, `DecompressInitNoFile` uses a null `FILE`), opens
both files, skips the header and only then makes a decoder, so that going on
after any failure finds none.  And nothing is flushed: the loop ends with a turn
that neither reads nor writes.  How long the header is parsed to be is a choice
from `HeaderSizes`, since `IqzipHeader` is about that.

**StreamDecompressor.**  The buffering of `StreamCompressor` with a decoder in its
place.  `mishaps` is history: a decoder that had no room, a stream that failed, a
decoder that reported an error.

**CommandLine.**  A turn of the loop over `argv` is a step; `get_param` is the two
ways to take a value.  An argument is its dash, its letter, and what `atoi` makes
of the rest.

**RoundTrip.**  `FileCompressor` under its own names, `FileDecompressor` under the
name `D`.  The second program starts when the first has exited, and its input is
the header and the bytes the first wrote.  `header` is a pair of lengths, as
written and as parsed: `IqzipHeader` says which pairs there are.  `mishaps` collects
what went wrong without an exit status to tell it.

**PrimaryHeader, CipPacket, IqzipHeader.**  A byte is a set of positions, so `|=`
is union and a setter that only ors is seen not to clear.  A file is a sequence of
such bytes.  Bytes of no consequence are left out: the instrument configuration,
which never reaches a file, and the fields of `iqzip_compression_header` nothing
reads.  `PrimaryHeader` and `CipPacket` start from zeroed and from used memory,
since no constructor clears it; in the runs the memory of `IqzipHeader` is zeroed
everywhere, or only where bits that the parser reads are or-ed into it.
Each of the two keeps a history of what its setters were given, to say what the bytes must hold.
The four segments of a packet are arrays of their own, and `CipPacket` has the
constructor fill all of them but calls the setters of one.

## 3. What is checked

| Run | Question | Properties |
|---|---|---|
| `stream_input` | Does the coder get the caller's bytes, over two sessions and any fault? | `TypeOK`, `DeliveryInOrder`, `BufferBounded`, `WrittenIsPrefix` |
| `stream_output` | Does success mean a complete file, and does a call return, when the coder can fill `d_out`? | `OutputComplete`, `CallReturns` |
| `stream_refines` | Does the interface keep its promise: whole chunks, at once, the rest at the end? | `ImplementsDelivery` |
| `file_compress` | The same of `compress`, for two files and any fault | `TypeOK`, `ReadInOrder`, `WrittenIsPrefix`, `SuccessMeansComplete`, `CompressReturns` |
| `file_decompress` | The same of `decompress`: is the decoder fed from behind the header, and is it empty at the end? | `TypeOK`, `FedBehindHeader`, `WrittenIsPrefix`, `SuccessMeansComplete`, `DecompressReturns` |
| `stream_decompress` | Does the decoder get the caller's bytes, and when can it lose any? | `TypeOK`, `DeliveryInOrder`, `BufferBounded`, `WrittenIsPrefix`, `OutputComplete`, `CallReturns` |
| `headers` | Which bits does each field come to hold, in any order of setters, with illegal values and values wider than the field among them, in used memory? When do writer and parser agree on the length of the header, which of the coder's options reach the decoder, and which fields that describe the data? | `HeaderFieldsAccumulate`, `HeaderLengthAgrees`, `StreamConfigured`, `FieldsSurvive` |
| `command_line` | Does the program accept the lists that can be read as options it knows and two files, and no others, and do the options and files come out right? | `TypeOK`, `AcceptsGrammar`, `FilesAreLast`, `LastOptionWins` |
| `round_trip` | What can be lost between a source and what two programs that exited with 0 make of it? | `FedIsCoded`, `ExitMeansRestored`, `BothEnd` |

`HeaderLengthAgrees` is an equivalence: the parser is right about the length
exactly when a block of at most 64 samples has a code, or is one of 0 and shares
that of 8, and restricted codes do not alone call for the extended parameters.
`HeaderFieldsAccumulate` gives the contents of every field: what was or-ed into it,
and of a byte that is assigned the last value; with the two places where the code
puts a value elsewhere, a secondary header flag of 2 or more and the sequence
flags.  `StreamConfigured` leaves out the four kinds of options that `Conveyed`
names; `OptionsLost` proves for all but the byte order, whose bit may happen to be
right, that leaving them out is necessary.  A behaviour of `headers` is about one
of the two header objects or about the header of a file (`MCHeaders`).
`FedIsCoded` is one too: the decoder is fed the coder's output exactly when those
lengths agree, whatever else fails.

`ExitMeansRestored` names the failures that two exit statuses of 0 hide: a file
that could not be opened, a read or write that failed, an error of the coder or
the decoder, a flush without room.  Without any of them, and with a header of the
length it is parsed to have, everything is restored.

These runs end in a counterexample, each against a sentence of the documentation
(PROJECT.json quotes it):

| Run | What happens |
|---|---|
| `stream_reuse_output` | A second session on one object: `d_total_out` is stale, the length of the first write wraps, nothing is written any more, and `stream_compress_fin` returns 0. |
| `file_24bit` | Samples of three bytes: 10485760 is no multiple of 3, the last bytes of a full buffer stay in `avail_in` and keep the input from being read; `compress` never returns. |
| `header_options` | Restricted codes, samples of 32 bits and a byte order for blocks of 16 samples, none of which reaches the decoder. The bit of the restricted codes is written, and its getter returns 64, which is shifted to a flag the coder does not look at; 32 is 0 in the five bits of the resolution; the byte order is in the extension, which is not written for blocks of at most 64 samples, and is read from the payload all the same. Each of the three alone is as good. |

### Deviations that the passing runs leave room for

Found on the way, each visible by changing a constant or a condition:

* After 2 GiB of output the `int total_out` of `compress` and `decompress` differs
  from the `size_t` for ever: the loop does not end and writes from beyond the
  buffer.  `file_compress` with `INT_RANGE = 8` and `file_decompress` with
  `INT_RANGE = 4` show it.  include/iqzip/compressor.h:64-66 says the function
  writes the results and returns.
* The extension and the extended parameters are not there "whenever non-standard
  configuration is selected" (README.md:33-34), or not found.  With restricted codes
  and a block of at most 16 samples the extended parameters are written and not
  counted, as at the end of the trace of `header_options`: a header of 16 bytes is
  parsed as one of 14.  A block of 24 has no code and is counted as if the extension
  were there.  `HeaderLengthAgrees` says exactly when; that the lengths always agree
  fails.
* `encode_secondary_header_flag` has no mask: 2 sets the type of the packet and 4 or
  more the version, while include/iqzip/ccsds_packet_primary_header.h:173 says it
  encodes the flag "into the appropriate header subfield".  `Reaching` in
  `PrimaryHeader` has the bits; `SettersIndependent`, that there are none, fails
  under the constants of `headers`, whose flags have up to eight bits.
* `encode_sequence_flags` masks bits 6 and 7 of its argument and shifts them left by
  6, out of the byte, while line 187 of the same file says it encodes them "into the
  appropriate header subfield": no flag ever reaches the header (`Reaching`).
* The usage text (apps/iqzip.cpp:212-213) documents `-F`, for which the loop of
  `main` has no case: it is answered with the usage text.  `AcceptsGrammar` is about
  the options that the loop knows, and `command_line` has lists with `-F` in them.
* A compressed file of fewer than 18 bytes, which a header of 14 or 16 bytes and a
  short payload make, cannot be parsed: `ParseShort`, `DecompressInitShort`.
* A chunk of the stream interface of the decompressor can decode to more than
  `d_out` holds (highly compressible data reach far more than 320 to 1).  The
  decoder stops, the rest of the chunk is dropped and AEC_OK returned.
  `DeliveryInOrder` has "room" as its exception.  `stream_decompress_fin` is one
  call of the decoder and has the same limit.
* `d_total_out` of the decompressor is stale in a second session as the
  compressor's is; `WrittenIsPrefix` there is about the first.
* `decompress_init` throws with its `FILE` open; `decompress` after a
  `decompress_init` that failed uses a null decoder.  The command line does just
  that, and with a source it cannot open it writes an archive of a header alone
  and exits with 0.
* `fopen` is not looked at in `write_header_to_file` and `parse_header_from_file`:
  the state `crashed`.
* A second session codes the bytes left in `d_tmp_stream` by the first in front of
  its own: `residue` in `DeliveryInOrder` is not empty then.
* `stream_input` with `SampleBytes = 3`: the part of a sample at the end of a
  chunk is dropped, since `d_stream_avail_in` is set to 0 whatever `avail_in` is.
  `DeliveryInOrder` fails, and that is why the proof assumes whole samples.
* `stream_input` with a `CHUNK` the coder can fill: input not taken is dropped in
  the same way.  The code's buffer has 10485760 bytes for chunks of 32768.
* A failed write or read is not looked at.  `SuccessMeansComplete` of
  `FileCompressor` excludes streams that failed, and fails without that.
* An `init` tried again after an error meets streams that are still open; `open`
  sets failbit, `is_open` is true, 0 is returned.  These are streams in the state
  `failed` as well.
* A setter of either header object called a second time ors its value into the
  first, and a new object begins with what its memory holds: a packet given a block
  size of 16 and then of 32 reads as one of 64 in its extended parameters.
  `FieldsAccumulate` of `PrimaryHeader` and of `CipPacket` say exactly what a field
  then comes to hold.
* A value that the packet's setters find invalid builds a `std::runtime_error`
  without throwing it.  The field keeps what it had; `FieldsAccumulate` says so.
* A block size above 64 samples that has no code is 128 to the decoder: `Conveyed`
  leaves it out, and `OptionsLost` is that it is never configured.

### Bounds

| Constant | Runs | Code | Why it is enough |
|---|---|---|---|
| `STREAM_CHUNK` | 6 | 32768 | Three samples: a call can store behind bytes stored before, complete a chunk, and leave one or two samples. |
| `MaxBytes`, `MaxCall` | 14 bytes, 7 samples | | A call completes none, one or two chunks, with and without bytes stored before and left behind, and hits both exactly. |
| `CHUNK`, stream | 16, 3 | 10485760 | 16 is room for all a chunk can put out and what is held back twice over; with 3 the coder fills it within one chunk. |
| `CHUNK`, file | 4 | 10485760 | `MaxSize` 9: empty, partial, exact, one over, two buffers and one over. With `Hold` 4 the flush can fill the buffer. |
| `CHUNK`, `Expand`, decompressor | 4, 2 | 10485760 | A full buffer of input decodes to twice the buffer of output. `MaxSize` 12 is headers of 1 and 3 bytes and two buffers, with and without a rest. |
| `STREAM_CHUNK`, `CHUNK`, decompressor | 3, 6 | 32768, 10485760 | `Expand` 3: a chunk decodes to at most nine bytes, so the room may suffice or not; an odd chunk against two-byte samples. `MaxBytes` 7 is two chunks and one byte. |
| `max_header_size` | 3, 18 | 18 | 3 keeps the file short where only its being skipped matters; `round_trip` has the code's. |
| `Headers` | 7 pairs | | Every pair of lengths `IqzipHeader` finds; the other two, 18 parsed as 14 or as 16, contradict `HeaderLengthAgrees`, which is proved. |
| `MaxSize`, `round_trip` | 5 | | Empty, less than a buffer, a buffer, one more; an odd byte at the end. |
| `MaxSessions` | 2 | | What one session leaves for the next shows in the second. |
| `INT_RANGE` | 64, 128 | 2^32 | Half of it is beyond all output of the run; 128 in `round_trip`, where a decoded archive can have 54 bytes. |
| `Gain`, `Hold`, `SampleBytes` | 1, 1 to 4, 2 and 3 | | Two-byte samples make odd boundaries, three-byte ones do not divide a power of two. |
| header values | both ends of each field, the bits next to a byte's end, and bits behind the end of the field up to the widest of the argument's type | | Bits are moved independently of each other. |
| `MaxRewrites` | 1 | | One value for each field in every order, and a second for one of them at any point; a parsed header set at any point as well. |
| `CipConfigs` | 2 | | The constructor with the command line's values, and with one that is illegal for every field that has any. |
| blocks | every power of two from 8 to 32768; 0, 10, 24, 100, 65535 | `uint16_t` | One of each kind with no code, below 16, up to 64 and above, and the ends of the type. |
| `HeaderMemory` | 2 | uninitialised | Of 18 bytes all zeros, and all ones but in the bytes that bits are or-ed into: every other byte is assigned, or not read by the parser. |
| arguments | up to 5 of 9 kinds | | Three in front of the files: a parameter, its value, and an option behind or before. |

### Fairness

The only fairness is weak fairness of the turns of the loop of the running call
that do not fail: the call runs on a thread of the caller, and a function that has
been called executes its next statement.  The turns that return an error are not
in it, so that no call returns only because the coder had to fail some day.  That
the caller calls again, or that a session is ever finished, is not assumed.  In
`round_trip` the caller is the program, which calls what comes next whatever was
returned, so the fairness there is of every step that is not an error of the
coder or the decoder.  Deadlock is not checked,
because the caller may stop, a program ends, and the sessions and bytes are
bounded.

## 4. What is proved

For every value of the constants that the modules' own assumptions allow (any
chunk, buffer and sample size, any coder within `Libaec` or `LibaecDecoder`, any
set of faults, any number of sessions, calls and bytes, any list of arguments, any
memory, number and order of calls on the header objects, any set of options and
payload) and under the hypotheses named here:

| Module | Theorem | Property | Hypotheses |
|---|---|---|---|
| `StreamCompressorProofs` | `TypeCorrect` | `TypeOK` | |
| | `BufferStaysBounded` | `BufferBounded` | |
| | `DeliveryCorrect` | `DeliveryInOrder` | `RoomForAll`, `WholeSamples(STREAM_CHUNK)` |
| | `WrittenCorrect` | `WrittenIsPrefix` | |
| | `OutputCorrect` | `OutputComplete` | no write fails |
| | `DeliveryRefined` | initial states and steps of `ImplementsDelivery` | as `DeliveryCorrect`; no faults, one session |
| `FileCompressorProofs` | `TypeCorrect` | `TypeOK` | |
| | `InputInOrder` | `ReadInOrder` | |
| | `WrittenCorrect` | `WrittenIsPrefix` | `NoWrap` |
| | `SuccessCorrect` | `SuccessMeansComplete` | `NoWrap` |
| `FileDecompressorProofs` | `TypeCorrect` | `TypeOK` | |
| | `InputInOrder` | `FedBehindHeader` | |
| | `WrittenCorrect` | `WrittenIsPrefix` | `NoWrap` |
| | `SuccessCorrect` | `SuccessMeansComplete` | `NoWrap` |
| `StreamDecompressorProofs` | `TypeCorrect` | `TypeOK` | |
| | `BufferStaysBounded` | `BufferBounded` | |
| | `DeliveryCorrect` | `DeliveryInOrder` | |
| | `WrittenCorrect` | `WrittenIsPrefix` | |
| | `OutputCorrect` | `OutputComplete` | |
| `CommandLineProofs` | `TypeCorrect` | `TypeOK` | |
| | `GrammarCorrect` | `AcceptsGrammar` | |
| | `FilesCorrect` | `FilesAreLast` | |
| | `OptionsCorrect` | `LastOptionWins` | |
| `RoundTripProofs` | `FedCorrect` | `FedIsCoded` | `NoWrap` |
| | `RestoredCorrect` | `ExitMeansRestored` | `NoWrap`, and the same of the decoded archive |
| `HeaderProofs` | `HeaderFieldsCorrect` | `HeaderFieldsAccumulate` | |
| | `SettersCorrect` | `SettersIndependent` | while the secondary header flag is given 0 and 1 (`FlagOfOneBit`, in the statement) |
| | `HeaderLengthCorrect` | `HeaderLengthAgrees` | `ClearedBytes` of the block size |
| | `StreamConfiguredCorrect` | `StreamConfigured` | `ClearedBytes` of the preprocessor; `Switches` |
| | `OptionsLost` | restricted codes, 32 bits and blocks without a code never reach the decoder | as `StreamConfiguredCorrect` |
| | `FieldsSurviveCorrect` | `FieldsSurvive` | `ClearedBytes` of what is or-ed into; `Switches` and enumerations |

### The hypotheses

* `RoomForAll`: `d_out` has room, twice over, for what a chunk and the bytes held
  back can become, so that the coder never fills it.  10485760 bytes for chunks of
  32768.  Without it input not taken is dropped, and the property fails.
* `WholeSamples(STREAM_CHUNK)`: a chunk ends on a sample.  True of samples of 1, 2
  and 4 bytes and of 32768; false for samples of 3, for which the property fails.
* No write fails, in `OutputCorrect` of the compressor: `stream_compress` never
  looks at the state of the stream, so a failed write goes with a return of 0.
* `NoWrap`: the coded form of a source (in the decompressors, the decoded form of
  an archive) stays below half the range of `int`, 2 GiB.  Beyond it the `int
  total_out` of the loop is not the `size_t` of the coder, and the write is of a
  length that has nothing to do with the buffer: the deviation named above.
* No faults and one session, in `DeliveryRefined`: `ChunkedDelivery` has neither
  an error nor a store that is not empty at the start.

The file runs and `round_trip` give the constants values under which `NoWrap`
holds, `stream_input` and `stream_refines` values under which `RoomForAll` and
`WholeSamples` do.

The first two theorems about the headers rest on the assumptions of `PrimaryHeader`
and `HeaderObjects`: memory is bytes, and a number is one of the type its setter
has, which is wider than most fields (`Values`, `Largest`, `Configuration`), an
interval not 0.  `SettersCorrect` says in its statement what it needs besides: a
secondary header flag of 2 or more sets bits of another field, and it is the only
number that does.  Those about
the whole header take any set of options within the types of the constructor's
parameters, any payload of bytes, and these hypotheses:

* `ClearedBytes`: the constructors or bits into bytes they never assign, and
  allocate them with `new`.  What such a byte held is in the file, so the memory has
  to be zero there: the byte of the block size for the length of the header, the two
  of the preprocessor for the coder's options, five bytes for the fields that
  describe.  With a bit set in one of these the property can fail; the code leaves it
  to the allocator.  Nothing is assumed of the other bytes of the eighteen.
* `Switches`, and the predictor and mapper being values of their enumerations: the
  constructor takes a `uint8_t` for each.  Any other value sets no bit in the packet,
  though it may set another flag of the coder; a byte order of neither 0 nor 1 leaves
  the bit of the extension as memory had it (`EncodeIqzip`); and a secondary header
  flag is shifted into the fields above it.

`headers` gives the constants values under which these two hold.

### The arguments

**Types and bounds.**  `TypeOK` is inductive, in the file interfaces together with
the order of the input.  It rests on what the outcomes of the
coder are (`OutcomeType`), on the room after a write (`AccountType`, `TurnType`),
and on the file staying a sequence whatever part of a write succeeds
(`WriteType`).  `BufferBounded` is inductive with it; the case that needs care is
a session begun after an error of the coder, whose buffer holds a whole chunk.

**Input.**  In `StreamCompressor` a chunk is forgotten after the coder was called,
so the coder has to take all of it, which it does when its room is not filled.
`OrderInv` adds that the room is the whole buffer or what a chunk without output
has left of it, that no more than `Hold` bytes are held back, and that the
lengths of the stored bytes are whole samples.  From that `TakesAll` shows that a
call takes its whole input, and `Assoc` that moving bytes from `inbuf` to
`d_tmp_stream` to the coder leaves their concatenation as it was.
`StreamDecompressor` can drop bytes, so what is kept there is order and not
contents: `OrderInv` is that what was taken, stored and waits is ordered and known
to have been given, that parts and concatenations of such sequences are again
(`PartInOrder`, `EndsInOrder`), and that nothing is missing while the decoder had
room (`RoomMeansTaken`).  In the file interfaces `FedInv` and `ReadInOrder` say
that what was taken and what is pending make a run of numbers that ends at the
position in the file; `SequenceFacts` has how runs grow and are cut.

**Output.**  What is written is counted by the difference of two totals.
`Holds(file, sound, n)` says that the file is the coder's first n bytes when the
stream is sound and some of them when it is not; `WriteHolds` is that one write of
the difference keeps it, and `FileInv`, `OutputInv` that the totals agree when
the next write begins: in the first session for the streams, under `NoWrap` for
the files, where an `int` holds every count below half its range (`IntHolds`)
and the coder's total is bounded by what it took (in the decompressor
`OutputBounded`).  For `SuccessMeansComplete` the invariant adds what the end of
the loop knows: the input has ended when the buffer is no longer filled, and a
last turn that wrote nothing has left less than a sample.

**Refinement.**  `RefineInv` adds to `OrderInv` what holds in a first session
without faults, and `Simulation` maps each step: a call that stores or enters the
loop is `Give`, a turn of the loop `Deliver` (the coder takes the whole chunk,
`TakesAll`), the end of the loop `Return`, and init and fin are `Open` and `Finish`.

**Arguments.**  The loop of `main` reads a list in one way.  `ParseInv` says that a
set of positions exists that reads the list up to `iarg`, that no other does
(`OnlyReading`), that the options have the values it gives (`Values`), and that the
loop leaves the last place before the files only where no reading is.
`GrammarCorrect` needs all of it: it is an equivalence, and a list is refused only
if it has no reading at all.

**Composition.**  Every step of the two programs is a step of each object or leaves
it alone (`StepOfBoth`), so the invariants of the objects carry over.  `ArchiveInv`
adds that a first program that has exited leaves the coder's bytes by number, and
that the second works on that archive; `BytesBehind` computes what is found behind
a header parsed to another length than it has: zeros of the header or bytes too
late.  Either way the first byte is wrong, which is the equivalence of
`FedIsCoded`.  `RestoredInv` says that while no mishap was recorded neither program
is on a path that hides a failure, and that one that has exited did all its work
(`SourceCoded`, `ArchiveDecoded`).

**Headers.**  Each bit of a header has one owner (`BitOwner`, `CipOwner`), and two
facts about the operators carry everything: a setter changes no bit that another
field owns (`EncodedBits`, `CipEncoded`), but that of the secondary header flag,
whose changes `SpilledBits` and `SpilledUnion` give; and a getter reads only bits
its field owns (`DecodeLocal`, `CipLocal`).  So the secondary header flag is the
only setter that another field's getter sees.  For its own field, `PrimarySetter`
and `CipSetter` are that the getter then returns what the field has room for of the
number, or its code: or-ed to what was there, in place of it where the code assigns
a whole byte, and what was there when the number is illegal.  Getters return integers
and headers hold bits, so `BitByBit`, `SmallBits`, `LowBits`, `ByteBitsNum` and
`ByteNumBits` tie the bits of a number to `\div` and `%`, and the tables of block
codes are checked to fit the bits they are put in.  `PrimaryInv`, `CipInv` and
`HInv` add to the accumulation that a field nobody set was given nothing, which is
what makes it inductive over a constructor called in used memory, whose `encode`
sets all the fields of a segment one after the other (`OneMore`), and over
`set_source_data_fixed` and its like, which replace whole bytes (`CipMerged`).
`PrimaryApart` and `CipApart` read off it that a field holds nothing that its memory
and its own setter did not give it; the last number is among those given.

**The whole header.**  `IqzipInv` says that the compressor is one made of legal
options in some memory, the file its header followed by a payload, and the
decompressor what is parsed of that file.  It is inductive as it stands, and leaves
a question about data: what `Decompressor` makes of `Header` of `Compressor`.
`FileBytes` answers it for the bytes: the parser finds the primary header, the fixed
bytes, the preprocessor and the entropy coder always, the extended parameters and the extension only where they were written, and bytes of the payload
in their place otherwise.  `CompressorFields` answers it for the packet, with the
lemmas about single setters: `SameSetters` and `SameGetters` carry those over from
`CipPacket`, and a field of a byte that was zero holds the code of its option and
nothing else.  From both, `LengthReadBack` compares the length written, a condition
on options, with the length parsed, a condition on codes; `BlockReadBack` says that
a block size is read back exactly when it has a code, though three tables share the
sizes and the extension may be payload; `StreamReadBack` puts that and the options
of one bit together into the configuration of the coder (`RelevantStream`), and
`StreamParsed` takes from it that the configurations agree for options that are
conveyed and differ for the three kinds of `OptionsLost`.  In the
primary header a value wider than its field is not refused but cut by the setter:
`PrimaryConstructor` and `FieldNumber` are that what remains is the number modulo a
power of two.

### Left to TLC

Liveness, which is out of the provers' reach: `CallReturns`, `CompressReturns`,
`DecompressReturns`, `BothEnd` and the fairness of `ImplementsDelivery`.  Every
safety property of the passing runs is stated by a theorem.

## 5. What is not modelled

Not modelled: the instrument configuration, which reaches no file; the numbers
libaec computes, so that `ExitMeansRestored` is about which bytes go through it and
not about their values; printing; the build files.  A read past a heap buffer
(`set_source_data_variable` copies 24 bytes of 18) has no effect the models could
show; an interval of 0 is left out, since converting -1.0 to `uint8_t` is undefined.

Left to do is what would need a model of libaec's numbers: that the decoder undoes
the coder when `StreamConfigured` has made their options the same.
