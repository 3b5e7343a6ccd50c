------------------------- MODULE MCStreamCompressor -------------------------
(* StreamCompressor on small instances; the .cfg files give the constants. *)
EXTENDS StreamCompressor

\* The fault sets of the runs.
NoFaults == {}
AllFaults == FaultKinds
EncodeFaults == {"encode", "open", "fopen"}
=============================================================================
