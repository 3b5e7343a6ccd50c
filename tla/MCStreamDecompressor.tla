------------------------ MODULE MCStreamDecompressor ------------------------
(* StreamDecompressor on small instances; the .cfg files give the constants. *)
EXTENDS StreamDecompressor

\* Every fault of the stream interface.
AllFaults == FaultKinds
=============================================================================
