------------------------- MODULE MCFileDecompressor -------------------------
(* FileDecompressor on small instances; the .cfg files give the constants. *)
EXTENDS FileDecompressor

\* Every fault of the file interface.
AllFaults == FaultKinds
=============================================================================
