-------------------------- MODULE MCFileCompressor --------------------------
(* FileCompressor on small instances; the .cfg files give the constants. *)
EXTENDS FileCompressor

\* The fault sets of the runs.
NoFaults == {}
AllFaults == FaultKinds
=============================================================================
