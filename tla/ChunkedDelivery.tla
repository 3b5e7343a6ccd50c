--------------------------- MODULE ChunkedDelivery ---------------------------
(***************************************************************************)
(* What the stream interface promises its caller: the bytes given in a     *)
(* session reach the coder once, in order, in whole chunks, as soon as a   *)
(* chunk is complete; a call returns with less than a chunk in store; the  *)
(* end of the session delivers what is left.  How the bytes are stored is  *)
(* not said.                                                               *)
(***************************************************************************)
EXTENDS Naturals, Sequences

CONSTANTS Chunk,   \* bytes of a chunk
          Calls    \* the byte sequences a call may bring

VARIABLES phase,      \* "closed", "open" between calls, "giving" inside one
          pending,    \* bytes accepted and not yet handed to the coder
          delivered   \* bytes handed to the coder in this session

dvars == <<phase, pending, delivered>>

DInit == phase = "closed" /\ pending = <<>> /\ delivered = <<>>

Open == /\ phase = "closed"
        /\ phase' = "open"
        /\ pending' = <<>>
        /\ delivered' = <<>>

Give == /\ phase = "open"
        /\ \E bytes \in Calls : pending' = pending \o bytes
        /\ phase' = IF Len(pending') < Chunk THEN "open" ELSE "giving"
        /\ UNCHANGED delivered

Deliver == /\ phase = "giving"
           /\ Len(pending) >= Chunk
           /\ delivered' = delivered \o SubSeq(pending, 1, Chunk)
           /\ pending' = SubSeq(pending, Chunk + 1, Len(pending))
           /\ UNCHANGED phase

Return == /\ phase = "giving"
          /\ Len(pending) < Chunk
          /\ phase' = "open"
          /\ UNCHANGED <<pending, delivered>>

Finish == /\ phase = "open"
          /\ phase' = "closed"
          /\ delivered' = delivered \o pending
          /\ pending' = <<>>

DNext == Open \/ Give \/ Deliver \/ Return \/ Finish

DSpec == DInit /\ [][DNext]_dvars /\ WF_dvars(Deliver \/ Return)
=============================================================================
