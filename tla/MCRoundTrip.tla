----------------------------- MODULE MCRoundTrip -----------------------------
(* RoundTrip on small instances; the .cfg files give the constants. *)
EXTENDS RoundTrip

AllFaults == FaultKinds
AllDecompressFaults ==
    {"fopen", "open_in", "open_out", "init", "read", "decode", "write"}

\* The lengths IqzipHeader finds: blocks of 8 and 64 samples and longer ones;
\* restricted codes with blocks of up to 16; blocks of 24 and of 10 samples.
AllHeaders ==
    { [written |-> w, parsed |-> p] :
        <<w, p>> \in {<<14, 14>>, <<16, 16>>, <<18, 18>>, <<16, 14>>,
                      <<16, 18>>, <<14, 16>>, <<14, 18>>} }
=============================================================================
