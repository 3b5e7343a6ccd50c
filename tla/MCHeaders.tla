------------------------------ MODULE MCHeaders ------------------------------
(* HeaderObjects and IqzipHeader in one run: a behaviour is about one of the *)
(* two header objects, or about the header of a file.                        *)
EXTENDS MCHeaderObjects, MCIqzipHeader

\* A whole header has objects of its own: its behaviours start beside one that
\* is never touched.
Untouched ==
    /\ object = "primary" /\ written = {}
    /\ start = Alike(5, {}) /\ d_primary_header = start

MCInit == HInit /\ IqzipInit

MCNext ==
    \/ pc = "none" /\ HNext /\ UNCHANGED hvars
    \/ /\ pc = "none" /\ Untouched
       /\ \E c \in Configs, m \in HeaderMemory : Create(c, m)
       /\ UNCHANGED ovars
    \/ /\ (\E payload \in Payloads : Write(payload)) \/ Parse \/ ParseShort
       /\ UNCHANGED ovars

MCSpec == MCInit /\ [][MCNext]_<<ovars, hvars>>
=============================================================================
