----------------------------- MODULE HeaderBits -----------------------------
(***************************************************************************)
(* The integers of the headers.  An unsigned integer is the set of the     *)
(* positions of its one bits, so | is \cup, & with a mask is \cap with the *)
(* mask's positions, and a shift moves every position.  A header is a      *)
(* function from the index of a byte to a byte.                            *)
(***************************************************************************)
EXTENDS Integers

Byte == SUBSET (0..7)
Word == SUBSET (0..15)

Shl(b, k) == { i + k : i \in b }
Shr(b, k) == { i - k : i \in { j \in b : j >= k } }

\* Numbers of at most 16 bits as bits, and back.
Bits(n) == { i \in 0..15 : (n \div 2^i) % 2 = 1 }
Weight(b, i) == IF i \in b THEN 2^i ELSE 0
Num(b) ==
    Weight(b, 0) + Weight(b, 1) + Weight(b, 2) + Weight(b, 3)
    + Weight(b, 4) + Weight(b, 5) + Weight(b, 6) + Weight(b, 7)
    + Weight(b, 8) + Weight(b, 9) + Weight(b, 10) + Weight(b, 11)
    + Weight(b, 12) + Weight(b, 13) + Weight(b, 14) + Weight(b, 15)

\* hdr[j] |= b and hdr[j] = b, both cut to eight bits.
Or(hdr, j, b) == [hdr EXCEPT ![j] = @ \cup (b \cap 0..7)]
Put(hdr, j, b) == [hdr EXCEPT ![j] = b \cap 0..7]
=============================================================================
