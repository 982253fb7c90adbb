---------------------------- MODULE MCKktVector ----------------------------
EXTENDS KktVector

\* A malformed chunk, a tail of which only lane 0 has rows when the lanes share
\* the rows of a head, and a full chunk.
MCLens == {0, 20, 64}

\* Every walk of up to two rounds; of three, where a slot is used again: full
\* chunks that may be fused with either neighbour, a tail before and behind
\* them, and a round without a Gram at either end; two fused pairs in a row.
MCWalks ==
  UNION {[1 .. n -> MCLens] : n \in 0 .. 2}
    \cup {<<64, 64, 64>>, <<20, 64, 64>>, <<0, 64, 20>>, <<64, 20, 0>>, <<64, 64, 64, 64>>}
============================================================================
