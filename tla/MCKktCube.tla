----------------------------- MODULE MCKktCube -----------------------------
EXTENDS KktCube

\* A malformed chunk, a tail, a full chunk.
MCLens == {0, 20, 64}

\* Every walk of up to three rounds; of four, where both slots are used again,
\* a few that mix the three.
MCWalks ==
  UNION {[1 .. n -> MCLens] : n \in 0 .. 3}
    \cup {<<64, 64, 64, 64>>, <<64, 20, 64, 20>>, <<20, 0, 0, 64>>, <<0, 64, 0, 20>>}
============================================================================
