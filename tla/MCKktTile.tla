------------------------------- MODULE MCKktTile -------------------------------
EXTENDS KktTile

\* Around the 8-element blocks of g and the 16-element blocks of beta.
MCLens == {1, 9, 16, 31, 33, 49, 56, 57, 64}

\* A slow decay, values that repeat and go up and down, and a decay of four
\* per row, from above the range of the exponential to below it.
MCGates ==
  {[h \in 0 .. 3 |-> [i \in 0 .. BT - 1 |-> -i - h]],
   [h \in 0 .. 3 |-> [i \in 0 .. BT - 1 |-> ((i * 7 + h * 3) % 13) - 6]],
   [h \in 0 .. 3 |-> [i \in 0 .. BT - 1 |-> 100 - 4 * i]]}
=============================================================================
