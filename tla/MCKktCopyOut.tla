----------------------------- MODULE MCKktCopyOut -----------------------------
EXTENDS KktCopyOut

\* Around the two limits of the descriptor: a gap of 65535 blocks is
\* t = 8255 for a pair and t = 8319 for a chunk pair.
MCTokenCounts == {20, 64, 128, 200, 8255, 8256, 8319, 8320, 20000}
MCStarts == {0, 32, 72}
MCRowCounts == {1, 20, 32, 64}
=============================================================================
