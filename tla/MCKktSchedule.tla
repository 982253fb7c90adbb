--------------------------- MODULE MCKktSchedule ---------------------------
EXTENDS KktSchedule, FiniteSets

\* Shapes are given by KV heads, ratio, head dimension, chunks, short chunks
\* and AIC cores.
Shape(hg, ratio, kDim, n, short, aic) ==
  [b |-> 1, t |-> BT * n - 44 * Cardinality(short), h |-> hg * ratio, hg |-> hg,
   kDim |-> kDim, numChunks |-> n, aicNum |-> aic, short |-> short]

\* R = 3 on few chunks: chunk-local, every choice of short chunks, fewer and
\* more cores than tasks.
ChunkLocalSmall ==
  {Shape(hg, 3, 128, n, short, aic) :
     hg \in 1 .. 3, n \in 1 .. 5, short \in SUBSET (0 .. 2), aic \in {1, 3, 8}}

\* Just inside and just outside the ranges of both policies.
Boundary ==
  {Shape(2, 3, 128, n, {0, 7}, aic) : n \in {16, 17, 40, 41, 200, 201}, aic \in {16, 20}}
    \cup {Shape(2, 4, k, n, short, aic) :
            k \in {128, 256}, n \in {16, 17, 41, 200, 201, 256, 257},
            short \in {{}, {3}}, aic \in {16, 20, 24}}
    \cup {Shape(16, r, 128, n, {2}, aic) : r \in {3, 4}, n \in {2, 5, 6, 25, 26}, aic \in {8, 16, 20}}
    \cup {Shape(8, r, 128, n, {2}, 20) : r \in {3, 4}, n \in {4, 10, 11, 32, 33}}

\* The other ratios: cyclic.
CyclicShapes ==
  {Shape(hg, r, 256, n, {}, aic) :
     hg \in {1, 3}, r \in {1, 2, 5}, n \in {1, 7, 12, 40}, aic \in {4, 20}}

SmallShapes == {s \in ChunkLocalSmall : s.short \subseteq 0 .. s.numChunks - 1}
MCShapes == SmallShapes \cup Boundary \cup CyclicShapes

\* For the statement about the Host's selection.
SelectionShapes == {Shape(2, 4, 128, n, {}, 20) : n \in {10, 17, 20}}

\* For the statement about the row stride.
WideShapes == {Shape(hg, 1, 256, 1, {}, 20) : hg \in {2, 255, 256}}
=============================================================================
