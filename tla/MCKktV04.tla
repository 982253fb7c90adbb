------------------------------ MODULE MCKktV04 ------------------------------
EXTENDS KktV04

Shape(aicNum, hgs, rep, t, offsets) ==
  [aicNum |-> aicNum, hg |-> hgs, repeat |-> rep, t |-> t, offsets |-> offsets]

\* Pairs of full chunks, a tail, an empty chunk, one that is too long, one beyond t.
MCOffsets == {<<0, 64, 128, 148>>, <<0, 64, 64, 128, 192>>,
              <<0, 64, 192, 256>>, <<0, 64, 128, 192, 256>>}

ShapesOf(cores, hgs, repeats, offsets) ==
  {Shape(a, n, r, IF o[Len(o)] = 256 THEN 250 ELSE 276, o) :
     a \in cores, n \in hgs, r \in repeats, o \in offsets}

\* Pairs of chunks (repeat = 3) on one group and on several, and the cyclic
\* walk (repeat = 2).
MCShapes ==
  ShapesOf({1, 3}, {2}, {3}, MCOffsets)
    \cup ShapesOf({2, 3}, {2}, {2}, {<<0, 64, 128, 148>>, <<0, 64, 192, 256>>})
=============================================================================
