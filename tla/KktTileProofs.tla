----------------------------- MODULE KktTileProofs -----------------------------
(***************************************************************************)
(* For every chunk length, every number of heads and every decay, integers *)
(* of any size, a finished tile is zero where it is masked or padded, and  *)
(* elsewhere the product of its own factors.                               *)
(*                                                                         *)
(* The inductive invariant IInv says for every buffer what the instructions*)
(* so far have put where the next ones read (the ...Held predicates), and  *)
(* which buffers no barrier has closed yet (Closed).  There is one lemma   *)
(* per instruction: it makes one such predicate out of others.  The two    *)
(* properties then follow from what the last product holds by arithmetic   *)
(* on elements alone.                                                      *)
(***************************************************************************)
EXTENDS KktTile, TLAPS

-----------------------------------------------------------------------------
(* What the buffers should hold: t is the task, b the batch *)

HeadsOf(t, b) == 0 .. MinI32(GATE_HEAD_BATCH, t.totalHeads - b * GATE_HEAD_BATCH) - 1
RowsOf(t) == 0 .. t.rowCount - 1
Columns == 0 .. ROW_ELEMS - 1

GateElement(t, b, h, c) ==
  Element("num", {<<"g", b * GATE_HEAD_BATCH + h, c>>}, t.g[b * GATE_HEAD_BATCH + h][c])
BetaElement(b, h, c) == Read("beta", b * GATE_HEAD_BATCH + h, c)

\* The gate of a column, zero behind the chunk, and of a row of the lane.
ColumnGate(t, b, h, c) == IF c >= t.chunkLen THEN Zero ELSE GateElement(t, b, h, c)
RowGate(t, b, h, r) == GateElement(t, b, h, t.rowStart + r)

ColumnFactor(t, b, h, c) ==
  IF c >= t.chunkLen THEN Zero ELSE ExpOf(NegOf(GateElement(t, b, h, c)))
RowFactor(t, b, h, r) ==
  Times(ExpOf(RowGate(t, b, h, r)), BetaElement(b, h, t.rowStart + r))
Outer(t, b, h, r, c) == Times(ColumnFactor(t, b, h, c), RowFactor(t, b, h, r))
Less(t, b, h, r, c) == CompareLess(RowGate(t, b, h, r), ColumnGate(t, b, h, c))
Picked(t, b, h, r, c) ==
  IF Less(t, b, h, r, c).kind = "less" THEN Outer(t, b, h, r, c) ELSE Zero
GramElement(t, r, c) ==
  IF c >= t.chunkLen THEN Zero ELSE Read("kkt", t.rowStart + r, c)
Product(t, b, h, r, c) == Times(GramElement(t, r, c), Picked(t, b, h, r, c))

\* x holds the gates of the batch up to column last of each row.
GatesHeld(t, b, last, x) ==
  \A h \in HeadsOf(t, b), c \in Columns :
    c < last => At(x, h * ROW_ELEMS + c) = ColumnGate(t, b, h, c)
BetaHeld(t, b, x) ==
  \A h \in HeadsOf(t, b), c \in Columns :
    c < t.chunkLen => At(x, h * ROW_ELEMS + c) = BetaElement(b, h, c)
NegatedHeld(t, b, x) ==
  \A h \in HeadsOf(t, b), c \in Columns :
    At(x, h * ROW_ELEMS + c) = NegOf(ColumnGate(t, b, h, c))
ColumnsHeld(t, b, x) ==
  \A h \in HeadsOf(t, b), c \in Columns :
    At(x, h * ROW_ELEMS + c) = ColumnFactor(t, b, h, c)
RowGatesHeld(t, b, x) ==
  \A h \in HeadsOf(t, b), r \in RowsOf(t) :
    At(x, h * ROW_ELEMS * 8 + r * 8) = RowGate(t, b, h, r)
RowBetaHeld(t, b, x) ==
  \A h \in HeadsOf(t, b), r \in RowsOf(t) :
    At(x, h * ROW_ELEMS + r) = BetaElement(b, h, t.rowStart + r)
RowsHeld(t, b, x) ==
  \A h \in HeadsOf(t, b), r \in RowsOf(t) :
    At(x, h * ROW_ELEMS * 8 + r * 8) = RowFactor(t, b, h, r)
RowPowersHeld(t, b, x) ==
  \A h \in HeadsOf(t, b), r \in RowsOf(t) :
    At(x, h * KKT_ELEMS + r) = ExpOf(RowGate(t, b, h, r))
RowFactorsHeld(t, b, x) ==
  \A h \in HeadsOf(t, b), r \in RowsOf(t) :
    At(x, h * KKT_ELEMS + r) = RowFactor(t, b, h, r)
MaskHeld(t, b, x) ==
  \A h \in HeadsOf(t, b), r \in RowsOf(t), c \in Columns :
    At(x, h * KKT_ELEMS + r * ROW_ELEMS + c) = Less(t, b, h, r, c)
OuterHeld(t, b, x) ==
  \A h \in HeadsOf(t, b), r \in RowsOf(t), c \in Columns :
    At(x, h * KKT_ELEMS + r * ROW_ELEMS + c) = Outer(t, b, h, r, c)
PickedHeld(t, b, x) ==
  \A h \in HeadsOf(t, b), r \in RowsOf(t), c \in Columns :
    At(x, h * KKT_ELEMS + r * ROW_ELEMS + c) = Picked(t, b, h, r, c)
ProductHeld(t, b, x) ==
  \A h \in HeadsOf(t, b), r \in RowsOf(t), c \in Columns :
    At(x, h * KKT_ELEMS + r * ROW_ELEMS + c) = Product(t, b, h, r, c)
GramHeld(t, x) ==
  \A r \in RowsOf(t), c \in Columns : At(x, r * ROW_ELEMS + c) = GramElement(t, r, c)

-----------------------------------------------------------------------------
(* The inductive invariant *)

TaskOK ==
  /\ task.chunkLen \in 1 .. BT /\ task.rowCount \in 1 .. BT /\ task.rowStart \in 0 .. BT
  /\ task.rowStart + task.rowCount <= task.chunkLen
  /\ task.totalHeads \in 1 .. Heads
  /\ task.totalHeads > 1 => task.rowStart = 0
  /\ task.g \in [0 .. Heads - 1 -> [0 .. BT - 1 -> Int]]

PlaceOK ==
  /\ batch \in 0 .. batchCount - 1
  /\ pc \in 1 .. 23
  /\ DOMAIN ub = Buffers

\* The instructions before which a buffer may still be open.
Closed ==
  /\ dirty \subseteq {"negG", "scratch", "mask", "out", "kkt"}
  /\ "negG" \in dirty => pc \in {5, 6, 9}
  /\ "scratch" \in dirty => pc \in {6, 11, 12, 16}
  /\ "mask" \in dirty => pc \in {8, 9}
  /\ "out" \in dirty => pc \in {12, 14, 18, 20, 23}
  /\ "kkt" \in dirty => batch = 0 /\ pc \in 3 .. 21

InputsHeld(t, b, p, u) ==
  /\ p \in {2, 3} => GatesHeld(t, b, RoundUp(t.chunkLen, 8), u["g"])
  /\ p > 3 => GatesHeld(t, b, ROW_ELEMS, u["g"])
  /\ p > 1 => BetaHeld(t, b, u["beta"])
  /\ b > 0 \/ p > 2 => GramHeld(t, u["kkt"])

FactorsHeld(t, b, p, u) ==
  /\ p \in 5 .. 8 => NegatedHeld(t, b, u["negG"])
  /\ p > 8 => ColumnsHeld(t, b, u["negG"])
  /\ p \in 6 .. 10 => RowGatesHeld(t, b, u["scratch"])
  /\ p \in 11 .. 15 => RowBetaHeld(t, b, u["scratch"])
  /\ p > 15 => RowsHeld(t, b, u["scratch"])

TileHeld(t, b, p, u) ==
  /\ p > 7 => MaskHeld(t, b, u["mask"])
  /\ p \in {12, 13} => RowPowersHeld(t, b, u["out"])
  /\ p \in 14 .. 17 => RowFactorsHeld(t, b, u["out"])
  /\ p \in {18, 19} => OuterHeld(t, b, u["out"])
  /\ p \in 20 .. 22 => PickedHeld(t, b, u["out"])
  /\ p > 22 => ProductHeld(t, b, u["out"])

IInv ==
  /\ TaskOK
  /\ PlaceOK
  /\ Closed
  /\ InputsHeld(task, batch, pc, ub)
  /\ FactorsHeld(task, batch, pc, ub)
  /\ TileHeld(task, batch, pc, ub)
-----------------------------------------------------------------------------
(* Indices and contents *)

\* What an instruction has not computed it leaves as it was.
LEMMA AtOver ==
  ASSUME NEW new, NEW old, NEW k
  PROVE  At(Over(new, old), k) = IF k \in DOMAIN new THEN new[k] ELSE At(old, k)
  BY DEF At, Over

\* The elements an instruction computes for head h.
LEMMA EachHas ==
  ASSUME NEW h \in HeadInBatch, NEW stride \in Nat, NEW n \in Nat, NEW i \in 0 .. n - 1,
         h \in Nat
  PROVE  h * stride + i \in Each(stride, n)
<1>1. h * stride \in Int
  OBVIOUS
<1>2. h * stride + i \in h * stride .. h * stride + n - 1
  BY <1>1
<1> QED BY <1>2 DEF Each

\* Where an element of a row vector, of a broadcast one and of a tile lies.
LEMMA RowIndex ==
  ASSUME NEW h \in 0 .. 1, NEW c \in Columns
  PROVE  /\ h * ROW_ELEMS + c \in Nat
         /\ (h * ROW_ELEMS + c) \div ROW_ELEMS = h
         /\ (h * ROW_ELEMS + c) % ROW_ELEMS = c
  BY DEF Columns, ROW_ELEMS, BT

LEMMA BlockIndex ==
  ASSUME NEW h \in 0 .. 1, NEW r \in 0 .. ROW_ELEMS - 1
  PROVE  /\ h * ROW_ELEMS * 8 + r * 8 = h * (ROW_ELEMS * 8) + r * 8
         /\ (h * ROW_ELEMS * 8 + r * 8) \div (ROW_ELEMS * 8) = h
         /\ ((h * ROW_ELEMS * 8 + r * 8) % (ROW_ELEMS * 8)) \div 8 = r
  BY DEF ROW_ELEMS, BT

LEMMA FirstRowIndex ==
  ASSUME NEW h \in 0 .. 1, NEW r \in 0 .. ROW_ELEMS - 1
  PROVE  /\ HeadAt(h * KKT_ELEMS + r) = h
         /\ (h * KKT_ELEMS + r) % KKT_ELEMS = r
  BY DEF HeadAt, KKT_ELEMS, ROW_ELEMS, BT

LEMMA TileIndex ==
  ASSUME NEW h \in 0 .. 1, NEW r \in 0 .. ROW_ELEMS - 1, NEW c \in Columns
  PROVE  /\ HeadAt(h * KKT_ELEMS + r * ROW_ELEMS + c) = h
         /\ RowAt(h * KKT_ELEMS + r * ROW_ELEMS + c) = r
         /\ ColumnAt(h * KKT_ELEMS + r * ROW_ELEMS + c) = c
         /\ (h * KKT_ELEMS + r * ROW_ELEMS + c) % KKT_ELEMS = r * ROW_ELEMS + c
         /\ (r * ROW_ELEMS + c) \div ROW_ELEMS = r
         /\ (r * ROW_ELEMS + c) % ROW_ELEMS = c
  BY DEF HeadAt, RowAt, ColumnAt, Columns, KKT_ELEMS, ROW_ELEMS, BT

\* A batch has one or two heads; a lane that owns some of the rows only has
\* one head.
LEMMA HeadFacts ==
  ASSUME TaskOK, batch \in Nat
  PROVE  /\ HeadInBatch = HeadsOf(task, batch)
         /\ HeadsOf(task, batch) \subseteq 0 .. 1
         /\ \A h \in HeadsOf(task, batch) : /\ batchHead(h) = batch * GATE_HEAD_BATCH + h
                                            /\ batch * GATE_HEAD_BATCH + h \in 0 .. Heads - 1
         /\ 1 \in HeadsOf(task, batch) => task.rowStart = 0 /\ isPair
         /\ isPair => task.rowStart = 0
  BY TileAssumption DEF TaskOK, HeadInBatch, HeadsOf, currentBatchHeads, MinI32, batchHead,
     isPair, GATE_HEAD_BATCH

\* The rows of a lane are real rows of the chunk, and rows of a tile.
LEMMA RowFacts ==
  ASSUME TaskOK
  PROVE  /\ RowsOf(task) = 0 .. rowCount - 1 /\ RowsOf(task) \subseteq 0 .. ROW_ELEMS - 1
         /\ RowsOf(task) \subseteq Columns
         /\ rowCount \in 1 .. ROW_ELEMS /\ chunkLen \in 1 .. ROW_ELEMS
         /\ \A r \in RowsOf(task) : /\ task.rowStart + r \in Columns
                                    /\ task.rowStart + r < ROW_ELEMS
                                    /\ task.rowStart + r < task.chunkLen
                                    /\ ~(task.rowStart + r >= task.chunkLen)
         /\ task.rowStart \in Nat /\ task.chunkLen \in 1 .. ROW_ELEMS
<1> DEFINE s == task.rowStart
           n == task.rowCount
           len == task.chunkLen
<1>0. len \in 1 .. BT /\ n \in 1 .. BT /\ s \in 0 .. BT /\ s + n <= len
  BY DEF TaskOK
<1>1. s \in Nat /\ n \in 1 .. 64 /\ len \in 1 .. 64 /\ s + n <= len
  <2> HIDE DEF s, n, len
  <2> QED BY <1>0 DEF BT
<1> HIDE DEF s, n, len
<1>2. \A r \in 0 .. n - 1 : r \in 0 .. 63 /\ s + r \in 0 .. 63 /\ s + r < 64 /\ s + r < len
                              /\ ~(s + r >= len)
  BY <1>1
<1>3. RowsOf(task) = 0 .. n - 1 /\ rowCount = n /\ chunkLen = len
  BY DEF RowsOf, rowCount, chunkLen, n, len
<1>4. ROW_ELEMS = 64 /\ Columns = 0 .. 63
  BY DEF Columns, ROW_ELEMS, BT
<1>5. s = task.rowStart /\ len = task.chunkLen
  BY DEF s, len
<1> QED BY <1>1, <1>2, <1>3, <1>4, <1>5

\* Rounding up to blocks stays inside a row.
LEMMA Rounded ==
  ASSUME NEW n \in 1 .. 64
  PROVE  /\ RoundUp(n, 8) \in n .. 64
         /\ RoundUp(n, 16) \in n .. 64
         /\ ((n + 7) \div 8) * 64 \in 8 * n .. 512
  BY DEF RoundUp

\* The elements of a tile, and its first elements where row factors are kept.
LEMMA TileElemsHas ==
  ASSUME TaskOK, batch \in Nat,
         NEW h \in HeadsOf(task, batch), NEW r \in RowsOf(task), NEW c \in Columns
  PROVE  h * KKT_ELEMS + r * ROW_ELEMS + c \in TileElems
<1>1. h \in HeadInBatch /\ h \in Nat /\ r \in 0 .. rowCount - 1 /\ rowCount \in 1 .. ROW_ELEMS
  BY HeadFacts, RowFacts
<1>2. r * ROW_ELEMS + c \in 0 .. rowCount * ROW_ELEMS - 1 /\ rowCount * ROW_ELEMS \in Nat
  BY <1>1 DEF Columns, ROW_ELEMS, BT
<1>3. KKT_ELEMS \in Nat
  BY DEF KKT_ELEMS, ROW_ELEMS, BT
<1>4. h * KKT_ELEMS + (r * ROW_ELEMS + c) \in TileElems
  BY <1>1, <1>2, <1>3, EachHas DEF TileElems
<1>5. h * KKT_ELEMS + (r * ROW_ELEMS + c) = h * KKT_ELEMS + r * ROW_ELEMS + c
  BY <1>1, <1>2 DEF KKT_ELEMS, ROW_ELEMS, BT, Columns
<1> QED BY <1>4, <1>5

-----------------------------------------------------------------------------
(* What each instruction makes *)

\* PrefetchGateAndBetaBatch
LEMMA PrefetchHolds ==
  ASSUME IInv, PrefetchGateAndBetaBatch
  PROVE  /\ GatesHeld(task, batch, RoundUp(task.chunkLen, 8), ub'["g"])
         /\ BetaHeld(task, batch, ub'["beta"])
         /\ DOMAIN ub' = Buffers
         /\ \A x \in Buffers \ {"g", "beta"} : ub'[x] = ub[x]
<1> DEFINE g == [k \in Each(ROW_ELEMS, gAlignedElems) |->
                   IF k % ROW_ELEMS >= chunkLen THEN Zero
                   ELSE GateOf(batchHead(k \div ROW_ELEMS), k % ROW_ELEMS)]
           beta == [k \in Each(ROW_ELEMS, betaAlignedElems) |->
                      IF k % ROW_ELEMS >= chunkLen THEN Zero
                      ELSE BetaOf(batchHead(k \div ROW_ELEMS), k % ROW_ELEMS)]
<1>1. TaskOK /\ batch \in Nat /\ DOMAIN ub = Buffers
  BY DEF IInv, PlaceOK
<1>2. ub' = [ub EXCEPT !["g"] = g, !["beta"] = beta]
  BY DEF PrefetchGateAndBetaBatch
<1>3. /\ gAlignedElems = RoundUp(task.chunkLen, 8) /\ betaAlignedElems = RoundUp(task.chunkLen, 16)
      /\ gAlignedElems \in task.chunkLen .. ROW_ELEMS /\ gAlignedElems \in Nat
      /\ betaAlignedElems \in task.chunkLen .. ROW_ELEMS /\ betaAlignedElems \in Nat
      /\ task.chunkLen \in 1 .. ROW_ELEMS /\ ROW_ELEMS \in Nat
  <2>1. task.chunkLen \in 1 .. 64
    BY <1>1 DEF TaskOK, BT
  <2>2. RoundUp(task.chunkLen, 8) \in task.chunkLen .. 64
        /\ RoundUp(task.chunkLen, 16) \in task.chunkLen .. 64
    BY <2>1, Rounded
  <2>3. gAlignedElems = RoundUp(task.chunkLen, 8) /\ betaAlignedElems = RoundUp(task.chunkLen, 16)
    BY DEF gAlignedElems, betaAlignedElems, chunkLen
  <2>4. ROW_ELEMS = 64
    BY DEF ROW_ELEMS, BT
  <2> HIDE DEF g, beta
  <2> QED BY <2>1, <2>2, <2>3, <2>4
<1>4. ASSUME NEW h \in HeadsOf(task, batch), NEW c \in Columns, c < gAlignedElems
      PROVE  At(g, h * ROW_ELEMS + c) = ColumnGate(task, batch, h, c)
  <2>1. h \in HeadInBatch /\ h \in 0 .. 1 /\ h \in Nat /\ batchHead(h) = batch * GATE_HEAD_BATCH + h
    BY <1>1, HeadFacts
  <2>2. c \in 0 .. gAlignedElems - 1
    BY <1>3, <1>4 DEF Columns
  <2>3. h * ROW_ELEMS + c \in Each(ROW_ELEMS, gAlignedElems)
    BY <1>3, <2>1, <2>2, EachHas
  <2>4. (h * ROW_ELEMS + c) \div ROW_ELEMS = h /\ (h * ROW_ELEMS + c) % ROW_ELEMS = c
    BY <2>1, RowIndex
  <2> HIDE DEF g
  <2>5. h * ROW_ELEMS + c \in DOMAIN g /\
        g[h * ROW_ELEMS + c] = IF c >= chunkLen THEN Zero ELSE GateOf(batchHead(h), c)
    BY <2>3, <2>4 DEF g
  <2> QED BY <2>1, <2>5 DEF At, ColumnGate, GateElement, GateOf, chunkLen
<1>5. ASSUME NEW h \in HeadsOf(task, batch), NEW c \in Columns, c < task.chunkLen
      PROVE  At(beta, h * ROW_ELEMS + c) = BetaElement(batch, h, c)
  <2>1. h \in HeadInBatch /\ h \in 0 .. 1 /\ h \in Nat /\ batchHead(h) = batch * GATE_HEAD_BATCH + h
    BY <1>1, HeadFacts
  <2>2. c \in 0 .. betaAlignedElems - 1
    BY <1>3, <1>5 DEF Columns
  <2>3. h * ROW_ELEMS + c \in Each(ROW_ELEMS, betaAlignedElems)
    BY <1>3, <2>1, <2>2, EachHas
  <2>4. (h * ROW_ELEMS + c) \div ROW_ELEMS = h /\ (h * ROW_ELEMS + c) % ROW_ELEMS = c
    BY <2>1, RowIndex
  <2>6. ~(c >= chunkLen)
    BY <1>5, <1>3 DEF chunkLen, Columns
  <2> HIDE DEF beta
  <2>5. h * ROW_ELEMS + c \in DOMAIN beta /\
        beta[h * ROW_ELEMS + c] = BetaOf(batchHead(h), c)
    BY <2>3, <2>4, <2>6 DEF beta
  <2> QED BY <2>1, <2>5 DEF At, BetaElement, BetaOf
<1> HIDE DEF g, beta
<1>6. ub'["g"] = g /\ ub'["beta"] = beta /\ DOMAIN ub' = Buffers
      /\ \A x \in Buffers \ {"g", "beta"} : ub'[x] = ub[x]
  BY <1>1, <1>2 DEF Buffers
<1> QED BY <1>3, <1>4, <1>5, <1>6 DEF GatesHeld, BetaHeld

\* An instruction changes one buffer, and leaves it open until the next barrier.
Changed(buf) ==
  /\ DOMAIN ub' = Buffers
  /\ \A x \in Buffers \ {buf} : ub'[x] = ub[x]
  /\ dirty' = dirty \cup {buf}

LEMMA Writes ==
  ASSUME NEW buf \in Buffers, NEW STATE elements, DOMAIN ub = Buffers, Write(buf, elements)
  PROVE  Changed(buf) /\ ub'[buf] = Over(elements, ub[buf])
  BY DEF Write, Changed, Buffers

\* Muls
LEMMA NegateHolds ==
  ASSUME IInv, pc = 4, Negate
  PROVE  Changed("negG") /\ NegatedHeld(task, batch, ub'["negG"])
<1> DEFINE new == [k \in Each(ROW_ELEMS, ROW_ELEMS) |-> NegOf(At(Content("g"), k))]
<1>1. TaskOK /\ batch \in Nat /\ DOMAIN ub = Buffers /\ "negG" \in Buffers
  BY DEF IInv, PlaceOK, Buffers
<1>2. Content("g") = ub["g"] /\ GatesHeld(task, batch, ROW_ELEMS, ub["g"])
  BY DEF IInv, Closed, Content, InputsHeld
<1>3. Changed("negG") /\ ub'["negG"] = Over(new, ub["negG"])
  BY <1>1, Writes DEF Negate
<1>4. ASSUME NEW h \in HeadsOf(task, batch), NEW c \in Columns
      PROVE  At(ub'["negG"], h * ROW_ELEMS + c) = NegOf(ColumnGate(task, batch, h, c))
  <2>1. h \in HeadInBatch /\ h \in Nat /\ ROW_ELEMS \in Nat /\ c \in 0 .. ROW_ELEMS - 1
        /\ c < ROW_ELEMS
    BY <1>1, HeadFacts DEF Columns, ROW_ELEMS, BT
  <2>2. h * ROW_ELEMS + c \in Each(ROW_ELEMS, ROW_ELEMS)
    BY <2>1, EachHas
  <2>3. At(ub["g"], h * ROW_ELEMS + c) = ColumnGate(task, batch, h, c)
    BY <1>2, <2>1 DEF GatesHeld
  <2>4. h * ROW_ELEMS + c \in DOMAIN new
        /\ new[h * ROW_ELEMS + c] = NegOf(ColumnGate(task, batch, h, c))
    BY <1>2, <2>2, <2>3
  <2> HIDE DEF new
  <2> QED BY <1>3, <2>4, AtOver
<1> QED BY <1>3, <1>4 DEF NegatedHeld

\* Brcb of one element per row.
LEMMA BroadcastHas ==
  ASSUME TaskOK, batch \in Nat, NEW h \in HeadsOf(task, batch), NEW r \in RowsOf(task)
  PROVE  /\ h * ROW_ELEMS * 8 + r * 8 \in Each(ROW_ELEMS * 8, rowBrcbRepeats * 64)
         /\ (h * ROW_ELEMS * 8 + r * 8) \div (ROW_ELEMS * 8) = h
         /\ ((h * ROW_ELEMS * 8 + r * 8) % (ROW_ELEMS * 8)) \div 8 = r
<1>1. h \in HeadInBatch /\ h \in Nat /\ h \in 0 .. 1
  BY HeadFacts
<1>2. r \in 0 .. rowCount - 1 /\ r \in 0 .. ROW_ELEMS - 1 /\ rowCount \in 1 .. ROW_ELEMS
  BY RowFacts
<1>3. rowBrcbRepeats * 64 \in 8 * rowCount .. 512
  <2>1. rowCount \in 1 .. 64
    BY <1>2 DEF ROW_ELEMS, BT
  <2> QED BY <2>1, Rounded DEF rowBrcbRepeats
<1>4. r * 8 \in 0 .. rowBrcbRepeats * 64 - 1 /\ rowBrcbRepeats * 64 \in Nat
  <2> DEFINE q == rowBrcbRepeats * 64
  <2>1. q \in 8 * rowCount .. 512
    BY <1>3
  <2> HIDE DEF q
  <2>2. r * 8 \in 0 .. q - 1 /\ q \in Nat
    BY <2>1, <1>2 DEF ROW_ELEMS, BT
  <2> QED BY <2>2 DEF q
<1>5. ROW_ELEMS * 8 \in Nat
  BY DEF ROW_ELEMS, BT
<1>6. h * (ROW_ELEMS * 8) + r * 8 \in Each(ROW_ELEMS * 8, rowBrcbRepeats * 64)
  BY <1>1, <1>4, <1>5, EachHas
<1> QED BY <1>1, <1>2, <1>6, BlockIndex

\* Brcb of the gates
LEMMA BroadcastGatesHolds ==
  ASSUME IInv, pc = 5, BroadcastGates
  PROVE  Changed("scratch") /\ RowGatesHeld(task, batch, ub'["scratch"])
<1> DEFINE new == [k \in Each(ROW_ELEMS * 8, rowBrcbRepeats * 64) |->
                     At(Content("g"), (k \div (ROW_ELEMS * 8)) * ROW_ELEMS + task.rowStart
                                        + ((k % (ROW_ELEMS * 8)) \div 8))]
<1>1. TaskOK /\ batch \in Nat /\ DOMAIN ub = Buffers /\ "scratch" \in Buffers
  BY DEF IInv, PlaceOK, Buffers
<1>2. Content("g") = ub["g"] /\ GatesHeld(task, batch, ROW_ELEMS, ub["g"])
  BY DEF IInv, Closed, Content, InputsHeld
<1>3. Changed("scratch") /\ ub'["scratch"] = Over(new, ub["scratch"])
  BY <1>1, Writes DEF BroadcastGates, Broadcast
<1>4. ASSUME NEW h \in HeadsOf(task, batch), NEW r \in RowsOf(task)
      PROVE  At(ub'["scratch"], h * ROW_ELEMS * 8 + r * 8) = RowGate(task, batch, h, r)
  <2> DEFINE k == h * ROW_ELEMS * 8 + r * 8
             c == task.rowStart + r
  <2>1. k \in Each(ROW_ELEMS * 8, rowBrcbRepeats * 64)
        /\ k \div (ROW_ELEMS * 8) = h /\ (k % (ROW_ELEMS * 8)) \div 8 = r
    BY <1>1, BroadcastHas
  <2>2. c \in Columns /\ c < task.chunkLen /\ c < ROW_ELEMS
    BY <1>1, RowFacts
  <2>3. At(ub["g"], h * ROW_ELEMS + c) = RowGate(task, batch, h, r)
    <3>1. At(ub["g"], h * ROW_ELEMS + c) = ColumnGate(task, batch, h, c)
      BY <1>2, <2>2 DEF GatesHeld
    <3>2. ~(c >= task.chunkLen)
      BY <1>1, RowFacts
    <3> QED BY <3>1, <3>2 DEF ColumnGate, RowGate
  <2>4. h * ROW_ELEMS + c = h * ROW_ELEMS + task.rowStart + r
    <3>1. h \in Int /\ task.rowStart \in Int /\ r \in Int
      BY <1>1, HeadFacts, RowFacts DEF TaskOK
    <3> QED BY <3>1 DEF ROW_ELEMS, BT
  <2> HIDE DEF k, c
  <2>5. k \in DOMAIN new /\ new[k] = RowGate(task, batch, h, r)
    BY <1>2, <2>1, <2>3, <2>4
  <2> HIDE DEF new
  <2>6. At(ub'["scratch"], k) = RowGate(task, batch, h, r)
    BY <1>3, <2>5, AtOver
  <2> QED BY <2>6 DEF k
<1> QED BY <1>3, <1>4 DEF RowGatesHeld

\* Compare
LEMMA CompareGatesHolds ==
  ASSUME IInv, pc = 7, CompareGates
  PROVE  Changed("mask") /\ MaskHeld(task, batch, ub'["mask"])
<1> DEFINE new == [k \in TileElems |->
                     CompareLess(At(Content("scratch"), HeadAt(k) * ROW_ELEMS * 8 + RowAt(k) * 8),
                                 At(Content("g"), HeadAt(k) * ROW_ELEMS + ColumnAt(k)))]
<1>1. TaskOK /\ batch \in Nat /\ DOMAIN ub = Buffers /\ "mask" \in Buffers
  BY DEF IInv, PlaceOK, Buffers
<1>2. /\ Content("g") = ub["g"] /\ GatesHeld(task, batch, ROW_ELEMS, ub["g"])
      /\ Content("scratch") = ub["scratch"] /\ RowGatesHeld(task, batch, ub["scratch"])
  BY DEF IInv, Closed, Content, InputsHeld, FactorsHeld
<1>3. Changed("mask") /\ ub'["mask"] = Over(new, ub["mask"])
  BY <1>1, Writes DEF CompareGates
<1>4. ASSUME NEW h \in HeadsOf(task, batch), NEW r \in RowsOf(task), NEW c \in Columns
      PROVE  At(ub'["mask"], h * KKT_ELEMS + r * ROW_ELEMS + c) = Less(task, batch, h, r, c)
  <2> DEFINE k == h * KKT_ELEMS + r * ROW_ELEMS + c
  <2>1. k \in TileElems
    BY <1>1, TileElemsHas
  <2>2. HeadAt(k) = h /\ RowAt(k) = r /\ ColumnAt(k) = c
    BY <1>1, HeadFacts, RowFacts, TileIndex
  <2>3. At(ub["g"], h * ROW_ELEMS + c) = ColumnGate(task, batch, h, c)
    <3>1. c < ROW_ELEMS
      BY DEF Columns, ROW_ELEMS, BT
    <3> QED BY <3>1, <1>2 DEF GatesHeld
  <2>4. At(ub["scratch"], h * ROW_ELEMS * 8 + r * 8) = RowGate(task, batch, h, r)
    BY <1>2 DEF RowGatesHeld
  <2> HIDE DEF k
  <2>5. k \in DOMAIN new /\ new[k] = Less(task, batch, h, r, c)
    BY <1>2, <2>1, <2>2, <2>3, <2>4 DEF Less
  <2> HIDE DEF new
  <2>6. At(ub'["mask"], k) = Less(task, batch, h, r, c)
    BY <1>3, <2>5, AtOver
  <2> QED BY <2>6 DEF k
<1> QED BY <1>3, <1>4 DEF MaskHeld

\* The padding of the columns is not among the elements the exponential writes.
LEMMA EachOnly ==
  ASSUME TaskOK, batch \in Nat, NEW h \in HeadsOf(task, batch), NEW c \in Columns,
         NEW n \in 0 .. ROW_ELEMS
  PROVE  h * ROW_ELEMS + c \in Each(ROW_ELEMS, n) <=> c < n
<1>1. HeadInBatch \subseteq 0 .. 1 /\ h \in HeadInBatch /\ h \in 0 .. 1
  BY HeadFacts
<1>2. ASSUME NEW d \in 0 .. 1, h * ROW_ELEMS + c \in d * ROW_ELEMS .. d * ROW_ELEMS + n - 1
      PROVE  c < n
  BY <1>1, <1>2 DEF Columns, ROW_ELEMS, BT
<1>3. h * ROW_ELEMS + c \in Each(ROW_ELEMS, n) => c < n
  BY <1>1, <1>2 DEF Each
<1>4. ASSUME c < n PROVE h * ROW_ELEMS + c \in Each(ROW_ELEMS, n)
  <2>1. c \in 0 .. n - 1 /\ n \in Nat /\ h \in Nat /\ ROW_ELEMS \in Nat
    BY <1>1, <1>4 DEF Columns, ROW_ELEMS, BT
  <2> QED BY <1>1, <2>1, EachHas
<1> QED BY <1>3, <1>4

LEMMA NegOfZero == NegOf(Zero) = Zero
<1>1. 0 - 0 = 0
  OBVIOUS
<1>2. {<<"-", tag>> : tag \in {}} = {}
  OBVIOUS
<1>3. Zero.kind = "zero" /\ Zero.of = {} /\ Zero.e = 0
  BY DEF Zero, Element
<1>4. NegOf(Zero) = Element("zero", {}, 0)
  BY <1>1, <1>2, <1>3 DEF NegOf
<1> QED BY <1>4 DEF Zero

\* Exp of the columns
LEMMA ExpColumnsHolds ==
  ASSUME IInv, pc = 8, ExpColumns
  PROVE  Changed("negG") /\ ColumnsHeld(task, batch, ub'["negG"])
<1> DEFINE new == [k \in Each(ROW_ELEMS, chunkLen) |-> ExpOf(At(Content("negG"), k))]
<1>1. TaskOK /\ batch \in Nat /\ DOMAIN ub = Buffers /\ "negG" \in Buffers
  BY DEF IInv, PlaceOK, Buffers
<1>2. Content("negG") = ub["negG"] /\ NegatedHeld(task, batch, ub["negG"])
  BY DEF IInv, Closed, Content, FactorsHeld
<1>3. Changed("negG") /\ ub'["negG"] = Over(new, ub["negG"])
  BY <1>1, Writes DEF ExpColumns
<1>4. ASSUME NEW h \in HeadsOf(task, batch), NEW c \in Columns
      PROVE  At(ub'["negG"], h * ROW_ELEMS + c) = ColumnFactor(task, batch, h, c)
  <2> DEFINE k == h * ROW_ELEMS + c
  <2>1. chunkLen \in 0 .. ROW_ELEMS /\ chunkLen = task.chunkLen /\ chunkLen \in Int /\ c \in Int
    <3>1. chunkLen = task.chunkLen /\ chunkLen \in 1 .. ROW_ELEMS
      BY <1>1, RowFacts DEF chunkLen
    <3> HIDE DEF k, new
    <3> QED BY <3>1 DEF ROW_ELEMS, BT, Columns
  <2>2. k \in Each(ROW_ELEMS, chunkLen) <=> c < chunkLen
    BY <1>1, <2>1, EachOnly
  <2>3. At(ub["negG"], k) = NegOf(ColumnGate(task, batch, h, c))
    BY <1>2 DEF NegatedHeld
  <2>4. k \in DOMAIN new <=> c < chunkLen
    BY <2>2
  <2>5. c < chunkLen => new[k] = ExpOf(NegOf(ColumnGate(task, batch, h, c)))
    BY <1>2, <2>2, <2>3
  <2> HIDE DEF new, k
  <2>6. CASE c < chunkLen
    <3>1. ~(c >= task.chunkLen)
      BY <2>1, <2>6
    <3>2. At(ub'["negG"], k) = ExpOf(NegOf(ColumnGate(task, batch, h, c)))
      BY <1>3, <2>4, <2>5, <2>6, AtOver
    <3> QED BY <3>1, <3>2 DEF ColumnFactor, ColumnGate, k
  <2>7. CASE ~(c < chunkLen)
    <3>1. c >= task.chunkLen
      BY <2>1, <2>7
    <3>2. At(ub'["negG"], k) = NegOf(ColumnGate(task, batch, h, c))
      BY <1>3, <2>3, <2>4, <2>7, AtOver
    <3> QED BY <3>1, <3>2, NegOfZero DEF ColumnFactor, ColumnGate, k
  <2> QED BY <2>6, <2>7
<1> QED BY <1>3, <1>4 DEF ColumnsHeld

\* Cast of beta
LEMMA CastBetaHolds ==
  ASSUME IInv, pc = 10, CastBeta
  PROVE  Changed("scratch") /\ RowBetaHeld(task, batch, ub'["scratch"])
<1> DEFINE count == IF isPair THEN GATE_HEAD_BATCH * ROW_ELEMS ELSE rowCount
           first == IF isPair THEN 0 ELSE task.rowStart
           new == [k \in 0 .. count - 1 |-> At(Content("beta"), first + k)]
<1>1. TaskOK /\ batch \in Nat /\ DOMAIN ub = Buffers /\ "scratch" \in Buffers
  BY DEF IInv, PlaceOK, Buffers
<1>2. Content("beta") = ub["beta"] /\ BetaHeld(task, batch, ub["beta"])
  BY DEF IInv, Closed, Content, InputsHeld
<1>3. Changed("scratch") /\ ub'["scratch"] = Over(new, ub["scratch"])
  BY <1>1, Writes DEF CastBeta
<1>4. ASSUME NEW h \in HeadsOf(task, batch), NEW r \in RowsOf(task)
      PROVE  At(ub'["scratch"], h * ROW_ELEMS + r) = BetaElement(batch, h, task.rowStart + r)
  <2> DEFINE k == h * ROW_ELEMS + r
             c == task.rowStart + r
  <2>1. c \in Columns /\ c < task.chunkLen /\ r \in 0 .. rowCount - 1
        /\ rowCount \in 1 .. ROW_ELEMS /\ task.rowStart \in Nat
    BY <1>1, RowFacts
  <2>2. At(ub["beta"], h * ROW_ELEMS + c) = BetaElement(batch, h, c)
    BY <1>2, <2>1 DEF BetaHeld
  <2>3. h \in 0 .. 1 /\ (h = 1 => isPair) /\ (isPair => task.rowStart = 0)
    BY <1>1, HeadFacts
  <2>4. k \in 0 .. count - 1 /\ first + k = h * ROW_ELEMS + c
    <3>1. CASE isPair
      BY <2>1, <2>3, <3>1 DEF ROW_ELEMS, BT, GATE_HEAD_BATCH
    <3>2. CASE ~isPair
      BY <2>1, <2>3, <3>2 DEF ROW_ELEMS, BT, GATE_HEAD_BATCH
    <3> QED BY <3>1, <3>2
  <2> HIDE DEF k, c, count, first
  <2>5. k \in DOMAIN new /\ new[k] = BetaElement(batch, h, c)
    BY <1>2, <2>2, <2>4
  <2> HIDE DEF new
  <2>6. At(ub'["scratch"], k) = BetaElement(batch, h, c)
    BY <1>3, <2>5, AtOver
  <2> QED BY <2>6 DEF k, c
<1> QED BY <1>3, <1>4 DEF RowBetaHeld

\* The elements where the factors of the rows are kept.
LEMMA RowElemsHas ==
  ASSUME TaskOK, batch \in Nat, NEW h \in HeadsOf(task, batch), NEW r \in RowsOf(task)
  PROVE  /\ h * KKT_ELEMS + r \in Each(KKT_ELEMS, rowCount)
         /\ HeadAt(h * KKT_ELEMS + r) = h
         /\ (h * KKT_ELEMS + r) % KKT_ELEMS = r
<1>1. h \in HeadInBatch /\ h \in Nat /\ h \in 0 .. 1
  BY HeadFacts
<1>2. r \in 0 .. rowCount - 1 /\ rowCount \in 1 .. ROW_ELEMS /\ r \in 0 .. ROW_ELEMS - 1
  BY RowFacts
<1>3. rowCount \in Nat /\ KKT_ELEMS \in Nat
  BY <1>2 DEF KKT_ELEMS, ROW_ELEMS, BT
<1> QED BY <1>1, <1>2, <1>3, EachHas, FirstRowIndex

\* Exp of the rows
LEMMA ExpRowsHolds ==
  ASSUME IInv, pc = 11, ExpRows
  PROVE  Changed("out") /\ RowPowersHeld(task, batch, ub'["out"])
<1> DEFINE new == [k \in Each(KKT_ELEMS, rowCount) |->
                     ExpOf(At(Content("g"),
                              HeadAt(k) * ROW_ELEMS + task.rowStart + (k % KKT_ELEMS)))]
<1>1. TaskOK /\ batch \in Nat /\ DOMAIN ub = Buffers /\ "out" \in Buffers
  BY DEF IInv, PlaceOK, Buffers
<1>2. Content("g") = ub["g"] /\ GatesHeld(task, batch, ROW_ELEMS, ub["g"])
  BY DEF IInv, Closed, Content, InputsHeld
<1>3. Changed("out") /\ ub'["out"] = Over(new, ub["out"])
  BY <1>1, Writes DEF ExpRows
<1>4. ASSUME NEW h \in HeadsOf(task, batch), NEW r \in RowsOf(task)
      PROVE  At(ub'["out"], h * KKT_ELEMS + r) = ExpOf(RowGate(task, batch, h, r))
  <2> DEFINE k == h * KKT_ELEMS + r
             c == task.rowStart + r
  <2>1. k \in Each(KKT_ELEMS, rowCount) /\ HeadAt(k) = h /\ k % KKT_ELEMS = r
    BY <1>1, RowElemsHas
  <2>2. c \in Columns /\ c < ROW_ELEMS /\ ~(c >= task.chunkLen)
    BY <1>1, RowFacts
  <2>3. At(ub["g"], h * ROW_ELEMS + c) = RowGate(task, batch, h, r)
    BY <1>2, <2>2 DEF GatesHeld, ColumnGate, RowGate
  <2>4. h * ROW_ELEMS + c = h * ROW_ELEMS + task.rowStart + r
    <3>1. h \in Int /\ task.rowStart \in Int /\ r \in Int
      BY <1>1, HeadFacts, RowFacts
    <3> QED BY <3>1 DEF ROW_ELEMS, BT
  <2> HIDE DEF k, c
  <2>5. k \in DOMAIN new /\ new[k] = ExpOf(RowGate(task, batch, h, r))
    BY <1>2, <2>1, <2>3, <2>4
  <2> HIDE DEF new
  <2>6. At(ub'["out"], k) = ExpOf(RowGate(task, batch, h, r))
    BY <1>3, <2>5, AtOver
  <2> QED BY <2>6 DEF k
<1> QED BY <1>3, <1>4 DEF RowPowersHeld

\* Mul of the rows
LEMMA MulRowsHolds ==
  ASSUME IInv, pc = 13, MulRows
  PROVE  Changed("out") /\ RowFactorsHeld(task, batch, ub'["out"])
<1> DEFINE new == [k \in Each(KKT_ELEMS, rowCount) |->
                     Times(At(Content("out"), k),
                           At(Content("scratch"), HeadAt(k) * ROW_ELEMS + (k % KKT_ELEMS)))]
<1>1. TaskOK /\ batch \in Nat /\ DOMAIN ub = Buffers /\ "out" \in Buffers
  BY DEF IInv, PlaceOK, Buffers
<1>2. /\ Content("out") = ub["out"] /\ RowPowersHeld(task, batch, ub["out"])
      /\ Content("scratch") = ub["scratch"] /\ RowBetaHeld(task, batch, ub["scratch"])
  BY DEF IInv, Closed, Content, FactorsHeld, TileHeld
<1>3. Changed("out") /\ ub'["out"] = Over(new, ub["out"])
  BY <1>1, Writes DEF MulRows
<1>4. ASSUME NEW h \in HeadsOf(task, batch), NEW r \in RowsOf(task)
      PROVE  At(ub'["out"], h * KKT_ELEMS + r) = RowFactor(task, batch, h, r)
  <2> DEFINE k == h * KKT_ELEMS + r
  <2>1. k \in Each(KKT_ELEMS, rowCount) /\ HeadAt(k) = h /\ k % KKT_ELEMS = r
    BY <1>1, RowElemsHas
  <2>2. At(ub["out"], k) = ExpOf(RowGate(task, batch, h, r))
    BY <1>2 DEF RowPowersHeld
  <2>3. At(ub["scratch"], h * ROW_ELEMS + r) = BetaElement(batch, h, task.rowStart + r)
    BY <1>2 DEF RowBetaHeld
  <2> HIDE DEF k
  <2>4. k \in DOMAIN new /\ new[k] = RowFactor(task, batch, h, r)
    BY <1>2, <2>1, <2>2, <2>3 DEF RowFactor
  <2> HIDE DEF new
  <2>5. At(ub'["out"], k) = RowFactor(task, batch, h, r)
    BY <1>3, <2>4, AtOver
  <2> QED BY <2>5 DEF k
<1> QED BY <1>3, <1>4 DEF RowFactorsHeld

\* Brcb of the rows
LEMMA BroadcastRowsHolds ==
  ASSUME IInv, pc = 15, BroadcastRows
  PROVE  Changed("scratch") /\ RowsHeld(task, batch, ub'["scratch"])
<1> DEFINE new == [k \in Each(ROW_ELEMS * 8, rowBrcbRepeats * 64) |->
                     At(Content("out"), (k \div (ROW_ELEMS * 8)) * KKT_ELEMS
                                          + ((k % (ROW_ELEMS * 8)) \div 8))]
<1>1. TaskOK /\ batch \in Nat /\ DOMAIN ub = Buffers /\ "scratch" \in Buffers
  BY DEF IInv, PlaceOK, Buffers
<1>2. Content("out") = ub["out"] /\ RowFactorsHeld(task, batch, ub["out"])
  BY DEF IInv, Closed, Content, TileHeld
<1>3. Changed("scratch") /\ ub'["scratch"] = Over(new, ub["scratch"])
  BY <1>1, Writes DEF BroadcastRows, Broadcast
<1>4. ASSUME NEW h \in HeadsOf(task, batch), NEW r \in RowsOf(task)
      PROVE  At(ub'["scratch"], h * ROW_ELEMS * 8 + r * 8) = RowFactor(task, batch, h, r)
  <2> DEFINE k == h * ROW_ELEMS * 8 + r * 8
  <2>1. k \in Each(ROW_ELEMS * 8, rowBrcbRepeats * 64)
        /\ k \div (ROW_ELEMS * 8) = h /\ (k % (ROW_ELEMS * 8)) \div 8 = r
    BY <1>1, BroadcastHas
  <2>2. At(ub["out"], h * KKT_ELEMS + r) = RowFactor(task, batch, h, r)
    BY <1>2 DEF RowFactorsHeld
  <2> HIDE DEF k
  <2>3. k \in DOMAIN new /\ new[k] = RowFactor(task, batch, h, r)
    BY <1>2, <2>1, <2>2
  <2> HIDE DEF new
  <2>4. At(ub'["scratch"], k) = RowFactor(task, batch, h, r)
    BY <1>3, <2>3, AtOver
  <2> QED BY <2>4 DEF k
<1> QED BY <1>3, <1>4 DEF RowsHeld

\* Mul by rows
LEMMA MulTileHolds ==
  ASSUME IInv, pc = 17, MulTile
  PROVE  Changed("out") /\ OuterHeld(task, batch, ub'["out"])
<1> DEFINE new == [k \in TileElems |->
                     Times(At(Content("negG"), HeadAt(k) * ROW_ELEMS + ColumnAt(k)),
                           At(Content("scratch"), HeadAt(k) * ROW_ELEMS * 8 + RowAt(k) * 8))]
<1>1. TaskOK /\ batch \in Nat /\ DOMAIN ub = Buffers /\ "out" \in Buffers
  BY DEF IInv, PlaceOK, Buffers
<1>2. /\ Content("negG") = ub["negG"] /\ ColumnsHeld(task, batch, ub["negG"])
      /\ Content("scratch") = ub["scratch"] /\ RowsHeld(task, batch, ub["scratch"])
  BY DEF IInv, Closed, Content, FactorsHeld
<1>3. Changed("out") /\ ub'["out"] = Over(new, ub["out"])
  BY <1>1, Writes DEF MulTile
<1>4. ASSUME NEW h \in HeadsOf(task, batch), NEW r \in RowsOf(task), NEW c \in Columns
      PROVE  At(ub'["out"], h * KKT_ELEMS + r * ROW_ELEMS + c) = Outer(task, batch, h, r, c)
  <2> DEFINE k == h * KKT_ELEMS + r * ROW_ELEMS + c
  <2>1. k \in TileElems
    BY <1>1, TileElemsHas
  <2>2. HeadAt(k) = h /\ RowAt(k) = r /\ ColumnAt(k) = c
    BY <1>1, HeadFacts, RowFacts, TileIndex
  <2>3. At(ub["negG"], h * ROW_ELEMS + c) = ColumnFactor(task, batch, h, c)
    BY <1>2 DEF ColumnsHeld
  <2>4. At(ub["scratch"], h * ROW_ELEMS * 8 + r * 8) = RowFactor(task, batch, h, r)
    BY <1>2 DEF RowsHeld
  <2> HIDE DEF k
  <2>5. k \in DOMAIN new /\ new[k] = Outer(task, batch, h, r, c)
    BY <1>2, <2>1, <2>2, <2>3, <2>4 DEF Outer
  <2> HIDE DEF new
  <2>6. At(ub'["out"], k) = Outer(task, batch, h, r, c)
    BY <1>3, <2>5, AtOver
  <2> QED BY <2>6 DEF k
<1> QED BY <1>3, <1>4 DEF OuterHeld

\* Compare tells less from not.
LEMMA LessTells ==
  ASSUME NEW t, NEW b, NEW h, NEW r, NEW c
  PROVE  Less(t, b, h, r, c).kind \in {"less", "not"}
<1>1. RowGate(t, b, h, r).kind = "num"
  BY DEF RowGate, GateElement, Element
<1>2. ColumnGate(t, b, h, c).kind \in {"num", "zero"}
  BY DEF ColumnGate, GateElement, Zero, Element
<1> QED BY <1>1, <1>2 DEF Less, CompareLess, Element

\* Select
LEMMA SelectHolds ==
  ASSUME IInv, pc = 19, SelectMasked
  PROVE  Changed("out") /\ PickedHeld(task, batch, ub'["out"])
<1> DEFINE new == [k \in TileElems |->
                     CASE At(Content("mask"), k).kind = "less" -> At(Content("out"), k)
                       [] At(Content("mask"), k).kind = "not"  -> Zero
                       [] OTHER -> Old]
<1>1. TaskOK /\ batch \in Nat /\ DOMAIN ub = Buffers /\ "out" \in Buffers
  BY DEF IInv, PlaceOK, Buffers
<1>2. /\ Content("out") = ub["out"] /\ OuterHeld(task, batch, ub["out"])
      /\ Content("mask") = ub["mask"] /\ MaskHeld(task, batch, ub["mask"])
  BY DEF IInv, Closed, Content, TileHeld
<1>3. Changed("out") /\ ub'["out"] = Over(new, ub["out"])
  BY <1>1, Writes DEF SelectMasked
<1>4. ASSUME NEW h \in HeadsOf(task, batch), NEW r \in RowsOf(task), NEW c \in Columns
      PROVE  At(ub'["out"], h * KKT_ELEMS + r * ROW_ELEMS + c) = Picked(task, batch, h, r, c)
  <2> DEFINE k == h * KKT_ELEMS + r * ROW_ELEMS + c
  <2>1. k \in TileElems
    BY <1>1, TileElemsHas
  <2>2. At(ub["out"], k) = Outer(task, batch, h, r, c)
    BY <1>2 DEF OuterHeld
  <2>3. At(ub["mask"], k) = Less(task, batch, h, r, c)
    BY <1>2 DEF MaskHeld
  <2>4. Less(task, batch, h, r, c).kind \in {"less", "not"}
    BY LessTells
  <2> HIDE DEF k
  <2>5. k \in DOMAIN new /\ new[k] = Picked(task, batch, h, r, c)
    BY <1>2, <2>1, <2>2, <2>3, <2>4 DEF Picked
  <2> HIDE DEF new
  <2>6. At(ub'["out"], k) = Picked(task, batch, h, r, c)
    BY <1>3, <2>5, AtOver
  <2> QED BY <2>6 DEF k
<1> QED BY <1>3, <1>4 DEF PickedHeld

\* Mul by the Gram
LEMMA MulKktHolds ==
  ASSUME IInv, pc = 22, MulKkt
  PROVE  Changed("out") /\ ProductHeld(task, batch, ub'["out"])
<1> DEFINE new == [k \in TileElems |->
                     Times(At(Content("kkt"), k % KKT_ELEMS), At(Content("out"), k))]
<1>1. TaskOK /\ batch \in Nat /\ DOMAIN ub = Buffers /\ "out" \in Buffers
  BY DEF IInv, PlaceOK, Buffers
<1>2. /\ Content("out") = ub["out"] /\ PickedHeld(task, batch, ub["out"])
      /\ Content("kkt") = ub["kkt"] /\ GramHeld(task, ub["kkt"])
  BY DEF IInv, Closed, Content, InputsHeld, TileHeld
<1>3. Changed("out") /\ ub'["out"] = Over(new, ub["out"])
  BY <1>1, Writes DEF MulKkt
<1>4. ASSUME NEW h \in HeadsOf(task, batch), NEW r \in RowsOf(task), NEW c \in Columns
      PROVE  At(ub'["out"], h * KKT_ELEMS + r * ROW_ELEMS + c) = Product(task, batch, h, r, c)
  <2> DEFINE k == h * KKT_ELEMS + r * ROW_ELEMS + c
  <2>1. k \in TileElems
    BY <1>1, TileElemsHas
  <2>2. k % KKT_ELEMS = r * ROW_ELEMS + c
    BY <1>1, HeadFacts, RowFacts, TileIndex
  <2>3. At(ub["out"], k) = Picked(task, batch, h, r, c)
    BY <1>2 DEF PickedHeld
  <2>4. At(ub["kkt"], r * ROW_ELEMS + c) = GramElement(task, r, c)
    BY <1>2 DEF GramHeld
  <2> HIDE DEF k
  <2>5. k \in DOMAIN new /\ new[k] = Product(task, batch, h, r, c)
    BY <1>2, <2>1, <2>2, <2>3, <2>4 DEF Product
  <2> HIDE DEF new
  <2>6. At(ub'["out"], k) = Product(task, batch, h, r, c)
    BY <1>3, <2>5, AtOver
  <2> QED BY <2>6 DEF k
<1> QED BY <1>3, <1>4 DEF ProductHeld

\* The load of the Gram
LEMMA BeginLoadHolds ==
  ASSUME IInv, pc = 2, batch = 0, BeginLoadKktSlot
  PROVE  Changed("kkt") /\ GramHeld(task, ub'["kkt"])
<1> DEFINE new == [k \in 0 .. rowCount * ROW_ELEMS - 1 |->
                     IF k % ROW_ELEMS >= chunkLen THEN Zero
                     ELSE Read("kkt", task.rowStart + (k \div ROW_ELEMS), k % ROW_ELEMS)]
<1>1. TaskOK /\ DOMAIN ub = Buffers /\ "kkt" \in Buffers
  BY DEF IInv, PlaceOK, Buffers
<1>2. Changed("kkt") /\ ub'["kkt"] = Over(new, ub["kkt"])
  BY <1>1, Writes DEF BeginLoadKktSlot
<1>3. ASSUME NEW r \in RowsOf(task), NEW c \in Columns
      PROVE  At(ub'["kkt"], r * ROW_ELEMS + c) = GramElement(task, r, c)
  <2> DEFINE k == r * ROW_ELEMS + c
  <2>1. r \in 0 .. rowCount - 1 /\ rowCount \in 1 .. ROW_ELEMS /\ r \in 0 .. ROW_ELEMS - 1
    BY <1>1, RowFacts
  <2>2. k \in 0 .. rowCount * ROW_ELEMS - 1
    BY <2>1 DEF Columns, ROW_ELEMS, BT
  <2>3. k \div ROW_ELEMS = r /\ k % ROW_ELEMS = c
    BY <2>1, TileIndex
  <2> HIDE DEF k
  <2>4. k \in DOMAIN new /\ new[k] = GramElement(task, r, c)
    BY <2>2, <2>3 DEF GramElement, chunkLen
  <2> HIDE DEF new
  <2>5. At(ub'["kkt"], k) = GramElement(task, r, c)
    BY <1>2, <2>4, AtOver
  <2> QED BY <2>5 DEF k
<1> QED BY <1>2, <1>3 DEF GramHeld

\* The elements of a zeroed tail.
LEMMA TailHas ==
  ASSUME TaskOK, batch \in Nat, NEW h \in HeadsOf(task, batch), NEW c \in Columns,
         NEW aligned \in 1 .. ROW_ELEMS
  PROVE  /\ h * ROW_ELEMS + c \in DOMAIN ZeroTail(aligned) <=> c >= aligned
         /\ c >= aligned => ZeroTail(aligned)[h * ROW_ELEMS + c] = Zero
<1> DEFINE k == h * ROW_ELEMS + c
           tail == UNION {d * ROW_ELEMS + aligned .. d * ROW_ELEMS + ROW_ELEMS - 1 :
                            d \in HeadInBatch}
<1>1. HeadInBatch \subseteq 0 .. 1 /\ h \in HeadInBatch /\ h \in 0 .. 1
  BY HeadFacts
<1>2. ASSUME NEW d \in 0 .. 1, k \in d * ROW_ELEMS + aligned .. d * ROW_ELEMS + ROW_ELEMS - 1
      PROVE  c >= aligned
  BY <1>1, <1>2 DEF Columns, ROW_ELEMS, BT
<1>3. k \in tail => c >= aligned
  BY <1>1, <1>2
<1>4. c >= aligned => k \in h * ROW_ELEMS + aligned .. h * ROW_ELEMS + ROW_ELEMS - 1
  BY <1>1 DEF Columns, ROW_ELEMS, BT
<1>5. c >= aligned => k \in tail
  BY <1>1, <1>4
<1>6. ZeroTail(aligned) = [i \in tail |-> Zero]
  BY DEF ZeroTail
<1> HIDE DEF tail, k
<1>7. k \in DOMAIN ZeroTail(aligned) <=> k \in tail
  BY <1>6
<1>8. k \in tail => ZeroTail(aligned)[k] = Zero
  BY <1>6
<1>9. k = h * ROW_ELEMS + c
  BY DEF k
<1> QED BY <1>3, <1>5, <1>7, <1>8, <1>9

\* ZeroTailGateAndBetaBatchSuffix
LEMMA ZeroTailHolds ==
  ASSUME IInv, pc = 3, ZeroTailGateAndBetaBatchSuffix
  PROVE  /\ GatesHeld(task, batch, ROW_ELEMS, ub'["g"])
         /\ BetaHeld(task, batch, ub'["beta"])
         /\ DOMAIN ub' = Buffers
         /\ \A x \in Buffers \ {"g", "beta"} : ub'[x] = ub[x]
<1> DEFINE ga == RoundUp(task.chunkLen, 8)
           ba == RoundUp(task.chunkLen, 16)
<1>1. TaskOK /\ batch \in Nat /\ DOMAIN ub = Buffers
  BY DEF IInv, PlaceOK
<1>2. GatesHeld(task, batch, ga, ub["g"]) /\ BetaHeld(task, batch, ub["beta"])
  BY DEF IInv, InputsHeld
<1>3. /\ ga \in task.chunkLen .. ROW_ELEMS /\ ba \in task.chunkLen .. ROW_ELEMS
      /\ ga \in 1 .. ROW_ELEMS /\ ba \in 1 .. ROW_ELEMS
      /\ task.chunkLen \in 1 .. ROW_ELEMS /\ gAlignedElems = ga /\ betaAlignedElems = ba
  <2>1. task.chunkLen \in 1 .. ROW_ELEMS /\ ROW_ELEMS = 64
    BY <1>1, RowFacts DEF ROW_ELEMS, BT
  <2>2. ga \in task.chunkLen .. 64 /\ ba \in task.chunkLen .. 64
    BY <2>1, Rounded
  <2>3. gAlignedElems = ga /\ betaAlignedElems = ba
    BY DEF gAlignedElems, betaAlignedElems, chunkLen
  <2> HIDE DEF ga, ba
  <2> QED BY <2>1, <2>2, <2>3
<1> HIDE DEF ga, ba
<1>4. CASE chunkLen = ROW_ELEMS
  <2>1. ub' = ub
    BY <1>4 DEF ZeroTailGateAndBetaBatchSuffix
  <2>2. ga = ROW_ELEMS
    BY <1>3, <1>4 DEF chunkLen, ROW_ELEMS, BT
  <2> QED BY <1>1, <1>2, <2>1, <2>2
<1>5. CASE chunkLen # ROW_ELEMS
  <2> DEFINE ng == Over(ZeroTail(ga), ub["g"])
             nb == Over(ZeroTail(ba), ub["beta"])
  <2>1. ub' = [ub EXCEPT !["g"] = ng, !["beta"] = nb]
    BY <1>3, <1>5 DEF ZeroTailGateAndBetaBatchSuffix
  <2>2. ASSUME NEW h \in HeadsOf(task, batch), NEW c \in Columns, c < ROW_ELEMS
        PROVE  At(ng, h * ROW_ELEMS + c) = ColumnGate(task, batch, h, c)
    <3> DEFINE k == h * ROW_ELEMS + c
    <3>1. (k \in DOMAIN ZeroTail(ga) <=> c >= ga) /\ (c >= ga => ZeroTail(ga)[k] = Zero)
      BY <1>1, <1>3, TailHas
    <3>2. c < ga => At(ub["g"], k) = ColumnGate(task, batch, h, c)
      BY <1>2 DEF GatesHeld
    <3>3. (c < ga <=> ~(c >= ga)) /\ (c >= ga => c >= task.chunkLen)
      BY <1>3 DEF Columns, ROW_ELEMS, BT
    <3> HIDE DEF k
    <3>4. At(ng, k) = ColumnGate(task, batch, h, c)
      BY <3>1, <3>2, <3>3, AtOver DEF ColumnGate
    <3> QED BY <3>4 DEF k
  <2>3. ASSUME NEW h \in HeadsOf(task, batch), NEW c \in Columns, c < task.chunkLen
        PROVE  At(nb, h * ROW_ELEMS + c) = BetaElement(batch, h, c)
    <3> DEFINE k == h * ROW_ELEMS + c
    <3>1. k \in DOMAIN ZeroTail(ba) <=> c >= ba
      BY <1>1, <1>3, TailHas
    <3>2. At(ub["beta"], k) = BetaElement(batch, h, c)
      BY <1>2, <2>3 DEF BetaHeld
    <3>3. ~(c >= ba)
      BY <1>3, <2>3 DEF Columns, ROW_ELEMS, BT
    <3> HIDE DEF k
    <3>4. At(nb, k) = BetaElement(batch, h, c)
      BY <3>1, <3>2, <3>3, AtOver
    <3> QED BY <3>4 DEF k
  <2> HIDE DEF ng, nb
  <2>4. ub'["g"] = ng /\ ub'["beta"] = nb /\ DOMAIN ub' = Buffers
        /\ \A x \in Buffers \ {"g", "beta"} : ub'[x] = ub[x]
    BY <1>1, <2>1 DEF Buffers
  <2> QED BY <2>2, <2>3, <2>4 DEF GatesHeld, BetaHeld
<1> QED BY <1>4, <1>5

-----------------------------------------------------------------------------
(* The invariant *)

\* The instruction at each place of the program.
LEMMA InstructionAt ==
  ASSUME Instruction, pc \in 1 .. 23
  PROVE  /\ task' = task /\ batch' = batch /\ pc' = pc + 1 /\ pc \in 1 .. 22
         /\ pc = 1 => PrefetchGateAndBetaBatch
         /\ pc = 2 => BeginLoadKktSlot
         /\ pc = 3 => ZeroTailGateAndBetaBatchSuffix
         /\ pc = 4 => Negate
         /\ pc = 5 => BroadcastGates
         /\ pc = 7 => CompareGates
         /\ pc = 8 => ExpColumns
         /\ pc = 10 => CastBeta
         /\ pc = 11 => ExpRows
         /\ pc = 13 => MulRows
         /\ pc = 15 => BroadcastRows
         /\ pc = 17 => MulTile
         /\ pc = 19 => SelectMasked
         /\ pc = 21 => CompleteKktLoad
         /\ pc = 22 => MulKkt
         /\ pc \in {6, 9, 12, 14, 16, 18, 20} => PipeBarrier
<1>1. Len(Program) = 22
  BY DEF Program
<1>2. task' = task /\ batch' = batch /\ pc' = pc + 1 /\ pc \in 1 .. 22
  BY <1>1 DEF Instruction, Complete
<1>3. Execute(Program[pc])
  BY DEF Instruction
<1>4. pc = 1 => PrefetchGateAndBetaBatch
  BY <1>3 DEF Execute, Program
<1>5. pc = 2 => BeginLoadKktSlot
  BY <1>3 DEF Execute, Program
<1>6. pc = 3 => ZeroTailGateAndBetaBatchSuffix
  BY <1>3 DEF Execute, Program
<1>7. pc = 4 => Negate
  BY <1>3 DEF Execute, Program
<1>8. pc = 5 => BroadcastGates
  BY <1>3 DEF Execute, Program
<1>9. pc = 7 => CompareGates
  BY <1>3 DEF Execute, Program
<1>10. pc = 8 => ExpColumns
  BY <1>3 DEF Execute, Program
<1>11. pc = 10 => CastBeta
  BY <1>3 DEF Execute, Program
<1>12. pc = 11 => ExpRows
  BY <1>3 DEF Execute, Program
<1>13. pc = 13 => MulRows
  BY <1>3 DEF Execute, Program
<1>14. pc = 15 => BroadcastRows
  BY <1>3 DEF Execute, Program
<1>15. pc = 17 => MulTile
  BY <1>3 DEF Execute, Program
<1>16. pc = 19 => SelectMasked
  BY <1>3 DEF Execute, Program
<1>17. pc = 21 => CompleteKktLoad
  BY <1>3 DEF Execute, Program
<1>18. pc = 22 => MulKkt
  BY <1>3 DEF Execute, Program
<1>19. pc \in {6, 9, 12, 14, 16, 18, 20} => PipeBarrier
  BY <1>3 DEF Execute, Program
<1> QED BY <1>2, <1>4, <1>5, <1>6, <1>7, <1>8, <1>9, <1>10, <1>11, <1>12, <1>13, <1>14, <1>15, <1>16, <1>17, <1>18, <1>19

\* What the buffers hold once the batch has gone on to instruction p.
HeldAt(p) ==
  /\ DOMAIN ub' = Buffers
  /\ InputsHeld(task, batch, p, ub')
  /\ FactorsHeld(task, batch, p, ub')
  /\ TileHeld(task, batch, p, ub')

\* ... and which of them are closed.
ClosedAt(p) ==
  /\ dirty' \subseteq {"negG", "scratch", "mask", "out", "kkt"}
  /\ "negG" \in dirty' => p \in {5, 6, 9}
  /\ "scratch" \in dirty' => p \in {6, 11, 12, 16}
  /\ "mask" \in dirty' => p \in {8, 9}
  /\ "out" \in dirty' => p \in {12, 14, 18, 20, 23}
  /\ "kkt" \in dirty' => batch = 0 /\ p \in 3 .. 21

\* The same of the state before a step.
LEMMA HeldBefore ==
  ASSUME IInv
  PROVE  /\ DOMAIN ub = Buffers /\ batch \in Nat /\ pc \in 1 .. 23
         /\ InputsHeld(task, batch, pc, ub)
         /\ FactorsHeld(task, batch, pc, ub)
         /\ TileHeld(task, batch, pc, ub)
         /\ Closed
  BY DEF IInv, PlaceOK

\* The negated gates are there before instruction 5.
LEMMA NegateStep ==
  ASSUME IInv, Instruction, pc = 4
  PROVE  HeldAt(5) /\ ClosedAt(5)
<1>1. Negate
  BY InstructionAt
<1>2. Changed("negG")
  BY <1>1, NegateHolds
<1>3. HeldAt(5)
  BY <1>1, <1>2, HeldBefore, NegateHolds
  DEF HeldAt, Changed, Buffers, InputsHeld, FactorsHeld, TileHeld
<1>4. ClosedAt(5)
  BY <1>2, HeldBefore DEF ClosedAt, Closed, Changed
<1> QED BY <1>3, <1>4

\* The broadcast gates are there before instruction 6.
LEMMA BroadcastGatesStep ==
  ASSUME IInv, Instruction, pc = 5
  PROVE  HeldAt(6) /\ ClosedAt(6)
<1>1. BroadcastGates
  BY InstructionAt
<1>2. Changed("scratch")
  BY <1>1, BroadcastGatesHolds
<1>3. HeldAt(6)
  BY <1>1, <1>2, HeldBefore, BroadcastGatesHolds
  DEF HeldAt, Changed, Buffers, InputsHeld, FactorsHeld, TileHeld
<1>4. ClosedAt(6)
  BY <1>2, HeldBefore DEF ClosedAt, Closed, Changed
<1> QED BY <1>3, <1>4

\* The mask is there before instruction 8, and stays.
LEMMA CompareGatesStep ==
  ASSUME IInv, Instruction, pc = 7
  PROVE  HeldAt(8) /\ ClosedAt(8)
<1>1. CompareGates
  BY InstructionAt
<1>2. Changed("mask")
  BY <1>1, CompareGatesHolds
<1>3. HeldAt(8)
  BY <1>1, <1>2, HeldBefore, CompareGatesHolds
  DEF HeldAt, Changed, Buffers, InputsHeld, FactorsHeld, TileHeld
<1>4. ClosedAt(8)
  BY <1>2, HeldBefore DEF ClosedAt, Closed, Changed
<1> QED BY <1>3, <1>4

\* The column factors replace the negated gates, and stay.
LEMMA ExpColumnsStep ==
  ASSUME IInv, Instruction, pc = 8
  PROVE  HeldAt(9) /\ ClosedAt(9)
<1>1. ExpColumns
  BY InstructionAt
<1>2. Changed("negG")
  BY <1>1, ExpColumnsHolds
<1>3. HeldAt(9)
  BY <1>1, <1>2, HeldBefore, ExpColumnsHolds
  DEF HeldAt, Changed, Buffers, InputsHeld, FactorsHeld, TileHeld
<1>4. ClosedAt(9)
  BY <1>2, HeldBefore DEF ClosedAt, Closed, Changed
<1> QED BY <1>3, <1>4

\* beta replaces the broadcast gates.
LEMMA CastBetaStep ==
  ASSUME IInv, Instruction, pc = 10
  PROVE  HeldAt(11) /\ ClosedAt(11)
<1>1. CastBeta
  BY InstructionAt
<1>2. Changed("scratch")
  BY <1>1, CastBetaHolds
<1>3. HeldAt(11)
  BY <1>1, <1>2, HeldBefore, CastBetaHolds
  DEF HeldAt, Changed, Buffers, InputsHeld, FactorsHeld, TileHeld
<1>4. ClosedAt(11)
  BY <1>2, HeldBefore DEF ClosedAt, Closed, Changed
<1> QED BY <1>3, <1>4

\* The rows' exponentials are there before instruction 12.
LEMMA ExpRowsStep ==
  ASSUME IInv, Instruction, pc = 11
  PROVE  HeldAt(12) /\ ClosedAt(12)
<1>1. ExpRows
  BY InstructionAt
<1>2. Changed("out")
  BY <1>1, ExpRowsHolds
<1>3. HeldAt(12)
  BY <1>1, <1>2, HeldBefore, ExpRowsHolds
  DEF HeldAt, Changed, Buffers, InputsHeld, FactorsHeld, TileHeld
<1>4. ClosedAt(12)
  BY <1>2, HeldBefore DEF ClosedAt, Closed, Changed
<1> QED BY <1>3, <1>4

\* The row factors replace them.
LEMMA MulRowsStep ==
  ASSUME IInv, Instruction, pc = 13
  PROVE  HeldAt(14) /\ ClosedAt(14)
<1>1. MulRows
  BY InstructionAt
<1>2. Changed("out")
  BY <1>1, MulRowsHolds
<1>3. HeldAt(14)
  BY <1>1, <1>2, HeldBefore, MulRowsHolds
  DEF HeldAt, Changed, Buffers, InputsHeld, FactorsHeld, TileHeld
<1>4. ClosedAt(14)
  BY <1>2, HeldBefore DEF ClosedAt, Closed, Changed
<1> QED BY <1>3, <1>4

\* The broadcast row factors replace beta.
LEMMA BroadcastRowsStep ==
  ASSUME IInv, Instruction, pc = 15
  PROVE  HeldAt(16) /\ ClosedAt(16)
<1>1. BroadcastRows
  BY InstructionAt
<1>2. Changed("scratch")
  BY <1>1, BroadcastRowsHolds
<1>3. HeldAt(16)
  BY <1>1, <1>2, HeldBefore, BroadcastRowsHolds
  DEF HeldAt, Changed, Buffers, InputsHeld, FactorsHeld, TileHeld
<1>4. ClosedAt(16)
  BY <1>2, HeldBefore DEF ClosedAt, Closed, Changed
<1> QED BY <1>3, <1>4

\* The products of row and column factors are there before instruction 18.
LEMMA MulTileStep ==
  ASSUME IInv, Instruction, pc = 17
  PROVE  HeldAt(18) /\ ClosedAt(18)
<1>1. MulTile
  BY InstructionAt
<1>2. Changed("out")
  BY <1>1, MulTileHolds
<1>3. HeldAt(18)
  BY <1>1, <1>2, HeldBefore, MulTileHolds
  DEF HeldAt, Changed, Buffers, InputsHeld, FactorsHeld, TileHeld
<1>4. ClosedAt(18)
  BY <1>2, HeldBefore DEF ClosedAt, Closed, Changed
<1> QED BY <1>3, <1>4

\* The selected products replace them.
LEMMA SelectMaskedStep ==
  ASSUME IInv, Instruction, pc = 19
  PROVE  HeldAt(20) /\ ClosedAt(20)
<1>1. SelectMasked
  BY InstructionAt
<1>2. Changed("out")
  BY <1>1, SelectHolds
<1>3. HeldAt(20)
  BY <1>1, <1>2, HeldBefore, SelectHolds
  DEF HeldAt, Changed, Buffers, InputsHeld, FactorsHeld, TileHeld
<1>4. ClosedAt(20)
  BY <1>2, HeldBefore DEF ClosedAt, Closed, Changed
<1> QED BY <1>3, <1>4

\* The finished tile replaces them.
LEMMA MulKktStep ==
  ASSUME IInv, Instruction, pc = 22
  PROVE  HeldAt(23) /\ ClosedAt(23)
<1>1. MulKkt
  BY InstructionAt
<1>2. Changed("out")
  BY <1>1, MulKktHolds
<1>3. HeldAt(23)
  BY <1>1, <1>2, HeldBefore, MulKktHolds
  DEF HeldAt, Changed, Buffers, InputsHeld, FactorsHeld, TileHeld
<1>4. ClosedAt(23)
  BY <1>2, HeldBefore DEF ClosedAt, Closed, Changed
<1> QED BY <1>3, <1>4

\* g and beta are loaded before instruction 2.
LEMMA PrefetchStep ==
  ASSUME IInv, Instruction, pc = 1
  PROVE  HeldAt(2) /\ ClosedAt(2)
<1>1. PrefetchGateAndBetaBatch
  BY InstructionAt, HeldBefore
<1>2. dirty' = dirty
  BY <1>1 DEF PrefetchGateAndBetaBatch
<1>3. HeldAt(2)
  BY <1>1, HeldBefore, PrefetchHolds
  DEF HeldAt, Buffers, InputsHeld, FactorsHeld, TileHeld
<1>4. ClosedAt(2)
  BY <1>2, HeldBefore DEF ClosedAt, Closed
<1> QED BY <1>3, <1>4

\* The Gram is loaded before instruction 3, by the first batch.
LEMMA BeginLoadStep ==
  ASSUME IInv, Instruction, pc = 2
  PROVE  HeldAt(3) /\ ClosedAt(3)
<1>1. BeginLoadKktSlot
  BY InstructionAt, HeldBefore
<1>2. CASE batch = 0
  <2>1. Changed("kkt") /\ GramHeld(task, ub'["kkt"])
    BY <1>1, <1>2, BeginLoadHolds
  <2>2. HeldAt(3)
    BY <2>1, HeldBefore DEF HeldAt, Changed, Buffers, InputsHeld, FactorsHeld, TileHeld
  <2>3. ClosedAt(3)
    BY <1>2, <2>1, HeldBefore DEF ClosedAt, Closed, Changed
  <2> QED BY <2>2, <2>3
<1>3. CASE batch # 0
  <2>1. ub' = ub /\ dirty' = dirty /\ batch > 0
    BY <1>1, <1>3, HeldBefore DEF BeginLoadKktSlot
  <2>2. HeldAt(3)
    BY <2>1, HeldBefore DEF HeldAt, InputsHeld, FactorsHeld, TileHeld
  <2>3. ClosedAt(3)
    BY <2>1, HeldBefore DEF ClosedAt, Closed
  <2> QED BY <2>2, <2>3
<1> QED BY <1>2, <1>3

\* All 64 columns of g are there before instruction 4.
LEMMA ZeroTailStep ==
  ASSUME IInv, Instruction, pc = 3
  PROVE  HeldAt(4) /\ ClosedAt(4)
<1>1. ZeroTailGateAndBetaBatchSuffix
  BY InstructionAt, HeldBefore
<1>2. dirty' = dirty
  BY <1>1 DEF ZeroTailGateAndBetaBatchSuffix
<1>3. HeldAt(4)
  BY <1>1, HeldBefore, ZeroTailHolds
  DEF HeldAt, Buffers, InputsHeld, FactorsHeld, TileHeld
<1>4. ClosedAt(4)
  BY <1>2, HeldBefore DEF ClosedAt, Closed
<1> QED BY <1>3, <1>4

\* The load is over before instruction 22.
LEMMA CompleteLoadStep ==
  ASSUME IInv, Instruction, pc = 21
  PROVE  HeldAt(22) /\ ClosedAt(22)
<1>1. CompleteKktLoad
  BY InstructionAt, HeldBefore
<1>2. ub' = ub /\ dirty' = IF batch = 0 THEN dirty \ {"kkt"} ELSE dirty
  BY <1>1 DEF CompleteKktLoad
<1>3. HeldAt(22)
  BY <1>2, HeldBefore DEF HeldAt, InputsHeld, FactorsHeld, TileHeld
<1>4. ClosedAt(22)
  BY <1>2, HeldBefore DEF ClosedAt, Closed
<1> QED BY <1>3, <1>4

\* A barrier closes every buffer but the one a load is writing.
LEMMA BarrierStep ==
  ASSUME IInv, Instruction, pc \in {6, 9, 12, 14, 16, 18, 20}
  PROVE  HeldAt(pc + 1) /\ ClosedAt(pc + 1)
<1>1. PipeBarrier
  BY InstructionAt, HeldBefore
<1>2. ub' = ub /\ dirty' = dirty \cap {"kkt"}
  BY <1>1 DEF PipeBarrier
<1>3. HeldAt(pc + 1)
  <2>1. CASE pc = 6
    <3>1. HeldAt(7)
      BY <1>2, <2>1, HeldBefore DEF HeldAt, InputsHeld, FactorsHeld, TileHeld
    <3> QED BY <3>1, <2>1
  <2>2. CASE pc = 9
    <3>1. HeldAt(10)
      BY <1>2, <2>2, HeldBefore DEF HeldAt, InputsHeld, FactorsHeld, TileHeld
    <3> QED BY <3>1, <2>2
  <2>3. CASE pc = 12
    <3>1. HeldAt(13)
      BY <1>2, <2>3, HeldBefore DEF HeldAt, InputsHeld, FactorsHeld, TileHeld
    <3> QED BY <3>1, <2>3
  <2>4. CASE pc = 14
    <3>1. HeldAt(15)
      BY <1>2, <2>4, HeldBefore DEF HeldAt, InputsHeld, FactorsHeld, TileHeld
    <3> QED BY <3>1, <2>4
  <2>5. CASE pc = 16
    <3>1. HeldAt(17)
      BY <1>2, <2>5, HeldBefore DEF HeldAt, InputsHeld, FactorsHeld, TileHeld
    <3> QED BY <3>1, <2>5
  <2>6. CASE pc = 18
    <3>1. HeldAt(19)
      BY <1>2, <2>6, HeldBefore DEF HeldAt, InputsHeld, FactorsHeld, TileHeld
    <3> QED BY <3>1, <2>6
  <2>7. CASE pc = 20
    <3>1. HeldAt(21)
      BY <1>2, <2>7, HeldBefore DEF HeldAt, InputsHeld, FactorsHeld, TileHeld
    <3> QED BY <3>1, <2>7
  <2> QED BY <2>1, <2>2, <2>3, <2>4, <2>5, <2>6, <2>7
<1>4. ClosedAt(pc + 1)
  BY <1>2, HeldBefore DEF ClosedAt, Closed
<1> QED BY <1>3, <1>4

\* One step of a batch.
LEMMA InstructionPreserves ==
  ASSUME IInv, Instruction
  PROVE  IInv'
<1>1. task' = task /\ batch' = batch /\ pc' = pc + 1 /\ pc \in 1 .. 22
  BY InstructionAt, HeldBefore
<1>2. HeldAt(pc + 1) /\ ClosedAt(pc + 1)
  <2>1. CASE pc = 1
    <3>1. HeldAt(2) /\ ClosedAt(2)
      BY <2>1, PrefetchStep
    <3> QED BY <2>1, <3>1
  <2>2. CASE pc = 2
    <3>1. HeldAt(3) /\ ClosedAt(3)
      BY <2>2, BeginLoadStep
    <3> QED BY <2>2, <3>1
  <2>3. CASE pc = 3
    <3>1. HeldAt(4) /\ ClosedAt(4)
      BY <2>3, ZeroTailStep
    <3> QED BY <2>3, <3>1
  <2>4. CASE pc = 4
    <3>1. HeldAt(5) /\ ClosedAt(5)
      BY <2>4, NegateStep
    <3> QED BY <2>4, <3>1
  <2>5. CASE pc = 5
    <3>1. HeldAt(6) /\ ClosedAt(6)
      BY <2>5, BroadcastGatesStep
    <3> QED BY <2>5, <3>1
  <2>6. CASE pc = 7
    <3>1. HeldAt(8) /\ ClosedAt(8)
      BY <2>6, CompareGatesStep
    <3> QED BY <2>6, <3>1
  <2>7. CASE pc = 8
    <3>1. HeldAt(9) /\ ClosedAt(9)
      BY <2>7, ExpColumnsStep
    <3> QED BY <2>7, <3>1
  <2>8. CASE pc = 10
    <3>1. HeldAt(11) /\ ClosedAt(11)
      BY <2>8, CastBetaStep
    <3> QED BY <2>8, <3>1
  <2>9. CASE pc = 11
    <3>1. HeldAt(12) /\ ClosedAt(12)
      BY <2>9, ExpRowsStep
    <3> QED BY <2>9, <3>1
  <2>10. CASE pc = 13
    <3>1. HeldAt(14) /\ ClosedAt(14)
      BY <2>10, MulRowsStep
    <3> QED BY <2>10, <3>1
  <2>11. CASE pc = 15
    <3>1. HeldAt(16) /\ ClosedAt(16)
      BY <2>11, BroadcastRowsStep
    <3> QED BY <2>11, <3>1
  <2>12. CASE pc = 17
    <3>1. HeldAt(18) /\ ClosedAt(18)
      BY <2>12, MulTileStep
    <3> QED BY <2>12, <3>1
  <2>13. CASE pc = 19
    <3>1. HeldAt(20) /\ ClosedAt(20)
      BY <2>13, SelectMaskedStep
    <3> QED BY <2>13, <3>1
  <2>14. CASE pc = 21
    <3>1. HeldAt(22) /\ ClosedAt(22)
      BY <2>14, CompleteLoadStep
    <3> QED BY <2>14, <3>1
  <2>15. CASE pc = 22
    <3>1. HeldAt(23) /\ ClosedAt(23)
      BY <2>15, MulKktStep
    <3> QED BY <2>15, <3>1
  <2>16. CASE pc \in {6, 9, 12, 14, 16, 18, 20}
    BY <2>16, BarrierStep
  <2> QED BY <1>1, <2>1, <2>2, <2>3, <2>4, <2>5, <2>6, <2>7, <2>8, <2>9, <2>10, <2>11, <2>12, <2>13, <2>14, <2>15, <2>16
<1>3. TaskOK'
  BY <1>1 DEF IInv, TaskOK
<1>4. PlaceOK'
  BY <1>1, <1>2 DEF IInv, PlaceOK, HeldAt, batchCount
<1>5. Closed'
  BY <1>1, <1>2 DEF Closed, ClosedAt
<1>6. /\ InputsHeld(task', batch', pc', ub')
      /\ FactorsHeld(task', batch', pc', ub')
      /\ TileHeld(task', batch', pc', ub')
  BY <1>1, <1>2 DEF HeldAt
<1> QED BY <1>3, <1>4, <1>5, <1>6 DEF IInv

\* The next batch finds the Gram, and all other buffers closed.
LEMMA NextBatchPreserves ==
  ASSUME IInv, NextBatch
  PROVE  IInv'
<1>1. task' = task /\ batch' = batch + 1 /\ batch + 1 < batchCount /\ pc' = 1
      /\ ub' = [Fresh EXCEPT !["kkt"] = ub["kkt"]] /\ dirty' = dirty \ {"out"}
  BY DEF NextBatch
<1>2. pc = 23
  <2>1. Len(Program) = 22
    BY DEF Program
  <2> QED BY <2>1, HeldBefore DEF NextBatch, Complete
<1>3. DOMAIN ub' = Buffers /\ ub'["kkt"] = ub["kkt"]
  BY <1>1 DEF Fresh, Buffers
<1>4. TaskOK'
  BY <1>1 DEF IInv, TaskOK
<1>5. PlaceOK'
  <2>1. batchCount \in Int
    BY DEF IInv, TaskOK, batchCount, GATE_HEAD_BATCH
  <2>2. batchCount' = batchCount
    BY <1>1 DEF batchCount
  <2>3. batch' \in 0 .. batchCount - 1
    BY <1>1, <2>1, HeldBefore
  <2> QED BY <1>1, <1>3, <2>2, <2>3 DEF PlaceOK
<1>6. Closed'
  BY <1>1, <1>2, HeldBefore DEF Closed
<1>7. GramHeld(task', ub'["kkt"])
  BY <1>1, <1>2, <1>3, HeldBefore DEF InputsHeld
<1>8. /\ InputsHeld(task', batch', pc', ub')
      /\ FactorsHeld(task', batch', pc', ub')
      /\ TileHeld(task', batch', pc', ub')
  BY <1>1, <1>7 DEF InputsHeld, FactorsHeld, TileHeld
<1> QED BY <1>4, <1>5, <1>6, <1>8 DEF IInv

\* A task of either kind: all rows and several heads, or some rows of one.
LEMMA TaskIsOK ==
  ASSUME task \in Tasks, task.rowCount > 0
  PROVE  TaskOK
<1> USE TileAssumption
<1>1. CASE task \in {[chunkLen |-> len, rowStart |-> 0, rowCount |-> len, totalHeads |-> n, g |-> g] :
                       len \in Lens, n \in 1 .. Heads, g \in Gates}
  <2>1. PICK len \in Lens, n \in 1 .. Heads, g \in Gates :
           task = [chunkLen |-> len, rowStart |-> 0, rowCount |-> len, totalHeads |-> n, g |-> g]
    BY <1>1
  <2>2. len \in 1 .. BT /\ g \in [0 .. Heads - 1 -> [0 .. BT - 1 -> Int]]
    OBVIOUS
  <2>3. /\ task.chunkLen = len /\ task.rowStart = 0 /\ task.rowCount = len
        /\ task.totalHeads = n /\ task.g = g
    BY <2>1
  <2>4. 0 \in 0 .. BT /\ 0 + len <= len
    BY <2>2 DEF BT
  <2> QED BY <2>2, <2>3, <2>4 DEF TaskOK
<1>2. CASE task \in {[chunkLen |-> len, rowStart |-> lane * FALLBACK_ROWS_PER_AIV,
                       rowCount |-> MinI32(FALLBACK_ROWS_PER_AIV, len - lane * FALLBACK_ROWS_PER_AIV),
                       totalHeads |-> 1, g |-> g] :
                       len \in Lens, lane \in Lane, g \in Gates}
  <2>1. PICK len \in Lens, lane \in Lane, g \in Gates :
           task = [chunkLen |-> len, rowStart |-> lane * FALLBACK_ROWS_PER_AIV,
                   rowCount |-> MinI32(FALLBACK_ROWS_PER_AIV, len - lane * FALLBACK_ROWS_PER_AIV),
                   totalHeads |-> 1, g |-> g]
    BY <1>2
  <2>2. len \in 1 .. BT /\ g \in [0 .. Heads - 1 -> [0 .. BT - 1 -> Int]] /\ lane \in 0 .. 1
    BY DEF Lane, AIVS_PER_AIC
  <2> DEFINE s == lane * FALLBACK_ROWS_PER_AIV
             rows == MinI32(FALLBACK_ROWS_PER_AIV, len - s)
  <2>3. /\ task.chunkLen = len /\ task.rowStart = s /\ task.rowCount = rows
        /\ task.totalHeads = 1 /\ task.g = g
    BY <2>1
  <2>4. rows > 0 => s \in 0 .. BT /\ rows \in 1 .. BT /\ s + rows <= len
    <3>1. FALLBACK_ROWS_PER_AIV = 32 /\ BT = 64
      BY DEF FALLBACK_ROWS_PER_AIV, AIVS_PER_AIC, BT
    <3>2. s \in {0, 32} /\ len \in 1 .. 64
      BY <2>2, <3>1
    <3>3. rows = IF 32 < len - s THEN 32 ELSE len - s
      BY <3>1 DEF MinI32
    <3> HIDE DEF s, rows
    <3>4. CASE 32 < len - s
      BY <3>1, <3>2, <3>3, <3>4
    <3>5. CASE ~(32 < len - s)
      <4>1. rows = len - s
        BY <3>3, <3>5
      <4>2. len - s <= 32 /\ s + (len - s) = len
        BY <3>2, <3>5
      <4>3. len - s > 0 => s \in 0 .. 64 /\ len - s \in 1 .. 64 /\ s + (len - s) <= len
        BY <3>2, <4>2
      <4> QED BY <3>1, <4>1, <4>3
    <3> QED BY <3>4, <3>5
  <2>5. 1 \in 1 .. Heads /\ ~(1 > 1)
    OBVIOUS
  <2> HIDE DEF s, rows
  <2> QED BY <2>2, <2>3, <2>4, <2>5 DEF TaskOK
<1> QED BY <1>1, <1>2 DEF Tasks

\* The first batch begins with nothing but old contents.
LEMMA InitHolds == Init => IInv
<1> SUFFICES ASSUME Init PROVE IInv
  OBVIOUS
<1>1. TaskOK
  BY TaskIsOK DEF Init
<1>2. batch = 0 /\ pc = 1 /\ ub = Fresh /\ dirty = {}
  BY DEF Init
<1>3. PlaceOK
  <2>1. task.totalHeads \in Nat /\ task.totalHeads >= 1
    BY <1>1, TileAssumption DEF TaskOK
  <2>2. batchCount \in Nat /\ batchCount >= 1
    BY <2>1 DEF batchCount, GATE_HEAD_BATCH
  <2> QED BY <1>2, <2>2 DEF PlaceOK, Fresh, Buffers
<1>4. Closed
  BY <1>2 DEF Closed
<1>5. /\ InputsHeld(task, batch, pc, ub)
      /\ FactorsHeld(task, batch, pc, ub)
      /\ TileHeld(task, batch, pc, ub)
  BY <1>2 DEF InputsHeld, FactorsHeld, TileHeld
<1> QED BY <1>1, <1>3, <1>4, <1>5 DEF IInv

\* In every reachable state the buffers hold what the instructions so far
\* should have made of g, beta and the Gram, and no instruction reads a buffer
\* that no barrier has closed.
THEOREM TileInvariant == Spec => []IInv
<1>1. Init => IInv
  BY InitHolds
<1>2. IInv /\ [Next]_vars => IInv'
  <2> SUFFICES ASSUME IInv, [Next]_vars PROVE IInv'
    OBVIOUS
  <2>1. CASE Instruction
    BY <2>1, InstructionPreserves
  <2>2. CASE NextBatch
    BY <2>2, NextBatchPreserves
  <2>3. CASE UNCHANGED vars
    BY <2>3 DEF vars, IInv, TaskOK, PlaceOK, Closed, batchCount
  <2>4. Finished => UNCHANGED vars
    BY DEF Finished
  <2> QED BY <2>1, <2>2, <2>3, <2>4 DEF Next
<1> QED BY <1>1, <1>2, PTL DEF Spec

-----------------------------------------------------------------------------
(* What the last product comes to *)

\* Zero times zero or a number is zero, on either side.
LEMMA TimesZero ==
  ASSUME NEW x, NEW y, x.kind \in {"zero", "num"}, y.kind \in {"zero", "num"},
         "zero" \in {x.kind, y.kind}
  PROVE  Times(x, y) = Zero
  BY DEF Times

\* Two numbers make the number of the sum of their exponents.
LEMMA TimesNumbers ==
  ASSUME NEW x, NEW y, x.kind = "num", y.kind = "num"
  PROVE  Times(x, y) = Power(x.of \cup y.of, x.e + y.e)
  BY DEF Times

LEMMA PowerKind ==
  ASSUME NEW of, NEW e \in Int, e <= EXP_MAX
  PROVE  /\ Power(of, e).kind \in {"zero", "num"}
         /\ Power(of, e).kind = "num" => Power(of, e).e = e
<1>1. ~(e > EXP_MAX)
  BY DEF EXP_MAX
<1>2. Power(of, e) \in {Zero, Element("num", of, e)}
  BY <1>1 DEF Power
<1>3. Zero.kind = "zero" /\ Element("num", of, e).kind = "num" /\ Element("num", of, e).e = e
  BY DEF Zero, Element
<1> QED BY <1>2, <1>3

LEMMA PowerInRange ==
  ASSUME NEW of, NEW e \in Int, InRange(e)
  PROVE  Power(of, e) = Element("num", of, e)
  BY DEF Power, InRange, EXP_MIN, EXP_MAX

\* The gates of a batch are integers, in the exponent and in the task.
LEMMA GateFacts ==
  ASSUME TaskOK, batch \in Nat, NEW h \in HeadsOf(task, batch), NEW c \in Columns
  PROVE  /\ task.g[batchHead(h)][c] \in Int
         /\ GateElement(task, batch, h, c) =
              Element("num", {<<"g", batchHead(h), c>>}, task.g[batchHead(h)][c])
         /\ BetaElement(batch, h, c) = Element("num", {<<"beta", batchHead(h), c>>}, 0)
<1>1. batchHead(h) = batch * GATE_HEAD_BATCH + h /\ batchHead(h) \in 0 .. Heads - 1
  BY HeadFacts
<1>2. task.g \in [0 .. Heads - 1 -> [0 .. BT - 1 -> Int]]
  BY DEF TaskOK
<1>3. c \in 0 .. BT - 1
  BY DEF Columns, ROW_ELEMS
<1> QED BY <1>1, <1>2, <1>3 DEF GateElement, BetaElement, Read

\* Compare against a column of the chunk, and against the padding.
LEMMA LessMeans ==
  ASSUME TaskOK, batch \in Nat, NEW h \in HeadsOf(task, batch), NEW r \in RowsOf(task),
         NEW c \in Columns
  PROVE  Less(task, batch, h, r, c).kind = "less" <=>
           task.g[batchHead(h)][task.rowStart + r]
             < IF c >= task.chunkLen THEN 0 ELSE task.g[batchHead(h)][c]
<1> DEFINE x == RowGate(task, batch, h, r)
           y == ColumnGate(task, batch, h, c)
<1>1. task.rowStart + r \in Columns
  BY RowFacts
<1>2. x.kind = "num" /\ x.e = task.g[batchHead(h)][task.rowStart + r]
  BY <1>1, GateFacts DEF RowGate, Element
<1>3. y.kind \in {"num", "zero"}
      /\ y.e = IF c >= task.chunkLen THEN 0 ELSE task.g[batchHead(h)][c]
  BY GateFacts DEF ColumnGate, Element, Zero
<1>4. Less(task, batch, h, r, c).kind = "less" <=> x.e < y.e
  <2>1. CompareLess(x, y) = Element(IF x.e < y.e THEN "less" ELSE "not", {}, 0)
    BY <1>2, <1>3 DEF CompareLess
  <2> HIDE DEF x, y
  <2>2. CompareLess(x, y).kind = IF x.e < y.e THEN "less" ELSE "not"
    BY <2>1 DEF Element
  <2>3. CompareLess(x, y).kind = "less" <=> x.e < y.e
    BY <2>2
  <2> QED BY <2>3 DEF Less, x, y
<1> QED BY <1>2, <1>3, <1>4

\* A masked element of the product is zero: the mask removes it, or the padding
\* of the columns and of the Gram does, the row's exponential being no infinity.
LEMMA MaskedIsZero ==
  ASSUME TaskOK, batch \in Nat, NEW h \in HeadsOf(task, batch), NEW r \in RowsOf(task),
         NEW c \in Columns, Masked(h, r, c)
  PROVE  Product(task, batch, h, r, c) = Zero
<1> DEFINE gi == task.g[batchHead(h)][task.rowStart + r]
           gc == task.g[batchHead(h)][c]
           less == Less(task, batch, h, r, c).kind = "less"
<1>1. gi \in Int /\ gc \in Int
  BY RowFacts, GateFacts
<1>2. less <=> gi < IF c >= task.chunkLen THEN 0 ELSE gc
  BY LessMeans
<1>3. Zero.kind = "zero"
  BY DEF Zero, Element
<1>4. c >= task.chunkLen \/ gi >= gc
  BY DEF Masked, chunkLen
<1>5. GramElement(task, r, c).kind \in {"zero", "num"}
  BY <1>3 DEF GramElement, Read, Element
<1>6. CASE ~less
  <2>1. Picked(task, batch, h, r, c) = Zero
    BY <1>6 DEF Picked
  <2> QED BY <1>3, <1>5, <2>1, TimesZero DEF Product
<1>7. CASE less
  <2> HIDE DEF less, gi, gc
  <2>1. c >= task.chunkLen /\ gi < 0
    BY <1>1, <1>2, <1>4, <1>7
  <2>2. ExpOf(RowGate(task, batch, h, r)).kind \in {"zero", "num"}
        /\ (ExpOf(RowGate(task, batch, h, r)).kind = "num" =>
              ExpOf(RowGate(task, batch, h, r)).e = gi)
    <3>1. RowGate(task, batch, h, r) =
            Element("num", {<<"g", batchHead(h), task.rowStart + r>>}, gi)
      BY RowFacts, GateFacts DEF RowGate, gi
    <3>2. ExpOf(RowGate(task, batch, h, r)) =
            Power({<<"g", batchHead(h), task.rowStart + r>>}, gi)
      BY <3>1 DEF ExpOf, Element
    <3>3. gi <= EXP_MAX
      BY <1>1, <2>1 DEF EXP_MAX
    <3> HIDE DEF gi
    <3> QED BY <1>1, <3>2, <3>3, PowerKind
  <2>3. RowFactor(task, batch, h, r).kind \in {"zero", "num"}
    <3> DEFINE x == ExpOf(RowGate(task, batch, h, r))
               y == BetaElement(batch, h, task.rowStart + r)
    <3>1. y.kind = "num" /\ y.e = 0
      BY RowFacts, GateFacts DEF Element
    <3>2. RowFactor(task, batch, h, r) = Times(x, y)
      BY DEF RowFactor
    <3>3. x.kind \in {"zero", "num"} /\ (x.kind = "num" => x.e = gi)
      BY <2>2
    <3> HIDE DEF x, y
    <3>4. CASE x.kind = "zero"
      BY <1>3, <3>1, <3>2, <3>4, TimesZero
    <3>5. CASE x.kind = "num"
      <4>1. Times(x, y) = Power(x.of \cup y.of, x.e + y.e)
        BY <3>1, <3>5, TimesNumbers
      <4>2. x.e + y.e \in Int /\ x.e + y.e <= EXP_MAX
        BY <1>1, <2>1, <3>1, <3>3, <3>5 DEF EXP_MAX
      <4> QED BY <3>2, <4>1, <4>2, PowerKind
    <3> QED BY <3>3, <3>4, <3>5
  <2>4. Outer(task, batch, h, r, c) = Zero
    BY <1>3, <2>1, <2>3, TimesZero DEF Outer, ColumnFactor
  <2>5. Picked(task, batch, h, r, c) = Zero
    BY <2>4 DEF Picked
  <2> QED BY <1>3, <1>5, <2>5, TimesZero DEF Product
<1> QED BY <1>6, <1>7

\* Any other element is its formula, as long as the two exponentials are numbers.
LEMMA UnmaskedIsFormula ==
  ASSUME TaskOK, batch \in Nat, NEW h \in HeadsOf(task, batch), NEW r \in RowsOf(task),
         NEW c \in Columns, ~Masked(h, r, c),
         InRange(task.g[batchHead(h)][task.rowStart + r]), InRange(-task.g[batchHead(h)][c])
  PROVE  Product(task, batch, h, r, c) = Formula(h, r, c)
<1> DEFINE b == batchHead(h)
           i == task.rowStart + r
           gi == task.g[b][i]
           gc == task.g[b][c]
           cOf == {<<"-", <<"g", b, c>>>>}
           rOf == {<<"g", b, i>>} \cup {<<"beta", b, i>>}
           kOf == {<<"kkt", i, c>>}
<1>1. gi \in Int /\ gc \in Int /\ i \in Columns
  BY RowFacts, GateFacts
<1>2. ~(c >= task.chunkLen) /\ ~(gi >= gc)
  BY DEF Masked, chunkLen
<1>3. InRange(gi) /\ InRange(0 - gc) /\ 0 - gc \in Int
  <2>1. -gc = 0 - gc
    <3> HIDE DEF gc
    <3> QED BY <1>1
  <2> QED BY <1>1, <2>1
<1>4. ColumnFactor(task, batch, h, c) = Element("num", cOf, 0 - gc)
  <2>1. GateElement(task, batch, h, c) = Element("num", {<<"g", b, c>>}, gc)
    BY GateFacts
  <2>2. NegOf(GateElement(task, batch, h, c)) = Element("num", cOf, 0 - gc)
    <3>1. {<<"-", tag>> : tag \in {<<"g", b, c>>}} = cOf
      OBVIOUS
    <3> HIDE DEF b, gc, cOf
    <3> QED BY <2>1, <3>1 DEF NegOf, Element
  <2> HIDE DEF gc, cOf
  <2>3. ExpOf(NegOf(GateElement(task, batch, h, c))) = Power(cOf, 0 - gc)
    BY <2>2 DEF ExpOf, Element
  <2> QED BY <1>2, <1>3, <2>3, PowerInRange DEF ColumnFactor
<1>5. RowFactor(task, batch, h, r) = Element("num", rOf, gi)
  <2> DEFINE x == ExpOf(RowGate(task, batch, h, r))
             y == BetaElement(batch, h, i)
  <2>1. y = Element("num", {<<"beta", b, i>>}, 0)
    BY <1>1, GateFacts
  <2>2. RowGate(task, batch, h, r) = Element("num", {<<"g", b, i>>}, gi)
    BY <1>1, GateFacts DEF RowGate
  <2>3. x = Power({<<"g", b, i>>}, gi)
    BY <2>2 DEF ExpOf, Element
  <2>4. x = Element("num", {<<"g", b, i>>}, gi)
    BY <1>1, <1>3, <2>3, PowerInRange
  <2>5. RowFactor(task, batch, h, r) = Times(x, y)
    BY DEF RowFactor
  <2>6. Times(x, y) = Power(x.of \cup y.of, x.e + y.e)
    <3>1. x.kind = "num" /\ y.kind = "num"
      BY <2>1, <2>4 DEF Element
    <3> HIDE DEF x, y
    <3> QED BY <3>1, TimesNumbers
  <2>7. x.of \cup y.of = rOf /\ x.e + y.e = gi
    <3>1. x.of = {<<"g", b, i>>} /\ x.e = gi /\ y.of = {<<"beta", b, i>>} /\ y.e = 0
      BY <2>1, <2>4 DEF Element
    <3> HIDE DEF x, y, gi
    <3>2. gi + 0 = gi
      BY <1>1
    <3> QED BY <3>1, <3>2
  <2> HIDE DEF x, y, gi, rOf
  <2> QED BY <1>1, <1>3, <2>5, <2>6, <2>7, PowerInRange
<1>6. Outer(task, batch, h, r, c) = Power(cOf \cup rOf, gi - gc)
  <2> DEFINE x == ColumnFactor(task, batch, h, c)
             y == RowFactor(task, batch, h, r)
  <2>1. x.kind = "num" /\ x.of = cOf /\ x.e = 0 - gc
    BY <1>4 DEF Element
  <2>2. y.kind = "num" /\ y.of = rOf /\ y.e = gi
    BY <1>5 DEF Element
  <2> HIDE DEF x, y, gi, gc, cOf, rOf
  <2>3. Times(x, y) = Power(x.of \cup y.of, x.e + y.e)
    BY <2>1, <2>2, TimesNumbers
  <2>4. x.e + y.e = gi - gc
    BY <1>1, <2>1, <2>2
  <2> QED BY <2>1, <2>2, <2>3, <2>4 DEF Outer, x, y
<1>7. Picked(task, batch, h, r, c) = Outer(task, batch, h, r, c)
  <2>1. Less(task, batch, h, r, c).kind = "less" <=> gi < IF c >= task.chunkLen THEN 0 ELSE gc
    BY LessMeans
  <2> HIDE DEF gi, gc
  <2>2. Less(task, batch, h, r, c).kind = "less"
    BY <1>1, <1>2, <2>1
  <2> QED BY <2>2 DEF Picked
<1>8. GramElement(task, r, c) = Element("num", kOf, 0)
  BY <1>2 DEF GramElement, Read
<1> DEFINE of == kOf \cup (cOf \cup rOf)
<1>9. Formula(h, r, c) = Power(of, gi - gc)
  <2>1. of = {<<"beta", b, i>>, <<"g", b, i>>, <<"-", <<"g", b, c>>>>, <<"kkt", i, c>>}
    OBVIOUS
  <2> HIDE DEF of
  <2> QED BY <2>1 DEF Formula
<1> HIDE DEF gi, gc, cOf, rOf, kOf
<1>10. gi - gc \in Int /\ gi - gc <= EXP_MAX /\ 0 + (gi - gc) = gi - gc
  BY <1>1, <1>2 DEF EXP_MAX
<1> DEFINE x == GramElement(task, r, c)
           y == Power(cOf \cup rOf, gi - gc)
<1>11. x.kind = "num" /\ x.of = kOf /\ x.e = 0
  BY <1>8 DEF Element
<1>12. Product(task, batch, h, r, c) = Times(x, y)
  BY <1>6, <1>7 DEF Product
<1>13. Times(x, y) = Power(of, gi - gc)
  <2>1. CASE gi - gc < EXP_MIN
    <3>1. y = Zero /\ Power(of, gi - gc) = Zero
      BY <1>10, <2>1 DEF Power, EXP_MAX, EXP_MIN
    <3>2. Zero.kind = "zero"
      BY DEF Zero, Element
    <3> HIDE DEF x, y
    <3> QED BY <1>11, <3>1, <3>2, TimesZero
  <2>2. CASE ~(gi - gc < EXP_MIN)
    <3>1. y = Element("num", cOf \cup rOf, gi - gc)
      BY <1>10, <2>2 DEF Power, EXP_MAX, EXP_MIN
    <3>2. y.kind = "num" /\ y.of = cOf \cup rOf /\ y.e = gi - gc
      BY <3>1 DEF Element
    <3> HIDE DEF x, y
    <3>3. Times(x, y) = Power(x.of \cup y.of, x.e + y.e)
      BY <1>11, <3>2, TimesNumbers
    <3> QED BY <1>10, <1>11, <3>2, <3>3
  <2> QED BY <2>1, <2>2
<1> QED BY <1>9, <1>12, <1>13

-----------------------------------------------------------------------------
(* The properties *)

\* What a finished tile holds, in the terms of the properties.
LEMMA FinishedTile ==
  ASSUME IInv, Complete
  PROVE  \A x \in Cells :
           /\ x[1] \in HeadsOf(task, batch) /\ x[2] \in RowsOf(task) /\ x[3] \in Columns
           /\ Tile(x[1], x[2], x[3]) = Product(task, batch, x[1], x[2], x[3])
<1>1. pc = 23
  <2>1. Len(Program) = 22
    BY DEF Program
  <2> QED BY <2>1, HeldBefore DEF Complete
<1>2. ProductHeld(task, batch, ub["out"])
  BY <1>1, HeldBefore DEF TileHeld
<1>3. TaskOK /\ batch \in Nat
  BY HeldBefore DEF IInv
<1>4. Cells = HeadsOf(task, batch) \X RowsOf(task) \X Columns
  BY <1>3, HeadFacts, RowFacts DEF Cells, Columns
<1>5. \A h, r, c : Tile(h, r, c) = At(ub["out"], h * KKT_ELEMS + r * ROW_ELEMS + c)
  BY DEF Tile
<1> QED BY <1>2, <1>4, <1>5 DEF ProductHeld

\* For every chunk length, number of heads and decay, a masked or padded element
\* of a finished tile is zero, whatever was in the buffers before and however
\* large the exponentials are.
THEOREM TileZeroWhereMasked == Spec => []ZeroWhereMasked
<1>1. IInv => ZeroWhereMasked
  <2> SUFFICES ASSUME IInv, Complete, NEW x \in Cells, Masked(x[1], x[2], x[3])
               PROVE  Tile(x[1], x[2], x[3]) = Zero
    BY DEF ZeroWhereMasked
  <2>1. TaskOK /\ batch \in Nat
    BY HeldBefore DEF IInv
  <2> QED BY <2>1, FinishedTile, MaskedIsZero
<1> QED BY <1>1, TileInvariant, PTL

\* For every chunk length, number of heads and decay, any other element of a
\* finished tile is the product of its own beta, gates and Gram element, if the
\* two exponentials it is made of are FP32 numbers.
THEOREM TileIsRight == Spec => []TileRight
<1>1. IInv => TileRight
  <2> SUFFICES ASSUME IInv, Complete, NEW x \in Cells, ~Masked(x[1], x[2], x[3]),
                      InRange(task.g[batchHead(x[1])][task.rowStart + x[2]]),
                      InRange(-task.g[batchHead(x[1])][x[3]])
               PROVE  Tile(x[1], x[2], x[3]) = Formula(x[1], x[2], x[3])
    BY DEF TileRight
  <2>1. TaskOK /\ batch \in Nat
    BY HeldBefore DEF IInv
  <2> QED BY <2>1, FinishedTile, UnmaskedIsFormula
<1> QED BY <1>1, TileInvariant, PTL
================================================================================
