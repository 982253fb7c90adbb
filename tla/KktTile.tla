-------------------------------- MODULE KktTile --------------------------------
(***************************************************************************)
(* The vector instructions that make the tiles of a batch of one or two    *)
(* query heads out of g, beta and the Gram, element by element in the      *)
(* unified buffer: padding of a tail, mask, the two one-dimensional        *)
(* exponentials, their products, and the instructions between two          *)
(* PipeBarriers.  The batches of one task, all but the first of which find *)
(* KKT resident; whatever else is in the buffers is taken to be old.       *)
(*                                                                         *)
(* An element is its origin: the factors multiplied into it and the        *)
(* exponent e their exponentials add up to, or zero, infinite, not a       *)
(* number, or "old", left over from other work.                            *)
(***************************************************************************)
EXTENDS KktTask, Sequences

CONSTANTS
  Lens,    \* chunk lengths
  Heads,   \* at most so many heads for a lane
  Gates    \* values of g: for each of these heads a value for each row

ASSUME TileAssumption ==
  /\ Lens \subseteq 1 .. BT
  /\ Heads \in Nat \ {0}
  /\ Gates \subseteq [0 .. Heads - 1 -> [0 .. BT - 1 -> Int]]

ROW_ELEMS == BT
KKT_ELEMS == ROW_ELEMS * ROW_ELEMS

\* Where exp() of an FP32 number is neither zero nor infinite.
EXP_MIN == -103
EXP_MAX == 88

-----------------------------------------------------------------------------
(* Elements *)

Element(kind, of, e) == [kind |-> kind, of |-> of, e |-> e]
Zero == Element("zero", {}, 0)
Inf  == Element("inf", {}, 0)
NaN  == Element("nan", {}, 0)
Old  == Element("old", {}, 0)
Read(array, head, index) == Element("num", {<<array, head, index>>}, 0)

\* The exponential of an exponent made of the given gates.
Power(of, e) == IF e > EXP_MAX THEN Inf ELSE IF e < EXP_MIN THEN Zero ELSE Element("num", of, e)
ExpOf(x) == IF x.kind = "old" THEN Old ELSE Power(x.of, x.e)

NegOf(x) == Element(x.kind, {<<"-", tag>> : tag \in x.of}, 0 - x.e)

Times(x, y) ==
  LET kinds == {x.kind, y.kind}
  IN  CASE "old" \in kinds -> Old
        [] "nan" \in kinds \/ {"zero", "inf"} \subseteq kinds -> NaN
        [] "inf" \in kinds -> Inf
        [] "zero" \in kinds -> Zero
        [] OTHER -> Power(x.of \cup y.of, x.e + y.e)

-----------------------------------------------------------------------------
VARIABLES
  task,    \* chunkLen, rowStart, rowCount, totalHeads, and g
  batch,   \* the batch under way, batchId in the code
  pc,      \* its next instruction
  ub,      \* the buffers of the unified buffer
  dirty    \* buffers written since the last PipeBarrier, or still loading

vars == <<task, batch, pc, ub, dirty>>

chunkLen == task.chunkLen
rowCount == task.rowCount
batchCount == (task.totalHeads + GATE_HEAD_BATCH - 1) \div GATE_HEAD_BATCH
currentBatchHeads == MinI32(GATE_HEAD_BATCH, task.totalHeads - batch * GATE_HEAD_BATCH)
isPair == currentBatchHeads = GATE_HEAD_BATCH
batchHead(h) == batch * GATE_HEAD_BATCH + h
HeadInBatch == 0 .. currentBatchHeads - 1

RoundUp(n, block) == ((n + block - 1) \div block) * block
gAlignedElems == RoundUp(chunkLen, 8)
betaAlignedElems == RoundUp(chunkLen, 16)
rowBrcbRepeats == (rowCount + 7) \div 8

\* The first n elements of every head, heads being stride apart.
Each(stride, n) == UNION {h * stride .. h * stride + n - 1 : h \in HeadInBatch}

\* What an instruction finds at k of a buffer: an element nobody wrote is old.
At(contents, k) == IF k \in DOMAIN contents THEN contents[k] ELSE Old

\* What it finds of buf: nothing that was written, or is being written, on
\* this side of the last barrier.
Content(buf) == IF buf \in dirty THEN << >> ELSE ub[buf]

\* The elements an instruction computes, among the others as they were.
Over(elements, contents) ==
  [k \in DOMAIN elements \cup DOMAIN contents |->
     IF k \in DOMAIN elements THEN elements[k] ELSE contents[k]]

Write(buf, elements) ==
  /\ ub' = [ub EXCEPT ![buf] = Over(elements, @)]
  /\ dirty' = dirty \cup {buf}

-----------------------------------------------------------------------------
(* Loads *)

Buffers == {"g", "beta", "negG", "scratch", "mask", "out", "kkt"}
Fresh == [buf \in Buffers |-> << >>]

\* A task: all rows and a lane's heads, or one head and the rows of a lane.
Tasks ==
  {[chunkLen |-> len, rowStart |-> 0, rowCount |-> len, totalHeads |-> n, g |-> g] :
     len \in Lens, n \in 1 .. Heads, g \in Gates}
  \cup
  {[chunkLen |-> len, rowStart |-> lane * FALLBACK_ROWS_PER_AIV,
    rowCount |-> MinI32(FALLBACK_ROWS_PER_AIV, len - lane * FALLBACK_ROWS_PER_AIV),
    totalHeads |-> 1, g |-> g] :
     len \in Lens, lane \in Lane, g \in Gates}

Init ==
  /\ task \in {x \in Tasks : x.rowCount > 0}
  /\ batch = 0 /\ pc = 1
  /\ ub = Fresh
  /\ dirty = {}

\* Elements of g and of beta: head h of the lane, row or column c.
GateOf(h, c) == Element("num", {<<"g", h, c>>}, task.g[h][c])
BetaOf(h, c) == Read("beta", h, c)

\* PrefetchGateAndBetaBatch(), into a buffer that held another batch: one row
\* per head, up to aligned elements of it, zeros behind the chunk; the blocks
\* up to the next row are left as they are.
PrefetchGateAndBetaBatch ==
  /\ ub' = [ub EXCEPT
       !.g = [k \in Each(ROW_ELEMS, gAlignedElems) |->
                IF k % ROW_ELEMS >= chunkLen THEN Zero
                ELSE GateOf(batchHead(k \div ROW_ELEMS), k % ROW_ELEMS)],
       !.beta = [k \in Each(ROW_ELEMS, betaAlignedElems) |->
                   IF k % ROW_ELEMS >= chunkLen THEN Zero
                   ELSE BetaOf(batchHead(k \div ROW_ELEMS), k % ROW_ELEMS)]]
  /\ UNCHANGED dirty

\* BeginLoadKktSlot() before the first batch: zeros under a tail first, then
\* the lane's rows of the Gram; the copy is still under way.
BeginLoadKktSlot ==
  IF batch = 0
  THEN Write("kkt", [k \in 0 .. rowCount * ROW_ELEMS - 1 |->
                       IF k % ROW_ELEMS >= chunkLen THEN Zero
                       ELSE Read("kkt", task.rowStart + (k \div ROW_ELEMS), k % ROW_ELEMS)])
  ELSE UNCHANGED <<ub, dirty>>

\* CompleteKktLoadAndReleaseSlot(), before the first batch's last product.
CompleteKktLoad ==
  /\ dirty' = IF batch = 0 THEN dirty \ {"kkt"} ELSE dirty
  /\ UNCHANGED ub

\* Zeros from element aligned of every row on.
ZeroTail(aligned) ==
  [k \in UNION {h * ROW_ELEMS + aligned .. h * ROW_ELEMS + ROW_ELEMS - 1 : h \in HeadInBatch}
     |-> Zero]

\* Seeded fault of ZeroTailGateAndBetaBatchSuffix: one block is thought to be
\* what DataCopyPad fills for both.
ZeroTailBetaBlocks ==
  /\ ub' = IF chunkLen = ROW_ELEMS THEN ub
           ELSE [ub EXCEPT !.g = Over(ZeroTail(betaAlignedElems), @),
                           !.beta = Over(ZeroTail(betaAlignedElems), @)]
  /\ UNCHANGED dirty

\* ZeroTailGateAndBetaBatchSuffix() and its barrier.
ZeroTailGateAndBetaBatchSuffix ==
  /\ ub' = IF chunkLen = ROW_ELEMS THEN ub
           ELSE [ub EXCEPT !.g = Over(ZeroTail(gAlignedElems), @),
                           !.beta = Over(ZeroTail(betaAlignedElems), @)]
  /\ UNCHANGED dirty

-----------------------------------------------------------------------------
(* PrepareHeadFactor() and PrepareHeadPairFactor() *)

PipeBarrier == dirty' = dirty \cap {"kkt"} /\ UNCHANGED ub

\* Muls(negG, g, -1)
Negate ==
  Write("negG", [k \in Each(ROW_ELEMS, ROW_ELEMS) |-> NegOf(At(Content("g"), k))])

\* Brcb: one block of eight copies for every row, eight rows at a time.
Broadcast(source(_, _)) ==
  Write("scratch", [k \in Each(ROW_ELEMS * 8, rowBrcbRepeats * 64) |->
                      source(k \div (ROW_ELEMS * 8), (k % (ROW_ELEMS * 8)) \div 8)])

BroadcastGates ==
  LET g == Content("g")
  IN  Broadcast(LAMBDA h, r : At(g, h * ROW_ELEMS + task.rowStart + r))

\* Compare(mask, broadcast(g_i), g_j, LT)
CompareLess(x, y) ==
  IF "old" \in {x.kind, y.kind} THEN Old
  ELSE Element(IF x.e < y.e THEN "less" ELSE "not", {}, 0)

\* The elements of a tile, and the head, the row and the column of one.
TileElems == Each(KKT_ELEMS, rowCount * ROW_ELEMS)
HeadAt(k) == k \div KKT_ELEMS
RowAt(k) == (k % KKT_ELEMS) \div ROW_ELEMS
ColumnAt(k) == k % ROW_ELEMS

CompareGates ==
  LET scratch == Content("scratch")
      g == Content("g")
  IN  Write("mask", [k \in TileElems |->
        CompareLess(At(scratch, HeadAt(k) * ROW_ELEMS * 8 + RowAt(k) * 8),
                    At(g, HeadAt(k) * ROW_ELEMS + ColumnAt(k)))])

\* Exp(negG, negG, chunkLen): the padding stays zero.
ExpColumns ==
  LET negG == Content("negG")
  IN  Write("negG", [k \in Each(ROW_ELEMS, chunkLen) |-> ExpOf(At(negG, k))])

\* Cast(scratch, beta): compact, over the broadcast gates.
CastBeta ==
  LET beta  == Content("beta")
      count == IF isPair THEN GATE_HEAD_BATCH * ROW_ELEMS ELSE rowCount
      first == IF isPair THEN 0 ELSE task.rowStart
  IN  Write("scratch", [k \in 0 .. count - 1 |-> At(beta, first + k)])

\* Exp(output, g[rowStart], rowCount)
ExpRows ==
  LET g == Content("g")
  IN  Write("out", [k \in Each(KKT_ELEMS, rowCount) |->
        ExpOf(At(g, HeadAt(k) * ROW_ELEMS + task.rowStart + (k % KKT_ELEMS)))])

\* Mul(output, output, scratch, rowCount): beta_i * exp(g_i)
MulRows ==
  LET out == Content("out")
      scratch == Content("scratch")
  IN  Write("out", [k \in Each(KKT_ELEMS, rowCount) |->
        Times(At(out, k), At(scratch, HeadAt(k) * ROW_ELEMS + (k % KKT_ELEMS)))])

BroadcastRows ==
  LET out == Content("out")
  IN  Broadcast(LAMBDA h, r : At(out, h * KKT_ELEMS + r))

\* Mul(output, negG, scratch, ...) by rows.
MulTile ==
  LET negG == Content("negG")
      scratch == Content("scratch")
  IN  Write("out", [k \in TileElems |->
        Times(At(negG, HeadAt(k) * ROW_ELEMS + ColumnAt(k)),
              At(scratch, HeadAt(k) * ROW_ELEMS * 8 + RowAt(k) * 8))])

\* Select(output, mask, output, 0)
SelectMasked ==
  LET out == Content("out")
      mask == Content("mask")
  IN  Write("out", [k \in TileElems |->
        CASE At(mask, k).kind = "less" -> At(out, k)
          [] At(mask, k).kind = "not"  -> Zero
          [] OTHER -> Old])

\* FinalizeHeadWithKkt(), FinalizeHeadPairWithKkt(): Mul(output, kkt, output)
MulKkt ==
  LET out == Content("out")
      kkt == Content("kkt")
  IN  Write("out", [k \in TileElems |-> Times(At(kkt, k % KKT_ELEMS), At(out, k))])

-----------------------------------------------------------------------------
(* The instructions of a batch, in program order *)

\* Seeded fault of Program: no barrier between the two exponentials and their
\* product.
ProgramOneBarrierLess ==
  << "Prefetch", "BeginLoad", "ZeroTail",
     "Negate", "BroadcastGates", "Barrier", "CompareGates", "ExpColumns", "Barrier",
     "CastBeta", "ExpRows", "MulRows", "Barrier", "BroadcastRows", "Barrier",
     "MulTile", "Barrier", "SelectMasked", "Barrier",
     "CompleteLoad", "MulKkt" >>

Program ==
  << "Prefetch", "BeginLoad", "ZeroTail",
     "Negate", "BroadcastGates", "Barrier", "CompareGates", "ExpColumns", "Barrier",
     "CastBeta", "ExpRows", "Barrier", "MulRows", "Barrier", "BroadcastRows", "Barrier",
     "MulTile", "Barrier", "SelectMasked", "Barrier",
     "CompleteLoad", "MulKkt" >>

Execute(name) ==
  \/ name = "Prefetch"       /\ PrefetchGateAndBetaBatch
  \/ name = "BeginLoad"      /\ BeginLoadKktSlot
  \/ name = "ZeroTail"       /\ ZeroTailGateAndBetaBatchSuffix
  \/ name = "Negate"         /\ Negate
  \/ name = "BroadcastGates" /\ BroadcastGates
  \/ name = "CompareGates"   /\ CompareGates
  \/ name = "ExpColumns"     /\ ExpColumns
  \/ name = "CastBeta"       /\ CastBeta
  \/ name = "ExpRows"        /\ ExpRows
  \/ name = "MulRows"        /\ MulRows
  \/ name = "BroadcastRows"  /\ BroadcastRows
  \/ name = "MulTile"        /\ MulTile
  \/ name = "SelectMasked"   /\ SelectMasked
  \/ name = "CompleteLoad"   /\ CompleteKktLoad
  \/ name = "MulKkt"         /\ MulKkt
  \/ name = "Barrier"        /\ PipeBarrier

Complete == pc > Len(Program)

Instruction ==
  /\ ~Complete
  /\ Execute(Program[pc])
  /\ pc' = pc + 1
  /\ UNCHANGED <<task, batch>>

\* EnQue of the tile; the next batch has other buffers, or the same ones and
\* no use for what is in them.
NextBatch ==
  /\ Complete
  /\ batch + 1 < batchCount
  /\ batch' = batch + 1
  /\ pc' = 1
  /\ ub' = [Fresh EXCEPT !.kkt = ub.kkt]
  /\ dirty' = dirty \ {"out"}
  /\ UNCHANGED task

Finished == Complete /\ batch + 1 = batchCount /\ UNCHANGED vars

Next == Instruction \/ NextBatch \/ Finished
Spec == Init /\ [][Next]_vars

-----------------------------------------------------------------------------
(* Properties *)

\* Element (r, c) of the tile of head h, and the formula of README.md:28-33
\* for it, exponent taken as a whole.
Tile(h, r, c) == At(ub.out, h * KKT_ELEMS + r * ROW_ELEMS + c)

Masked(h, r, c) ==
  c >= chunkLen \/ task.g[batchHead(h)][task.rowStart + r] >= task.g[batchHead(h)][c]

Formula(h, r, c) ==
  LET b == batchHead(h)
      i == task.rowStart + r
  IN  Power({<<"beta", b, i>>, <<"g", b, i>>, <<"-", <<"g", b, c>>>>, <<"kkt", i, c>>},
            task.g[b][i] - task.g[b][c])

Cells == HeadInBatch \X (0 .. rowCount - 1) \X (0 .. ROW_ELEMS - 1)

InRange(e) == e \in EXP_MIN .. EXP_MAX

\* A masked or padded element of a finished tile is zero, whatever was in the
\* buffers before and however large the exponentials are.
ZeroWhereMasked ==
  Complete => \A x \in Cells : Masked(x[1], x[2], x[3]) => Tile(x[1], x[2], x[3]) = Zero

\* Any other element is the product of its own beta, gates and Gram element,
\* provided the two exponentials it is made of are FP32 numbers.
TileRight ==
  Complete => \A x \in Cells :
    LET g == task.g[batchHead(x[1])]
    IN  /\ ~Masked(x[1], x[2], x[3])
        /\ InRange(g[task.rowStart + x[2]]) /\ InRange(-g[x[3]])
        => Tile(x[1], x[2], x[3]) = Formula(x[1], x[2], x[3])
=============================================================================
