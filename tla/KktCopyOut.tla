------------------------------ MODULE KktCopyOut ------------------------------
(***************************************************************************)
(* How a finished batch of the Vector stage leaves UB: QueueDelayed...     *)
(* Output() records its destination, LaunchReadyOutput() of a later batch  *)
(* turns the record into DataCopy commands.  A batch is                    *)
(*                                                                         *)
(*   single     rows of one head                                           *)
(*   pair       the rows of two heads, [head 0][head 1]                    *)
(*   chunkPair  two full neighbouring chunks of one or of two heads,       *)
(*              [h0/c0][h0/c1][h1/c0][h1/c1]                               *)
(*                                                                         *)
(* Lengths and offsets count data blocks of 32 bytes (8 floats): a row of  *)
(* the output is ROW_BLOCKS of them, the output is [H, T, ROW_BLOCKS].     *)
(***************************************************************************)
EXTENDS KktTask

CONSTANTS TokenCounts,   \* values of tiling_->t
          Heads,         \* H
          Starts,        \* first tokens of a chunk, or of a lane's rows in it
          RowCounts      \* rows a lane has in a chunk

ASSUME CopyOutAssumption ==
  /\ TokenCounts \subseteq Nat
  /\ Heads \in Nat
  /\ Starts \subseteq Nat
  /\ RowCounts \subseteq 1 .. BT

ROW_BLOCKS == 8
FULL_HEAD_BLOCKS == BT * ROW_BLOCKS       \* kFullHeadBlocks
TWO_CHUNK_HEAD_BLOCKS == 2 * FULL_HEAD_BLOCKS
MAX_DATA_COPY_STRIDE == 65535

VARIABLES t,       \* tiling_->t
          ready,   \* the readyOutput... fields
          batch,   \* the batch recorded last
          copies   \* the runs of blocks moved by the last launch

vars == <<t, ready, batch, copies>>

NoBatch == [kind |-> "none", head |-> 0, start |-> 0, rows |-> 0, heads |-> 0]

Init ==
  /\ t \in TokenCounts
  /\ ready = [valid |-> FALSE, isPair |-> FALSE, isChunkPair |-> FALSE,
              first |-> 0, second |-> 0, active |-> 0]
  /\ batch = NoBatch
  /\ copies = {}

-----------------------------------------------------------------------------
(* Recording a batch *)

\* Offset of the block where the rows of a head from a token on begin.
Offset(head, token) == (head * t + token) * ROW_BLOCKS

\* start is the first row of the lane, start + rowStart in the code.
QueueDelayedSingleOutput(head, start, rows) ==
  /\ head + 1 <= Heads /\ start + rows <= t
  /\ ready' = [valid |-> TRUE, isPair |-> FALSE, isChunkPair |-> FALSE,
               first |-> Offset(head, start), second |-> 0, active |-> rows * ROW_BLOCKS]
  /\ batch' = [kind |-> "single", head |-> head, start |-> start, rows |-> rows, heads |-> 1]

QueueDelayedPairOutput(head, start, rows) ==
  /\ head + 2 <= Heads /\ start + rows <= t
  /\ ready' = [valid |-> TRUE, isPair |-> TRUE, isChunkPair |-> FALSE,
               first |-> Offset(head, start), second |-> Offset(head + 1, start),
               active |-> rows * ROW_BLOCKS]
  /\ batch' = [kind |-> "pair", head |-> head, start |-> start, rows |-> rows, heads |-> 2]

QueueDelayedChunkPairOutput(head, start, heads) ==
  /\ head + heads <= Heads /\ start + 2 * BT <= t
  /\ ready' = [valid |-> TRUE, isPair |-> heads = GATE_HEAD_BATCH, isChunkPair |-> TRUE,
               first |-> Offset(head, start),
               second |-> IF heads = GATE_HEAD_BATCH THEN Offset(head + 1, start) ELSE 0,
               active |-> TWO_CHUNK_HEAD_BLOCKS]
  /\ batch' = [kind |-> "chunkPair", head |-> head, start |-> start, rows |-> 2 * BT,
               heads |-> heads]

Queue ==
  /\ ~ready.valid
  /\ \E head \in 0 .. Heads - 1, start \in Starts :
       \/ \E rows \in RowCounts : \/ QueueDelayedSingleOutput(head, start, rows)
                                  \/ QueueDelayedPairOutput(head, start, rows)
       \/ \E heads \in {1, 2} : QueueDelayedChunkPairOutput(head, start, heads)
  /\ copies' = {}
  /\ UNCHANGED t

-----------------------------------------------------------------------------
(* Launching it *)

\* A run of len blocks from block src of the UB tensor to block dst of GM.
Run(src, dst, len) == [src |-> src, dst |-> dst, len |-> len]

\* static_cast<uint16_t>
UInt16(n) == n % 65536

\* DataCopy with blockCount = 2, srcStride = 0 and a 16-bit dstStride, the
\* gap between two destination blocks.
Strided(len, stride) ==
  {Run(0, ready.first, len), Run(len, ready.first + len + UInt16(stride), len)}

\* dstStrideBlocks of a batch whose heads are len blocks long.
DstStride(len) == t * ROW_BLOCKS - len

\* Seeded fault of Fits: one block more than the field holds.
FitsOneMore(stride) == stride >= 0 /\ stride <= MAX_DATA_COPY_STRIDE + 1

Fits(stride) == stride >= 0 /\ stride <= MAX_DATA_COPY_STRIDE

\* The commands LaunchReadyOutput() issues for a chunk pair, a pair, a head.
ChunkPairCopies ==
  LET len == TWO_CHUNK_HEAD_BLOCKS
  IN  IF ~ready.isPair THEN {Run(0, ready.first, len)}
      ELSE IF Fits(DstStride(len)) THEN Strided(len, DstStride(len))
      ELSE {Run(0, ready.first, len), Run(len, ready.second, len)}

PairCopies ==
  LET len == FULL_HEAD_BLOCKS
  IN  IF ready.active = len /\ Fits(DstStride(len)) THEN Strided(len, DstStride(len))
      ELSE {Run(0, ready.first, ready.active), Run(len, ready.second, ready.active)}

SingleCopies == {Run(0, ready.first, ready.active)}

\* Seeded fault of LaunchReadyOutput: the flags of the record are kept.
LaunchKeepingFlags ==
  /\ ready.valid
  /\ copies' = IF ready.isChunkPair THEN ChunkPairCopies
               ELSE IF ready.isPair THEN PairCopies
               ELSE SingleCopies
  /\ ready' = [ready EXCEPT !.valid = FALSE]
  /\ UNCHANGED <<t, batch>>

LaunchReadyOutput ==
  /\ ready.valid
  /\ copies' = IF ready.isChunkPair THEN ChunkPairCopies
               ELSE IF ready.isPair THEN PairCopies
               ELSE SingleCopies
  /\ ready' = [ready EXCEPT !.valid = FALSE, !.isPair = FALSE, !.isChunkPair = FALSE]
  /\ UNCHANGED <<t, batch>>

Next == Queue \/ LaunchReadyOutput

Spec == Init /\ [][Next]_vars

-----------------------------------------------------------------------------
(* Properties *)

\* A recorded batch is described by the record, whatever the record held
\* before, and no mark of a pair outlives its launch.
Recorded ==
  /\ ready.valid =>
       /\ ready.isPair <=> batch.heads = GATE_HEAD_BATCH
       /\ ready.isChunkPair <=> batch.kind = "chunkPair"
       /\ ready.first = Offset(batch.head, batch.start)
       /\ ready.isPair => ready.second = Offset(batch.head + 1, batch.start)
       /\ ready.active = batch.rows * ROW_BLOCKS
  /\ ~ready.valid => ~ready.isPair /\ ~ready.isChunkPair

\* Where the tile of head i of the batch lies in the UB tensor: the Vector
\* stage writes heads a full tile (two for a chunk pair) apart.
Source(i) ==
  i * (IF batch.kind = "chunkPair" THEN TWO_CHUNK_HEAD_BLOCKS ELSE FULL_HEAD_BLOCKS)

\* What has to be moved: for every head its rows, to their place in GM.
Wanted ==
  {Run(Source(i), Offset(batch.head + i, batch.start), batch.rows * ROW_BLOCKS)
     : i \in 0 .. batch.heads - 1}

\* Whichever commands a launch has chosen, and whatever the batch before it
\* was, the rows of every head of the batch go to their own place, whole, and
\* nothing else is written.
CopiedRight == batch # NoBatch /\ ~ready.valid => copies = Wanted
=============================================================================
