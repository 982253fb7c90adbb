------------------------------- MODULE KktTiling -------------------------------
(***************************************************************************)
(* The Host side: ChunkScaledDotKktTilingFunc checks the input shapes and  *)
(* chooses how many MIX groups run (op_host/                               *)
(* chunk_scaled_dot_kkt_tiling.cpp).  Constant operators over a shape      *)
(*                                                                         *)
(*   [b, t, h, hg, kDim, numChunks, aicNum]                                *)
(*                                                                         *)
(* aicNum being the AIC cores of the platform.                             *)
(***************************************************************************)
EXTENDS KktTask

CHAMP_WORKSPACE_SLOT_COUNT == 4
CHAMP_MANUAL_MIX_CORE_COUNT == 20
CHAMP_GROUP_ALIGNED_CORE_COUNT == 16
CHAMP_DEEP_PIPELINE_TASKS_PER_CORE == 20
CHAMP_SMALL_TASK_MAX == 32
CHAMP_SHORT_MANUAL_TASK_MAX == 256
CHAMP_MEDIUM_TASK_MAX == 512
CHAMP_SMALL_TASK_BLOCK_DIM == 8

KKT_SLOT_ELEMS == BT * BT

\* ValidateAndReadShape(): what the Host accepts (beta and g_cumsum agree
\* with k by the shape record having one t and one h).
Accepted(shape) ==
  /\ shape.b = 1
  /\ shape.t > 0 /\ shape.h > 0 /\ shape.hg > 0
  /\ shape.kDim \in {128, 256}
  /\ shape.h % shape.hg = 0
  /\ shape.numChunks >= 1
  /\ shape.aicNum > 0

TotalTaskCount(shape) == shape.numChunks * shape.hg
HeadPerGroup(shape) == shape.h \div shape.hg
AllChunksFull(shape) == shape.t = shape.numChunks * BT

ShallowManualTaskMin == CHAMP_MANUAL_MIX_CORE_COUNT * CHAMP_WORKSPACE_SLOT_COUNT
DeepManualTaskMax == CHAMP_MANUAL_MIX_CORE_COUNT * CHAMP_DEEP_PIPELINE_TASKS_PER_CORE

MaxI(a, b) == IF a < b THEN b ELSE a

UseFullAlignedGh2K256Hpg4BlockDim(shape) ==
  /\ shape.hg = 2 /\ shape.kDim = 256 /\ HeadPerGroup(shape) = 4
  /\ TotalTaskCount(shape) > ShallowManualTaskMin
  /\ TotalTaskCount(shape) <= DeepManualTaskMax
  /\ AllChunksFull(shape)

UseGroupAlignedBlockDim(shape) ==
  LET tasks == TotalTaskCount(shape)
      ratio == HeadPerGroup(shape)
  IN  /\ shape.kDim = 128
      /\ \/ /\ shape.hg = CHAMP_GROUP_ALIGNED_CORE_COUNT
            /\ ratio \in {3, 4}
            /\ tasks > ShallowManualTaskMin
            /\ tasks <= DeepManualTaskMax
         \/ /\ shape.hg = 8
            /\ ratio = 4
            /\ tasks > ShallowManualTaskMin
            /\ tasks <= CHAMP_SHORT_MANUAL_TASK_MAX
         \/ /\ shape.hg = 2
            /\ ratio = 4
            /\ tasks > DeepManualTaskMax
            /\ tasks <= CHAMP_MEDIUM_TASK_MAX
            /\ ~AllChunksFull(shape)

SelectedBlockDim(shape) ==
  IF TotalTaskCount(shape) <= CHAMP_SMALL_TASK_MAX
  THEN CHAMP_SMALL_TASK_BLOCK_DIM
  ELSE IF UseFullAlignedGh2K256Hpg4BlockDim(shape) \/ UseGroupAlignedBlockDim(shape)
       THEN CHAMP_GROUP_ALIGNED_CORE_COUNT
       ELSE MaxI(1, MinI32(shape.aicNum, TotalTaskCount(shape)))

\* Seeded fault of BlockDim: the 8/16-group policy is not clamped.
BlockDimUnclamped(shape) == SelectedBlockDim(shape)

\* MIX groups launched: the policy's choice, clamped to the cores there are.
BlockDim(shape) == MaxI(1, MinI32(shape.aicNum, SelectedBlockDim(shape)))

\* Elements of userWorkspace.
WorkspaceElems(shape) == BlockDim(shape) * SLOT_COUNT * KKT_SLOT_ELEMS

\* ChunkScaledDotKktTilingData as the kernel reads it.
Tiling(shape) ==
  [totalTaskCount |-> TotalTaskCount(shape), t |-> shape.t, hg |-> shape.hg,
   blockDim |-> BlockDim(shape), numRepeat |-> HeadPerGroup(shape)]
=============================================================================
