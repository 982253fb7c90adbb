------------------------------ MODULE KktSchedule ------------------------------
(***************************************************************************)
(* Which task every group works on, round by round.  A task is a chunk and *)
(* a KV head: taskId = chunkId * hg + kvHeadId.                            *)
(*                                                                         *)
(* The AIC asks ScheduledTaskCount and ScheduledTaskId for each round.     *)
(* Its two AIVs do not: each walks through the tasks of the group with     *)
(* cursors of its own, in one of four loops (ProcessCyclic,                *)
(* ProcessGroupAligned, ProcessGroupAlignedR3, ProcessChunkLocalR34), and  *)
(* the two with R = 3 take two neighbouring full chunks at once.  Nothing  *)
(* at run time compares the two sides; the cross-core protocol works only  *)
(* if they agree.  This module is the walk of one AIV lane of one group,   *)
(* for a shape the Host has accepted.                                      *)
(***************************************************************************)
EXTENDS KktTiling, Sequences

CONSTANT Shapes   \* the shapes to check, each with the set `short` of its
                  \* chunks of fewer than BT rows

ShapeType == [b : Nat, t : Nat, h : Nat, hg : Nat, kDim : Nat, numChunks : Nat,
              aicNum : Nat, short : SUBSET Nat]

ASSUME ScheduleAssumption == \A shape \in Shapes : shape \in ShapeType /\ Accepted(shape)

CHAMP_SHALLOW_MANUAL_TASK_MIN == 80
CHAMP_DEEP_MANUAL_TASK_MAX == 400
CHAMP_GROUP_ALIGNED_LARGE_ROLLBACK == 400

-----------------------------------------------------------------------------
(* The AIC's side: constant operators over the tiling data *)

UseChampionGroupAlignedSchedule(tiling) ==
  /\ tiling.totalTaskCount <= CHAMP_GROUP_ALIGNED_LARGE_ROLLBACK
  /\ tiling.numRepeat \in {3, 4}
  /\ tiling.hg > 0 /\ tiling.blockDim > 0
  /\ tiling.blockDim % tiling.hg = 0
  /\ \/ /\ tiling.hg = 2
        /\ tiling.totalTaskCount > CHAMP_SMALL_TASK_MAX
        /\ tiling.totalTaskCount <= CHAMP_MEDIUM_TASK_MAX
     \/ /\ tiling.blockDim = CHAMP_GROUP_ALIGNED_CORE_COUNT
        /\ tiling.totalTaskCount > CHAMP_SHALLOW_MANUAL_TASK_MIN
        /\ \/ tiling.hg = 16 /\ tiling.totalTaskCount <= CHAMP_DEEP_MANUAL_TASK_MAX
           \/ /\ tiling.hg = 8 /\ tiling.numRepeat = 4
              /\ tiling.totalTaskCount <= CHAMP_SHORT_MANUAL_TASK_MAX

GroupAligned(tiling) == UseChampionGroupAlignedSchedule(tiling)
ChunkLocal(tiling) == ~GroupAligned(tiling) /\ tiling.numRepeat = 3

NumChunks(tiling) == tiling.totalTaskCount \div tiling.hg

\* The group-aligned assignment: the chunks of a KV head are split evenly
\* among its cores, the first extraChunks of them taking one more.
CoresPerKvGroup(tiling) == tiling.blockDim \div tiling.hg
ChunksPerCore(tiling) == NumChunks(tiling) \div CoresPerKvGroup(tiling)
ExtraChunks(tiling) ==
  NumChunks(tiling) - ChunksPerCore(tiling) * CoresPerKvGroup(tiling)
KvHeadOfGroup(tiling, g) == g \div CoresPerKvGroup(tiling)
CoreInKvGroup(tiling, g) == g % CoresPerKvGroup(tiling)
ChunkStart(tiling, g) ==
  LET core == CoreInKvGroup(tiling, g)
  IN  core * ChunksPerCore(tiling) + MinI32(core, ExtraChunks(tiling))
AlignedCount(tiling, g) ==
  ChunksPerCore(tiling) + (IF CoreInKvGroup(tiling, g) < ExtraChunks(tiling) THEN 1 ELSE 0)

\* The chunk-local assignment: contiguous ranges of the head-major order.
Begin(tiling, g) == (tiling.totalTaskCount * g) \div tiling.blockDim

\* Seeded fault of ScheduledTaskCount: the remainder is dropped.
ScheduledTaskCountFloor(tiling, g) ==
  IF GroupAligned(tiling) THEN ChunksPerCore(tiling)
  ELSE IF ChunkLocal(tiling) THEN Begin(tiling, g + 1) - Begin(tiling, g)
  ELSE tiling.totalTaskCount \div tiling.blockDim

ScheduledTaskCount(tiling, g) ==
  IF GroupAligned(tiling) THEN AlignedCount(tiling, g)
  ELSE IF ChunkLocal(tiling) THEN Begin(tiling, g + 1) - Begin(tiling, g)
  ELSE IF g >= tiling.totalTaskCount THEN 0
  ELSE (tiling.totalTaskCount - 1 - g) \div tiling.blockDim + 1

TaskId(tiling, chunk, head) == chunk * tiling.hg + head

ScheduledTaskId(tiling, g, round) ==
  IF GroupAligned(tiling)
  THEN TaskId(tiling, ChunkStart(tiling, g) + round, KvHeadOfGroup(tiling, g))
  ELSE IF ChunkLocal(tiling)
  THEN LET ordinal == Begin(tiling, g) + round
       IN  TaskId(tiling, ordinal % NumChunks(tiling), ordinal \div NumChunks(tiling))
  ELSE g + round * tiling.blockDim

-----------------------------------------------------------------------------
(* The AIV's side: the walk *)

VARIABLES
  shape, group, lane,   \* what is walked, fixed from the start
  position,    \* tasks of the walk behind it: the loop cursor of each walk
               \* (taskId, chunkId or ordinal) counted from its start
  kvHeadId,    \* KV head of the next task (ProcessChunkLocalR34 carries it)
  chunkId,     \* chunk of the next task
  localRound,
  log          \* what the walk has handed to the task bodies, oldest first

given == <<shape, group, lane>>
vars  == <<given, position, kvHeadId, chunkId, localRound, log>>

tiling == Tiling(shape)
Walk == IF GroupAligned(tiling)
        THEN IF tiling.numRepeat = 3 THEN "GroupAlignedR3" ELSE "GroupAligned"
        ELSE IF tiling.numRepeat = 3 THEN "ChunkLocal" ELSE "Cyclic"

\* localTaskCount as the contiguous walks compute it.
LocalTaskCount ==
  IF Walk = "ChunkLocal" THEN Begin(tiling, group + 1) - Begin(tiling, group)
  ELSE AlignedCount(tiling, group)

Init ==
  /\ shape \in Shapes
  /\ group \in 0 .. BlockDim(shape) - 1
  /\ lane \in Lane
  /\ position = 0
  /\ kvHeadId = CASE Walk = "Cyclic"     -> group % tiling.hg
                  [] Walk = "ChunkLocal" -> Begin(tiling, group) \div NumChunks(tiling)
                  [] OTHER               -> KvHeadOfGroup(tiling, group)
  /\ chunkId = CASE Walk = "Cyclic"     -> group \div tiling.hg
                 [] Walk = "ChunkLocal" -> Begin(tiling, group) % NumChunks(tiling)
                 [] OTHER               -> ChunkStart(tiling, group)
  /\ localRound = 0
  /\ log = << >>

\* Seeded fault of CanFuseAdjacentFullChunks: only the first is tested.
CanFuseFirstOnly(first) == first \notin shape.short

\* CanFuseAdjacentFullChunks(): two full chunks in a row.
CanFuseAdjacentFullChunks(first) ==
  first \notin shape.short /\ first + 1 \notin shape.short

\* The heads a task body writes for its KV head, and those of the fused body
\* (<false>: one head from 0, <true>: GATE_HEAD_BATCH heads from 1).
HeadsOf(kv, repeats) == {kv * tiling.numRepeat + r : r \in repeats}
FusedRepeats == IF lane = 0 THEN {0} ELSE 1 .. GATE_HEAD_BATCH

Entry(task, round, reuse, fused, repeats) ==
  [task |-> task, round |-> round, reuse |-> reuse, fused |-> fused,
   heads |-> HeadsOf(kvHeadId, repeats)]

\* Seeded fault of Reuse: one round too late.
ReuseLate(round) == round + 1 < LocalTaskCount

\* localRound + SLOT_COUNT < localTaskCount
Reuse(round) == round + SLOT_COUNT < LocalTaskCount

Pipeline(task, reuse) ==
  log' = Append(log, Entry(task, localRound, reuse, FALSE,
                           LaneRepeats(tiling.numRepeat, lane)))

AdjacentFullChunks ==
  log' = log \o
    << Entry(TaskId(tiling, chunkId, kvHeadId), localRound, Reuse(localRound),
             TRUE, FusedRepeats),
       Entry(TaskId(tiling, chunkId + 1, kvHeadId), localRound + 1,
             Reuse(localRound + 1), TRUE, FusedRepeats) >>

\* One round of ProcessCyclic.
StepCyclic ==
  LET task == group + position * tiling.blockDim
      next == task + tiling.blockDim
  IN  /\ Walk = "Cyclic"
      /\ task < tiling.totalTaskCount
      /\ Pipeline(task, task + SLOT_COUNT * tiling.blockDim < tiling.totalTaskCount)
      /\ position' = position + 1
      /\ localRound' = localRound + 1
      /\ kvHeadId' = next % tiling.hg
      /\ chunkId' = next \div tiling.hg
      /\ UNCHANGED given

\* One round of ProcessGroupAligned.
StepGroupAligned ==
  LET task == ScheduledTaskId(tiling, group, localRound)
  IN  /\ Walk = "GroupAligned"
      /\ localRound < AlignedCount(tiling, group)
      /\ Pipeline(task, Reuse(localRound))
      /\ position' = position + 1
      /\ localRound' = localRound + 1
      /\ chunkId' = chunkId + 1
      /\ UNCHANGED <<given, kvHeadId>>

\* One turn of ProcessGroupAlignedR3: two chunks while both are full and
\* inside the range of the group, else one.
StepGroupAlignedR3 ==
  LET fuse == position + 1 < LocalTaskCount /\ CanFuseAdjacentFullChunks(chunkId)
      taken == IF fuse THEN 2 ELSE 1
  IN  /\ Walk = "GroupAlignedR3"
      /\ position < LocalTaskCount
      /\ IF fuse THEN AdjacentFullChunks
         ELSE Pipeline(TaskId(tiling, chunkId, kvHeadId), Reuse(localRound))
      /\ position' = position + taken
      /\ localRound' = localRound + taken
      /\ chunkId' = chunkId + taken
      /\ UNCHANGED <<given, kvHeadId>>

MayFuseInHead(chunk) == chunk + 1 < NumChunks(tiling)

\* Seeded fault of NextHead: the head is not advanced at the wrap.
NextHeadSame(chunk) == kvHeadId

\* The wrap to the next KV head.
NextHead(chunk) == IF chunk >= NumChunks(tiling) THEN kvHeadId + 1 ELSE kvHeadId
NextChunk(chunk) == IF chunk >= NumChunks(tiling) THEN chunk - NumChunks(tiling) ELSE chunk

\* One turn of ProcessChunkLocalR34.
StepChunkLocal ==
  LET fuse == /\ position + 1 < LocalTaskCount
              /\ MayFuseInHead(chunkId)
              /\ CanFuseAdjacentFullChunks(chunkId)
      taken == IF fuse THEN 2 ELSE 1
  IN  /\ Walk = "ChunkLocal"
      /\ position < LocalTaskCount
      /\ IF fuse THEN AdjacentFullChunks
         ELSE Pipeline(TaskId(tiling, chunkId, kvHeadId), Reuse(localRound))
      /\ position' = position + taken
      /\ localRound' = localRound + taken
      /\ kvHeadId' = NextHead(chunkId + taken)
      /\ chunkId' = NextChunk(chunkId + taken)
      /\ UNCHANGED given

Step == StepCyclic \/ StepGroupAligned \/ StepGroupAlignedR3 \/ StepChunkLocal

\* The loop condition of the walk is false.
Done == IF Walk = "Cyclic"
        THEN group + position * tiling.blockDim >= tiling.totalTaskCount
        ELSE position >= LocalTaskCount

Finished == Done /\ UNCHANGED vars

Next == Step \/ Finished
Spec == Init /\ [][Next]_vars

-----------------------------------------------------------------------------
(* Properties *)

TypeOK ==
  /\ kvHeadId \in 0 .. tiling.hg
  /\ chunkId \in Nat
  /\ localRound \in Nat
  /\ \A i \in DOMAIN log : log[i].task \in 0 .. tiling.totalTaskCount - 1

\* Round by round the lane works on the task the AIC produces in that round,
\* and a walk that ends has taken every round of the AIC.
WalkFollowsAic ==
  /\ Len(log) <= ScheduledTaskCount(tiling, group)
  /\ \A i \in DOMAIN log :
       /\ log[i].round = i - 1
       /\ log[i].task = ScheduledTaskId(tiling, group, i - 1)
  /\ Done => Len(log) = ScheduledTaskCount(tiling, group)

\* The lane returns a slot exactly when the AIC has a later round that will
\* wait for it, whichever of the loops computed willReuseSlot.
ReuseFollowsAic ==
  \A i \in DOMAIN log :
    log[i].reuse <=> i - 1 + SLOT_COUNT < ScheduledTaskCount(tiling, group)

\* A fused step is two full neighbouring chunks of one KV head, and writes
\* the heads the lane would have written one chunk at a time.
FusedAreNeighbours ==
  \A i \in DOMAIN log :
    log[i].fused =>
      /\ log[i].task \div tiling.hg \notin shape.short
      /\ \E j \in {i - 1, i + 1} \cap DOMAIN log :
           /\ log[j].fused
           /\ log[i].task - log[j].task = (i - j) * tiling.hg
           /\ log[j].heads = log[i].heads
      /\ log[i].heads = HeadsOf(log[i].task % tiling.hg, LaneRepeats(3, lane))

\* Over all groups every task is computed exactly once: none is left out, no
\* two groups share one, no group takes one in two of its rounds.
TasksPartitioned ==
  log = << >> /\ group = 0 =>
    LET groups == 0 .. tiling.blockDim - 1
        rounds(g) == 0 .. ScheduledTaskCount(tiling, g) - 1
        owned == [g \in groups |-> {ScheduledTaskId(tiling, g, r) : r \in rounds(g)}]
    IN  /\ UNION {owned[g] : g \in groups} = 0 .. tiling.totalTaskCount - 1
        /\ \A g1, g2 \in groups : g1 # g2 => owned[g1] \cap owned[g2] = {}
        /\ \A g \in groups : \A r1, r2 \in rounds(g) :
             r1 # r2 => ScheduledTaskId(tiling, g, r1) # ScheduledTaskId(tiling, g, r2)

\* Every launched group has a core to itself and the workspace of every group
\* lies inside what the Host reserved: mode-2 flags need all of it resident.
GroupsResident ==
  /\ tiling.blockDim <= shape.aicNum
  /\ (group * SLOT_COUNT + SLOT_COUNT) * KKT_SLOT_ELEMS <= WorkspaceElems(shape)

-----------------------------------------------------------------------------
(* Two statements of the repository the code does not meet *)

\* "Keep the borrowed scheduling scope narrow to the R=3/R=4 workloads for
\* which it is selected by Host tiling" (chunk_scaled_dot_kkt.h:66-68).
AlignedOnlyWhereSelected ==
  GroupAligned(tiling) =>
    UseFullAlignedGh2K256Hpg4BlockDim(shape) \/ UseGroupAlignedBlockDim(shape)

\* srcDValue of CopyOnePackedOperand(): the row stride of K, a uint16_t.
SrcDValue == (tiling.hg * shape.kDim) % 65536

\* Where the copy of a task reads row i of its chunk.
CopiedRow(start, kv, i) == (start * tiling.hg + kv) * shape.kDim + i * SrcDValue

\* README.md:23-26: within B = 1, K in {128, 256} and H % Hg = 0 row i of the
\* Gram is made of K[s+i, kvHead, :].
RowsAreOwn ==
  \A kv \in 0 .. tiling.hg - 1, i \in 0 .. BT - 1 :
    CopiedRow(BT * chunkId, kv, i) = ((BT * chunkId + i) * tiling.hg + kv) * shape.kDim
=============================================================================
