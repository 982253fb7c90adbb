# Verification of `chunk_scaled_dot_kkt`

TLA+ models, TLC runs and TLAPS proofs about the AscendC operator in this
repository. For a sequence cut into chunks of at most 64 tokens the operator
computes, for every query head `h` and chunk `[s, e)`,

    G[i,j]     = dot(K[s+i, kvHead], K[s+j, kvHead])
    A[h,s+i,j] = beta[h,s+i] * exp(g[h,s+i] - g[h,s+j]) * G[i,j]   if g[h,s+i] < g[h,s+j]
               = 0                                                 otherwise, and for j >= e - s

on groups of one AIC (Cube) and two AIV (Vector) cores. Almost all that can go
wrong in it is order: the asynchronous pipes of three cores hand buffers to each
other through hardware events and cross-core flags, two enumerations of the tasks must agree without ever talking, and the output of a
batch leaves a core while the next batch is being computed. None of this shows
in a functional test that happens to be lucky with its timing. The repository
also keeps the four milestones the operator went through (`versions/`), each with
a protocol of its own, and the program that tests it on the device; the later
milestones and the test program are modelled here too.

Line numbers below are those of `op_kernel/chunk_scaled_dot_kkt.h` unless
another file is named.

## 1. The system

| Component | State | Operations | Modelled in |
|---|---|---|---|
| Cross-core slot protocol | two workspace slots per group, READY and FREE flag of each slot, per lane | `CrossCoreWaitFlag`/`CrossCoreSetFlag<2, PIPE>` in both stages | `KktPipeline`, `KktHandoff` |
| Cube stage, `PackedGramMmadCubeStageK256` / `K128` | L1 tile, L0A/L0B stages, CO1, ownership events | round loop, `CopyPackedKToSharedL1`, `ComputeGram`/`ComputePart`/`ComputeOneKPart`, `CommitWorkspace`, init and drain of events | `KktCube` |
| Vector stage, `ChunkScaledDotKktVectorStage` | g/beta queues, KKT tile, output queue and delayed-output window, MTE3_S/V_MTE2/MTE2_V events | `ProcessPipelineTask`, `ProcessHeadRange`, `ProcessAdjacentFullChunkR34`, `AcquireOutputSlot`, `LaunchReadyOutput`, `QueueDelayed*Output`, `DrainAllOutputSlots` | `KktVector` |
| Task schedule | loop cursors | `ScheduledTaskCount`, `ScheduledTaskId`, `ProcessCyclic`, `ProcessGroupAligned`, `ProcessGroupAlignedR3`, `ProcessChunkLocalR34` | `KktSchedule` |
| Host tiling, `op_host/chunk_scaled_dot_kkt_tiling.cpp` | tiling data | validation, block dimension policy, workspace size | `KktTiling` |
| Tile arithmetic of the Vector stage | g, beta, KKT, mask and scratch buffers | `PrefetchGateAndBetaBatch`, `BeginLoadKktSlot`, `ZeroTailGateAndBetaBatchSuffix`, `PrepareHead(Pair)Factor`, `FinalizeHead(Pair)WithKkt` | `KktTile` |
| Copy-out descriptors | the record of the delayed output | `QueueDelayed*Output`, `LaunchReadyOutput` | `KktCopyOut` |
| v02 `versions/v02_mix_pipeline_v6_1` | slots, flags, output window, two Vector stages | `Process` of both stages | `KktV02` |
| v03 `versions/v03_direct_mmad_stable` | four-batch output window, prefetch across tasks | `Process` and the task bodies of the Vector stage | `KktV03Vector` |
| v04 `versions/v04_phase_c_chunk_pair` | loop cursors, flags, slots | `ScheduledTask*`, `ProcessCyclic`, `ProcessChunkLocalR34` and the task bodies | `KktV04` |
| Test program, `examples/test_aclnn_chunk_scaled_dot_kkt.cpp` | ACL handles, stream, measurements | `main`, `RunOneCase` | `KktHarness` |
| v01, v03's Cube stage, shape inference, smoke test, trace tools, scripts | | | not modelled, section 9 |

How they interact:

- The Host chooses `blockDim`, the number of groups, and the kernel's tiling
  data. AIC and AIVs read the same data and *independently* enumerate the tasks
  `(KV head, chunk)` of their group. A task is a *local round* of the group.
- In a round the AIC brings the chunk's K to L1, multiplies it with itself into
  CO1 and writes the 64x64 Gram to workspace slot `localRound & 1`. From round
  2 on it first waits for FREE of that slot. Then it sets READY. Both are
  queued on `PIPE_FIX`.
- Each lane prefetches g/beta of its first batch of heads, waits for READY,
  issues the copy of the Gram, computes the exponent factors of the batch while
  the copy is under way, returns FREE on `PIPE_MTE2` if the AIC will use the
  slot again, and multiplies. With R = H/Hg >= 2 the lanes split the heads of
  the KV head; with R = 1 they split the rows.
- The finished tile of a batch is not copied out at once: the next batch
  launches it after its own first vector stage. Two output buffers rotate.

Behaviours that are hard: reuse of every buffer by a later round while an
earlier one is still on another pipe; a scalar unit that runs ahead of its
pipes; flags that must balance over lanes without rows and malformed chunks;
four loops that each compute `willReuseSlot` with their own bounds; the
delayed output at the end of a walk; the borders of heads, ranges and
thresholds in the schedule. `PROJECT.json` lists them at their lines with the
properties that would catch them going wrong.

## 2. The modules

| Module | What it is |
|---|---|
| `KktTask` | arithmetic shared by all: slots, lanes, valid chunks, rows and heads of a lane |
| `KktHandoff` | abstract specification: Grams are handed to both lanes in order, at most two rounds ahead |
| `KktPipeline` | the flag protocol of a group, copies and Fixpipe in time; implements `KktHandoff` |
| `KktPipes` | in-order pipes as queues of operations with waits, sets, reads and writes, counting events |
| `KktCube` | the AIC of a group, both variants; each pipe is at a place in its own program |
| `KktVector` | one AIV lane: the scalar unit and each pipe is at a place of the same program |
| `KktTile` | the vector instructions of a batch, element by element in UB |
| `KktCopyOut` | the record of a delayed output and the DataCopy commands made of it |
| `KktTiling` | the Host's operators over a shape |
| `KktSchedule` | the AIC's task enumeration as operators, the AIVs' walks as a state machine |
| `KktV02` | v02: AIC, slots and one lane, with either of its two Vector stages |
| `KktV03Vector` | v03: one AIV lane, on `KktPipes` |
| `KktV04` | v04: schedule, walks and slot protocol of a group composed; implements `KktPipeline` |
| `KktHarness` | the test program's resources, launches, measurement and exit code |
| `KktPipelineProofs`, `KktCubeProofs`, `KktVectorProofs`, `KktTileProofs`, `KktScheduleProofs`, `KktCopyOutProofs`, `KktV04Proofs`, `KktHarnessProofs` | the theorems about the module they are named after |
| `MC*` | instances for TLC |

`KktCube` and `KktVector` are the two stages; each sees the other
side as the part of the slot protocol it talks to (`TakeReady`/`ReleaseSlot` in
`KktCube`, `AicRound` in `KktVector`). `KktPipeline` is the protocol with both
sides and nothing else. `KktSchedule` extends `KktTiling`. What one module
assumes of another is checked in the other: that AIC and lanes have the same
rounds is `WalkFollowsAic`; that FREE follows the copy and READY the Fixpipe
is what `KktPipeline` is about; that a copy-out is one operation to the right
place, which `KktVector` takes for granted, is `CopiedRight`; that a tile is a
function of one batch of g/beta and one Gram is `TileRight`. `KktV04` puts
schedule, walks, flags and slots into one state machine, where a walk that left
the schedule would show as a Gram of another task. The schedules of v04 are two of the four
of the root tree (which adds the group-aligned ones); its Cube and Vector
stages are the same code as the root's.

### From code to model

A core's scalar unit only issues work, so each statement of the kernel becomes
an *issue* in program order and an *execution* on its pipe some time later.

- `KktPipeline`: the AIC scalar is `IssueRound` (`Process`, 352-424), `PIPE_FIX`
  is `StartCommit`, `FinishCommit`, `SetReady`; a lane's scalar is `TakeReady`,
  its `PIPE_MTE2` is `StartLoad`, `FinishLoad`, `ReleaseSlot`. A slot in the
  middle of a Fixpipe holds `Torn`; a copy whose slot changed under it brings
  `Torn`.
- `KktCube`: `StartRound` issues the first half of a loop iteration up to the
  FREE wait, `FinishRound` the second half, `DrainPersistentEvents` the
  epilogue. What a round issues to a pipe is known from the round, so a pipe is its
  round, the part it is at and what it does there (`mte1Round`, `mte1Part`, `mte1Pc`);
  it goes on while the scalar has issued that round. Copies, loads, products and
  commits have a start and an end, events are counters. `kDim` selects the class: K256 takes all four L0 stages back with
  one `M_MTE1` drain per task (598-605), K128 has an event per stage and operand that is
  set before (2699) and drained after (2707) every round, malformed ones
  included. Buffers hold the origin of their data: L1 and the stages the rounds whose
  rows are in them, CO1 and a slot the parts accumulated with the rows of both operands.
- `KktVector`: the scalar unit is at `localRound`, `batch`, `pc`; it has an action
  for each place of the kernel at which it may have to stop (`WaitReady`, a queue, an
  output slot), and `ProcessBatch` is all it does from there to the end of the
  batch. What a batch issues to a pipe is known from the batch, so MTE2 and V have a
  place of their own in the same program (`mteRound`, `mteBatch`, `mtePc`; `vRound`,
  `vBatch`, `vPc`) and counters of the batches done, compared with those issued
  (`fetched`, `dequeued`, `computed`). Loads, vector stages and copies have a start and
  an end; PIPE_MTE3 works on the list of issued `copies`. `gate`, `kkt`, `out`, `gm`
  hold the round and heads a buffer's content belongs to. The two queues of g
  and beta are always used together and are one queue here. Which neighbouring
  full chunks are fused is chosen freely in `Init` (R = 3 only), which covers
  both walks that fuse.
- `KktSchedule`: one action per walk, one step per loop iteration; `log` records
  what the walk hands to the task bodies. `shape.short` are the chunks that are
  not full.

- `KktTile`: the batches of one task, one or two heads each (`batchCount`), of which the
  first loads KKT and the others find it. There is one action per vector instruction and
  `PipeBarrier<PIPE_V>`; `Program` has the instructions of a batch in program order, the
  copy of the pair path and that of the single path being one. An element is its origin:
  the factors multiplied into it and the exponent they stand for, or zero, infinite, NaN,
  or `Old`. An instruction writes the elements it computes `Over` what a buffer holds.
  What is in a buffer before the batch is `Old`, and so is for a reader everything
  written since the last barrier (`dirty`): two instructions of the vector pipe may
  overlap. `Old` in a finished tile is a violation.
- `KktCopyOut`: one action per `QueueDelayed*Output`, and `LaunchReadyOutput`; a
  command is a set of (from, to, length) runs in blocks of 32 bytes, the stride
  cut to 16 bits as in the descriptor.
- `KktV02`, `KktV03Vector`: what the scalar unit issues is put as operations into the
  queues of `KktPipes`, and each pipe takes the first of its own. v02's two headers differ in the order of prefetch, READY, FREE and
  copy-out, which is a constant choice of `Init` (`v6_1`, the header the kernel
  includes, and `v6_7_1`, which no file includes).
- `KktV04`: `IssueRound` is the AIC scalar, `StartCommit`, `FinishCommit` and `SetReady` its
  `PIPE_FIX`; `TakeCyclic` and `TakeChunkLocal` are a lane's scalar, which walks
  and puts what it takes in `queue`; `StartLoad`, `FinishLoad`, `Release` are
  `PIPE_MTE2`, `Finalize` is `PIPE_V`. `chunkOffsets` are arbitrary integers, read by all
  three cores.
- `KktHarness`: an action per ACL call or block of calls that fails as one; a
  handle is alive as often as it was created and not released; the device takes
  the stream's entries in order, beside the host.

In every module lines with "Seeded fault" are slips one could make in the
definition below them (a dropped guard, an off-by-one, a wrong order). No
specification uses them; `PROJECT.json` names for each property a fault that,
put in the place of the definition, makes TLC find the property violated.

## 3. Assumptions about AscendC

The hardware and its library are not in the repository; they are modelled from
how the kernel uses them (`KktPipes`, marked external, and the same rules written out in
`KktPipeline`, `KktCube`, `KktVector` and `KktV04`).

- A pipe executes its operations one by one, in the order of issue. Different
  pipes of a core are ordered by events only.
- `SetFlag`/`WaitFlag` and the cross-core flags are counters: a wait takes one
  signal. How large they get is a property (`EventRange`, `FlagsBinary`), not an
  assumption.
- `CrossCoreSetFlag<2, PIPE>` takes effect when everything issued to PIPE before
  it is complete. In mode 2 a flag of the AIC reaches both AIVs and a wait of
  the AIC needs both.
- `TQue`: `EnQue`/`DeQue` order the producing pipe before the consuming one,
  `AllocTensor` hands the two buffers out in turn, and a VECIN buffer is loaded
  again after its last reader. Reuse of `outputQueue_` is ordered by the code's own
  MTE3_S events.
- `DataCopyPad` fills a row up to the next 32-byte block and leaves the rest of
  the row's place alone; `Brcb` writes eight rows at a time.
- The Matmul service of v02 works on one request of a worker at a time.
- `FetchEventID` reserves nothing: the ids of the two output slots may coincide
  (`sharedEvent`).

## 4. Properties and runs

The `pipeline` run switches the deadlock check off, because there a system that stops
short of its end is a counterexample to `Termination`, which should report it; all
others have it on.
The end of a module is an explicit stuttering step (`Finished`, `Exited`), so where
no liveness is checked a core that waits for ever is still found. Several runs
check a conjunction of named parts; the parts are defined next to it.

**pipeline** (`MCKktPipeline.cfg`; up to 5 rounds, lengths 0, 32, 33, R = 1)
: `NoSlotRace` the Fixpipe never writes a slot being copied; `OwnGram` a completed
copy is the Gram of the lane's own round; `FlagsBalanced` a finished group leaves
all flags at zero; `IInv` the invariant of the proofs, of which `TypeOK` and
`FlagsBinary` (no flag is set twice before it is consumed, as the comment at 41-42
wants) are consequences; `HandoffSpec` the protocol implements `KktHandoff` under the
refinement mapping at the end of `KktPipeline`, fairness included; `Termination`. 32
leaves lane 1 without rows, 33 gives it one, so that a round has work for both lanes,
for one or for none. Five rounds use each slot at least twice and go past both ends of
the FREE window (rounds 0-1 do not wait, rounds 3-4 do not return). The proofs lift
the bound.

**cube** (`MCKktCube.cfg`; both variants; malformed, tail and full chunks, every
sequence of up to 3 rounds and four of 4)
: `NoBufferRace` no pipe touches a buffer another one is writing, and no slot the lanes
are copying is overwritten; `AnnouncedGram` from READY until the lanes have copied it, a slot holds the
complete Gram of its round: each part once, no row of another chunk, no part of
another accumulation; `EventRange` (with `TypeOK`), `EventsBalanced`; `Termination`.
Three rounds let every buffer be reused by the next round and a slot by the round after
the next, with each of the three kinds of chunk before and after each; the four
of 4 reuse both slots.

**vector** (`MCKktVector.cfg`; either lane; R = 1, 3, 5; malformed, tail and full
chunks, every sequence of up to 2 rounds, four of 3 and one of 4)
: `OutputsRight` every copy that leaves the core carries exactly the tiles its
destination names, each built from its own g/beta and Gram; `NoBufferRace`;
`CompleteAndBalanced`, that is `OutputsExactlyOnce` a finished lane has written each of
its tiles once, and `EventsBalanced`; `BufferProtocol`, that is `TypeOK`, `QueueDepth`,
and `DelayedSlotIsOther` and `OneCopyOutstanding`, the two facts that make the
two-slot window work even when both slots share an event id; `Termination`.
R = 5 gives a lane a second batch of one head; R = 3 gives a light lane (one head), a
heavy lane (a pair) and fusion, with either neighbour when three chunks are full; R = 1
splits the rows. With a third round a slot is returned; four full chunks are two fused
pairs in a row. The fused
body waits for the second READY before it is done with the first chunk.

**schedule** (`MCKktSchedule.cfg`)
: `WalkFollowsAic` in every round the lane works on
the task the AIC produces in that round, and has taken all of them at the end;
`ReuseFollowsAic` it returns FREE exactly when the AIC will wait for it;
`FusedAreNeighbours`; `TasksPartitioned` every task is that of one group in one of its
rounds, and of no other; `GroupsResident`. The shapes are all small R = 3 ones (fewer and
more groups than tasks, every choice of short chunks among the first three) and
shapes on both sides of each threshold of Host and kernel (32, 80, 256, 400, 512
tasks; hg 2, 8, 16; fewer cores than the policy asks for).

**schedule_selection**, **schedule_stride** (`MCKktScheduleSelection.cfg`,
`MCKktScheduleStride.cfg`)
: expect a violation, section 5.

**tile** (`MCKktTile.cfg`; chunk lengths 1 to 64 around the 8- and 16-element blocks,
both kinds of task, up to four heads, so one or two batches of a pair or a single head,
three decays)
: `ZeroWhereMasked` a masked or padded element of
a finished tile is zero, whatever lay in the buffers and however large the
exponentials are; `TileRight` every other one is the product of its own beta,
gates and Gram element, provided its two exponentials are FP32 numbers. Only
chunks of fewer than 64 rows have a suffix to clear; lengths 1, 9, 31, 33, 49, 56,
57 end inside, at and past a block of either type, so that the two suffixes
differ, and either is empty. The third decay leaves the range of the exponential.

**copy_out** (`MCKktCopyOut.cfg`; T on both sides of 8255 and 8319 tokens, where a
stride stops fitting into 16 bits)
: `CopiedRight` a launch moves the rows of every
head to their own place; `Recorded` the record of one batch leaves no trace in the
next.

**v02** (`MCKktV02.cfg`; up to 3 rounds, R = 1, 3, 6)
: `NoBufferRace`; `OutputsRight` (the rows of a tail are packed in the slot and must be
read with the stride they were written with); `CompleteAndBalanced`; `QueueProtocol`,
that is `TypeOK`, `PromptFree` FREE follows the KKT copy and waits for nothing else, and
`WindowOwnsBuffers`. R = 6 gives a lane two batches, so that two are in flight.

**v03_vector** (`MCKktV03Vector.cfg`; up to 3 rounds, R = 1, 8, 10)
: `NoBufferRace`, `OutputsRight`, `CompleteAndBalanced` as for `KktVector`;
`BufferProtocol`, that is `TypeOK`, `GateQueueDepth` and `WindowOwnsBuffers` the
four-batch window owns exactly the buffers that are not free. R = 8 and 10 give a
lane two pairs (prefetch across the task border) and two pairs with a single head;
three such rounds fill the window in the middle of a task.

**v04** (`MCKktV04.cfg`; R = 3 on 1 and 3 AICs, R = 2 on 2 and 3; 2 KV heads; up to 4
chunks: full, tail, empty, too long, beyond T)
: `OwnGram` a tile is multiplied with the Gram of its own task; `CompleteAndBalanced` a
group writes each head of each valid chunk once and nothing else, and leaves the flags
at zero; `ProtocolSpec` the composition implements `KktPipeline`, fairness included,
on the rounds its own schedule gives it, and by the `pipeline` run `KktHandoff`. R = 3
takes the walk that fuses neighbouring full chunks, R = 2 the cyclic one. With one AIC a
group crosses the border of a head, where it must not fuse.

**harness** (`MCKktHarness.cfg`; 3 cases of 5 kinds, a failure at any call)
: `ReleasedOnce` (`TypeOK` and `NothingLeaks`) every handle is released, none twice;
`NothingReleasedInUse` (`ReleasedInOrder` and `LaunchesKeepResources`) only a failed
case lets the device run on when its tensors go; `TimesMeasuredOnly`; `ExitTells` exit
code 0 means that every case has earned its OK. Three cases let a failed one
follow and precede a good one.

`TypeOK` of `KktPipeline` has no bound on flags below, so it also says that no wait ever
takes a signal that was not there; `TypeOK` of `KktSchedule` is proved and not run.

### Fairness

Weak fairness of each scalar unit and each pipe, nothing stronger. A core runs
its instruction stream without preemption and its pipes drain by themselves. That
the three cores of a group run at the same time is not a matter of course: the
Host asks for it with `SetScheduleMode(1)` (`chunk_scaled_dot_kkt_tiling.cpp`
259-267), and clamps `blockDim` to the AIC count (245-250, `GroupsResident`).

`KktV04` has the same. The other modules need no fairness: their properties are
invariants, and the deadlock check finds a core that waits for ever.

## 5. Findings

1. *Row stride of K* (466 and the same statement of K128). `srcDValue` is
   `static_cast<uint16_t>(hg * K)`. For `Hg * K >= 65536` (hg = 256 with K = 256)
   it wraps, and rows of other tokens enter the Gram. Host validation accepts the
   shape and README.md:23 does not exclude it. Run `schedule_stride` shows
   `RowsAreOwn` violated.
2. *Scope of the group-aligned schedule* (100). The comment at 66-68 limits it to
   "the R=3/R=4 workloads for which it is selected by Host tiling"; the predicate
   also holds for hg = 2 workloads, at any even `blockDim`, that the Host's policy
   does not select. Run `schedule_selection` shows hg = 2, R = 4, K = 128 with 34
   tasks on 20 cores. Harmless for the result: `schedule` shows that
   AIC and AIVs still agree and every task is computed once.

Observations that are not findings. `exp(g_i) * exp(-g_j)` (2086) is not
`exp(g_i - g_j)` where either factor leaves the FP32 range: with g_i = -150, g_j = -100
it is 0 * inf. README.md:31-32 gives the formula, docs/optimization.md:71-78 a
factorisation centred by a constant; `TileRight` states exactly when the code agrees
with it. Masked and padded elements stay zero even then: that is `ZeroWhereMasked`, and
not obvious, since the Select comes after the overflow and the Gram of a padding column
is multiplied in after that. Where a padding column is not masked, g_i < 0 keeps
exp(g_i) below one. In K128 `PIPE_M` may set the L0 tokens of
round r + 1 before `PIPE_MTE1` has drained those of round r, so an event counter
reaches 2, and with consecutive malformed rounds, where nothing holds `PIPE_M`
back, only the round count bounds it (`EventRange` states exactly this). The
comment at 41-42 promises more only for cross-core flags. The
MTE3_S waits in `AcquireOutputSlot` are correct with a shared id only because at
most one copy is outstanding (`OneCopyOutstanding`).  After a failed launch or synchronisation the harness
releases a case's tensors while earlier launches may still run; its
synchronisation between warm-up and measurement is needed for the wall time only.

## 6. What is proved

Every theorem is about every behaviour of its specification and every value of the
constants; the only assumptions are the named ones of the modules (`PipelineAssumption`
and so on), which say what type a constant has and which shapes the Host accepts. In
each proof module `IInv` is the inductive invariant: none of the properties is
inductive by itself. There is one lemma per action, or per conjunct of the invariant
with one step per action.

`KktPipelineProofs`, for every number of rounds, every assignment of chunk
lengths and every head ratio R >= 1:

| Theorem | Statement |
|---|---|
| `InductiveInvariant` | `SafeSpec => []IInv` |
| `TypeCorrect` | `SafeSpec => []TypeOK` |
| `NoRace` | `SafeSpec => []NoSlotRace` |
| `GramIsOwn` | `SafeSpec => []OwnGram` |
| `FlagsAreBinary`, `FlagsAreBalanced` | `SafeSpec => []FlagsBinary`, `[]FlagsBalanced` |
| `ImplementsHandoff` | every behaviour satisfies `KktHandoff`'s initial predicate and next-state relation |

Whether a slot may be written depends on who has consumed which flag how often.
`IInv` adds

- `ActorOrder`: PIPE_MTE2 <= lane's scalar <= PIPE_FIX <= AIC's scalar <=
  PIPE_MTE2 + 2, in rounds. The last inequality is the protocol: it holds because
  the AIC takes FREE of round r - 2 before it issues round r;
- `ReadyCount`, `FreeCount`: each flag is a function of the distance between the
  two actors it connects (so 0 or 1, and 0 at the end);
- `SlotContent`, `TileContent`: a slot holds the Gram of each announced round
  that some lane still needs.

`SlotAlternates` is the only fact about slots used: neighbouring rounds
use different ones, rounds two apart the same.

`KktCubeProofs`, for both variants and every sequence of chunk lengths, malformed ones
in any place:

| Theorem | Statement |
|---|---|
| `CubeInvariant` | `SafeSpec => []IInv` |
| `CubeRaceFree` | `SafeSpec => []NoBufferRace` |
| `GramIsComplete` | `SafeSpec => []AnnouncedGram` |
| `CubeEventRange`, `CubeEventsBalanced` | `SafeSpec => []EventRange`, `[]EventsBalanced` |

- L1 between MTE2 and MTE1, and CO1 between M and FIX, follow one discipline
  (`OneTile`): of the rounds that are computed, the filler is at most one ahead of the
  user, the "full" token is there exactly while it is ahead, and the "empty" token
  exactly while neither holds the tile. Six lemmas about rounds and counters
  (`BeginFilling` to `PassUsing`) carry it over every step of either pair.
- L0 stages: `stageLoaded` is the number of parts loaded and not yet begun
  (`StageOrder`); who may write a stage next follows for K256 from the drain token of the
  round, for K128 from `StageTokens`: the tokens of a stage are the rounds PIPE_M has
  initialised less those MTE1 has drained, less one while the stage is in use.
- `Contents`: L1 holds the rows of one round while it is owned, a stage those of the
  round that loaded it, CO1 the parts multiplied so far, a slot the Gram of each round
  committed and not yet copied.
- The slots as in `KktPipeline`, with the two lanes as one consumer.

`KktVectorProofs`, for either lane, every sequence of chunk lengths, every head ratio,
every choice of fused chunks, and one or two MTE3_S event ids:

| Theorem | Statement |
|---|---|
| `VectorInvariant` | `SafeSpec => []IInv` |
| `VectorNoBufferRace` | `SafeSpec => []NoBufferRace` |
| `VectorOutputsRight` | `SafeSpec => []OutputsRight` |
| `VectorCompleteAndBalanced` | `SafeSpec => []CompleteAndBalanced` |
| `VectorBufferProtocol` | `SafeSpec => []BufferProtocol` |

Scalar unit, MTE2 and V go through one program, so the invariant numbers its batches
and outputs by their place: `BatchIndex(r, b)` counts the batches of the rounds with work
before (r, b), `OutputIndex` those of the rounds that complete an output (`Closing`: not
the first half of a pair). `IndexOrder` and `IndexUnique` say that these numbers order the
places and tell them apart.

- `ScalarOrder`, `Mte2Order`, `VectorOrder`: each counter is the number of the place its
  owner is at. `Order` says how far two of them may be apart: V is behind the scalar and
  MTE2, MTE2 at most two batches ahead of V, an output is at most two ahead of the copies.
- `GateEvents`, `OutEvents`, `ReadyCount`, `FreeCount`: the n-th batch or output lives in
  buffer n % 2, so that an event of a buffer is 1 exactly if a number between two
  counters has its parity; `CountedFirst` and `CountedLast` move the two ends.
- `Window` and `Copies` are the delayed output. The scalar has acquired at most one output
  more than it enqueued and launched all of them but one; a slot is busy while
  its last output (`LastOutput`) is launched and not waited for. With two event ids an MTE3_S counter says
  whether the copy of its slot is done; with one it is the number of busy slots less the
  copies under way. `Retired` and `LaunchedCopies` carry both readings over an acquire
  and a launch. That one id suffices follows from `acquired - 2 <= copied`.
- `KktTile`: the tile of a round is handed over by V, copied, there, consumed, in this
  order, and `kktEmpty`, `kktFull` mark the two steps between.
- `Contents`: a buffer of g/beta holds the batch of its number while that is not used, the
  KKT tile the round that arrived, an output buffer the tiles of its number until they
  are copied, of the output in progress the half of the pair that is done. `Multiply`
  is the last vector instruction on such a set of tiles.

At the end (`AtTheEnd`) all numbers meet; that each tile has left once is then `IndexUnique`
with `BatchesPartition` (the batches partition the lane's heads) and
`DestinationsApart` (no tile belongs to two outputs).

`KktScheduleProofs`, for every shape the Host accepts (`ScheduleAssumption`), every
group and either lane:

| Theorem | Statement |
|---|---|
| `ScheduleInvariant` | `Spec => []IInv` |
| `WalksAgree` | `Spec => []WalkFollowsAic` |
| `ReturnsAgree` | `Spec => []ReuseFollowsAic` |
| `TasksPartitionedAlways` | `Spec => []TasksPartitioned` |
| `FusedAreNeighboursAlways` | `Spec => []FusedAreNeighbours` |
| `AllGroupsResident` | `Spec => []GroupsResident` |

The AIC divides in every round; the walks add, compare and wrap. `CursorInv` states
that nevertheless `kvHeadId * numChunks + chunkId` is the AIC's ordinal and
`chunkId < numChunks` (chunk-local), or chunk and head are those of the group's
range (group-aligned); for the cyclic walk the task id itself is the cursor.
`DivUnique` then gives quotient and remainder, `CyclicCount` the number of rounds
from the loop condition. `LogInv` carries the result along the log, one entry at a
time for `LogOne`, two for a fused pair in `LogTwo`; `ReuseIsRight` compares each
walk's own bound with the AIC's. The partition is proved policy by policy
(`Covering`, `Injective`): the cyclic one by quotient and remainder, the two with
ranges by the prefix sums `CoreStart` of the chunks a core owns.

`KktCopyOutProofs`, for every T, number of heads, chunk and row count:
`CopiedRightAlways` and `RecordedAlways`. The invariant adds which
batches the Queue actions make (`BatchOK`): the record alone does not say that a
pair's heads are neighbours, which is what lets one descriptor with a stride of T
rows serve both. `LaunchIsRight` goes through the five kinds of command;
`StridedIsTwoRuns` says that below the limit the 16-bit stride is the stride.

`KktV04Proofs`, for every shape, number of cores and list of chunk offsets:

| Theorem | Statement |
|---|---|
| `V04Invariant` | `Spec => []IInv` |
| `ImplementsProtocol` | `Spec => Protocol!SafeSpec`: every step is one of `KktPipeline` or a stutter |
| `GramIsOwn` | `Spec => []OwnGram` |
| `GroupCompleteAndBalanced` | `Spec => []CompleteAndBalanced` |

A fusing walk takes the two rounds of a pair in two steps (`inPair`); `CursorRight`
places the cursors after each of them at the task the AIC computes for that round. `QueueRight` says that what a lane's scalar has
queued is the work of its own rounds (`EntryOf`), so that each step of a pipe is the
one of `KktPipeline` for that round. `KktPipelineProofs` is instantiated under the
refinement mapping: its step lemmas give the protocol's half of the invariant, and
nothing about flags or slots is proved twice. `OutSound` and `OutComplete` say what
has been written.

`KktHarnessProofs`, for every number of cases, of warm-up and of measured launches, and
a failure of any call: `HarnessInvariant`, `HarnessReleasedOnce`,
`HarnessNothingReleasedInUse`, `HarnessTimesMeasuredOnly`, `HarnessExitTells`. `LiveInv`
gives the handles held at each place of the program, `QueueInv` what the stream
may still contain there, `WarmupInv` and `MeasureInv` how far the device is in it.

`KktTileProofs`, for every chunk length, every number of heads of a lane, either kind of
task and every decay, integers of any size (`TileAssumption`):

| Theorem | Statement |
|---|---|
| `TileInvariant` | `Spec => []IInv` |
| `TileZeroWhereMasked` | `Spec => []ZeroWhereMasked` |
| `TileIsRight` | `Spec => []TileRight` |

A tile is right because each instruction finds what the one before it left, so the
invariant says for each buffer and each place of the program what is in it, at the
indices that are read (`InputsHeld`, `FactorsHeld`, `TileHeld`, in terms of the
`...Held` predicates), and at which places a buffer may still be open (`Closed`): at
none where an instruction reads it, which is what the barriers are for. The `...Holds`
lemmas, one for each instruction, make one such predicate out of others; they need
that the indices of heads, rows and columns do not meet (`RowIndex`, `BlockIndex`,
`TileIndex`), that suffix and aligned part cover a row (`Rounded`), and that a lane which owns
only some of the rows has one head (`HeadFacts`), for the pair path reads g and beta from
row 0. The scratch buffer is used three times and holds broadcast gates, compact beta
and row factors in turn. What the last product leaves is `Product`, a term in elements
alone, and the rest is arithmetic of elements: `MaskedIsZero` goes through the cases of
a column, behind the chunk or in it, and of the mask. An unmasked padding column has
g_i < 0, so that its row factor is a number or zero and the zero of the column stays
zero; with an infinite row factor it would become NaN, and Select would keep it.
`UnmaskedIsFormula` needs the condition on both exponentials (`InRange`) and the
condition that the column is real, nothing else: their product may be zero, and then the
formula is.

Only model-checked:

- all liveness (`Termination`) and the fairness half of `HandoffSpec` and `ProtocolSpec`:
  out of the prover's reach.
- `KktV02` and `KktV03Vector`, with `NoBufferRace` of `KktPipes`: the two older
  milestones. Their scalar units put operations into queues, and an invariant would have
  to say of every suffix of every queue what its operations will do. For
  the Cube and the Vector stage that are in use the models were written with positions in
  the program in the place of queues, which is what made their proofs possible; for
  the two older ones the queues were kept, and with them TLC's bounds.

## 7. Plan

Done: the protocol of a group, its three stages down to the elements of a tile and
the addresses of a copy, the schedule, the Host's operators, the pipelines of v02 to
v04, the test program; proofs of every safety property of the operator that a run
checks, and of those of v04 and the test program.

Left, in order:

1. Proofs about v02 and v03, by positions in the program as in `KktVector`.
2. Refinements: `KktCube` implements the AIC side of `KktPipeline`, `KktVector` a
   lane of it, `KktV02` `KktHandoff`.
3. v03's Cube stage, which keeps two tasks in L1, and v01's use of the Matmul service;
   the choice of the sampled rows in the test program.

## 8. Running the checks

    tlc -config MCKktPipeline.cfg MCKktPipeline
    tlapm KktPipelineProofs.tla
    tlapm KktCubeProofs.tla
    tlapm KktVectorProofs.tla
    tlapm KktTileProofs.tla
    tlapm KktScheduleProofs.tla
    tlapm KktCopyOutProofs.tla
    tlapm KktV04Proofs.tla
    tlapm KktHarnessProofs.tla

and likewise for the other pairs `PROJECT.json` lists under "runs". The largest
runs are `v03_vector` (1.6 million states), `vector`, `v04` and `cube`, each some two
minutes; the others take less than one.

## 9. What is not modelled, and why

- *Values*: BF16/FP32 rounding and the arithmetic of `Mmad`. Contents are tracked by
  origin; `KktTile` knows of a number only whether its exponent is in the range of
  FP32.
- *Layouts*: the NZ fractals of L1 and L0 and the byte addresses of the static
  buffers.
- *Kernel entry*: only the choice of the Cube variant; the generated MIX wrapper
  is not in the repository.
- *Shape inference, operator registration*: stateless.
- *Historic versions*: v01, a sequence of Matmul requests without a pipeline of its own;
  v03's Cube stage; the Host sides of v02 and v03, which validate like the root's; Cube and Vector stage of v04, which are those of the root tree (the two headers
  differ in the schedule only); v02's AIC, which is the Matmul service.
- *Test program*: parsing of options, the choice of the sampled rows, the comparison of
  numbers, the smoke test.
- *Trace tools, scripts, results*: not part of the operator.
- Host error paths for null contexts, logging, and the library's own part of the
  workspace.
