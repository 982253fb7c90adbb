----------------------------- MODULE KktV03Vector -----------------------------
(***************************************************************************)
(* The Vector stage of versions/v03_direct_mmad_stable: one AIV lane of a  *)
(* MIX group.  The style is that of KktVector (a scalar program of helper  *)
(* instructions that issue operations to the pipes, buffers holding the    *)
(* (round, head) their content belongs to).  Two mechanisms are v03's own: *)
(*                                                                         *)
(*   - finished tiles leave at once, and their buffers are returned four   *)
(*     batches at a time (OUTPUT_RETIRE_BATCHES), by one drain of PIPE_MTE3 *)
(*     that may come in the middle of another task;                        *)
(*   - a task of at least two full pairs prefetches, behind its last pair, *)
(*     the first g/beta batch of the next task, and tells the loop so.     *)
(*                                                                         *)
(* A pair uses one buffer of each of two output queues, a single head one  *)
(* of outputHead0Queue_.                                                   *)
(***************************************************************************)
EXTENDS KktTask, KktPipes, FiniteSets, SequencesExt

CONSTANTS MaxTasks,      \* bound on the rounds of the lane
          ChunkLens,     \* chunk lengths a round may have
          Repeats        \* head ratios H / Hg

ASSUME V03VectorAssumption ==
  /\ MaxTasks \in Nat
  /\ ChunkLens \subseteq Int
  /\ Repeats \subseteq Nat \ {0}

OUTPUT_RETIRE_BATCHES == 4
Window == 0 .. OUTPUT_RETIRE_BATCHES - 1   \* slots, and buffers of a queue
Gate == {0, 1}                             \* buffers of gQueue_ / betaQueue_
OutQueue == {"head0", "head1"}
NoGram == -1

VARIABLES
  lane, repeat, chunkLen,  \* the work of the lane, fixed from the start
  aicRound,    \* rounds the AIC has announced
  localRound,  \* rounds whose code the scalar has begun
  firstBatchPrefetched,    \* what the last task told the loop
  code,        \* instructions the scalar has not executed yet
  gateFree, gateNext, gateQueue, gateCur,  \* gQueue_ and betaQueue_
  outFree, outNext,        \* free and next buffer of each output queue
  outCur,                  \* buffer of each queue the batch has allocated
  pendingOutputCount, pendingPairMask, pendingBuffer,
  gate, kkt, out, gm       \* contents, and the copies completed

work    == <<lane, repeat, chunkLen>>
gateVar == <<gateFree, gateNext, gateQueue, gateCur>>
outVar  == <<outFree, outNext, outCur, pendingOutputCount, pendingPairMask, pendingBuffer>>
memory  == <<gate, kkt, out, gm>>
loopVar == <<aicRound, localRound, firstBatchPrefetched>>
vars    == <<work, loopVar, code, gateVar, outVar, memory, pipeVars>>

Rounds == 0 .. Len(chunkLen) - 1
LenOf(r) == chunkLen[r + 1]
Works(r) == HasWork(repeat, lane, LenOf(r))
WillReuseSlot(r) == r + SLOT_COUNT < Len(chunkLen)

-----------------------------------------------------------------------------
(* The scalar program *)

Do(name) == <<[do |-> name]>>
DoFor(name, r, heads) == <<[do |-> name, round |-> r, heads |-> heads]>>

LocalHeads == Cardinality(LaneRepeats(repeat, lane))

BatchCount == (LocalHeads + GATE_HEAD_BATCH - 1) \div GATE_HEAD_BATCH

Batch(b) ==
  LET first == FirstRepeat(repeat, lane) + b * GATE_HEAD_BATCH
  IN  first .. MinI32(first + GATE_HEAD_BATCH, RepeatEnd(repeat, lane)) - 1

\* Every local head in a full pair, and all 64 rows of a full chunk.
Full64Pairs(r) ==
  /\ LenOf(r) = BT
  /\ LaneRows(repeat, lane, BT) = 0 .. BT - 1
  /\ LocalHeads >= GATE_HEAD_BATCH
  /\ LocalHeads % 2 = 0

\* TryPrefetchTaskFirstBatch() of the next task, and when it is called.
NextTaskPrefetched(r) ==
  /\ Full64Pairs(r)
  /\ BatchCount >= 2
  /\ r + 1 < Len(chunkLen)
  /\ repeat >= AIVS_PER_AIC
  /\ Full64Pairs(r + 1)

TryPrefetchTaskFirstBatch(r) ==
  IF NextTaskPrefetched(r) THEN DoFor("Prefetch", r + 1, Batch(0)) ELSE << >>

\* The next batch of the task, or behind the last one the next task's first.
PrefetchBehind(r, b) ==
  IF b + 1 < BatchCount THEN DoFor("Prefetch", r, Batch(b + 1))
  ELSE TryPrefetchTaskFirstBatch(r)

CompleteKktLoadAndReleaseSlot(r) == DoFor("SetFree", r, {})

\* Prepare..Factor and Finalize..WithKkt, ending with the copy-out.
PrepareFactor(r, heads) == DoFor("Alloc", r, heads) \o DoFor("Factor", r, heads)
Finalize(r, heads, first) ==
  <<[do |-> "FinalMul", round |-> r, heads |-> heads, waitKkt |-> first]>>
    \o DoFor("CopyOut", r, heads)

\* Seeded fault of HeadBatch: PIPE_V does not wait for the KKT copy.
HeadBatchNoWait(r, b) ==
  Do("DeQueGate") \o PrepareFactor(r, Batch(b))
    \o (IF b = 0 THEN CompleteKktLoadAndReleaseSlot(r) ELSE << >>)
    \o PrefetchBehind(r, b) \o Finalize(r, Batch(b), FALSE) \o Do("FreeGate")

\* Seeded fault of HeadBatch: the next batch is prefetched before this one's
\* g/beta have left the queue.
HeadBatchEarly(r, b) ==
  PrefetchBehind(r, b) \o Do("DeQueGate") \o PrepareFactor(r, Batch(b))
    \o (IF b = 0 THEN CompleteKktLoadAndReleaseSlot(r) ELSE << >>)
    \o Finalize(r, Batch(b), b = 0) \o Do("FreeGate")

HeadBatch(r, b) ==
  IF b = 0
  THEN Do("DeQueGate") \o PrepareFactor(r, Batch(b)) \o CompleteKktLoadAndReleaseSlot(r)
         \o PrefetchBehind(r, b) \o Finalize(r, Batch(b), TRUE) \o Do("FreeGate")
  ELSE Do("DeQueGate") \o PrefetchBehind(r, b) \o PrepareFactor(r, Batch(b))
         \o Finalize(r, Batch(b), FALSE) \o Do("FreeGate")

ProcessHeadRange(r) == FlattenSeq([b \in 1 .. BatchCount |-> HeadBatch(r, b - 1)])

ProcessPipelineTask(r, prefetched) ==
  IF Works(r)
  THEN (IF prefetched THEN << >> ELSE DoFor("Prefetch", r, Batch(0)))
         \o DoFor("WaitReady", r, {}) \o DoFor("LoadKkt", r, {}) \o ProcessHeadRange(r)
  ELSE DoFor("WaitReady", r, {}) \o CompleteKktLoadAndReleaseSlot(r)

\* FlushPendingOutputs(): the MTE3_S event, then every pending buffer.
FlushPendingOutputs == Do("SetDrain") \o Do("FreePending")

-----------------------------------------------------------------------------

EventSet ==
  ({"gateFull", "gateFree"} \X Gate) \cup (OutQueue \X Window)
    \cup ({"V_MTE2", "MTE2_V", "MTE3_S"} \X {0})
    \cup ({"READY", "FREE"} \X Slot)

Init ==
  /\ lane \in Lane
  /\ repeat \in Repeats
  /\ chunkLen \in UNION {[1 .. n -> ChunkLens] : n \in 0 .. MaxTasks}
  /\ aicRound = 0
  /\ localRound = 0
  /\ firstBatchPrefetched = FALSE
  /\ code = << >>
  /\ gateFree = Gate /\ gateNext = 0 /\ gateQueue = << >> /\ gateCur = 0
  /\ outFree = [q \in OutQueue |-> Window]
  /\ outNext = [q \in OutQueue |-> 0]
  /\ outCur = [q \in OutQueue |-> 0]
  /\ pendingOutputCount = 0
  /\ pendingPairMask = {}
  /\ pendingBuffer = [q \in OutQueue |-> [s \in Window |-> 0]]
  /\ gate = [x \in Gate |-> {}]
  /\ kkt = NoGram
  /\ out = [o \in OutQueue \X Window |-> {}]
  /\ gm = << >>
  /\ PipesInit({"MTE2", "V", "MTE3"}, EventSet, {"gateFree"} \X Gate)

\* The AIC, as this lane sees it.
AicRound ==
  LET s == SlotOf(aicRound)
      free == IF aicRound >= SLOT_COUNT THEN {<<"FREE", s>>} ELSE {}
  IN  /\ aicRound < Len(chunkLen)
      /\ Ready(free)
      /\ flag' = [Waited(free) EXCEPT ![<<"READY", s>>] = @ + 1]
      /\ aicRound' = aicRound + 1
      /\ UNCHANGED <<work, localRound, firstBatchPrefetched, code, gateVar, outVar,
                     memory, queue, running>>

-----------------------------------------------------------------------------
(* The scalar unit *)

\* An iteration of the loop of Process().
NextTask ==
  LET r == localRound
  IN  /\ code = << >>
      /\ r < Len(chunkLen)
      /\ code' = ProcessPipelineTask(r, firstBatchPrefetched)
      /\ firstBatchPrefetched' = NextTaskPrefetched(r)
      /\ localRound' = r + 1
      /\ UNCHANGED <<work, aicRound, gateVar, outVar, memory, pipeVars>>

\* Seeded fault of Epilogue: the last partial window is not retired.
EpilogueNoFlush ==
  /\ code = << >>
  /\ localRound = Len(chunkLen)
  /\ localRound' = localRound + 1
  /\ UNCHANGED <<work, aicRound, firstBatchPrefetched, code, gateVar, outVar,
                 memory, pipeVars>>

\* After the loop: retire the final partial output window.
Epilogue ==
  /\ code = << >>
  /\ localRound = Len(chunkLen)
  /\ localRound' = localRound + 1
  /\ code' = IF pendingOutputCount = 0 THEN << >> ELSE FlushPendingOutputs
  /\ UNCHANGED <<work, aicRound, firstBatchPrefetched, gateVar, outVar, memory, pipeVars>>

Instr == Head(code)
\* The queues that hold the tiles of the batch, and the head each one takes.
QueuesOf(heads) == IF Cardinality(heads) = GATE_HEAD_BATCH THEN OutQueue ELSE {"head0"}
HeadIn(q, heads) ==
  IF q = "head0" THEN CHOOSE h \in heads : \A i \in heads : h <= i
  ELSE CHOOSE h \in heads : \A i \in heads : h >= i
Buffers(heads) == {<<q, outCur[q]>> : q \in QueuesOf(heads)}

ExecuteThen(name, more) ==
  /\ code # << >>
  /\ Instr.do = name
  /\ code' = more \o Tail(code)
  /\ UNCHANGED <<work, loopVar, memory, running>>
Execute(name) == ExecuteThen(name, << >>)

PrefetchGateAndBetaBatch ==
  LET x == gateNext
  IN  /\ Execute("Prefetch")
      /\ x \in gateFree
      /\ Issue([MTE2 |-> <<Op("LoadGate", {<<"gateFree", x>>}, {<<"gateFull", x>>},
                               {}, {<<"gate", x>>},
                               [buffer |-> x, tiles |-> {Instr.round} \X Instr.heads])>>])
      /\ gateFree' = gateFree \ {x}
      /\ gateNext' = 1 - x
      /\ gateQueue' = Append(gateQueue, x)
      /\ UNCHANGED <<gateCur, outVar, flag>>

WaitReady ==
  LET ready == {<<"READY", SlotOf(Instr.round)>>}
  IN  /\ Execute("WaitReady")
      /\ Ready(ready)
      /\ flag' = Waited(ready)
      /\ UNCHANGED <<gateVar, outVar, queue>>

\* CrossCoreSetFlag<2, PIPE_MTE2>(FreeFlagForSlot(slotId))
ReleaseSlot ==
  LET r == Instr.round
  IN  /\ Execute("SetFree")
      /\ IF WillReuseSlot(r)
         THEN Issue([MTE2 |-> <<Sync({}, {<<"FREE", SlotOf(r)>>})>>])
         ELSE UNCHANGED queue
      /\ UNCHANGED <<gateVar, outVar, flag>>

\* Zeroing a tail on PIPE_V, V_MTE2, the copy, MTE2_V.
BeginLoadKktSlot ==
  LET r == Instr.round
  IN  /\ Execute("LoadKkt")
      /\ Issue([V    |-> <<Op("ZeroKkt", {}, {<<"V_MTE2", 0>>}, {},
                             IF LenOf(r) # BT THEN {<<"kkt", 0>>} ELSE {}, 0)>>,
                MTE2 |-> <<Op("LoadKkt", {<<"V_MTE2", 0>>}, {<<"MTE2_V", 0>>}, {},
                              {<<"kkt", 0>>}, r)>>])
      /\ UNCHANGED <<gateVar, outVar, flag>>

DeQueGate ==
  /\ Execute("DeQueGate")
  /\ gateQueue # << >>
  /\ gateCur' = Head(gateQueue)
  /\ gateQueue' = Tail(gateQueue)
  /\ UNCHANGED <<gateFree, gateNext, outVar, queue, flag>>

\* AllocTensor of one or both output queues, the buffers in turn.
AllocOutput ==
  LET qs == QueuesOf(Instr.heads)
  IN  /\ Execute("Alloc")
      /\ \A q \in qs : outNext[q] \in outFree[q]
      /\ outFree' = [q \in OutQueue |-> IF q \in qs THEN outFree[q] \ {outNext[q]} ELSE outFree[q]]
      /\ outCur' = [q \in OutQueue |-> IF q \in qs THEN outNext[q] ELSE outCur[q]]
      /\ outNext' = [q \in OutQueue |->
                       IF q \in qs THEN (outNext[q] + 1) % OUTPUT_RETIRE_BATCHES ELSE outNext[q]]
      /\ UNCHANGED <<gateVar, pendingOutputCount, pendingPairMask, pendingBuffer, queue, flag>>

\* PrepareHeadFactor / PrepareHeadPairFactor, a tail's suffix zeroed first.
Factor ==
  LET x == <<"gate", gateCur>>
  IN  /\ Execute("Factor")
      /\ Issue([V |-> <<Op("Factor", {<<"gateFull", gateCur>>}, {}, {x},
                           Buffers(Instr.heads)
                             \cup (IF LenOf(Instr.round) # BT THEN {x} ELSE {}),
                           [gate |-> gateCur,
                            tiles |-> {[buffer |-> <<q, outCur[q]>>,
                                        tile |-> <<Instr.round, HeadIn(q, Instr.heads)>>]
                                        : q \in QueuesOf(Instr.heads)}])>>])
      /\ UNCHANGED <<gateVar, outVar, flag>>

\* The multiplication with the KKT tile and EnQue; the first batch waits for
\* the copy.
FinalMul ==
  /\ Execute("FinalMul")
  /\ Issue([V |-> <<Op("FinalMul", IF Instr.waitKkt THEN {<<"MTE2_V", 0>>} ELSE {},
                       Buffers(Instr.heads), {<<"kkt", 0>>}, Buffers(Instr.heads), 0)>>])
  /\ UNCHANGED <<gateVar, outVar, flag>>

\* pendingOutputCount_ == OUTPUT_RETIRE_BATCHES
RetireBatches == OUTPUT_RETIRE_BATCHES

\* StorePendingHead0 / StorePendingHead1 of window slot s.
StorePending(s, qs) ==
  [q \in OutQueue |->
     IF q \in qs THEN [pendingBuffer[q] EXCEPT ![s] = outCur[q]] ELSE pendingBuffer[q]]

\* CopyOutTile / CopyOutHeadPair: one DataCopy per head, and the buffers join
\* the window; a full window is flushed.
CopyOut ==
  LET s == pendingOutputCount
      qs == QueuesOf(Instr.heads)
      copy(q) == Op("CopyOut", {<<q, outCur[q]>>}, {}, {<<q, outCur[q]>>}, {},
                    [buffer |-> <<q, outCur[q]>>,
                     dest |-> <<Instr.round, HeadIn(q, Instr.heads)>>])
  IN  /\ ExecuteThen("CopyOut", IF s + 1 = RetireBatches THEN FlushPendingOutputs ELSE << >>)
      /\ Issue([MTE3 |-> <<copy("head0")>>
                           \o (IF "head1" \in qs THEN <<copy("head1")>> ELSE << >>)])
      /\ pendingBuffer' = StorePending(s, qs)
      /\ pendingPairMask' = pendingPairMask \cup (IF "head1" \in qs THEN {s} ELSE {})
      /\ pendingOutputCount' = s + 1
      /\ UNCHANGED <<gateVar, outFree, outNext, outCur, flag>>

\* SetFlag<MTE3_S>, behind every copy of the window.
SetDrain ==
  /\ Execute("SetDrain")
  /\ Issue([MTE3 |-> <<Sync({}, {<<"MTE3_S", 0>>})>>])
  /\ UNCHANGED <<gateVar, outVar, flag>>

\* The buffers of the window, of outputHead1Queue_ those with a mask bit.
PendingBuffers(q) ==
  {pendingBuffer[q][s] : s \in {s \in 0 .. pendingOutputCount - 1 :
                                  q = "head0" \/ s \in pendingPairMask}}

\* WaitFlag<MTE3_S>, FreePendingOutputSlot of every slot, the reset.
FreePendingOutputs ==
  /\ Execute("FreePending")
  /\ Ready({<<"MTE3_S", 0>>})
  /\ flag' = Waited({<<"MTE3_S", 0>>})
  /\ outFree' = [q \in OutQueue |-> outFree[q] \cup PendingBuffers(q)]
  /\ pendingOutputCount' = 0
  /\ pendingPairMask' = {}
  /\ UNCHANGED <<gateVar, outNext, outCur, pendingBuffer, queue>>

FreeGate ==
  /\ Execute("FreeGate")
  /\ Issue([V |-> <<Sync({}, {<<"gateFree", gateCur>>})>>])
  /\ gateFree' = gateFree \cup {gateCur}
  /\ UNCHANGED <<gateNext, gateQueue, gateCur, outVar, flag>>

Scalar ==
  \/ NextTask \/ Epilogue
  \/ PrefetchGateAndBetaBatch \/ WaitReady \/ BeginLoadKktSlot \/ ReleaseSlot
  \/ DeQueGate \/ AllocOutput \/ Factor \/ FinalMul \/ CopyOut
  \/ SetDrain \/ FreePendingOutputs \/ FreeGate

-----------------------------------------------------------------------------
(* The pipes *)

scalarVars == <<work, loopVar, code, gateVar, outVar>>

Completes(p, name) == running[p] /\ Current(p).name = name /\ Finish(p)

FinishLoadGate ==
  LET d == Current("MTE2").data
  IN  /\ Completes("MTE2", "LoadGate")
      /\ gate' = [gate EXCEPT ![d.buffer] = d.tiles]
      /\ UNCHANGED <<scalarVars, kkt, out, gm>>

FinishLoadKkt ==
  /\ Completes("MTE2", "LoadKkt")
  /\ kkt' = Current("MTE2").data
  /\ UNCHANGED <<scalarVars, gate, out, gm>>

FinishZeroKkt ==
  /\ Completes("V", "ZeroKkt")
  /\ kkt' = NoGram
  /\ UNCHANGED <<scalarVars, gate, out, gm>>

FinishFactor ==
  LET d == Current("V").data
      tileOf(o) == {[tile |-> t.tile, ownGate |-> t.tile \in gate[d.gate], gram |-> NoGram]
                      : t \in {t \in d.tiles : t.buffer = o}}
  IN  /\ Completes("V", "Factor")
      /\ out' = [o \in DOMAIN out |-> IF tileOf(o) # {} THEN tileOf(o) ELSE out[o]]
      /\ UNCHANGED <<scalarVars, gate, kkt, gm>>

FinishFinalMul ==
  /\ Completes("V", "FinalMul")
  /\ out' = [o \in DOMAIN out |-> IF o \in Current("V").writes
                                  THEN {[t EXCEPT !.gram = kkt] : t \in out[o]} ELSE out[o]]
  /\ UNCHANGED <<scalarVars, gate, kkt, gm>>

FinishCopyOut ==
  LET d == Current("MTE3").data
  IN  /\ Completes("MTE3", "CopyOut")
      /\ gm' = Append(gm, [dest |-> d.dest, tiles |-> out[d.buffer]])
      /\ UNCHANGED <<scalarVars, gate, kkt, out>>

StartOrSync(p) ==
  /\ Start(p) \/ Synchronize(p)
  /\ UNCHANGED <<scalarVars, memory>>

Mte2 == StartOrSync("MTE2") \/ FinishLoadGate \/ FinishLoadKkt
VectorPipe == StartOrSync("V") \/ FinishZeroKkt \/ FinishFactor \/ FinishFinalMul
Mte3 == StartOrSync("MTE3") \/ FinishCopyOut

Done == localRound = Len(chunkLen) + 1 /\ code = << >> /\ PipesIdle
Finished == Done /\ UNCHANGED vars

Next == AicRound \/ Scalar \/ Mte2 \/ VectorPipe \/ Mte3 \/ Finished

Spec == Init /\ [][Next]_vars

-----------------------------------------------------------------------------
(* Properties *)

\* The tiles this lane has to write.
OwnTiles == {t \in Rounds \X LaneRepeats(repeat, lane) : Works(t[1])}

TypeOK ==
  /\ \A e \in Event : flag[e] \in 0 .. 2
  /\ gateFree \subseteq Gate /\ outFree \in [OutQueue -> SUBSET Window]
  /\ gate \in [Gate -> SUBSET OwnTiles]
  /\ kkt \in Rounds \cup {NoGram}
  /\ pendingOutputCount \in 0 .. OUTPUT_RETIRE_BATCHES
  /\ pendingPairMask \subseteq Window

\* Every copy carries the tile its destination names, built from its own
\* g/beta, which another task may have prefetched, and its own Gram.
OutputsRight ==
  \A i \in DOMAIN gm :
    gm[i].tiles = {[tile |-> gm[i].dest, ownGate |-> TRUE, gram |-> gm[i].dest[1]]}

\* gQueue_ has depth 1, and whoever calls AllocTensor finds a buffer: neither
\* the prefetch across the task border nor the one inside comes too early.
GateQueueDepth ==
  /\ Len(gateQueue) <= 1
  /\ code # << >> /\ Instr.do = "Prefetch" => gateNext \in gateFree

\* The window owns exactly the output buffers that are not free, up to those
\* of the batch in preparation, in particular it frees a buffer of
\* outputHead1Queue_ only for a batch that had one.
WindowOwnsBuffers ==
  \A q \in OutQueue :
    /\ PendingBuffers(q) \cap outFree[q] = {}
    /\ Cardinality(Window \ (outFree[q] \cup PendingBuffers(q))) <= 1
    /\ code # << >> /\ Instr.do = "Alloc" => outNext[q] \in outFree[q]

\* What the scalar takes for granted of its queues: a buffer is there whenever
\* it allocates one, and a buffer of the window is nobody else's.
BufferProtocol == TypeOK /\ GateQueueDepth /\ WindowOwnsBuffers

\* A lane that is done has written each of its tiles exactly once, no other.
OutputsExactlyOnce ==
  Done => /\ {gm[i].dest : i \in DOMAIN gm} = OwnTiles
          /\ Len(gm) = Cardinality(OwnTiles)

\* A finished lane holds no buffer and leaves no event or flag signalled.
ResourcesReturned ==
  Done => /\ outFree = [q \in OutQueue |-> Window]
          /\ gateFree = Gate /\ gateQueue = << >>
          /\ \A e \in Event : flag[e] = IF e[1] = "gateFree" THEN 1 ELSE 0

\* The flush of the last window neither loses nor repeats a batch, and hands
\* the core over to the next launch as it was.
CompleteAndBalanced == OutputsExactlyOnce /\ ResourcesReturned
=============================================================================
