------------------------------- MODULE KktV02 -------------------------------
(***************************************************************************)
(* One MIX group of versions/v02_mix_pipeline_v6_1: the AIC, whose Gram    *)
(* comes from the Matmul service, the two GM slots and one AIV lane.  The  *)
(* directory holds two headers with the same AIC and two Vector stages:    *)
(*                                                                         *)
(*   "v6_1"    chunk_scaled_dot_kkt.h, the one the kernel includes: READY, *)
(*             KKT, FREE, then the batches, each copied out and waited for *)
(*   "v6_7_1"  chunk_scaled_dot_kkt_baseline.h, which no file includes: the *)
(*             first g/beta batch before READY, its factor under the KKT   *)
(*             copy, FREE after it, and two batches of output in flight    *)
(*                                                                         *)
(* The style is that of KktV03Vector; here the slots have content, because *)
(* the Matmul packs the rows of a tail (row stride chunkLen) and the lane  *)
(* must read them so.  The other lane is taken to answer no later.         *)
(***************************************************************************)
EXTENDS KktTask, KktPipes, FiniteSets, SequencesExt

CONSTANTS MaxTasks,      \* bound on the rounds of the group
          ChunkLens,     \* chunk lengths a round may have
          Repeats        \* head ratios H / Hg

ASSUME V02Assumption ==
  /\ MaxTasks \in Nat
  /\ ChunkLens \subseteq Int
  /\ Repeats \subseteq Nat \ {0}

ROW_ELEMS == 64
Buffer == {0, 1}                 \* every queue has two buffers
NoGram == -1

VARIABLES
  header, lane, repeat, chunkLen,  \* the work of the lane, fixed from the start
  aicRound,    \* rounds the AIC has begun
  localRound,  \* rounds whose code the lane's scalar has begun
  code,        \* instructions the scalar has not executed yet
  gateFree, gateNext, gateQueue, gateCur,  \* gQueue_ and betaQueue_
  outFree, outNext, outCur,        \* the two output queues
  pending,     \* output buffers of the batches not retired, oldest first
  slot,        \* GM slots: the round and the row stride of the Gram in it
  gate, kkt, out, gm               \* UB contents, and the copies completed

work    == <<header, lane, repeat, chunkLen>>
gateVar == <<gateFree, gateNext, gateQueue, gateCur>>
outVar  == <<outFree, outNext, outCur, pending>>
memory  == <<slot, gate, kkt, out, gm>>
vars    == <<work, aicRound, localRound, code, gateVar, outVar, memory, pipeVars>>

Rounds == 0 .. Len(chunkLen) - 1
LenOf(r) == chunkLen[r + 1]
Works(r) == HasWork(repeat, lane, LenOf(r))
WillReuseSlot(r) == r + SLOT_COUNT < Len(chunkLen)

\* v6_1 has a queue of single tiles and one of pairs, v6_7_1 one per head.
OutQueue == IF header = "v6_1" THEN {"single", "pair"} ELSE {"head0", "head1"}
OutQueues == {"single", "pair", "head0", "head1"}

-----------------------------------------------------------------------------
(* The scalar program of the lane *)

Do(name) == <<[do |-> name]>>
DoFor(name, r, heads) == <<[do |-> name, round |-> r, heads |-> heads]>>

LocalHeads == Cardinality(LaneRepeats(repeat, lane))
BatchCount == (LocalHeads + GATE_HEAD_BATCH - 1) \div GATE_HEAD_BATCH
Batch(b) ==
  LET first == FirstRepeat(repeat, lane) + b * GATE_HEAD_BATCH
  IN  first .. MinI32(first + GATE_HEAD_BATCH, RepeatEnd(repeat, lane)) - 1

PrefetchNext(r, b) ==
  IF b + 1 < BatchCount THEN DoFor("Prefetch", r, Batch(b + 1)) ELSE << >>

\* FlushPendingOutputs(): the MTE3_S event, then every pending buffer.
Flush == Do("SetDrain") \o Do("FreePending")

\* LoadKktSlot() of v6_1: PIPE_V waits for the copy at once.
LoadKktSlot(r) == DoFor("LoadKkt", r, {}) \o Do("WaitKkt")

\* ProcessHeadTile / ProcessHeadPairTile of v6_1: CopyOut.. waits for its
\* copies and frees the tensor.
ProcessTileV61(r, heads) ==
  DoFor("Alloc", r, heads) \o DoFor("Factor", r, heads)
    \o DoFor("FinalMul", r, heads) \o DoFor("CopyOut", r, heads) \o Flush

HeadBatchV61(r, b) ==
  Do("DeQueGate") \o PrefetchNext(r, b) \o ProcessTileV61(r, Batch(b)) \o Do("FreeGate")

ProcessHeadRangeV61(r) ==
  DoFor("Prefetch", r, Batch(0))
    \o FlattenSeq([b \in 1 .. BatchCount |-> HeadBatchV61(r, b - 1)])

\* Seeded fault of ProcessPipelineTaskV61: FREE is sent before the copy.
ProcessPipelineTaskV61Early(r) ==
  DoFor("WaitReady", r, {}) \o DoFor("SetFree", r, {})
    \o (IF Works(r) THEN LoadKktSlot(r) \o ProcessHeadRangeV61(r) ELSE << >>)

ProcessPipelineTaskV61(r) ==
  DoFor("WaitReady", r, {}) \o (IF Works(r) THEN LoadKktSlot(r) ELSE << >>)
    \o DoFor("SetFree", r, {}) \o (IF Works(r) THEN ProcessHeadRangeV61(r) ELSE << >>)

\* CompleteKktLoadAndReleaseSlot(): PIPE_V waits for the copy; FREE.
CompleteKktLoad(r) == Do("WaitKkt") \o DoFor("SetFree", r, {})

\* PrepareHeadFactor / PrepareHeadPairFactor and their AllocTensor.
PrepareFactorV671(r, heads) == DoFor("Alloc", r, heads) \o DoFor("Factor", r, heads)

\* FinalizeHeadWithKkt / FinalizeHeadPairWithKkt.
FinalizeV671(r, heads) == DoFor("FinalMul", r, heads) \o DoFor("CopyOut", r, heads)

\* Seeded fault of HeadBatchV671: the next g/beta batch goes in front of FREE.
HeadBatchV671Late(r, b) ==
  Do("DeQueGate") \o PrefetchNext(r, b) \o PrepareFactorV671(r, Batch(b))
    \o (IF b = 0 THEN CompleteKktLoad(r) ELSE << >>)
    \o FinalizeV671(r, Batch(b)) \o Do("FreeGate")

\* A batch of v6_7_1.  The next prefetch comes after FREE in the first batch,
\* in front of the factor in the others.
HeadBatchV671(r, b) ==
  Do("DeQueGate")
    \o (IF b = 0
        THEN PrepareFactorV671(r, Batch(b)) \o CompleteKktLoad(r) \o PrefetchNext(r, b)
        ELSE PrefetchNext(r, b) \o PrepareFactorV671(r, Batch(b)))
    \o FinalizeV671(r, Batch(b)) \o Do("FreeGate")

ProcessHeadRangeV671(r) ==
  FlattenSeq([b \in 1 .. BatchCount |-> HeadBatchV671(r, b - 1)])

ProcessPipelineTaskV671(r) ==
  IF Works(r)
  THEN DoFor("Prefetch", r, Batch(0)) \o DoFor("WaitReady", r, {})
         \o DoFor("LoadKkt", r, {}) \o ProcessHeadRangeV671(r)
  ELSE DoFor("WaitReady", r, {}) \o DoFor("SetFree", r, {})

-----------------------------------------------------------------------------

EventSet ==
  ({"gateFull", "gateFree"} \X Buffer) \cup (OutQueues \X Buffer)
    \cup ({"V_MTE2", "MTE2_V", "MTE3_S"} \X {0})
    \cup ({"READY", "FREE"} \X Slot)

Init ==
  /\ header \in {"v6_1", "v6_7_1"}
  /\ lane \in Lane
  /\ repeat \in Repeats
  /\ chunkLen \in UNION {[1 .. n -> ChunkLens] : n \in 0 .. MaxTasks}
  /\ aicRound = 0
  /\ localRound = 0
  /\ code = << >>
  /\ gateFree = Buffer /\ gateNext = 0 /\ gateQueue = << >> /\ gateCur = 0
  /\ outFree = [q \in OutQueue |-> Buffer]
  /\ outNext = [q \in OutQueue |-> 0]
  /\ outCur = [q \in OutQueue |-> 0]
  /\ pending = << >>
  /\ slot = [s \in Slot |-> [round |-> NoGram, stride |-> 0]]
  /\ gate = [x \in Buffer |-> {}]
  /\ kkt = NoGram
  /\ out = [o \in OutQueue \X Buffer \X {0, 1} |-> {}]
  /\ gm = << >>
  /\ PipesInit({"FIX", "MTE2", "V", "MTE3"}, EventSet, {"gateFree"} \X Buffer)

-----------------------------------------------------------------------------
(* The AIC *)

\* Seeded fault of ProduceStride: the rows of a tail are not packed.
ProduceStrideFixed(r) == ROW_ELEMS

\* SetOrgShape(.., chunkLen): the rows of the Gram are packed.
ProduceStride(r) == LenOf(r)

\* An iteration of the AIC's loop: FREE of the round before last, the
\* synchronous IterateAll of a well-formed chunk, READY behind PIPE_FIX.
AicRound ==
  LET r == aicRound
      free == IF r >= SLOT_COUNT THEN {<<"FREE", SlotOf(r)>>} ELSE {}
      ready == {<<"READY", SlotOf(r)>>}
  IN  /\ r < Len(chunkLen)
      /\ queue["FIX"] = << >>
      /\ Ready(free)
      /\ flag' = Waited(free)
      /\ Issue([FIX |-> IF LenOf(r) \in 1 .. BT
                        THEN <<Op("Produce", {}, ready, {}, {<<"slot", SlotOf(r)>>}, r)>>
                        ELSE <<Sync({}, ready)>>])
      /\ aicRound' = r + 1
      /\ UNCHANGED <<work, localRound, code, gateVar, outVar, memory, running>>

-----------------------------------------------------------------------------
(* The scalar unit of the lane *)

\* An iteration of the loop of Process().
NextTask ==
  LET r == localRound
  IN  /\ code = << >>
      /\ r < Len(chunkLen)
      /\ code' = IF header = "v6_1" THEN ProcessPipelineTaskV61(r) ELSE ProcessPipelineTaskV671(r)
      /\ localRound' = r + 1
      /\ UNCHANGED <<work, aicRound, gateVar, outVar, memory, pipeVars>>

\* Seeded fault of Epilogue: v6_7_1 does not retire the last partial window.
EpilogueNoFlush ==
  /\ code = << >>
  /\ localRound = Len(chunkLen)
  /\ localRound' = localRound + 1
  /\ UNCHANGED <<work, aicRound, code, gateVar, outVar, memory, pipeVars>>

\* After the loop, v6_7_1 retires a final one-batch window; v6_1 has none.
Epilogue ==
  /\ code = << >>
  /\ localRound = Len(chunkLen)
  /\ localRound' = localRound + 1
  /\ code' = IF pending = << >> THEN << >> ELSE Flush
  /\ UNCHANGED <<work, aicRound, gateVar, outVar, memory, pipeVars>>

Instr == Head(code)
IsPair(heads) == Cardinality(heads) = GATE_HEAD_BATCH
HeadAt(i, heads) == SetToSortSeq(heads, <)[i + 1]
Places(heads) == IF IsPair(heads) THEN {0, 1} ELSE {0}
QueuesOf(heads) ==
  IF header = "v6_1" THEN {IF IsPair(heads) THEN "pair" ELSE "single"}
  ELSE {IF i = 0 THEN "head0" ELSE "head1" : i \in Places(heads)}
Allocated(heads) == {<<q, outCur[q]>> : q \in QueuesOf(heads)}

\* Where head i of the batch lies: <<queue, buffer, half of the buffer>>.
Place(i, heads) ==
  IF header = "v6_1"
  THEN IF IsPair(heads) THEN <<"pair", outCur["pair"], i>> ELSE <<"single", outCur["single"], 0>>
  ELSE IF i = 0 THEN <<"head0", outCur["head0"], 0>> ELSE <<"head1", outCur["head1"], 0>>
Tiles(heads) == {Place(i, heads) : i \in Places(heads)}

ExecuteThen(name, more) ==
  /\ code # << >>
  /\ Instr.do = name
  /\ code' = more \o Tail(code)
  /\ UNCHANGED <<work, aicRound, localRound, memory, running>>
Execute(name) == ExecuteThen(name, << >>)

PrefetchGateAndBetaBatch ==
  LET x == gateNext
  IN  /\ Execute("Prefetch")
      /\ x \in gateFree
      /\ Issue([MTE2 |-> <<Op("LoadGate", {<<"gateFree", x>>}, {<<"gateFull", x>>},
                               {}, {<<"gate", x>>},
                               [buffer |-> x, tiles |-> {Instr.round} \X Instr.heads])>>])
      /\ gateFree' = gateFree \ {x}
      /\ gateNext' = 1 - x
      /\ gateQueue' = Append(gateQueue, x)
      /\ UNCHANGED <<gateCur, outVar, flag>>

\* CrossCoreWaitFlag(ReadyFlagForSlot(slotId))
WaitReady ==
  LET ready == {<<"READY", SlotOf(Instr.round)>>}
  IN  /\ Execute("WaitReady")
      /\ Ready(ready)
      /\ flag' = Waited(ready)
      /\ UNCHANGED <<gateVar, outVar, queue>>

\* CrossCoreSetFlag<2, PIPE_MTE2>(FreeFlagForSlot(slotId))
ReleaseSlot ==
  LET r == Instr.round
  IN  /\ Execute("SetFree")
      /\ IF WillReuseSlot(r)
         THEN Issue([MTE2 |-> <<Op("Free", {}, {<<"FREE", SlotOf(r)>>}, {}, {}, r)>>])
         ELSE UNCHANGED queue
      /\ UNCHANGED <<gateVar, outVar, flag>>

\* A tail's UB rows zeroed, V_MTE2, the copy of the slot, MTE2_V.
BeginLoadKktSlot ==
  LET r == Instr.round
  IN  /\ Execute("LoadKkt")
      /\ Issue([V    |-> <<Op("ZeroKkt", {}, {<<"V_MTE2", 0>>}, {},
                             IF LenOf(r) # ROW_ELEMS THEN {<<"kkt", 0>>} ELSE {}, 0)>>,
                MTE2 |-> <<Op("LoadKkt", {<<"V_MTE2", 0>>}, {<<"MTE2_V", 0>>},
                              {<<"slot", SlotOf(r)>>}, {<<"kkt", 0>>}, r)>>])
      /\ UNCHANGED <<gateVar, outVar, flag>>

\* WaitFlag<MTE2_V>: PIPE_V waits, the scalar goes on.
WaitKkt ==
  /\ Execute("WaitKkt")
  /\ Issue([V |-> <<Sync({<<"MTE2_V", 0>>}, {})>>])
  /\ UNCHANGED <<gateVar, outVar, flag>>

DeQueGate ==
  /\ Execute("DeQueGate")
  /\ gateQueue # << >>
  /\ gateCur' = Head(gateQueue)
  /\ gateQueue' = Tail(gateQueue)
  /\ UNCHANGED <<gateFree, gateNext, outVar, queue, flag>>

AllocOutput ==
  LET qs == QueuesOf(Instr.heads)
  IN  /\ Execute("Alloc")
      /\ \A q \in qs : outNext[q] \in outFree[q]
      /\ outFree' = [q \in OutQueue |-> IF q \in qs THEN outFree[q] \ {outNext[q]} ELSE outFree[q]]
      /\ outCur' = [q \in OutQueue |-> IF q \in qs THEN outNext[q] ELSE outCur[q]]
      /\ outNext' = [q \in OutQueue |-> IF q \in qs THEN 1 - outNext[q] ELSE outNext[q]]
      /\ UNCHANGED <<gateVar, pending, queue, flag>>

\* exp(min) * beta of every head of the batch, a tail's suffix zeroed first.
Factor ==
  LET x == <<"gate", gateCur>>
      heads == Instr.heads
  IN  /\ Execute("Factor")
      /\ Issue([V |-> <<Op("Factor", {<<"gateFull", gateCur>>}, {}, {x},
                           Tiles(heads) \cup (IF LenOf(Instr.round) # ROW_ELEMS THEN {x} ELSE {}),
                           [gate |-> gateCur,
                            tile |-> [p \in Tiles(heads) |->
                              <<Instr.round,
                                HeadAt(CHOOSE i \in Places(heads) : Place(i, heads) = p, heads)>>]])>>])
      /\ UNCHANGED <<gateVar, outVar, flag>>

\* The multiplication with the KKT tile, and EnQue.
FinalMul ==
  /\ Execute("FinalMul")
  /\ Issue([V |-> <<Op("FinalMul", {}, Allocated(Instr.heads), {<<"kkt", 0>>},
                       Tiles(Instr.heads), 0)>>])
  /\ UNCHANGED <<gateVar, outVar, flag>>

\* Batches of output that may be in flight.
WindowSize == IF header = "v6_1" THEN 1 ELSE 2

\* One DataCopy per head; the buffers join the pending ones.  In v6_7_1
\* (RetireSingleOutput / RetirePairOutput) a full window is flushed.
CopyOut ==
  LET heads == Instr.heads
      copy(i) ==
        LET p == Place(i, heads)
        IN  Op("CopyOut", IF p[3] = 0 THEN {<<p[1], p[2]>>} ELSE {}, {}, {p}, {},
               [place |-> p, dest |-> <<Instr.round, HeadAt(i, heads)>>])
      full == header = "v6_7_1" /\ Len(pending) + 1 = WindowSize
  IN  /\ ExecuteThen("CopyOut", IF full THEN Flush ELSE << >>)
      /\ Issue([MTE3 |-> <<copy(0)>> \o (IF IsPair(heads) THEN <<copy(1)>> ELSE << >>)])
      /\ pending' = Append(pending, Allocated(heads))
      /\ UNCHANGED <<gateVar, outFree, outNext, outCur, flag>>

\* SetFlag<MTE3_S>, behind every copy issued so far.
SetDrain ==
  /\ Execute("SetDrain")
  /\ Issue([MTE3 |-> <<Sync({}, {<<"MTE3_S", 0>>})>>])
  /\ UNCHANGED <<gateVar, outVar, flag>>

PendingBuffers == UNION ToSet(pending)

\* WaitFlag<MTE3_S>, FreeTensor of every pending buffer.
FreePending ==
  /\ Execute("FreePending")
  /\ Ready({<<"MTE3_S", 0>>})
  /\ flag' = Waited({<<"MTE3_S", 0>>})
  /\ outFree' = [q \in OutQueue |-> outFree[q] \cup {b \in Buffer : <<q, b>> \in PendingBuffers}]
  /\ pending' = << >>
  /\ UNCHANGED <<gateVar, outNext, outCur, queue>>

FreeGate ==
  /\ Execute("FreeGate")
  /\ Issue([V |-> <<Sync({}, {<<"gateFree", gateCur>>})>>])
  /\ gateFree' = gateFree \cup {gateCur}
  /\ UNCHANGED <<gateNext, gateQueue, gateCur, outVar, flag>>

Scalar ==
  \/ NextTask \/ Epilogue
  \/ PrefetchGateAndBetaBatch \/ WaitReady \/ BeginLoadKktSlot \/ WaitKkt \/ ReleaseSlot
  \/ DeQueGate \/ AllocOutput \/ Factor \/ FinalMul \/ CopyOut
  \/ SetDrain \/ FreePending \/ FreeGate

-----------------------------------------------------------------------------
(* The pipes *)

scalarVars == <<work, aicRound, localRound, code, gateVar, outVar>>
Completes(p, name) == running[p] /\ Current(p).name = name /\ Finish(p)

FinishProduce ==
  LET r == Current("FIX").data
  IN  /\ Completes("FIX", "Produce")
      /\ slot' = [slot EXCEPT ![SlotOf(r)] = [round |-> r, stride |-> ProduceStride(r)]]
      /\ UNCHANGED <<scalarVars, gate, kkt, out, gm>>

FinishLoadGate ==
  LET d == Current("MTE2").data
  IN  /\ Completes("MTE2", "LoadGate")
      /\ gate' = [gate EXCEPT ![d.buffer] = d.tiles]
      /\ UNCHANGED <<scalarVars, slot, kkt, out, gm>>

\* The rows from rowStart * ROW_ELEMS of a full chunk, from
\* rowStart * chunkLen of a tail: the Gram only if it was written so.
FinishLoadKkt ==
  LET r == Current("MTE2").data
      from == slot[SlotOf(r)]
      stride == IF LenOf(r) = ROW_ELEMS THEN ROW_ELEMS ELSE LenOf(r)
  IN  /\ Completes("MTE2", "LoadKkt")
      /\ kkt' = IF from.stride = stride THEN from.round ELSE NoGram
      /\ UNCHANGED <<scalarVars, slot, gate, out, gm>>

FinishZeroKkt ==
  /\ Completes("V", "ZeroKkt")
  /\ kkt' = NoGram
  /\ UNCHANGED <<scalarVars, slot, gate, out, gm>>

FinishFactor ==
  LET d == Current("V").data
  IN  /\ Completes("V", "Factor")
      /\ out' = [o \in DOMAIN out |->
                   IF o \in DOMAIN d.tile
                   THEN {[tile |-> d.tile[o], ownGate |-> d.tile[o] \in gate[d.gate], gram |-> NoGram]}
                   ELSE out[o]]
      /\ UNCHANGED <<scalarVars, slot, gate, kkt, gm>>

FinishFinalMul ==
  /\ Completes("V", "FinalMul")
  /\ out' = [o \in DOMAIN out |-> IF o \in Current("V").writes
                                  THEN {[t EXCEPT !.gram = kkt] : t \in out[o]} ELSE out[o]]
  /\ UNCHANGED <<scalarVars, slot, gate, kkt, gm>>

FinishCopyOut ==
  LET d == Current("MTE3").data
  IN  /\ Completes("MTE3", "CopyOut")
      /\ gm' = Append(gm, [dest |-> d.dest, tiles |-> out[d.place]])
      /\ UNCHANGED <<scalarVars, slot, gate, kkt, out>>

StartOrSync(p) ==
  /\ Start(p) \/ Synchronize(p)
  /\ UNCHANGED <<scalarVars, memory>>

Fix == StartOrSync("FIX") \/ FinishProduce
Mte2 == StartOrSync("MTE2") \/ FinishLoadGate \/ FinishLoadKkt
VectorPipe == StartOrSync("V") \/ FinishZeroKkt \/ FinishFactor \/ FinishFinalMul
Mte3 == StartOrSync("MTE3") \/ FinishCopyOut

Done ==
  /\ aicRound = Len(chunkLen) /\ localRound = Len(chunkLen) + 1
  /\ code = << >> /\ PipesIdle
Finished == Done /\ UNCHANGED vars

Next == AicRound \/ Fix \/ Scalar \/ Mte2 \/ VectorPipe \/ Mte3 \/ Finished

Spec == Init /\ [][Next]_vars

-----------------------------------------------------------------------------
(* Properties *)

\* The tiles this lane has to write.
OwnTiles == {t \in Rounds \X LaneRepeats(repeat, lane) : Works(t[1])}

TypeOK ==
  /\ \A e \in Event : flag[e] \in 0 .. 2
  /\ gateFree \subseteq Buffer /\ outFree \in [OutQueue -> SUBSET Buffer]
  /\ gate \in [Buffer -> SUBSET OwnTiles]
  /\ kkt \in Rounds \cup {NoGram}
  /\ Len(pending) <= WindowSize

\* Every copy carries the tile its destination names, built from its own
\* g/beta and from the Gram of its round, read as the Matmul wrote it.
OutputsRight ==
  \A i \in DOMAIN gm :
    gm[i].tiles = {[tile |-> gm[i].dest, ownGate |-> TRUE, gram |-> gm[i].dest[1]]}

\* Kernel and lane end with each tile of the lane written exactly once, every
\* buffer returned and no signal left that a later launch would take.
CompleteAndBalanced ==
  Done => /\ {gm[i].dest : i \in DOMAIN gm} = OwnTiles
          /\ Len(gm) = Cardinality(OwnTiles)
          /\ outFree = [q \in OutQueue |-> Buffer] /\ gateFree = Buffer
          /\ \A e \in Event : flag[e] = IF e[1] = "gateFree" THEN 1 ELSE 0

\* "unrelated g/beta MTE2 traffic cannot delay AIC slot reuse": behind the KKT
\* copy of a round the FREE is the next thing PIPE_MTE2 does.
PromptFree ==
  \A i \in DOMAIN queue["MTE2"] :
    LET op == queue["MTE2"][i]
    IN  op.name = "Free" /\ i > 1 /\ Works(op.data) => queue["MTE2"][i - 1].name = "LoadKkt"

\* No buffer of an output queue is free while a copy that reads it is on its
\* way, and AllocTensor always finds the buffer it takes.
WindowOwnsBuffers ==
  /\ \A i \in DOMAIN queue["MTE3"] :
       \A p \in queue["MTE3"][i].reads : p[2] \notin outFree[p[1]]
  /\ code # << >> /\ Instr.do = "Alloc" =>
       \A q \in QueuesOf(Instr.heads) : outNext[q] \in outFree[q]

\* The order the queues rely on: FREE and the copies out of a buffer keep their
\* places, and a buffer is there whenever the scalar allocates one.
QueueProtocol == TypeOK /\ PromptFree /\ WindowOwnsBuffers
=============================================================================
