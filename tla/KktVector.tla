------------------------------- MODULE KktVector -------------------------------
(***************************************************************************)
(* The Vector stage: one AIV lane of a MIX group working through the tasks *)
(* of the group, ChunkScaledDotKktVectorStage of chunk_scaled_dot_kkt.h.   *)
(*                                                                         *)
(* The scalar unit runs ahead: it issues the work of the helpers it calls  *)
(* and stops only for READY flags and for the copies of earlier outputs.   *)
(* PIPE_MTE2 loads g/beta batches and the KKT tile and frees workspace     *)
(* slots, PIPE_V computes, PIPE_MTE3 copies finished tiles out.  Each pipe *)
(* executes what has been issued to it in order; it is at a place in the   *)
(* lane's program and counts the batches it has done, as the scalar counts *)
(* those it has issued.  Events are counters: a wait takes one signal.     *)
(*                                                                         *)
(* What a buffer holds is tracked down to the (round, head) it belongs to: *)
(*                                                                         *)
(*   gate[x]   g/beta batch in buffer x of gQueue_ and betaQueue_ (always  *)
(*             used together, so one queue here);                          *)
(*   kkt       the round whose Gram is in kktBuf_;                         *)
(*   out[o]    the tiles in buffer o of outputQueue_, each with whether    *)
(*             its gate is its own and which Gram it was multiplied with;  *)
(*   gm        the copies PIPE_MTE3 has completed, in order.               *)
(*                                                                         *)
(* The AIC is reduced to what KktPipeline shows of it: it announces the    *)
(* rounds in order and reuses a slot only after its FREE.  TQue (external) *)
(* is modelled as the code relies on it: EnQue/DeQue order the producing   *)
(* pipe before the consuming one, AllocTensor hands out the buffers in     *)
(* turn and a VECIN buffer is loaded only after its last reader            *)
(* (FreeTensor).  For outputQueue_ only the MTE3_S events order reuse.     *)
(***************************************************************************)
EXTENDS KktTask, Sequences

CONSTANTS Walks,     \* chunk lengths of the rounds of a lane: sequences
          Repeats    \* head ratios H / Hg

ASSUME VectorAssumption ==
  /\ Walks \subseteq Seq(Int)
  /\ Repeats \subseteq Nat \ {0}

NoGram == -1
NoSlot == -1
BUFFER_NUM == 2
Buffer == 0 .. BUFFER_NUM - 1
BufferOf(n) == n % BUFFER_NUM   \* the n-th tensor of a queue

VARIABLES
  lane, repeat, chunkLen, fused,  \* the work of the lane, fixed from the start
  sharedEvent, \* Init's two FetchEventID(MTE3_S) returned one id: the call
               \* reserves nothing
  aicRound,    \* rounds the AIC has announced
  localRound, batch, pc,  \* where the scalar is: round, batch, what it does next
  taken,       \* rounds whose READY it has consumed and whose copy it has issued
  released,    \* rounds whose FREE (or nothing, if not reused) it has issued
  fetched, dequeued,  \* g/beta batches enqueued by a prefetch, dequeued
  computed,           \* batches issued to PIPE_V, their g/beta returned
  acquired, enqueued, launched,  \* outputs allocated, enqueued, their copy issued
  outFree,         \* buffers of outputQueue_ that may be allocated
  outSlot,         \* outputSlotId of the batch in preparation
  nextOutputSlot,  \* nextOutputSlot_
  slotBusy,        \* outputSlotBusyMask_
  slotBuffer,      \* outputSlot0_, outputSlot1_
  readyOutput,     \* readyOutput..._: slot and destination, or NoOutput
  mteRound, mteBatch, mtePc, loaded,    \* PIPE_MTE2, and the batches it has loaded
  vRound, vBatch, vPc, used, produced,  \* PIPE_V, the batches and outputs it is done with
  copies, copying,     \* copies issued to PIPE_MTE3; the oldest has started
  gateFull, gateFree,  \* events of each g/beta buffer
  outFull, outCopied,  \* V_MTE3 of each output buffer, MTE3_S by event id
  kktEmpty, kktFull,   \* V_MTE2, MTE2_V
  ready, free,         \* cross-core flags of each slot
  gate, kkt, out, gm

work    == <<lane, repeat, chunkLen, fused, sharedEvent>>
place   == <<localRound, batch, pc>>
gateVar == <<fetched, dequeued, computed>>
outVar  == <<acquired, enqueued, outFree, outSlot, nextOutputSlot, readyOutput>>
launch  == <<launched, slotBusy, slotBuffer, copies>>
scalar  == <<place, taken, released, gateVar, outVar, launched, slotBusy, slotBuffer>>
mte2    == <<mteRound, mteBatch, mtePc, loaded>>
vpipe   == <<vRound, vBatch, vPc, used, produced>>
gateEv  == <<gateFull, gateFree>>
kktEv   == <<kktEmpty, kktFull>>
memory  == <<gate, kkt, out, gm>>
vars    == <<work, aicRound, scalar, mte2, vpipe, copies, copying, gateEv, outFull, outCopied,
             kktEv, ready, free, memory>>

NoOutput == [slot |-> NoSlot, dest |-> {}]

TaskCount == Len(chunkLen)
Rounds == 0 .. TaskCount - 1
LenOf(r) == chunkLen[r + 1]
Works(r) == HasWork(repeat, lane, LenOf(r))
TailChunk(r) == LenOf(r) # BT

\* Halves of an adjacent-chunk tile.
FirstHalf(r) == r \in fused
SecondHalf(r) == r - 1 \in fused

\* Seeded fault of WillReuseSlot: one FREE too few.
WillReuseSlotShort(r) == r + SLOT_COUNT < TaskCount - 1

\* localRound + SLOT_COUNT < localTaskCount
WillReuseSlot(r) == r + SLOT_COUNT < TaskCount

\* outputSlotEvent0_ / outputSlotEvent1_.
SlotEvent(s) == IF sharedEvent THEN 0 ELSE s

\* Batches of GATE_HEAD_BATCH consecutive repeated heads of the lane.
TotalHeads == RepeatEnd(repeat, lane) - FirstRepeat(repeat, lane)
BatchCount == (TotalHeads + GATE_HEAD_BATCH - 1) \div GATE_HEAD_BATCH

Batch(b) ==
  LET first == FirstRepeat(repeat, lane) + b * GATE_HEAD_BATCH
  IN  first .. MinI32(first + GATE_HEAD_BATCH, RepeatEnd(repeat, lane)) - 1

LastBatch(b) == b + 1 = BatchCount

-----------------------------------------------------------------------------
\* CanFuseAdjacentFullChunks() holds of the pairs a lane fuses (R = 3 only);
\* which ones it meets as pairs depends on the walk.
MayFuse(pairs) ==
  IF repeat = 3
  THEN \A r \in pairs : /\ r + 1 \in Rounds /\ r + 1 \notin pairs
                        /\ LenOf(r) = BT /\ LenOf(r + 1) = BT
  ELSE pairs = {}

Init ==
  /\ lane \in Lane
  /\ repeat \in Repeats
  /\ chunkLen \in Walks
  /\ fused \in SUBSET Rounds /\ MayFuse(fused)
  /\ sharedEvent \in BOOLEAN
  /\ aicRound = 0
  /\ localRound = 0 /\ batch = 0 /\ pc = "top"
  /\ taken = 0 /\ released = 0
  /\ fetched = 0 /\ dequeued = 0 /\ computed = 0
  /\ acquired = 0 /\ enqueued = 0 /\ launched = 0
  /\ outFree = Buffer /\ outSlot = 0 /\ nextOutputSlot = 0
  /\ slotBusy = [s \in Slot |-> FALSE]
  /\ slotBuffer = [s \in Slot |-> s]
  /\ readyOutput = NoOutput
  /\ mteRound = 0 /\ mteBatch = 0 /\ mtePc = "gate" /\ loaded = 0
  /\ vRound = 0 /\ vBatch = 0 /\ vPc = "top" /\ used = 0 /\ produced = 0
  /\ copies = << >> /\ copying = FALSE
  /\ gateFull = [x \in Buffer |-> 0] /\ gateFree = [x \in Buffer |-> 1]
  /\ outFull = [o \in Buffer |-> 0] /\ outCopied = [e \in Slot |-> 0]
  /\ kktEmpty = 0 /\ kktFull = 0
  /\ ready = [s \in Slot |-> 0] /\ free = [s \in Slot |-> 0]
  /\ gate = [x \in Buffer |-> {}] /\ kkt = NoGram
  /\ out = [o \in Buffer |-> {}] /\ gm = << >>

-----------------------------------------------------------------------------
(* The AIC, as this lane sees it *)

AicRound ==
  LET s == SlotOf(aicRound)
      wait == aicRound >= SLOT_COUNT
  IN  /\ aicRound < TaskCount
      /\ wait => free[s] > 0
      /\ free' = IF wait THEN [free EXCEPT ![s] = @ - 1] ELSE free
      /\ ready' = [ready EXCEPT ![s] = @ + 1]
      /\ aicRound' = aicRound + 1
      /\ UNCHANGED <<work, scalar, mte2, vpipe, copies, copying, gateEv, outFull, outCopied,
                     kktEv, memory>>

-----------------------------------------------------------------------------
(* The scalar unit *)

ScalarOnly ==
  UNCHANGED <<work, aicRound, mte2, vpipe, copying, gateEv, outFull, kktEv, free, memory>>

Go(r, b, next) == localRound' = r /\ batch' = b /\ pc' = next

\* PrefetchGateAndBetaBatch(): AllocTensor needs a buffer that was returned.
Prefetch == fetched < computed + BUFFER_NUM /\ fetched' = fetched + 1

\* The first batch of a task with work.  A fused pair has its output by now.
PrefetchFirstBatch ==
  /\ localRound < TaskCount /\ Works(localRound)
  /\ pc = IF FirstHalf(localRound) THEN "fetch" ELSE "top"
  /\ Prefetch
  /\ Go(localRound, batch, "ready")
  /\ UNCHANGED <<taken, released, dequeued, computed, outVar, launch, outCopied, ready>>
  /\ ScalarOnly

\* CrossCoreWaitFlag(ReadyFlagForSlot(slotId)), then BeginLoadKktSlot() is
\* issued, or FREE if the lane has no rows.
WaitReady ==
  LET s == SlotOf(localRound)
  IN  /\ localRound < TaskCount
      /\ pc = IF Works(localRound) THEN "ready" ELSE "top"
      /\ ready[s] > 0
      /\ ready' = [ready EXCEPT ![s] = @ - 1]
      /\ taken' = taken + 1
      /\ IF Works(localRound)
         THEN Go(localRound, batch, "batch") /\ UNCHANGED released
         ELSE Go(localRound + 1, 0, "top") /\ released' = released + 1
      /\ UNCHANGED <<gateVar, outVar, launch, outCopied>>
      /\ ScalarOnly

\* DeQue of g and beta, and from the second batch on the prefetch of the next.
BeginBatch ==
  /\ pc = "batch"
  /\ dequeued < fetched
  /\ dequeued' = dequeued + 1
  /\ IF batch > 0 /\ ~LastBatch(batch) THEN Prefetch ELSE UNCHANGED fetched
  /\ Go(localRound, batch,
        IF FirstHalf(localRound) \/ SecondHalf(localRound) THEN "prepare" ELSE "acquire")
  /\ UNCHANGED <<taken, released, computed, outVar, launch, outCopied, ready>>
  /\ ScalarOnly

\* WaitFlag<MTE3_S> and FreeOutputSlot() of slot s, if it is busy.
Retire(s) ==
  /\ slotBusy[s] => outCopied[SlotEvent(s)] > 0
  /\ outCopied' = IF slotBusy[s] THEN [outCopied EXCEPT ![SlotEvent(s)] = @ - 1] ELSE outCopied
  /\ slotBusy' = [slotBusy EXCEPT ![s] = FALSE]
Returned(s) == IF slotBusy[s] THEN outFree \cup {slotBuffer[s]} ELSE outFree

\* Seeded fault of OtherSlot: the toggle is forgotten.
OtherSlotSame(s) == s

\* nextOutputSlot_ ^= 1
OtherSlot(s) == 1 - s

\* AcquireOutputSlot() and the AllocTensor that follows it.
AcquireOutputSlot ==
  LET s == nextOutputSlot
      o == BufferOf(acquired)
  IN  /\ \/ pc = "acquire" /\ Go(localRound, batch, "prepare")
         \/ pc = "top" /\ FirstHalf(localRound) /\ Go(localRound, batch, "fetch")
      /\ Retire(s)
      /\ nextOutputSlot' = OtherSlot(s)
      /\ outSlot' = s
      /\ o \in Returned(s)
      /\ outFree' = Returned(s) \ {o}
      /\ acquired' = acquired + 1
      /\ UNCHANGED <<taken, released, gateVar, enqueued, readyOutput, launched, slotBuffer,
                     copies, ready>>
      /\ ScalarOnly

LaunchReadyOutput ==
  LET s == readyOutput.slot
      o == BufferOf(launched)
  IN  IF readyOutput = NoOutput
      THEN UNCHANGED launch
      ELSE /\ launched < enqueued
           /\ launched' = launched + 1
           /\ copies' = Append(copies, [buffer |-> o, slot |-> s, dest |-> readyOutput.dest])
           /\ slotBuffer' = [slotBuffer EXCEPT ![s] = o]
           /\ slotBusy' = [slotBusy EXCEPT ![s] = TRUE]

\* The tiles of the output that batch b of round r completes.
Destination(r, b) == (IF SecondHalf(r) THEN {r - 1, r} ELSE {r}) \X Batch(b)

\* The rest of a batch, which never stops: Prepare..., in which the copy of
\* the previous output is launched, FREE and the second prefetch behind the
\* first batch, Finalize... with EnQue and QueueDelayed...Output() unless the
\* other half follows, FreeTensor of g and beta.
ProcessBatch ==
  LET r == localRound
      b == batch
  IN  /\ pc = "prepare"
      /\ LaunchReadyOutput
      /\ released' = IF b = 0 THEN released + 1 ELSE released
      /\ IF b = 0 /\ ~LastBatch(b) THEN Prefetch ELSE UNCHANGED fetched
      /\ computed' = computed + 1
      /\ enqueued' = IF FirstHalf(r) THEN enqueued ELSE enqueued + 1
      /\ readyOutput' = IF FirstHalf(r) THEN NoOutput
                        ELSE [slot |-> outSlot, dest |-> Destination(r, b)]
      /\ IF LastBatch(b) THEN Go(r + 1, 0, "top") ELSE Go(r, b + 1, "batch")
      /\ UNCHANGED <<taken, dequeued, acquired, outFree, outSlot, nextOutputSlot, outCopied, ready>>
      /\ ScalarOnly

\* Seeded fault of Epilogue: the delayed batch is forgotten.
EpilogueDrainOnly ==
  /\ localRound = TaskCount /\ pc = "top"
  /\ Go(localRound, batch, "drain0")
  /\ UNCHANGED <<taken, released, gateVar, outVar, launch, outCopied, ready>>
  /\ ScalarOnly

\* After the walk: LaunchReadyOutput(), ...
Epilogue ==
  /\ localRound = TaskCount /\ pc = "top"
  /\ LaunchReadyOutput
  /\ readyOutput' = NoOutput
  /\ Go(localRound, batch, "drain0")
  /\ UNCHANGED <<taken, released, gateVar, acquired, enqueued, outFree, outSlot, nextOutputSlot,
                 outCopied, ready>>
  /\ ScalarOnly

\* ... then DrainAllOutputSlots(), slot by slot.
DrainOutputSlot ==
  LET s == IF pc = "drain0" THEN 0 ELSE 1
  IN  /\ pc \in {"drain0", "drain1"}
      /\ Retire(s)
      /\ outFree' = Returned(s)
      /\ Go(localRound, batch, IF s = 0 THEN "drain1" ELSE "done")
      /\ UNCHANGED <<taken, released, gateVar, acquired, enqueued, outSlot, nextOutputSlot,
                     readyOutput, launched, slotBuffer, copies, ready>>
      /\ ScalarOnly

Scalar ==
  \/ PrefetchFirstBatch \/ WaitReady \/ BeginBatch \/ AcquireOutputSlot \/ ProcessBatch
  \/ Epilogue \/ DrainOutputSlot

-----------------------------------------------------------------------------
(* PIPE_MTE2 *)

Mte2Only ==
  UNCHANGED <<work, aicRound, scalar, vpipe, copies, copying, outFull, outCopied, ready,
              out, gm>>

\* Behind batch b of its round, if the round has another one or not.
NextLoad(b) ==
  /\ mtePc' = "gate"
  /\ IF LastBatch(b) THEN mteRound' = mteRound + 1 /\ mteBatch' = 0
     ELSE mteRound' = mteRound /\ mteBatch' = b + 1

StartLoadGate ==
  LET x == BufferOf(loaded)
  IN  /\ mtePc = "gate"
      /\ loaded < fetched /\ Works(mteRound)
      /\ gateFree[x] > 0
      /\ gateFree' = [gateFree EXCEPT ![x] = @ - 1]
      /\ mtePc' = "loadingGate"
      /\ UNCHANGED <<mteRound, mteBatch, loaded, gateFull, kktEv, free, gate, kkt>>
      /\ Mte2Only

\* Seeded fault of PrefetchedHeads: always the first batch.
PrefetchedHeadsFirst(b) == Batch(0)

\* firstHead + nextBatchRepeat and the heads behind it.
PrefetchedHeads(b) == Batch(b)

FinishLoadGate ==
  LET x == BufferOf(loaded)
  IN  /\ mtePc = "loadingGate"
      /\ gate' = [gate EXCEPT ![x] = {mteRound} \X PrefetchedHeads(mteBatch)]
      /\ gateFull' = [gateFull EXCEPT ![x] = @ + 1]
      /\ loaded' = loaded + 1
      /\ IF mteBatch = 0 THEN mtePc' = "kkt" /\ UNCHANGED <<mteRound, mteBatch>>
         ELSE NextLoad(mteBatch)
      /\ UNCHANGED <<gateFree, kktEv, free, kkt>>
      /\ Mte2Only

\* Seeded fault of StartLoadKkt: the copy does not wait for PIPE_V.
StartLoadKktUnordered ==
  /\ mtePc = "kkt"
  /\ mteRound < taken
  /\ mtePc' = "loadingKkt"
  /\ UNCHANGED <<mteRound, mteBatch, loaded, gateEv, kktEv, free, gate, kkt>>
  /\ Mte2Only

\* BeginLoadKktSlot(): the copy, behind WaitFlag<V_MTE2>.
StartLoadKkt ==
  /\ mtePc = "kkt"
  /\ mteRound < taken
  /\ kktEmpty > 0
  /\ kktEmpty' = kktEmpty - 1
  /\ mtePc' = "loadingKkt"
  /\ UNCHANGED <<mteRound, mteBatch, loaded, gateEv, kktFull, free, gate, kkt>>
  /\ Mte2Only

FinishLoadKkt ==
  /\ mtePc = "loadingKkt"
  /\ kkt' = mteRound
  /\ kktFull' = kktFull + 1
  /\ mtePc' = "free"
  /\ UNCHANGED <<mteRound, mteBatch, loaded, gateEv, kktEmpty, free, gate>>
  /\ Mte2Only

\* CrossCoreSetFlag<2, PIPE_MTE2>(FreeFlagForSlot(slotId)), behind the copy.
ReleaseSlot ==
  /\ mteRound < released
  /\ mtePc = IF Works(mteRound) THEN "free" ELSE "gate"
  /\ free' = IF WillReuseSlot(mteRound) THEN [free EXCEPT ![SlotOf(mteRound)] = @ + 1] ELSE free
  /\ IF Works(mteRound) THEN NextLoad(0)
     ELSE mtePc' = "gate" /\ mteRound' = mteRound + 1 /\ mteBatch' = 0
  /\ UNCHANGED <<loaded, gateEv, kktEv, gate, kkt>>
  /\ Mte2Only

Mte2 == StartLoadGate \/ FinishLoadGate \/ StartLoadKkt \/ FinishLoadKkt \/ ReleaseSlot

-----------------------------------------------------------------------------
(* PIPE_V *)

VectorOnly ==
  UNCHANGED <<work, aicRound, scalar, mte2, copies, copying, outCopied, ready, free, gate, gm>>

\* BeginLoadKktSlot(): a tail's tile is zeroed first; then SetFlag<V_MTE2>.
StartZeroKkt ==
  /\ vPc = "top"
  /\ vRound < taken /\ Works(vRound) /\ TailChunk(vRound)
  /\ vPc' = "zeroing"
  /\ UNCHANGED <<vRound, vBatch, used, produced, gateEv, outFull, kktEv, kkt, out>>
  /\ VectorOnly

HandOverKkt ==
  /\ \/ vPc = "zeroing" /\ kkt' = NoGram
     \/ vPc = "top" /\ vRound < taken /\ Works(vRound) /\ ~TailChunk(vRound) /\ UNCHANGED kkt
  /\ kktEmpty' = kktEmpty + 1
  /\ vPc' = "gate"
  /\ UNCHANGED <<vRound, vBatch, used, produced, gateEv, outFull, kktFull, out>>
  /\ VectorOnly

\* A round without rows gives PIPE_V nothing to do.
PassRound ==
  /\ vPc = "top"
  /\ vRound < taken /\ ~Works(vRound)
  /\ vRound' = vRound + 1
  /\ UNCHANGED <<vBatch, vPc, used, produced, gateEv, outFull, kktEv, kkt, out>>
  /\ VectorOnly

\* DeQue orders the load before what follows: for a tail
\* ZeroTailGateAndBetaBatchSuffix().
TakeGate ==
  LET x == BufferOf(used)
  IN  /\ vPc = "gate"
      /\ used < dequeued
      /\ gateFull[x] > 0
      /\ gateFull' = [gateFull EXCEPT ![x] = @ - 1]
      /\ vPc' = IF TailChunk(vRound) THEN "clearing" ELSE "prepare"
      /\ UNCHANGED <<vRound, vBatch, used, produced, gateFree, outFull, kktEv, kkt, out>>
      /\ VectorOnly

FinishZeroTail ==
  /\ vPc = "clearing"
  /\ vPc' = "prepare"
  /\ UNCHANGED <<vRound, vBatch, used, produced, gateEv, outFull, kktEv, kkt, out>>
  /\ VectorOnly

\* PrepareHeadFactor() or PrepareHeadPairFactor(): beta_i * exp(g_i - g_j).
StartPrepare ==
  /\ vPc = "prepare"
  /\ used < computed
  /\ vPc' = "preparing"
  /\ UNCHANGED <<vRound, vBatch, used, produced, gateEv, outFull, kktEv, kkt, out>>
  /\ VectorOnly

FinishPrepare ==
  LET x == BufferOf(used)
      o == BufferOf(produced)
      tiles == {[tile |-> t, ownGate |-> t \in gate[x], gram |-> NoGram] :
                  t \in {vRound} \X Batch(vBatch)}
  IN  /\ vPc = "preparing"
      /\ vPc' = "mul"
      /\ out' = [out EXCEPT ![o] = IF SecondHalf(vRound) THEN @ \cup tiles ELSE tiles]
      /\ UNCHANGED <<vRound, vBatch, used, produced, gateEv, outFull, kktEv, kkt>>
      /\ VectorOnly

\* The multiplication with the KKT tile; the first batch of a round waits for
\* the copy (the WaitFlag of CompleteKktLoadAndReleaseSlot).
StartMul ==
  /\ vPc = "mul"
  /\ vBatch = 0 => kktFull > 0
  /\ kktFull' = IF vBatch = 0 THEN kktFull - 1 ELSE kktFull
  /\ vPc' = "multiplying"
  /\ UNCHANGED <<vRound, vBatch, used, produced, gateEv, outFull, kktEmpty, kkt, out>>
  /\ VectorOnly

\* FinalizeHead(Pair)WithKkt(): behind it EnQue of the output, unless its
\* other half follows, and FreeTensor of g and beta.
FinishMul ==
  LET x == BufferOf(used)
      o == BufferOf(produced)
      closes == ~FirstHalf(vRound)
  IN  /\ vPc = "multiplying"
      /\ out' = [out EXCEPT ![o] =
                   {IF t.tile[1] = vRound THEN [t EXCEPT !.gram = kkt] ELSE t : t \in @}]
      /\ outFull' = IF closes THEN [outFull EXCEPT ![o] = @ + 1] ELSE outFull
      /\ produced' = IF closes THEN produced + 1 ELSE produced
      /\ gateFree' = [gateFree EXCEPT ![x] = @ + 1]
      /\ used' = used + 1
      /\ IF LastBatch(vBatch) THEN vRound' = vRound + 1 /\ vBatch' = 0 /\ vPc' = "top"
         ELSE vRound' = vRound /\ vBatch' = vBatch + 1 /\ vPc' = "gate"
      /\ UNCHANGED <<gateFull, kktEv, kkt>>
      /\ VectorOnly

VectorPipe ==
  \/ StartZeroKkt \/ HandOverKkt \/ PassRound \/ TakeGate \/ FinishZeroTail
  \/ StartPrepare \/ FinishPrepare \/ StartMul \/ FinishMul

-----------------------------------------------------------------------------
(* PIPE_MTE3: the copies of LaunchReadyOutput() *)

Mte3Only ==
  UNCHANGED <<work, aicRound, scalar, mte2, vpipe, gateEv, kktEv, ready, free, gate, kkt, out>>

StartCopyOut ==
  LET o == Head(copies).buffer
  IN  /\ ~copying
      /\ copies # << >>
      /\ outFull[o] > 0
      /\ outFull' = [outFull EXCEPT ![o] = @ - 1]
      /\ copying' = TRUE
      /\ UNCHANGED <<copies, outCopied, gm>>
      /\ Mte3Only

FinishCopyOut ==
  LET c == Head(copies)
  IN  /\ copying
      /\ gm' = Append(gm, [dest |-> c.dest, tiles |-> out[c.buffer]])
      /\ outCopied' = [outCopied EXCEPT ![SlotEvent(c.slot)] = @ + 1]
      /\ copies' = Tail(copies)
      /\ copying' = FALSE
      /\ UNCHANGED outFull
      /\ Mte3Only

Mte3 == StartCopyOut \/ FinishCopyOut

-----------------------------------------------------------------------------

Done ==
  /\ pc = "done"
  /\ mteRound = TaskCount /\ vRound = TaskCount /\ copies = << >>

Finished == Done /\ UNCHANGED vars

Next == AicRound \/ Scalar \/ Mte2 \/ VectorPipe \/ Mte3 \/ Finished

\* The scalar unit and each pipe never stop while they can go on.
Fairness ==
  WF_vars(AicRound) /\ WF_vars(Scalar) /\ WF_vars(Mte2) /\ WF_vars(VectorPipe) /\ WF_vars(Mte3)

SafeSpec == Init /\ [][Next]_vars
Spec == SafeSpec /\ Fairness

-----------------------------------------------------------------------------
(* Properties *)

\* No pipe touches a g/beta buffer, the KKT tile or an output buffer that
\* another one is writing.
NoBufferRace ==
  /\ mtePc = "loadingGate" /\ vPc \in {"clearing", "preparing"} =>
       BufferOf(loaded) # BufferOf(used)
  /\ mtePc = "loadingKkt" => vPc \notin {"zeroing", "multiplying"}
  /\ copying /\ vPc \in {"preparing", "multiplying"} =>
       Head(copies).buffer # BufferOf(produced)

\* The tiles this lane has to write.
OwnTiles == {t \in Rounds \X LaneRepeats(repeat, lane) : Works(t[1])}

Progress == 0 .. TaskCount

ProgressType ==
  /\ aicRound \in Progress /\ localRound \in Progress
  /\ mteRound \in Progress /\ vRound \in Progress
  /\ taken \in Progress /\ released \in Progress
  /\ batch \in Nat /\ mteBatch \in Nat /\ vBatch \in Nat
  /\ fetched \in Nat /\ dequeued \in Nat /\ computed \in Nat /\ loaded \in Nat /\ used \in Nat
  /\ acquired \in Nat /\ enqueued \in Nat /\ launched \in Nat /\ produced \in Nat
  /\ pc \in {"top", "fetch", "ready", "batch", "acquire", "prepare", "drain0", "drain1", "done"}
  /\ mtePc \in {"gate", "loadingGate", "kkt", "loadingKkt", "free"}
  /\ vPc \in {"top", "zeroing", "gate", "clearing", "prepare", "preparing", "mul", "multiplying"}

OutputType ==
  /\ outFree \in SUBSET Buffer /\ outSlot \in Slot /\ nextOutputSlot \in Slot
  /\ slotBusy \in [Slot -> BOOLEAN] /\ slotBuffer \in [Slot -> Buffer]
  /\ readyOutput \in {NoOutput} \cup [slot : Slot, dest : SUBSET OwnTiles]
  /\ copies \in Seq([buffer : Buffer, slot : Slot, dest : SUBSET OwnTiles])
  /\ copying \in BOOLEAN

EventType ==
  /\ gateFull \in [Buffer -> 0 .. 1] /\ gateFree \in [Buffer -> 0 .. 1]
  /\ outFull \in [Buffer -> 0 .. 1] /\ outCopied \in [Slot -> 0 .. 2]
  /\ kktEmpty \in 0 .. 1 /\ kktFull \in 0 .. 1
  /\ ready \in [Slot -> 0 .. 1] /\ free \in [Slot -> 0 .. 1]

TileState == [tile : OwnTiles, ownGate : BOOLEAN, gram : Rounds \cup {NoGram}]

MemoryType ==
  /\ gate \in [Buffer -> SUBSET OwnTiles]
  /\ kkt \in Rounds \cup {NoGram}
  /\ out \in [Buffer -> SUBSET TileState]
  /\ gm \in Seq([dest : SUBSET OwnTiles, tiles : SUBSET TileState])

TypeOK == ProgressType /\ OutputType /\ EventType /\ MemoryType

\* What has left the core is right: every copy carries exactly the tiles its
\* destination names, each built from its own g/beta and its own Gram.
OutputsRight ==
  \A i \in DOMAIN gm :
    /\ {t.tile : t \in gm[i].tiles} = gm[i].dest
    /\ \A t \in gm[i].tiles : t.ownGate /\ t.gram = t.tile[1]

\* A lane that is done has written each of its tiles exactly once and no
\* other: the delayed last batch is not lost, none is launched again.
OutputsExactlyOnce ==
  Done => /\ UNION {gm[i].dest : i \in DOMAIN gm} = OwnTiles
          /\ \A i, j \in DOMAIN gm : i # j => gm[i].dest \cap gm[j].dest = {}

\* A finished lane leaves no event or flag signalled, and every buffer free.
EventsBalanced ==
  Done => /\ \A x \in Buffer : gateFull[x] = 0 /\ gateFree[x] = 1 /\ outFull[x] = 0
          /\ \A s \in Slot : outCopied[s] = 0 /\ ready[s] = 0 /\ free[s] = 0
          /\ kktEmpty = 0 /\ kktFull = 0
          /\ outFree = Buffer

\* The epilogue neither loses nor repeats a batch, and hands the core over to
\* the next launch as it was.
CompleteAndBalanced == OutputsExactlyOnce /\ EventsBalanced

\* The queues have depth 1: never a second tensor enqueued.
QueueDepth == fetched <= dequeued + 1 /\ enqueued <= launched + 1

\* The scalar is about to acquire an output slot.
Acquiring == pc = "acquire" \/ (pc = "top" /\ FirstHalf(localRound))

\* The slot a batch is about to take is never that of the delayed batch, whose
\* copy has not even been launched.
DelayedSlotIsOther ==
  Acquiring /\ readyOutput # NoOutput => readyOutput.slot # nextOutputSlot

\* Before the epilogue at most one copy is outstanding, so one MTE3_S id
\* would never be signalled twice.
OneCopyOutstanding ==
  pc \notin {"drain0", "drain1", "done"} => ~(slotBusy[0] /\ slotBusy[1])

\* What the scalar takes for granted whenever it allocates, acquires or
\* launches: no queue overflows, the acquired output slot is free or copied,
\* and waiting for a copy never waits for that of the other slot.
BufferProtocol ==
  TypeOK /\ QueueDepth /\ DelayedSlotIsOther /\ OneCopyOutstanding

\* The lane never waits for a flag, an event or a buffer nobody returns.
Termination == <>Done
=============================================================================
