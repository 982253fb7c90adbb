-------------------------------- MODULE KktV04 --------------------------------
(***************************************************************************)
(* versions/v04_phase_c_chunk_pair: the kernel before the group-aligned    *)
(* assignment, one MIX group of it with schedule and slot protocol         *)
(* together.  The AIC takes its task from ScheduledTaskId round by round;  *)
(* each AIV lane walks by cursors of its own (ProcessCyclic, or            *)
(* ProcessChunkLocalR34 with pairs of full chunks when H / Hg = 3), works  *)
(* out on its own when to return a slot, and finds the Gram of a round by  *)
(* nothing but the flag and the slot.  Each core is a scalar that walks    *)
(* and issues, and pipes that work behind it.                              *)
(*                                                                         *)
(* chunkOffsets are what the device finds in memory: a chunk may be empty, *)
(* too long, or beyond t.                                                  *)
(***************************************************************************)
EXTENDS KktTask, Sequences

CONSTANT Shapes   \* [aicNum, hg, repeat, t, offsets]

NumChunks(x) == Len(x.offsets) - 1
TotalTaskCount(x) == NumChunks(x) * x.hg
BlockDim(x) == MinI32(x.aicNum, TotalTaskCount(x))

ASSUME V04Assumption ==
  \A x \in Shapes :
    /\ x.aicNum \in Nat \ {0} /\ x.hg \in Nat \ {0} /\ x.repeat \in Nat \ {0}
    /\ x.t \in Nat /\ NumChunks(x) \in Nat \ {0} /\ x.offsets \in Seq(Int)

NoGram == -1
Torn   == -2
NoEntry == << >>

VARIABLES
  shape, group,
  issued,    \* rounds the AIC scalar is through with
  announced, \* rounds PIPE_FIX is through with
  fixPc,     \* PIPE_FIX in round announced: "idle", "writing", "written"
  slot,      \* slot[s]: the round whose Gram the workspace slot holds
  ready,     \* ready[s][l], free[s][l]: flag counters
  free,
  walk,      \* walk[l]: the cursors of lane l
  queue,     \* queue[l]: tasks lane l has taken and PIPE_MTE2 still works on
  mtePc,     \* PIPE_MTE2 in the first of them: "idle", "loading", "loaded"
  source,    \* source[l]: what the slot held when the copy of lane l started
  tile,      \* tile[l]: the round whose Gram the last copy brought to kktBuf_
  compute,   \* compute[l]: the task PIPE_V has to use kktBuf_ for, or none
  out        \* what PIPE_V has made

given == <<shape, group>>
aic   == <<issued, announced, fixPc>>
vars  == <<given, aic, slot, ready, free, walk, queue, mtePc, source, tile, compute, out>>

totalTaskCount == TotalTaskCount(shape)
numChunks == NumChunks(shape)
blockDim == BlockDim(shape)
hg == shape.hg
Repeat == shape.repeat
chunkLocal == Repeat = 3

TaskId(chunk, kv) == chunk * hg + kv
Start(chunk) == shape.offsets[chunk + 1]
ChunkLen(chunk) == Start(chunk + 1) - Start(chunk)
Valid(chunk) == ValidChunk(Start(chunk), Start(chunk + 1), shape.t)

-----------------------------------------------------------------------------
(* The AIC's schedule *)

Begin(g) == (totalTaskCount * g) \div blockDim

ScheduledTaskCount(g) ==
  IF chunkLocal THEN Begin(g + 1) - Begin(g)
  ELSE IF g >= totalTaskCount THEN 0
  ELSE (totalTaskCount - 1 - g) \div blockDim + 1

ScheduledTaskId(g, round) ==
  IF chunkLocal
  THEN LET ordinal == Begin(g) + round
       IN  TaskId(ordinal % numChunks, ordinal \div numChunks)
  ELSE g + round * blockDim

localTaskCount == ScheduledTaskCount(group)
AicChunk(round) == ScheduledTaskId(group, round) \div hg

-----------------------------------------------------------------------------
Init ==
  /\ shape \in Shapes
  /\ group \in 0 .. BlockDim(shape) - 1
  /\ issued = 0 /\ announced = 0 /\ fixPc = "idle"
  /\ slot = [s \in Slot |-> NoGram]
  /\ ready = [s \in Slot |-> [l \in Lane |-> 0]]
  /\ free = [s \in Slot |-> [l \in Lane |-> 0]]
  /\ walk = [l \in Lane |->
       [ordinal |-> IF chunkLocal THEN Begin(group) ELSE group,
        kvHeadId |-> Begin(group) \div numChunks,
        chunkId |-> Begin(group) % numChunks,
        localRound |-> 0, inPair |-> FALSE]]
  /\ queue = [l \in Lane |-> << >>]
  /\ mtePc = [l \in Lane |-> "idle"]
  /\ source = [l \in Lane |-> NoGram]
  /\ tile = [l \in Lane |-> NoGram]
  /\ compute = [l \in Lane |-> NoEntry]
  /\ out = {}

-----------------------------------------------------------------------------
(* AIC *)

\* Seeded fault of IssueRound: the FREE wait is one round late.
IssueRoundLate ==
  /\ issued < localTaskCount
  /\ issued > SLOT_COUNT => \A l \in Lane : free[SlotOf(issued)][l] > 0
  /\ free' = IF issued > SLOT_COUNT
             THEN [free EXCEPT ![SlotOf(issued)] = [l \in Lane |-> @[l] - 1]]
             ELSE free
  /\ issued' = issued + 1
  /\ UNCHANGED <<given, announced, fixPc, slot, ready, walk, queue, mtePc, source, tile, compute, out>>

\* One iteration of the round loop: CrossCoreWaitFlag(FREE) from round
\* SLOT_COUNT on, then the rest goes to PIPE_FIX.
IssueRound ==
  /\ issued < localTaskCount
  /\ issued >= SLOT_COUNT => \A l \in Lane : free[SlotOf(issued)][l] > 0
  /\ free' = IF issued >= SLOT_COUNT
             THEN [free EXCEPT ![SlotOf(issued)] = [l \in Lane |-> @[l] - 1]]
             ELSE free
  /\ issued' = issued + 1
  /\ UNCHANGED <<given, announced, fixPc, slot, ready, walk, queue, mtePc, source, tile, compute, out>>

\* CommitWorkspace(), of a valid chunk only.
StartCommit ==
  /\ announced < issued
  /\ fixPc = "idle"
  /\ Valid(AicChunk(announced))
  /\ fixPc' = "writing"
  /\ slot' = [slot EXCEPT ![SlotOf(announced)] = Torn]
  /\ UNCHANGED <<given, issued, announced, ready, free, walk, queue, mtePc, source, tile, compute, out>>

FinishCommit ==
  /\ fixPc = "writing"
  /\ fixPc' = "written"
  /\ slot' = [slot EXCEPT ![SlotOf(announced)] = announced]
  /\ UNCHANGED <<given, issued, announced, ready, free, walk, queue, mtePc, source, tile, compute, out>>

\* READY to both lanes, behind the copy on PIPE_FIX.
SetReady ==
  /\ announced < issued
  /\ fixPc = IF Valid(AicChunk(announced)) THEN "written" ELSE "idle"
  /\ ready' = [ready EXCEPT ![SlotOf(announced)] = [l \in Lane |-> @[l] + 1]]
  /\ announced' = announced + 1
  /\ fixPc' = "idle"
  /\ UNCHANGED <<given, issued, slot, free, walk, queue, mtePc, source, tile, compute, out>>

-----------------------------------------------------------------------------
(* AIV lane l: the walk of its scalar *)

\* Seeded fault of CanFuseAdjacentFullChunks: the second chunk is not tested.
CanFuseFirstOnly(first) == Valid(first) /\ ChunkLen(first) = BT

CanFuseAdjacentFullChunks(first) ==
  /\ Start(first) >= 0
  /\ Start(first + 2) <= shape.t
  /\ ChunkLen(first) = BT
  /\ ChunkLen(first + 1) = BT

\* The lane consumes READY of its round and issues the work on task.
Take(l, task, reuse, repeats, works) ==
  LET s == SlotOf(walk[l].localRound)
  IN  /\ ready[s][l] > 0
      /\ ready' = [ready EXCEPT ![s][l] = @ - 1]
      /\ queue' = [queue EXCEPT ![l] = Append(@,
           [task |-> task, round |-> walk[l].localRound, reuse |-> reuse,
            works |-> works, repeats |-> repeats])]

WillReuseSlot(round, count) == round + SLOT_COUNT < count

\* ProcessPipelineTask(), up to what it gives to the pipes.
Pipeline(l, task, reuse) ==
  LET chunk == task \div hg
  IN  Take(l, task, reuse, LaneRepeats(Repeat, l),
           Valid(chunk) /\ HasWork(Repeat, l, ChunkLen(chunk)))

\* One of the two rounds of ProcessAdjacentFullChunkR34<l = 1>().
AdjacentFullChunk(l, task, reuse) ==
  Take(l, task, reuse, IF l = 0 THEN {0} ELSE 1 .. GATE_HEAD_BATCH, TRUE)

TakeCyclic(l) ==
  LET task == walk[l].ordinal
  IN  /\ ~chunkLocal
      /\ task < totalTaskCount
      /\ Pipeline(l, task, task + SLOT_COUNT * blockDim < totalTaskCount)
      /\ walk' = [walk EXCEPT ![l].ordinal = @ + blockDim, ![l].localRound = @ + 1]
      /\ UNCHANGED <<given, aic, slot, free, mtePc, source, tile, compute, out>>

\* Seeded fault of NextHead: the head is not advanced at the wrap.
NextHeadSame(kv, chunk) == kv
NextHead(kv, chunk) == IF chunk >= numChunks THEN kv + 1 ELSE kv
NextChunk(chunk) == IF chunk >= numChunks THEN chunk - numChunks ELSE chunk

\* A turn of ProcessChunkLocalR34, or the second half of one that fused:
\* ProcessAdjacentFullChunkR34 goes through the rounds of its two chunks
\* without looking at them again.
TakeChunkLocal(l) ==
  LET w == walk[l]
      count == Begin(group + 1) - Begin(group)
      fuse == /\ ~w.inPair
              /\ w.ordinal + 1 < Begin(group + 1)
              /\ w.chunkId + 1 < numChunks
              /\ CanFuseAdjacentFullChunks(w.chunkId)
      task == TaskId(w.chunkId, w.kvHeadId)
      reuse == WillReuseSlot(w.localRound, count)
  IN  /\ chunkLocal
      /\ w.ordinal < Begin(group + 1)
      /\ IF fuse \/ w.inPair
         THEN AdjacentFullChunk(l, task, reuse)
         ELSE Pipeline(l, task, reuse)
      /\ walk' = [walk EXCEPT ![l] =
           [ordinal |-> w.ordinal + 1,
            kvHeadId |-> NextHead(w.kvHeadId, w.chunkId + 1),
            chunkId |-> NextChunk(w.chunkId + 1),
            localRound |-> w.localRound + 1,
            inPair |-> fuse]]
      /\ UNCHANGED <<given, aic, slot, free, mtePc, source, tile, compute, out>>

-----------------------------------------------------------------------------
(* AIV lane l: its pipes *)

\* BeginLoadKktSlot(): kktBuf_ is loaded once PIPE_V is through with it.
StartLoad(l) ==
  /\ queue[l] # << >> /\ Head(queue[l]).works
  /\ mtePc[l] = "idle"
  /\ compute[l] = NoEntry
  /\ mtePc' = [mtePc EXCEPT ![l] = "loading"]
  /\ source' = [source EXCEPT ![l] = slot[SlotOf(Head(queue[l]).round)]]
  /\ UNCHANGED <<given, aic, slot, ready, free, walk, queue, tile, compute, out>>

\* A slot rewritten while the copy ran leaves a mixture in UB.
FinishLoad(l) ==
  /\ mtePc[l] = "loading"
  /\ mtePc' = [mtePc EXCEPT ![l] = "loaded"]
  /\ tile' = [tile EXCEPT ![l] =
                IF slot[SlotOf(Head(queue[l]).round)] = source[l] THEN source[l] ELSE Torn]
  /\ compute' = [compute EXCEPT ![l] = Head(queue[l])]
  /\ UNCHANGED <<given, aic, slot, ready, free, walk, queue, source, out>>

\* FREE, behind the copy on PIPE_MTE2, if the AIC will want the slot again.
Release(l) ==
  /\ queue[l] # << >>
  /\ mtePc[l] = IF Head(queue[l]).works THEN "loaded" ELSE "idle"
  /\ free' = IF Head(queue[l]).reuse
             THEN [free EXCEPT ![SlotOf(Head(queue[l]).round)][l] = @ + 1]
             ELSE free
  /\ queue' = [queue EXCEPT ![l] = Tail(@)]
  /\ mtePc' = [mtePc EXCEPT ![l] = "idle"]
  /\ UNCHANGED <<given, aic, slot, ready, walk, source, tile, compute, out>>

\* The products with the Gram: one tile for each of the task's heads.
Finalize(l) ==
  /\ compute[l] # NoEntry
  /\ out' = out \cup {[lane |-> l, round |-> compute[l].round, task |-> compute[l].task,
                       repeat |-> r, gram |-> tile[l]] : r \in compute[l].repeats}
  /\ compute' = [compute EXCEPT ![l] = NoEntry]
  /\ UNCHANGED <<given, aic, slot, ready, free, walk, queue, mtePc, source, tile>>

-----------------------------------------------------------------------------
WalkDone(l) ==
  IF chunkLocal THEN walk[l].ordinal >= Begin(group + 1)
  ELSE walk[l].ordinal >= totalTaskCount

Done ==
  /\ announced = localTaskCount
  /\ \A l \in Lane : WalkDone(l) /\ queue[l] = << >> /\ compute[l] = NoEntry

Finished == Done /\ UNCHANGED vars

Fix == StartCommit \/ FinishCommit \/ SetReady
TakeTask(l) == TakeCyclic(l) \/ TakeChunkLocal(l)
Mte2(l) == StartLoad(l) \/ FinishLoad(l) \/ Release(l)

Next ==
  \/ IssueRound
  \/ Fix
  \/ \E l \in Lane : TakeTask(l) \/ Mte2(l) \/ Finalize(l)
  \/ Finished

\* The three slices of the group are resident together (schedule mode 1) and
\* no pipe of theirs stops.
Fairness ==
  /\ WF_vars(IssueRound)
  /\ WF_vars(Fix)
  /\ \A l \in Lane : WF_vars(TakeTask(l)) /\ WF_vars(Mte2(l)) /\ WF_vars(Finalize(l))

Spec == Init /\ [][Next]_vars /\ Fairness

-----------------------------------------------------------------------------
(* Properties *)

\* Whatever AIC and lane make of the schedule, a tile is multiplied with the
\* Gram of its own chunk and KV head (ProcessPipelineTask trusts the slot).
OwnGram ==
  \A o \in out : o.gram >= 0 /\ ScheduledTaskId(group, o.gram) = o.task

\* The lanes that have rows and heads of the chunk of a round.
Users(round) ==
  LET chunk == AicChunk(round)
  IN  IF Valid(chunk) THEN {l \in Lane : HasWork(Repeat, l, ChunkLen(chunk))} ELSE {}

\* A group that returns has written its rows of every head of its valid
\* chunks, once, and nothing for the others.
OutputsExactlyOnce ==
  Done =>
    /\ \A p, q \in out : p.lane = q.lane /\ p.task = q.task /\ p.repeat = q.repeat => p = q
    /\ \A o \in out : \E r \in 0 .. localTaskCount - 1 :
         /\ o.task = ScheduledTaskId(group, r)
         /\ o.lane \in Users(r) /\ o.repeat \in LaneRepeats(Repeat, o.lane)
    /\ \A r \in 0 .. localTaskCount - 1 : \A l \in Users(r) : \A h \in LaneRepeats(Repeat, l) :
         \E o \in out : o.lane = l /\ o.task = ScheduledTaskId(group, r) /\ o.repeat = h

\* No flag is set twice before it is consumed, and none is left behind for
\* the next launch.
FlagsBalanced ==
  \A s \in Slot, l \in Lane :
    /\ ready[s][l] <= 1 /\ free[s][l] <= 1
    /\ Done => ready[s][l] = 0 /\ free[s][l] = 0

\* A launch that returns has done all of its work and left no trace for the
\* next: fused or not, lanes and AIC agree on every slot they exchange.
CompleteAndBalanced == OutputsExactlyOnce /\ FlagsBalanced

\* The protocol of KktPipeline, as v04 runs it: the rounds and their chunks
\* are those of the schedule, a lane has taken as many rounds as its own walk
\* has gone, and PIPE_MTE2 works on the first of its queue.
Protocol == INSTANCE KktPipeline WITH
  Counts    <- Nat,
  ChunkLens <- Int,
  Repeats   <- Nat \ {0},
  count     <- localTaskCount,
  chunkLen  <- [r \in 0 .. localTaskCount - 1 |->
                 IF Valid(AicChunk(r)) THEN ChunkLen(AicChunk(r)) ELSE 0],
  repeat    <- Repeat,
  fixRound  <- announced,
  taken     <- [l \in Lane |-> walk[l].localRound],
  mteRound  <- [l \in Lane |-> walk[l].localRound - Len(queue[l])]

\* Schedule, walks and pipes together run the protocol of KktPipeline.
ProtocolSpec == Protocol!Spec
=============================================================================
