------------------------------ MODULE KktV04Proofs ------------------------------
(***************************************************************************)
(* One group of v04, for every launch: the AIC's schedule, the cursors of  *)
(* its lanes and the flags that connect them fit together.                 *)
(*                                                                         *)
(* The proof has two halves.  The cursors of a lane are, in local round r, *)
(* at the task the AIC computes by division for round r, whichever walk    *)
(* brought them there; so each entry of a lane's queue is the work of its  *)
(* own round.  With that every step of the group is a step of the protocol *)
(* of KktPipeline, and what KktPipelineProofs shows of it can be cited.    *)
(***************************************************************************)
EXTENDS KktV04, TLAPS

\* KktPipelineProofs with the substitution of Protocol in KktV04.
P == INSTANCE KktPipelineProofs WITH
  Counts    <- Nat,
  ChunkLens <- Int,
  Repeats   <- Nat \ {0},
  count     <- localTaskCount,
  chunkLen  <- [r \in 0 .. localTaskCount - 1 |->
                 IF Valid(AicChunk(r)) THEN ChunkLen(AicChunk(r)) ELSE 0],
  repeat    <- Repeat,
  fixRound  <- announced,
  taken     <- [l \in Lane |-> walk[l].localRound],
  mteRound  <- [l \in Lane |-> walk[l].localRound - Len(queue[l])]

-----------------------------------------------------------------------------
(* Division *)

\* A quotient is the one number whose multiple leaves a remainder in range.
LEMMA DivMod ==
  ASSUME NEW a \in Nat, NEW b \in Nat \ {0}
  PROVE  /\ a \div b \in Nat /\ a % b \in 0 .. b - 1
         /\ a = b * (a \div b) + (a % b)
  BY SMT

\* Multiplication by a natural number keeps the order.
LEMMA MulMono ==
  ASSUME NEW x \in Int, NEW y \in Int, NEW b \in Nat, x <= y
  PROVE  x * b <= y * b
  <1>1. (y - x) * b >= 0
    BY SMT
  <1>2. (y - x) * b = y * b - x * b
    BY SMT
  <1> QED BY <1>1, <1>2

\* ... and the quotient of such a sum is its multiple.
LEMMA DivUnique ==
  ASSUME NEW q \in Nat, NEW b \in Nat \ {0}, NEW r \in 0 .. b - 1
  PROVE  (q * b + r) \div b = q /\ (q * b + r) % b = r
  <1> DEFINE a == q * b + r
             d == a \div b
  <1>1. a \in Nat
    BY SMT
  <1>2. d \in Nat /\ a % b \in 0 .. b - 1 /\ a = b * d + (a % b)
    BY <1>1, DivMod
  <1> HIDE DEF d
  <1>3. d = q
    <2>1. CASE d < q
      <3>1. (d + 1) * b <= q * b
        BY <1>2, <2>1, MulMono
      <3> QED BY <1>2, <3>1
    <2>2. CASE q < d
      <3>1. (q + 1) * b <= d * b
        BY <1>2, <2>2, MulMono
      <3> QED BY <1>2, <3>1
    <2> QED BY <1>2, <2>1, <2>2
  <1> QED BY <1>2, <1>3 DEF d

\* p fits into a divided by b exactly if p multiples of b fit into a.
LEMMA DivBound ==
  ASSUME NEW a \in Nat, NEW b \in Nat \ {0}, NEW p \in Nat
  PROVE  p * b <= a <=> p <= a \div b
  <1> DEFINE q == a \div b
  <1>1. q \in Nat /\ a % b \in 0 .. b - 1 /\ a = b * q + (a % b)
    BY DivMod
  <1> HIDE DEF q
  <1>2. ASSUME p <= q PROVE p * b <= a
    BY <1>1, <1>2, MulMono
  <1>3. ASSUME q < p PROVE ~(p * b <= a)
    <2>1. (q + 1) * b <= p * b
      BY <1>1, <1>3, MulMono
    <2> QED BY <1>1, <2>1
  <1> QED BY <1>1, <1>2, <1>3 DEF q

\* A pair of indices is one index into a matrix of n rows of m ...
LEMMA JoinIndex ==
  ASSUME NEW n \in Nat \ {0}, NEW m \in Nat \ {0}, NEW i \in 0 .. n - 1, NEW j \in 0 .. m - 1
  PROVE  /\ i * m + j \in 0 .. n * m - 1
         /\ (i * m + j) \div m = i /\ (i * m + j) % m = j
  <1>1. (i + 1) * m <= n * m
    BY MulMono
  <1>2. i * m \in Nat /\ n * m \in Nat /\ (i + 1) * m = i * m + m
    OBVIOUS
  <1>3. i * m + j \in 0 .. n * m - 1
    BY <1>1, <1>2
  <1>4. (i * m + j) \div m = i /\ (i * m + j) % m = j
    BY DivUnique
  <1> QED BY <1>3, <1>4

\* ... and every index below n * m is one pair.
LEMMA SplitIndex ==
  ASSUME NEW n \in Nat \ {0}, NEW m \in Nat \ {0}, NEW x \in 0 .. n * m - 1
  PROVE  /\ x \div m \in 0 .. n - 1 /\ x % m \in 0 .. m - 1
         /\ x = (x \div m) * m + (x % m)
  <1> DEFINE q == x \div m
             k == x % m
  <1>1. x \in Nat /\ n * m \in Nat /\ x < n * m
    <2>1. n * m \in Nat
      OBVIOUS
    <2> QED BY <2>1
  <1>2. q \in Nat /\ k \in 0 .. m - 1 /\ x = m * q + k
    BY <1>1, DivMod
  <1> HIDE DEF q, k
  <1>3. x = q * m + k /\ q * m \in Nat
    BY <1>2
  <1>4. q < n
    <2>1. CASE n <= q
      <3>1. n * m <= q * m
        BY <1>2, <2>1, MulMono
      <3> QED BY <1>1, <1>2, <1>3, <3>1
    <2> QED BY <1>2, <2>1
  <1> QED BY <1>2, <1>3, <1>4 DEF q, k

-----------------------------------------------------------------------------
(* The schedule of a group *)

GivenInv == shape \in Shapes /\ group \in 0 .. BlockDim(shape) - 1

Rounds == 0 .. localTaskCount - 1

\* What the Host gives a launch makes sense of every division below.
LEMMA Typed ==
  ASSUME GivenInv
  PROVE  /\ numChunks \in Nat \ {0} /\ hg \in Nat \ {0} /\ Repeat \in Nat \ {0}
         /\ totalTaskCount \in Nat \ {0} /\ totalTaskCount = numChunks * hg
         /\ blockDim \in Nat \ {0} /\ group \in Nat /\ group < blockDim
         /\ shape.t \in Nat
  <1>1. /\ numChunks \in Nat \ {0} /\ hg \in Nat \ {0} /\ Repeat \in Nat \ {0}
        /\ shape.aicNum \in Nat \ {0} /\ shape.t \in Nat
    BY V04Assumption DEF GivenInv, numChunks, hg, Repeat
  <1>2. totalTaskCount = numChunks * hg
    BY DEF totalTaskCount, TotalTaskCount, numChunks, hg
  <1>3. totalTaskCount \in Nat \ {0}
    <2>1. 1 * hg <= numChunks * hg
      BY <1>1, MulMono
    <2> QED BY <1>1, <1>2, <2>1
  <1>4. blockDim = BlockDim(shape) /\ blockDim = MinI32(shape.aicNum, totalTaskCount)
    BY DEF blockDim, BlockDim, totalTaskCount
  <1>5. blockDim \in Nat \ {0}
    BY <1>1, <1>3, <1>4 DEF MinI32
  <1>6. group \in 0 .. blockDim - 1
    BY <1>4 DEF GivenInv
  <1> QED BY <1>1, <1>2, <1>3, <1>5, <1>6

\* The contiguous range of a group lies inside the head-major order.
LEMMA BeginTyped ==
  ASSUME GivenInv
  PROVE  /\ Begin(group) \in Nat /\ Begin(group + 1) \in Nat
         /\ Begin(group) <= Begin(group + 1) /\ Begin(group + 1) <= totalTaskCount
  <1> DEFINE T == totalTaskCount
             B == blockDim
             g == group
             b == (T * g) \div B
             e == (T * (g + 1)) \div B
  <1>1. T \in Nat \ {0} /\ B \in Nat \ {0} /\ g \in Nat /\ g + 1 <= B
    BY Typed
  <1> HIDE DEF T, B, g
  <1>2. T * g \in Nat /\ T * (g + 1) \in Nat /\ T * B \in Nat
    BY <1>1
  <1>3. b \in Nat /\ e \in Nat
    BY <1>1, <1>2, DivMod
  <1>4. T * g <= T * (g + 1) /\ T * (g + 1) <= T * B
    <2>1. g * T <= (g + 1) * T /\ (g + 1) * T <= B * T
      BY <1>1, MulMono
    <2> QED BY <1>1, <2>1
  <1>5. b * B <= T * g
    BY <1>1, <1>2, <1>3, DivBound
  <1>6. e * B <= T * (g + 1)
    BY <1>1, <1>2, <1>3, DivBound
  <1> HIDE DEF b, e
  <1>7. b <= e
    <2>1. b * B <= T * (g + 1)
      <3>1. b * B \in Nat
        BY <1>1, <1>3
      <3> QED BY <1>2, <1>4, <1>5, <3>1
    <2> QED BY <1>1, <1>2, <1>3, <2>1, DivBound DEF e
  <1>8. e <= T
    <2>1. CASE T < e
      <3>1. (T + 1) * B <= e * B
        BY <1>1, <1>3, <2>1, MulMono
      <3>2. (T + 1) * B = T * B + B /\ e * B \in Nat
        BY <1>1, <1>3
      <3> QED BY <1>1, <1>2, <1>4, <1>6, <3>1, <3>2
    <2> QED BY <1>1, <1>3, <2>1
  <1> QED BY <1>3, <1>7, <1>8 DEF Begin, T, B, g, b, e

\* Of the tasks g, g + B, g + 2B, ... exactly the first localTaskCount exist.
LEMMA CyclicBound ==
  ASSUME GivenInv, ~chunkLocal, NEW p \in Nat
  PROVE  /\ localTaskCount \in Nat
         /\ group + p * blockDim \in Nat
         /\ group + p * blockDim < totalTaskCount <=> p < localTaskCount
  <1> DEFINE T == totalTaskCount
             B == blockDim
             g == group
  <1>1. T \in Nat \ {0} /\ B \in Nat \ {0} /\ g \in Nat
    BY Typed
  <1>2. localTaskCount = IF g >= T THEN 0 ELSE ((T - 1 - g) \div B) + 1
    BY DEF localTaskCount, ScheduledTaskCount
  <1> HIDE DEF T, B, g
  <1>3. p * B \in Nat
    BY <1>1
  <1>4. CASE g >= T
    BY <1>1, <1>2, <1>3, <1>4 DEF T, B, g
  <1>5. CASE g < T
    <2> DEFINE q == (T - 1 - g) \div B
    <2>1. T - 1 - g \in Nat
      BY <1>1, <1>5
    <2>2. q \in Nat
      BY <1>1, <2>1, DivMod
    <2>3. p * B <= T - 1 - g <=> p <= q
      BY <1>1, <2>1, DivBound
    <2>4. localTaskCount = q + 1
      BY <1>1, <1>2, <1>5
    <2> HIDE DEF q
    <2> QED BY <1>1, <1>3, <2>2, <2>3, <2>4 DEF T, B, g
  <1> QED BY <1>1, <1>4, <1>5

LEMMA CountTyped == ASSUME GivenInv PROVE localTaskCount \in Nat
  <1>1. CASE chunkLocal
    BY <1>1, BeginTyped DEF localTaskCount, ScheduledTaskCount
  <1>2. CASE ~chunkLocal
    BY <1>2, CyclicBound
  <1> QED BY <1>1, <1>2

\* A position of the head-major order is a chunk of a KV head, and its task
\* number gives the two back.
LEMMA ContiguousTask ==
  ASSUME GivenInv, NEW ordinal \in 0 .. totalTaskCount - 1
  PROVE  LET chunk == ordinal % numChunks
             kv == ordinal \div numChunks
         IN  /\ chunk \in 0 .. numChunks - 1 /\ kv \in 0 .. hg - 1
             /\ ordinal = kv * numChunks + chunk
             /\ TaskId(chunk, kv) \in 0 .. totalTaskCount - 1
             /\ TaskId(chunk, kv) \div hg = chunk /\ TaskId(chunk, kv) % hg = kv
  <1> DEFINE n == numChunks
             m == hg
             chunk == ordinal % n
             kv == ordinal \div n
  <1>1. n \in Nat \ {0} /\ m \in Nat \ {0} /\ totalTaskCount = n * m
    BY Typed
  <1> HIDE DEF n, m
  <1>2. n * m = m * n
    BY <1>1
  <1>3. chunk \in 0 .. n - 1 /\ kv \in 0 .. m - 1 /\ ordinal = kv * n + chunk
    BY <1>1, <1>2, SplitIndex
  <1> HIDE DEF chunk, kv
  <1>4. /\ chunk * m + kv \in 0 .. n * m - 1
        /\ (chunk * m + kv) \div m = chunk /\ (chunk * m + kv) % m = kv
    BY <1>1, <1>3, JoinIndex
  <1>5. TaskId(chunk, kv) = chunk * m + kv
    BY DEF TaskId, m
  <1> QED BY <1>1, <1>3, <1>4, <1>5 DEF n, m, chunk, kv

\* The task of a round is one of the launch's, its chunk one of the launch's.
LEMMA RoundTyped ==
  ASSUME GivenInv, NEW r \in Rounds
  PROVE  /\ ScheduledTaskId(group, r) \in 0 .. totalTaskCount - 1
         /\ AicChunk(r) \in 0 .. numChunks - 1
  <1>1. localTaskCount \in Nat /\ r \in Nat /\ r < localTaskCount
    BY CountTyped DEF Rounds
  <1>2. ScheduledTaskId(group, r) \in 0 .. totalTaskCount - 1
    <2>1. CASE chunkLocal
      <3>1. Begin(group) + r \in 0 .. totalTaskCount - 1
        BY <1>1, <2>1, BeginTyped, Typed DEF localTaskCount, ScheduledTaskCount
      <3> QED BY <2>1, <3>1, ContiguousTask DEF ScheduledTaskId
    <2>2. CASE ~chunkLocal
      BY <1>1, <2>2, CyclicBound, Typed DEF ScheduledTaskId
    <2> QED BY <2>1, <2>2
  <1>3. AicChunk(r) \in 0 .. numChunks - 1
    <2> DEFINE task == ScheduledTaskId(group, r)
    <2>1. numChunks \in Nat \ {0} /\ hg \in Nat \ {0} /\ task \in 0 .. numChunks * hg - 1
      BY <1>2, Typed
    <2> HIDE DEF task
    <2>2. task \div hg \in 0 .. numChunks - 1
      BY <2>1, SplitIndex
    <2> QED BY <2>2 DEF AicChunk, task
  <1> QED BY <1>2, <1>3

\* No task is scheduled twice.
LEMMA RoundUnique ==
  ASSUME GivenInv, NEW r1 \in Rounds, NEW r2 \in Rounds,
         ScheduledTaskId(group, r1) = ScheduledTaskId(group, r2)
  PROVE  r1 = r2
  <1>1. /\ localTaskCount \in Nat
        /\ r1 \in Nat /\ r1 < localTaskCount /\ r2 \in Nat /\ r2 < localTaskCount
    BY CountTyped DEF Rounds
  <1>2. CASE chunkLocal
    <2> DEFINE o1 == Begin(group) + r1
               o2 == Begin(group) + r2
    <2>1. /\ o1 \in 0 .. totalTaskCount - 1 /\ o2 \in 0 .. totalTaskCount - 1
      BY <1>1, <1>2, BeginTyped, Typed DEF localTaskCount, ScheduledTaskCount
    <2>2. TaskId(o1 % numChunks, o1 \div numChunks) = TaskId(o2 % numChunks, o2 \div numChunks)
      BY <1>2 DEF ScheduledTaskId
    <2>3. Begin(group) \in Nat
      BY BeginTyped
    <2>4. o1 = o2
      <3> HIDE DEF o1, o2
      <3>1. /\ o1 = (o1 \div numChunks) * numChunks + (o1 % numChunks)
            /\ o2 = (o2 \div numChunks) * numChunks + (o2 % numChunks)
        BY <2>1, ContiguousTask
      <3>2. o1 % numChunks = o2 % numChunks /\ o1 \div numChunks = o2 \div numChunks
        BY <2>1, <2>2, ContiguousTask
      <3> QED BY <3>1, <3>2
    <2> QED BY <1>1, <2>3, <2>4
  <1>3. CASE ~chunkLocal
    <2>1. /\ blockDim \in Nat \ {0} /\ group \in Nat
          /\ group + r1 * blockDim = group + r2 * blockDim
      BY <1>3, Typed DEF ScheduledTaskId
    <2>2. r1 * blockDim \in Nat /\ r2 * blockDim \in Nat
      BY <1>1, <2>1
    <2>3. (r1 * blockDim + 0) \div blockDim = r1 /\ (r2 * blockDim + 0) \div blockDim = r2
      BY <1>1, <2>1, DivUnique
    <2>4. r1 * blockDim = r2 * blockDim
      BY <2>1, <2>2
    <2> QED BY <2>2, <2>3, <2>4
  <1> QED BY <1>2, <1>3

-----------------------------------------------------------------------------
(* The invariant *)

\* The rounds PIPE_MTE2 of lane l is through with, and those it no longer
\* needs the slot of.
mteRound(l) == walk[l].localRound - Len(queue[l])
received(l) == mteRound(l) + (IF mtePc[l] = "loaded" THEN 1 ELSE 0)

Cursors == [ordinal: Nat, kvHeadId: Nat, chunkId: Nat, localRound: Nat, inPair: BOOLEAN]
Entry == [task: Int, round: Nat, reuse: BOOLEAN, works: BOOLEAN, repeats: SUBSET Int]

TypeInv ==
  /\ walk \in [Lane -> Cursors]
  /\ queue \in [Lane -> Seq(Entry)]
  /\ compute \in [Lane -> Entry \cup {NoEntry}]

\* The second chunk of a fused pair is one that would have passed the test
\* the lane leaves out.
FullChunk(chunk) == Valid(chunk) /\ ChunkLen(chunk) = BT

\* The cursors are at the task of their local round.
CursorRight(w) ==
  /\ w.localRound <= localTaskCount
  /\ chunkLocal =>
       /\ w.ordinal = Begin(group) + w.localRound
       /\ w.kvHeadId = w.ordinal \div numChunks
       /\ w.chunkId = w.ordinal % numChunks
       /\ w.inPair => w.localRound < localTaskCount /\ FullChunk(w.chunkId)
  /\ ~chunkLocal => w.ordinal = group + w.localRound * blockDim

\* What lane l has to do in round r.
EntryOf(l, r) ==
  [task |-> ScheduledTaskId(group, r), round |-> r,
   reuse |-> r + SLOT_COUNT < localTaskCount,
   works |-> l \in Users(r), repeats |-> LaneRepeats(Repeat, l)]

\* The queue of a lane is its next rounds in order, each with its own work.
QueueRight(l) ==
  \A i \in 1 .. Len(queue[l]) : queue[l][i] = EntryOf(l, mteRound(l) + i - 1)

\* What PIPE_V has still to multiply is of a round that has been received,
\* and nothing has overwritten its Gram.
ComputeRight(l) ==
  compute[l] # NoEntry =>
    /\ mtePc[l] # "loading"
    /\ compute[l].round < received(l)
    /\ compute[l] = EntryOf(l, compute[l].round)
    /\ l \in Users(compute[l].round)
    /\ tile[l] = compute[l].round

Output(l, r, h) ==
  [lane |-> l, round |-> r, task |-> ScheduledTaskId(group, r), repeat |-> h, gram |-> r]

OutSound ==
  \A o \in out : \E l \in Lane, r \in Nat :
    /\ r < received(l) /\ l \in Users(r)
    /\ \E h \in LaneRepeats(Repeat, l) : o = Output(l, r, h)

OutComplete ==
  \A l \in Lane, r \in Nat : r < received(l) /\ l \in Users(r) =>
    \/ compute[l] # NoEntry /\ compute[l].round = r
    \/ \A h \in LaneRepeats(Repeat, l) : Output(l, r, h) \in out

LaneInv == \A l \in Lane : CursorRight(walk[l]) /\ QueueRight(l) /\ ComputeRight(l)

IInv == GivenInv /\ TypeInv /\ LaneInv /\ OutSound /\ OutComplete /\ P!IInv

\* The schedule of a group is what it was launched with.
LEMMA GivenStays ==
  ASSUME UNCHANGED given
  PROVE  /\ GivenInv' <=> GivenInv
         /\ UNCHANGED <<localTaskCount, totalTaskCount, numChunks, blockDim, hg, Repeat>>
         /\ UNCHANGED <<Begin(group), Begin(group + 1)>>
         /\ chunkLocal' <=> chunkLocal
         /\ UNCHANGED P!task
  <1> USE DEF given
  <1>1. UNCHANGED <<localTaskCount, totalTaskCount, numChunks, blockDim, hg, Repeat,
                    Begin(group), Begin(group + 1)>>
    BY DEF localTaskCount, ScheduledTaskCount, Begin, totalTaskCount, numChunks, blockDim, hg,
           chunkLocal, Repeat
  <1>2. UNCHANGED P!task
    BY <1>1 DEF P!task, AicChunk, ScheduledTaskId, TaskId, Begin, totalTaskCount, numChunks,
      blockDim, hg, chunkLocal, Repeat, Valid, ChunkLen, Start
  <1> QED BY <1>1, <1>2 DEF GivenInv, chunkLocal, Repeat

LEMMA UsersStay == ASSUME UNCHANGED given, NEW r PROVE UNCHANGED Users(r)
  BY DEF given, Users, AicChunk, ScheduledTaskId, TaskId, Begin, totalTaskCount, numChunks,
    blockDim, hg, chunkLocal, Repeat, Valid, ChunkLen, Start

LEMMA TasksStay == ASSUME UNCHANGED given, NEW r PROVE UNCHANGED ScheduledTaskId(group, r)
  BY DEF given, ScheduledTaskId, TaskId, Begin, totalTaskCount, numChunks, blockDim, hg,
    chunkLocal, Repeat

LEMMA EntriesStay ==
  ASSUME UNCHANGED given, NEW l, NEW r
  PROVE  UNCHANGED EntryOf(l, r) /\ \A h : UNCHANGED Output(l, r, h)
  BY GivenStays, UsersStay, TasksStay DEF EntryOf, Output

LEMMA EntryFields ==
  ASSUME NEW l, NEW r
  PROVE  /\ EntryOf(l, r).task = ScheduledTaskId(group, r)
         /\ EntryOf(l, r).round = r
         /\ EntryOf(l, r).reuse = (r + SLOT_COUNT < localTaskCount)
         /\ EntryOf(l, r).works = (l \in Users(r))
         /\ EntryOf(l, r).repeats = LaneRepeats(Repeat, l)
  BY Zenon DEF EntryOf

\* Every offset a chunk of the launch needs is there.
LEMMA OffsetsTyped == ASSUME GivenInv, NEW c \in 0 .. numChunks PROVE Start(c) \in Int
  <1>1. shape.offsets \in Seq(Int) /\ numChunks = Len(shape.offsets) - 1 /\ numChunks \in Nat
    BY V04Assumption DEF GivenInv, numChunks, NumChunks
  <1>2. c + 1 \in 1 .. Len(shape.offsets)
    BY <1>1
  <1> QED BY <1>1, <1>2 DEF Start

LEMMA ChunkTyped ==
  ASSUME GivenInv, NEW chunk \in 0 .. numChunks - 1
  PROVE  /\ Start(chunk) \in Int /\ Start(chunk + 1) \in Int /\ ChunkLen(chunk) \in Int
         /\ Valid(chunk) => ChunkLen(chunk) > 0 /\ ChunkLen(chunk) <= BT
  <1>1. numChunks \in Nat
    BY Typed
  <1>2. Start(chunk) \in Int /\ Start(chunk + 1) \in Int
    BY <1>1, OffsetsTyped
  <1> QED BY <1>2 DEF ChunkLen, Valid, ValidChunk

\* Both modules mean the same by lanes and slots, and the protocol's chunk
\* lengths say which rounds are computed and whose they are.
LEMMA SameTask ==
  /\ P!Lane = Lane /\ P!Slot = Slot /\ P!SLOT_COUNT = SLOT_COUNT
  /\ P!NoGram = NoGram /\ P!Torn = Torn
  /\ \A r : P!SlotOf(r) = SlotOf(r)
  BY DEF P!Lane, Lane, P!AIVS_PER_AIC, AIVS_PER_AIC, P!Slot, Slot, P!SLOT_COUNT, SLOT_COUNT,
         P!NoGram, NoGram, P!Torn, Torn, P!SlotOf, SlotOf

LEMMA SameWork ==
  ASSUME NEW l, NEW len PROVE P!HasWork(Repeat, l, len) <=> HasWork(Repeat, l, len)
  BY DEF P!HasWork, HasWork, P!LaneRows, LaneRows, P!LaneRepeats, LaneRepeats,
         P!FALLBACK_ROWS_PER_AIV, FALLBACK_ROWS_PER_AIV, P!MinI32, MinI32,
         P!FirstRepeat, FirstRepeat, P!RepeatEnd, RepeatEnd, P!BT, BT,
         P!AIVS_PER_AIC, AIVS_PER_AIC

LEMMA SameRounds ==
  ASSUME GivenInv, NEW r \in Rounds
  PROVE  /\ P!Computed(r) <=> Valid(AicChunk(r))
         /\ \A l \in Lane : P!Works(l, r) <=> l \in Users(r)
  <1> DEFINE chunk == AicChunk(r)
             len == IF Valid(chunk) THEN ChunkLen(chunk) ELSE 0
  <1>1. chunk \in 0 .. numChunks - 1
    BY RoundTyped
  <1> HIDE DEF chunk
  <1>2. ChunkLen(chunk) \in Int /\ (Valid(chunk) => ChunkLen(chunk) > 0 /\ ChunkLen(chunk) <= BT)
    BY <1>1, ChunkTyped
  <1>3. [q \in 0 .. localTaskCount - 1 |->
           IF Valid(AicChunk(q)) THEN ChunkLen(AicChunk(q)) ELSE 0][r] = len
    BY DEF Rounds, chunk
  <1>4. P!BT = BT /\ BT = 64
    BY DEF P!BT, BT
  <1>5. P!Computed(r) <=> Valid(chunk)
    BY <1>2, <1>3, <1>4 DEF P!Computed
  <1>6. ASSUME NEW l \in Lane PROVE P!Works(l, r) <=> l \in Users(r)
    <2>1. P!Works(l, r) <=> HasWork(Repeat, l, len)
      BY <1>3, SameWork DEF P!Works
    <2>2. l \in Users(r) <=> Valid(chunk) /\ HasWork(Repeat, l, ChunkLen(chunk))
      BY DEF Users, chunk
    <2>3. CASE Valid(chunk)
      BY <2>1, <2>2, <2>3
    <2>4. CASE ~Valid(chunk)
      <3>1. ~HasWork(Repeat, l, 0)
        BY DEF HasWork
      <3> QED BY <2>1, <2>2, <2>4, <3>1
    <2> QED BY <2>3, <2>4
  <1> QED BY <1>5, <1>6 DEF chunk

\* Protocol, which the runs check, and P, whose theorems are cited, are one.
LEMMA SameProtocol ==
  /\ P!Init <=> Protocol!Init
  /\ P!Next <=> Protocol!Next
  /\ UNCHANGED P!vars <=> UNCHANGED Protocol!vars
  BY Zenon
  DEF P!Init, Protocol!Init, P!Next, Protocol!Next, P!vars, Protocol!vars, P!task,
      Protocol!task, P!aic, Protocol!aic, P!aiv, Protocol!aiv, P!Slot, Protocol!Slot,
      P!Lane, Protocol!Lane, P!SLOT_COUNT, Protocol!SLOT_COUNT, P!AIVS_PER_AIC,
      Protocol!AIVS_PER_AIC, P!NoGram, Protocol!NoGram, P!Torn, Protocol!Torn, P!SlotOf,
      Protocol!SlotOf, P!BT, Protocol!BT, P!Computed, Protocol!Computed, P!Works,
      Protocol!Works, P!HasWork, Protocol!HasWork, P!LaneRows, Protocol!LaneRows,
      P!LaneRepeats, Protocol!LaneRepeats, P!FALLBACK_ROWS_PER_AIV,
      Protocol!FALLBACK_ROWS_PER_AIV, P!MinI32, Protocol!MinI32, P!FirstRepeat,
      Protocol!FirstRepeat, P!RepeatEnd, Protocol!RepeatEnd, P!MustWaitFree,
      Protocol!MustWaitFree, P!WillReuseSlot, Protocol!WillReuseSlot, P!IssueRound,
      Protocol!IssueRound, P!FreeArrived, Protocol!FreeArrived, P!StartCommit,
      Protocol!StartCommit, P!FinishCommit, Protocol!FinishCommit, P!CommitDone,
      Protocol!CommitDone, P!SetReady, Protocol!SetReady, P!TakeReady, Protocol!TakeReady,
      P!StartLoad, Protocol!StartLoad, P!FinishLoad, Protocol!FinishLoad, P!LoadDone,
      Protocol!LoadDone, P!ReleaseSlot, Protocol!ReleaseSlot, P!Fix, Protocol!Fix, P!Mte2,
      Protocol!Mte2, P!Done, Protocol!Done, P!Finished, Protocol!Finished

LEMMA PipelineFits == P!PipelineAssumption
  BY DEF P!PipelineAssumption

-----------------------------------------------------------------------------
(* What the invariant says of one lane *)

\* Where the actors of the group stand (P!LaneOrder, in v04's terms).
LEMMA LaneOrder ==
  ASSUME IInv, NEW l \in Lane
  PROVE  /\ localTaskCount \in Nat /\ issued \in Nat /\ announced \in Nat
         /\ Len(queue[l]) \in Nat /\ walk[l].localRound \in Nat /\ mteRound(l) \in Nat
         /\ mteRound(l) + Len(queue[l]) = walk[l].localRound
         /\ walk[l].localRound <= announced /\ announced <= issued
         /\ issued <= mteRound(l) + 2 /\ issued <= localTaskCount
         /\ mtePc[l] # "idle" => Len(queue[l]) > 0
  <1>1. l \in P!Lane
    BY SameTask
  <1>2. P!IInv
    BY DEF IInv
  <1>3. /\ localTaskCount \in Nat /\ issued \in Nat /\ announced \in Nat
        /\ walk[l].localRound \in Nat /\ walk[l].localRound - Len(queue[l]) \in Nat
        /\ walk[l].localRound <= announced /\ announced <= issued
        /\ issued <= walk[l].localRound - Len(queue[l]) + 2 /\ issued <= localTaskCount
        /\ mtePc[l] # "idle" => walk[l].localRound - Len(queue[l]) < walk[l].localRound
    BY <1>1, <1>2, P!LaneOrder, PipelineFits
  <1>4. Len(queue[l]) \in Nat
    BY DEF IInv, TypeInv
  <1> QED BY <1>3, <1>4 DEF mteRound

\* PIPE_MTE2 works on the round it is in.
LEMMA LaneHead ==
  ASSUME IInv, NEW l \in Lane, queue[l] # << >>
  PROVE  /\ mteRound(l) \in Rounds /\ mteRound(l) < walk[l].localRound
         /\ Head(queue[l]) = EntryOf(l, mteRound(l))
  <1>1. queue[l] \in Seq(Entry)
    BY DEF IInv, TypeInv
  <1>2. Len(queue[l]) \in Nat \ {0} /\ Head(queue[l]) = queue[l][1]
    BY <1>1
  <1>3. queue[l][1] = EntryOf(l, mteRound(l) + 1 - 1)
    BY <1>2 DEF IInv, LaneInv, QueueRight
  <1>4. mteRound(l) + 1 - 1 = mteRound(l) /\ mteRound(l) < walk[l].localRound
    BY <1>2, LaneOrder
  <1> QED BY <1>2, <1>3, <1>4, LaneOrder DEF Rounds

LEMMA LanePc ==
  ASSUME IInv, NEW l \in Lane, mtePc[l] # "idle"
  PROVE  /\ queue[l] # << >> /\ l \in Users(mteRound(l)) /\ mteRound(l) \in Rounds
  <1>1. Len(queue[l]) > 0
    BY LaneOrder
  <1>2. queue[l] # << >>
    BY <1>1
  <1>3. mteRound(l) \in Rounds
    BY <1>2, LaneHead
  <1>4. P!Works(l, [k \in Lane |-> walk[k].localRound - Len(queue[k])][l])
    BY SameTask DEF IInv, P!IInv, P!ActorOrder
  <1>5. [k \in Lane |-> walk[k].localRound - Len(queue[k])][l] = mteRound(l)
    BY DEF mteRound
  <1>6. l \in Users(mteRound(l))
    <2>1. P!Works(l, mteRound(l))
      BY <1>4, <1>5
    <2> QED BY <1>3, <2>1, SameRounds DEF IInv
  <1> QED BY <1>2, <1>3, <1>6

\* A lane takes the task of its round, and a round there is.
LEMMA CyclicTake ==
  ASSUME IInv, NEW l \in Lane, ~chunkLocal
  PROVE  LET w == walk[l]
         IN  /\ w.ordinal = ScheduledTaskId(group, w.localRound)
             /\ w.ordinal < totalTaskCount <=> w.localRound < localTaskCount
             /\ w.ordinal + SLOT_COUNT * blockDim < totalTaskCount
                  <=> w.localRound + SLOT_COUNT < localTaskCount
             /\ w.ordinal + blockDim = group + (w.localRound + 1) * blockDim
  <1> DEFINE w == walk[l]
             r == w.localRound
  <1>1. r \in Nat /\ GivenInv /\ w.ordinal = group + r * blockDim
    BY LaneOrder DEF IInv, LaneInv, CursorRight
  <1>2. blockDim \in Nat /\ group \in Nat
    BY <1>1, Typed
  <1> HIDE DEF w, r
  <1>3. /\ (r + 1) * blockDim = r * blockDim + blockDim
        /\ (r + 2) * blockDim = r * blockDim + 2 * blockDim
        /\ r * blockDim \in Nat
    BY <1>1, <1>2
  <1>4. group + r * blockDim < totalTaskCount <=> r < localTaskCount
    BY <1>1, CyclicBound
  <1>5. group + (r + 2) * blockDim < totalTaskCount <=> r + 2 < localTaskCount
    BY <1>1, CyclicBound
  <1>6. w.ordinal = ScheduledTaskId(group, r)
    BY <1>1 DEF ScheduledTaskId
  <1>7. /\ w.ordinal + SLOT_COUNT * blockDim = group + (r + 2) * blockDim
        /\ w.ordinal + blockDim = group + (r + 1) * blockDim
    BY <1>1, <1>2, <1>3 DEF SLOT_COUNT
  <1>8. SLOT_COUNT = 2
    BY DEF SLOT_COUNT
  <1> QED BY <1>1, <1>4, <1>5, <1>6, <1>7, <1>8 DEF w, r

LEMMA ChunkLocalTake ==
  ASSUME IInv, NEW l \in Lane, chunkLocal
  PROVE  LET w == walk[l]
             count == Begin(group + 1) - Begin(group)
         IN  /\ count = localTaskCount
             /\ w.ordinal < Begin(group + 1) <=> w.localRound < localTaskCount
             /\ w.localRound < localTaskCount =>
                  /\ w.ordinal \in 0 .. totalTaskCount - 1
                  /\ w.chunkId \in 0 .. numChunks - 1 /\ w.kvHeadId \in 0 .. hg - 1
                  /\ w.ordinal = w.kvHeadId * numChunks + w.chunkId
                  /\ TaskId(w.chunkId, w.kvHeadId) = ScheduledTaskId(group, w.localRound)
                  /\ AicChunk(w.localRound) = w.chunkId
  <1> DEFINE w == walk[l]
             r == w.localRound
  <1>1. /\ r \in Nat /\ GivenInv /\ w.ordinal = Begin(group) + r
        /\ w.kvHeadId = w.ordinal \div numChunks /\ w.chunkId = w.ordinal % numChunks
    BY LaneOrder DEF IInv, LaneInv, CursorRight
  <1>2. /\ Begin(group) \in Nat /\ Begin(group + 1) \in Nat /\ Begin(group + 1) <= totalTaskCount
        /\ totalTaskCount \in Nat
    BY <1>1, BeginTyped, Typed
  <1>3. localTaskCount = Begin(group + 1) - Begin(group)
    BY DEF localTaskCount, ScheduledTaskCount
  <1> HIDE DEF w, r
  <1>4. ASSUME r < localTaskCount
        PROVE  /\ w.ordinal \in 0 .. totalTaskCount - 1
               /\ w.chunkId \in 0 .. numChunks - 1 /\ w.kvHeadId \in 0 .. hg - 1
               /\ w.ordinal = w.kvHeadId * numChunks + w.chunkId
               /\ TaskId(w.chunkId, w.kvHeadId) = ScheduledTaskId(group, r)
               /\ AicChunk(r) = w.chunkId
    <2>1. w.ordinal \in 0 .. totalTaskCount - 1
      BY <1>1, <1>2, <1>3, <1>4
    <2>2. TaskId(w.chunkId, w.kvHeadId) = ScheduledTaskId(group, r)
      BY <1>1 DEF ScheduledTaskId
    <2>3. /\ w.chunkId \in 0 .. numChunks - 1 /\ w.kvHeadId \in 0 .. hg - 1
          /\ w.ordinal = w.kvHeadId * numChunks + w.chunkId
          /\ TaskId(w.chunkId, w.kvHeadId) \div hg = w.chunkId
      BY <1>1, <2>1, ContiguousTask
    <2> QED BY <2>1, <2>2, <2>3 DEF AicChunk
  <1>5. w.ordinal < Begin(group + 1) <=> r < localTaskCount
    BY <1>1, <1>2, <1>3
  <1> QED BY <1>3, <1>4, <1>5 DEF w, r

-----------------------------------------------------------------------------
(* The walk of a lane *)

\* CanFuseAdjacentFullChunks() stands for the test of both chunks.
LEMMA FusedFull ==
  ASSUME GivenInv, NEW c \in 0 .. numChunks - 1, c + 1 < numChunks,
         CanFuseAdjacentFullChunks(c)
  PROVE  FullChunk(c) /\ FullChunk(c + 1)
  <1>1. numChunks \in Nat /\ c \in Nat /\ shape.t \in Nat
    BY Typed
  <1>2. c + 2 \in 0 .. numChunks /\ c + 1 \in 0 .. numChunks
    BY <1>1
  <1>3. Start(c) \in Int /\ Start(c + 1) \in Int /\ Start(c + 2) \in Int
    BY <1>1, <1>2, OffsetsTyped
  <1>4. /\ Start(c) >= 0 /\ Start(c + 2) <= shape.t
        /\ Start(c + 1) - Start(c) = 64 /\ Start(c + 2) - Start(c + 1) = 64
    <2>1. (c + 1) + 1 = c + 2
      BY <1>1
    <2>2. ChunkLen(c + 1) = Start(c + 2) - Start(c + 1)
      BY <2>1 DEF ChunkLen
    <2> QED BY <2>2 DEF CanFuseAdjacentFullChunks, ChunkLen, BT
  <1>5. FullChunk(c)
    BY <1>1, <1>3, <1>4 DEF FullChunk, Valid, ValidChunk, ChunkLen, BT
  <1>6. FullChunk(c + 1)
    <2>1. (c + 1) + 1 = c + 2
      BY <1>1
    <2> QED BY <1>1, <1>3, <1>4, <2>1 DEF FullChunk, Valid, ValidChunk, ChunkLen, BT
  <1> QED BY <1>5, <1>6

\* With three heads to a KV head lane 0 has the first and lane 1 the others.
LEMMA FullWork ==
  ASSUME NEW l \in Lane, NEW r, Repeat = 3, FullChunk(AicChunk(r))
  PROVE  /\ l \in Users(r)
         /\ LaneRepeats(Repeat, l) = IF l = 0 THEN {0} ELSE 1 .. GATE_HEAD_BATCH
  <1>1. LaneRepeats(3, l) = IF l = 0 THEN {0} ELSE 1 .. GATE_HEAD_BATCH
    <2>1. CASE l = 0
      BY <2>1 DEF LaneRepeats, FirstRepeat, RepeatEnd, AIVS_PER_AIC
    <2>2. CASE l = 1
      BY <2>2 DEF LaneRepeats, FirstRepeat, RepeatEnd, AIVS_PER_AIC, GATE_HEAD_BATCH
    <2> QED BY <2>1, <2>2 DEF Lane, AIVS_PER_AIC
  <1>2. LaneRepeats(3, l) # {}
    <2>1. CASE l = 0
      BY <1>1, <2>1
    <2>2. CASE l # 0
      <3>1. 1 \in 1 .. GATE_HEAD_BATCH
        BY DEF GATE_HEAD_BATCH
      <3> QED BY <1>1, <2>2, <3>1
    <2> QED BY <2>1, <2>2
  <1>3. 0 \in LaneRows(3, l, BT)
    BY DEF LaneRows, BT, AIVS_PER_AIC
  <1>4. HasWork(3, l, BT)
    BY <1>2, <1>3 DEF HasWork, BT
  <1> QED BY <1>1, <1>4 DEF Users, FullChunk

\* The cursor after a turn of ProcessCyclic() ...
LEMMA CyclicCursor ==
  ASSUME IInv, NEW l \in Lane, TakeCyclic(l)
  PROVE  /\ walk' = [walk EXCEPT ![l] = walk'[l]]
         /\ walk'[l] \in Cursors /\ walk'[l].localRound = walk[l].localRound + 1
         /\ CursorRight(walk'[l])
  <1> DEFINE w == walk[l]
             v == walk'[l]
             B == blockDim
  <1>1. GivenInv /\ ~chunkLocal /\ w.ordinal < totalTaskCount
    BY DEF IInv, TakeCyclic
  <1>2. w \in Cursors /\ walk \in [Lane -> Cursors]
    BY DEF IInv, TypeInv
  <1>3. B \in Nat
    BY <1>1, Typed
  <1>4. walk' = [walk EXCEPT ![l] = [w EXCEPT !.ordinal = @ + B, !.localRound = @ + 1]]
    BY <1>2 DEF TakeCyclic, Cursors
  <1> HIDE DEF B
  <1>5. /\ v = [w EXCEPT !.ordinal = @ + B, !.localRound = @ + 1]
        /\ walk' = [walk EXCEPT ![l] = v]
    BY <1>2, <1>4
  <1>6. v \in Cursors /\ v.localRound = w.localRound + 1 /\ v.ordinal = w.ordinal + B
    <2>1. v = [ordinal |-> w.ordinal + B, kvHeadId |-> w.kvHeadId, chunkId |-> w.chunkId,
               localRound |-> w.localRound + 1, inPair |-> w.inPair]
      BY <1>2, <1>5 DEF Cursors
    <2> QED BY <1>2, <1>3, <2>1 DEF Cursors
  <1>7. w.localRound < localTaskCount /\ w.ordinal + B = group + (w.localRound + 1) * B
    BY <1>1, CyclicTake DEF B
  <1>8. v.localRound <= localTaskCount
    BY <1>2, <1>6, <1>7, LaneOrder DEF Cursors
  <1>9. CursorRight(v)
    BY <1>1, <1>6, <1>7, <1>8 DEF CursorRight, B
  <1> QED BY <1>5, <1>6, <1>9

\* ... and after one of ProcessChunkLocalR34(), at a border of two KV heads
\* as well as inside one.
LEMMA ChunkLocalCursor ==
  ASSUME IInv, NEW l \in Lane, TakeChunkLocal(l)
  PROVE  /\ walk' = [walk EXCEPT ![l] = walk'[l]]
         /\ walk'[l] \in Cursors /\ walk'[l].localRound = walk[l].localRound + 1
         /\ CursorRight(walk'[l])
  <1> DEFINE w == walk[l]
             v == walk'[l]
             n == numChunks
             fuse == /\ ~w.inPair
                     /\ w.ordinal + 1 < Begin(group + 1)
                     /\ w.chunkId + 1 < numChunks
                     /\ CanFuseAdjacentFullChunks(w.chunkId)
  <1>1. GivenInv /\ chunkLocal /\ w.ordinal < Begin(group + 1)
    BY DEF IInv, TakeChunkLocal
  <1>2. w \in Cursors /\ walk \in [Lane -> Cursors]
    BY DEF IInv, TypeInv
  <1>3. /\ walk' = [walk EXCEPT ![l] = v]
        /\ v = [ordinal |-> w.ordinal + 1,
                kvHeadId |-> NextHead(w.kvHeadId, w.chunkId + 1),
                chunkId |-> NextChunk(w.chunkId + 1),
                localRound |-> w.localRound + 1,
                inPair |-> fuse]
    BY <1>2 DEF TakeChunkLocal
  <1>4. /\ w.localRound < localTaskCount
        /\ w.ordinal \in 0 .. totalTaskCount - 1
        /\ w.chunkId \in 0 .. n - 1 /\ w.kvHeadId \in 0 .. hg - 1
        /\ w.ordinal = w.kvHeadId * n + w.chunkId
    BY <1>1, ChunkLocalTake
  <1>5. n \in Nat \ {0} /\ localTaskCount \in Nat /\ w.localRound \in Nat /\ hg \in Nat
        /\ totalTaskCount \in Nat
    BY <1>1, Typed, LaneOrder
  <1>6. w.kvHeadId \in Nat /\ w.chunkId \in Nat /\ w.ordinal \in Nat
    BY <1>2 DEF Cursors
  <1> DEFINE h == NextHead(w.kvHeadId, w.chunkId + 1)
             c == NextChunk(w.chunkId + 1)
  <1>7. h \in Nat /\ c \in 0 .. n - 1 /\ w.ordinal + 1 = h * n + c
    <2>1. CASE w.chunkId + 1 >= n
      <3>1. w.chunkId + 1 = n /\ h = w.kvHeadId + 1 /\ c = 0
        BY <1>4, <1>5, <1>6, <2>1 DEF NextHead, NextChunk
      <3> HIDE DEF h, c
      <3>2. (w.kvHeadId + 1) * n = w.kvHeadId * n + n /\ w.kvHeadId * n \in Nat
        BY <1>5, <1>6
      <3> HIDE DEF n, w
      <3> QED BY <1>4, <1>5, <1>6, <3>1, <3>2
    <2>2. CASE w.chunkId + 1 < n
      <3>1. h = w.kvHeadId /\ c = w.chunkId + 1
        BY <1>5, <1>6, <2>2 DEF NextHead, NextChunk
      <3> HIDE DEF h, c
      <3>2. w.kvHeadId * n \in Nat
        BY <1>5, <1>6
      <3> HIDE DEF n, w
      <3> QED BY <1>4, <1>5, <1>6, <2>2, <3>1, <3>2
    <2> QED BY <1>5, <1>6, <2>1, <2>2
  <1>8. h = (w.ordinal + 1) \div n /\ c = (w.ordinal + 1) % n
    <2> HIDE DEF h, c, n, w
    <2>1. (h * n + c) \div n = h /\ (h * n + c) % n = c
      BY <1>5, <1>7, DivUnique
    <2> QED BY <1>7, <2>1
  <1>9. ASSUME fuse PROVE w.localRound + 1 < localTaskCount /\ FullChunk(c)
    <2>1. FullChunk(w.chunkId + 1)
      BY <1>1, <1>4, <1>9, FusedFull
    <2>2. c = w.chunkId + 1
      BY <1>5, <1>6, <1>9 DEF NextChunk
    <2>3. w.localRound + 1 < localTaskCount
      <3>1. w.ordinal = Begin(group) + w.localRound
        BY <1>1 DEF IInv, LaneInv, CursorRight
      <3>2. Begin(group + 1) - Begin(group) = localTaskCount
        BY <1>1, ChunkLocalTake
      <3>3. Begin(group) \in Nat /\ Begin(group + 1) \in Nat
        BY <1>1, BeginTyped
      <3> QED BY <1>5, <1>9, <3>1, <3>2, <3>3
    <2> QED BY <2>1, <2>2, <2>3
  <1>10. w.ordinal + 1 = Begin(group) + (w.localRound + 1)
    <2>1. w.ordinal = Begin(group) + w.localRound
      BY <1>1 DEF IInv, LaneInv, CursorRight
    <2>2. Begin(group) \in Nat
      BY <1>1, BeginTyped
    <2> QED BY <1>5, <2>1, <2>2
  <1>11. v.localRound = w.localRound + 1 /\ v.ordinal = w.ordinal + 1
         /\ v.kvHeadId = h /\ v.chunkId = c /\ v.inPair = fuse
    BY <1>3
  <1> HIDE DEF h, c, n, fuse
  <1>12. v \in Cursors
    <2>1. fuse \in BOOLEAN
      BY DEF fuse
    <2>2. v = [ordinal |-> w.ordinal + 1, kvHeadId |-> h, chunkId |-> c,
               localRound |-> w.localRound + 1, inPair |-> fuse]
      BY <1>3 DEF h, c, fuse
    <2>3. c \in Nat
      BY <1>5, <1>7
    <2> QED BY <1>5, <1>6, <1>7, <2>1, <2>2, <2>3 DEF Cursors
  <1>13. CursorRight(v)
    <2>1. v.localRound <= localTaskCount
      BY <1>4, <1>5, <1>11
    <2> QED BY <1>1, <1>8, <1>9, <1>10, <1>11, <2>1 DEF CursorRight, n
  <1> QED BY <1>3, <1>11, <1>12, <1>13

Taken(l, task, reuse, works, repeats) ==
  [task |-> task, round |-> walk[l].localRound, reuse |-> reuse, works |-> works,
   repeats |-> repeats]

\* ProcessPipelineTask() on the task of the round queues the round's work.
LEMMA PipelineTake ==
  ASSUME NEW l \in Lane, NEW task, NEW reuse \in BOOLEAN, Pipeline(l, task, reuse),
         task = ScheduledTaskId(group, walk[l].localRound),
         reuse <=> walk[l].localRound + SLOT_COUNT < localTaskCount
  PROVE  LET r == walk[l].localRound
         IN  /\ ready[SlotOf(r)][l] > 0
             /\ ready' = [ready EXCEPT ![SlotOf(r)][l] = @ - 1]
             /\ queue' = [queue EXCEPT ![l] = Append(@, EntryOf(l, r))]
  <1> DEFINE r == walk[l].localRound
             chunk == task \div hg
             works == Valid(chunk) /\ HasWork(Repeat, l, ChunkLen(chunk))
             repeats == LaneRepeats(Repeat, l)
  <1>1. /\ ready[SlotOf(r)][l] > 0
        /\ ready' = [ready EXCEPT ![SlotOf(r)][l] = @ - 1]
        /\ queue' = [queue EXCEPT ![l] = Append(@, Taken(l, task, reuse, works, repeats))]
    BY DEF Pipeline, Take, Taken
  <1>2. works = (l \in Users(r))
    <2>1. works <=> l \in Users(r)
      BY DEF Users, AicChunk
    <2>2. works \in BOOLEAN /\ (l \in Users(r)) \in BOOLEAN
      BY DEF Valid, ValidChunk
    <2> HIDE DEF works
    <2> QED BY Zenon, <2>1, <2>2
  <1>3. reuse = (r + SLOT_COUNT < localTaskCount)
    <2>1. reuse \in BOOLEAN /\ (r + SLOT_COUNT < localTaskCount) \in BOOLEAN
      OBVIOUS
    <2>2. reuse <=> r + SLOT_COUNT < localTaskCount
      OBVIOUS
    <2> QED BY Zenon, <2>1, <2>2
  <1>4. Taken(l, task, reuse, works, repeats) = EntryOf(l, r)
    <2> HIDE DEF works
    <2> QED BY Zenon, <1>2, <1>3 DEF Taken, EntryOf
  <1> QED BY <1>1, <1>4

\* The same of a round of ProcessAdjacentFullChunkR34().
LEMMA AdjacentTake ==
  ASSUME NEW l \in Lane, NEW task, NEW reuse \in BOOLEAN, AdjacentFullChunk(l, task, reuse),
         task = ScheduledTaskId(group, walk[l].localRound),
         reuse <=> walk[l].localRound + SLOT_COUNT < localTaskCount,
         Repeat = 3, FullChunk(AicChunk(walk[l].localRound))
  PROVE  LET r == walk[l].localRound
         IN  /\ ready[SlotOf(r)][l] > 0
             /\ ready' = [ready EXCEPT ![SlotOf(r)][l] = @ - 1]
             /\ queue' = [queue EXCEPT ![l] = Append(@, EntryOf(l, r))]
  <1> DEFINE r == walk[l].localRound
             repeats == IF l = 0 THEN {0} ELSE 1 .. GATE_HEAD_BATCH
  <1>1. /\ ready[SlotOf(r)][l] > 0
        /\ ready' = [ready EXCEPT ![SlotOf(r)][l] = @ - 1]
        /\ queue' = [queue EXCEPT ![l] = Append(@, Taken(l, task, reuse, TRUE, repeats))]
    BY DEF AdjacentFullChunk, Take, Taken
  <1>2. l \in Users(r) /\ repeats = LaneRepeats(Repeat, l)
    BY FullWork
  <1>3. TRUE = (l \in Users(r)) /\ reuse = (r + SLOT_COUNT < localTaskCount)
    <2>1. (r + SLOT_COUNT < localTaskCount) \in BOOLEAN /\ (l \in Users(r)) \in BOOLEAN
      OBVIOUS
    <2> QED BY Zenon, <1>2, <2>1
  <1>4. Taken(l, task, reuse, TRUE, repeats) = EntryOf(l, r)
    <2> HIDE DEF repeats
    <2> QED BY Zenon, <1>2, <1>3 DEF Taken, EntryOf
  <1> QED BY <1>1, <1>4

\* Whichever walk it is on, a lane takes its next round with the work of that
\* round, and leaves its cursors at the round after it.
LEMMA TakeIs ==
  ASSUME IInv, NEW l \in Lane, TakeTask(l)
  PROVE  LET r == walk[l].localRound
         IN  /\ r < localTaskCount
             /\ ready[SlotOf(r)][l] > 0
             /\ ready' = [ready EXCEPT ![SlotOf(r)][l] = @ - 1]
             /\ queue' = [queue EXCEPT ![l] = Append(@, EntryOf(l, r))]
             /\ walk' = [walk EXCEPT ![l] = walk'[l]]
             /\ walk'[l] \in Cursors /\ walk'[l].localRound = r + 1
             /\ CursorRight(walk'[l])
             /\ UNCHANGED <<given, aic, slot, free, mtePc, source, tile, compute, out>>
  <1> DEFINE w == walk[l]
             r == w.localRound
  <1>1. CASE TakeCyclic(l)
    <2> DEFINE task == w.ordinal
               reuse == w.ordinal + SLOT_COUNT * blockDim < totalTaskCount
    <2>1. ~chunkLocal /\ w.ordinal < totalTaskCount /\ Pipeline(l, task, reuse)
      BY <1>1 DEF TakeCyclic
    <2>2. task = ScheduledTaskId(group, r) /\ r < localTaskCount
      BY <2>1, CyclicTake
    <2>3. reuse \in BOOLEAN /\ (reuse <=> r + SLOT_COUNT < localTaskCount)
      BY <2>1, CyclicTake
    <2>3a. Pipeline(l, task, reuse)
      BY <2>1
    <2>3b. task = ScheduledTaskId(group, walk[l].localRound)
      BY <2>2
    <2>3c. reuse \in BOOLEAN /\ (reuse <=> walk[l].localRound + SLOT_COUNT < localTaskCount)
      BY <2>3
    <2> HIDE DEF task, reuse
    <2>4. /\ ready[SlotOf(r)][l] > 0
          /\ ready' = [ready EXCEPT ![SlotOf(r)][l] = @ - 1]
          /\ queue' = [queue EXCEPT ![l] = Append(@, EntryOf(l, r))]
      BY <2>3a, <2>3b, <2>3c, PipelineTake
    <2>5. UNCHANGED <<given, aic, slot, free, mtePc, source, tile, compute, out>>
      BY <1>1 DEF TakeCyclic
    <2> QED BY <1>1, <2>2, <2>4, <2>5, CyclicCursor
  <1>2. CASE TakeChunkLocal(l)
    <2> DEFINE count == Begin(group + 1) - Begin(group)
               fuse == /\ ~w.inPair
                       /\ w.ordinal + 1 < Begin(group + 1)
                       /\ w.chunkId + 1 < numChunks
                       /\ CanFuseAdjacentFullChunks(w.chunkId)
               task == TaskId(w.chunkId, w.kvHeadId)
               reuse == WillReuseSlot(r, count)
    <2>1. /\ chunkLocal /\ w.ordinal < Begin(group + 1)
          /\ IF fuse \/ w.inPair THEN AdjacentFullChunk(l, task, reuse)
                                 ELSE Pipeline(l, task, reuse)
      BY <1>2 DEF TakeChunkLocal
    <2>2. GivenInv
      BY DEF IInv
    <2>3. /\ r < localTaskCount /\ count = localTaskCount
          /\ w.chunkId \in 0 .. numChunks - 1
          /\ task = ScheduledTaskId(group, r) /\ AicChunk(r) = w.chunkId
      BY <2>1, ChunkLocalTake
    <2>4. reuse \in BOOLEAN /\ (reuse <=> r + SLOT_COUNT < localTaskCount)
      BY <2>3 DEF WillReuseSlot
    <2>5. /\ ready[SlotOf(r)][l] > 0
          /\ ready' = [ready EXCEPT ![SlotOf(r)][l] = @ - 1]
          /\ queue' = [queue EXCEPT ![l] = Append(@, EntryOf(l, r))]
      <3>1. CASE fuse \/ w.inPair
        <4>1. FullChunk(w.chunkId)
          <5>1. CASE w.inPair
            BY <2>1, <5>1 DEF IInv, LaneInv, CursorRight
          <5>2. CASE fuse
            BY <2>2, <2>3, <5>2, FusedFull
          <5> QED BY <3>1, <5>1, <5>2
        <4>2. AdjacentFullChunk(l, task, reuse) /\ Repeat = 3
          BY <2>1, <3>1 DEF chunkLocal
        <4> HIDE DEF task, reuse, count, fuse
        <4> QED BY <2>3, <2>4, <4>1, <4>2, AdjacentTake
      <3>2. CASE ~(fuse \/ w.inPair)
        <4>1. Pipeline(l, task, reuse)
          BY <2>1, <3>2
        <4> HIDE DEF task, reuse, count, fuse
        <4> QED BY <2>3, <2>4, <4>1, PipelineTake
      <3> QED BY <3>1, <3>2
    <2>6. UNCHANGED <<given, aic, slot, free, mtePc, source, tile, compute, out>>
      BY <1>2 DEF TakeChunkLocal
    <2> QED BY <1>2, <2>3, <2>5, <2>6, ChunkLocalCursor
  <1> QED BY <1>1, <1>2 DEF TakeTask

-----------------------------------------------------------------------------
(* Every step of the group is a step of the protocol. *)

LEMMA IssueStep == ASSUME IInv, IssueRound PROVE P!IssueRound
  <1>1. UNCHANGED given
    BY DEF IssueRound
  <1>2. UNCHANGED P!task
    BY <1>1, GivenStays
  <1>3. UNCHANGED P!aiv
    BY DEF IssueRound, P!aiv
  <1> QED BY <1>2, <1>3, SameTask
    DEF IssueRound, P!IssueRound, P!MustWaitFree, P!FreeArrived

\* The rounds of the AIC, when PIPE_FIX has one to work on.
LEMMA FixRound ==
  ASSUME IInv, announced < issued
  PROVE  announced \in Rounds /\ (P!Computed(announced) <=> Valid(AicChunk(announced)))
  <1>1. 0 \in Lane
    BY DEF Lane, AIVS_PER_AIC
  <1>2. announced \in Rounds
    BY <1>1, LaneOrder DEF Rounds
  <1> QED BY <1>2, SameRounds DEF IInv

LEMMA StartCommitStep == ASSUME IInv, StartCommit PROVE P!StartCommit
  <1>1. UNCHANGED P!task
    BY GivenStays DEF StartCommit
  <1>2. UNCHANGED P!aiv
    BY DEF StartCommit, P!aiv
  <1> QED BY <1>1, <1>2, SameTask, FixRound DEF StartCommit, P!StartCommit

LEMMA FinishCommitStep == ASSUME IInv, FinishCommit PROVE P!FinishCommit
  <1>1. UNCHANGED P!task
    BY GivenStays DEF FinishCommit
  <1>2. UNCHANGED P!aiv
    BY DEF FinishCommit, P!aiv
  <1> QED BY <1>1, <1>2, SameTask DEF FinishCommit, P!FinishCommit

LEMMA SetReadyStep == ASSUME IInv, SetReady PROVE P!SetReady
  <1>1. UNCHANGED P!task
    BY GivenStays DEF SetReady
  <1>2. UNCHANGED P!aiv
    BY DEF SetReady, P!aiv
  <1> QED BY <1>1, <1>2, SameTask, FixRound DEF SetReady, P!SetReady, P!CommitDone

\* How far a lane has come after a step of its own.
LEMMA TakeRounds ==
  ASSUME IInv, NEW k \in Lane, TakeTask(k)
  PROVE  /\ [l \in Lane |-> walk[l].localRound]' =
              [[l \in Lane |-> walk[l].localRound] EXCEPT ![k] = @ + 1]
         /\ UNCHANGED [l \in Lane |-> walk[l].localRound - Len(queue[l])]
  <1>1. /\ walk' = [walk EXCEPT ![k] = walk'[k]] /\ walk'[k].localRound = walk[k].localRound + 1
        /\ queue' = [queue EXCEPT ![k] = Append(@, EntryOf(k, walk[k].localRound))]
    BY TakeIs
  <1>2. walk \in [Lane -> Cursors] /\ queue \in [Lane -> Seq(Entry)]
    BY DEF IInv, TypeInv
  <1>3. ASSUME NEW l \in Lane
        PROVE  /\ walk'[l].localRound =
                    IF l = k THEN walk[l].localRound + 1 ELSE walk[l].localRound
               /\ Len(queue'[l]) = IF l = k THEN Len(queue[l]) + 1 ELSE Len(queue[l])
               /\ walk[l].localRound \in Nat /\ Len(queue[l]) \in Nat
    <2>1. walk[l].localRound \in Nat /\ Len(queue[l]) \in Nat
      BY <1>2 DEF Cursors
    <2>2. queue'[k] = Append(queue[k], EntryOf(k, walk[k].localRound))
      BY <1>1, <1>2
    <2>3. Len(queue'[k]) = Len(queue[k]) + 1
      BY <1>2, <2>2
    <2> QED BY <1>1, <1>2, <2>1, <2>3
  <1>4. \A l \in Lane : walk'[l].localRound - Len(queue'[l]) = walk[l].localRound - Len(queue[l])
    <2> SUFFICES ASSUME NEW l \in Lane
                 PROVE  walk'[l].localRound - Len(queue'[l]) = walk[l].localRound - Len(queue[l])
      OBVIOUS
    <2>1. CASE l = k
      BY <1>3, <2>1
    <2>2. CASE l # k
      BY <1>3, <2>2
    <2> QED BY <2>1, <2>2
  <1>5. [l \in Lane |-> walk'[l].localRound] =
          [[l \in Lane |-> walk[l].localRound] EXCEPT ![k] = @ + 1]
    <2>1. \A l \in Lane : walk'[l].localRound =
            IF l = k THEN walk[l].localRound + 1 ELSE walk[l].localRound
      BY <1>3
    <2> QED BY <2>1
  <1>6. [l \in Lane |-> walk'[l].localRound - Len(queue'[l])] =
          [l \in Lane |-> walk[l].localRound - Len(queue[l])]
    BY <1>4
  <1> QED BY <1>5, <1>6

LEMMA TakeStep == ASSUME IInv, NEW k \in Lane, TakeTask(k) PROVE P!TakeReady(k)
  <1>1. UNCHANGED P!task /\ UNCHANGED P!aic
    <2>1. UNCHANGED given /\ UNCHANGED aic
      BY TakeIs
    <2> QED BY <2>1, GivenStays DEF aic, P!aic
  <1>2. [l \in Lane |-> walk[l].localRound][k] = walk[k].localRound
    OBVIOUS
  <1> QED BY <1>1, <1>2, SameTask, TakeIs, TakeRounds DEF P!TakeReady

\* The order of a lane's entries on PIPE_MTE2, and work or none.
LEMMA HeadWorks ==
  ASSUME IInv, NEW k \in Lane, queue[k] # << >>
  PROVE  LET r == [l \in Lane |-> walk[l].localRound - Len(queue[l])][k]
         IN  /\ r < [l \in Lane |-> walk[l].localRound][k]
             /\ Head(queue[k]).round = r
             /\ Head(queue[k]).works <=> P!Works(k, r)
             /\ Head(queue[k]).reuse <=> P!WillReuseSlot(r)
  <1>1. /\ mteRound(k) \in Rounds /\ mteRound(k) < walk[k].localRound
        /\ Head(queue[k]) = EntryOf(k, mteRound(k))
    BY LaneHead
  <1>2. /\ Head(queue[k]).round = mteRound(k)
        /\ Head(queue[k]).works <=> k \in Users(mteRound(k))
        /\ Head(queue[k]).reuse <=> mteRound(k) + SLOT_COUNT < localTaskCount
    <2> DEFINE e == EntryOf(k, mteRound(k))
               r == mteRound(k)
    <2>1. Head(queue[k]) = e
      BY <1>1
    <2>2. e.round = r /\ e.works = (k \in Users(r)) /\ e.reuse = (r + SLOT_COUNT < localTaskCount)
      BY EntryFields
    <2> HIDE DEF e, r
    <2>3. e.works <=> k \in Users(r)
      BY Zenon, <2>2
    <2>4. e.reuse <=> r + SLOT_COUNT < localTaskCount
      BY Zenon, <2>2
    <2> QED BY <2>1, <2>2, <2>3, <2>4 DEF r
  <1>3. P!Works(k, mteRound(k)) <=> k \in Users(mteRound(k))
    BY <1>1, SameRounds DEF IInv
  <1>4. P!WillReuseSlot(mteRound(k)) <=> mteRound(k) + SLOT_COUNT < localTaskCount
    BY SameTask DEF P!WillReuseSlot
  <1>5. [l \in Lane |-> walk[l].localRound - Len(queue[l])][k] = mteRound(k)
    BY DEF mteRound
  <1> QED BY <1>1, <1>2, <1>3, <1>4, <1>5

LEMMA StartLoadStep == ASSUME IInv, NEW k \in Lane, StartLoad(k) PROVE P!StartLoad(k)
  <1>1. UNCHANGED P!task /\ UNCHANGED P!aic
    BY GivenStays DEF StartLoad, aic, P!aic
  <1> QED BY <1>1, SameTask, HeadWorks DEF StartLoad, P!StartLoad

LEMMA FinishLoadStep == ASSUME IInv, NEW k \in Lane, FinishLoad(k) PROVE P!FinishLoad(k)
  <1>1. UNCHANGED P!task /\ UNCHANGED P!aic
    BY GivenStays DEF FinishLoad, aic, P!aic
  <1>2. queue[k] # << >>
    BY LanePc DEF FinishLoad
  <1> QED BY <1>1, <1>2, SameTask, HeadWorks DEF FinishLoad, P!FinishLoad

LEMMA ReleaseRounds ==
  ASSUME IInv, NEW k \in Lane, Release(k)
  PROVE  /\ UNCHANGED walk
         /\ [l \in Lane |-> walk[l].localRound - Len(queue[l])]' =
              [[l \in Lane |-> walk[l].localRound - Len(queue[l])] EXCEPT ![k] = @ + 1]
  <1>1. UNCHANGED walk /\ queue[k] # << >> /\ queue' = [queue EXCEPT ![k] = Tail(queue[k])]
    BY DEF Release
  <1>2. walk \in [Lane -> Cursors] /\ queue \in [Lane -> Seq(Entry)]
    BY DEF IInv, TypeInv
  <1>3. Len(Tail(queue[k])) = Len(queue[k]) - 1 /\ Len(queue[k]) \in Nat
        /\ walk[k].localRound \in Nat
    BY <1>1, <1>2 DEF Cursors
  <1>4. ASSUME NEW l \in Lane
        PROVE  walk'[l].localRound - Len(queue'[l]) =
                 IF l = k THEN walk[l].localRound - Len(queue[l]) + 1
                          ELSE walk[l].localRound - Len(queue[l])
    BY <1>1, <1>2, <1>3
  <1> QED BY <1>1, <1>4

LEMMA ReleaseStep == ASSUME IInv, NEW k \in Lane, Release(k) PROVE P!ReleaseSlot(k)
  <1>1. UNCHANGED P!task /\ UNCHANGED P!aic
    BY GivenStays DEF Release, aic, P!aic
  <1>2. UNCHANGED [l \in Lane |-> walk[l].localRound]
    BY ReleaseRounds
  <1> QED BY <1>1, <1>2, SameTask, HeadWorks, ReleaseRounds
    DEF Release, P!ReleaseSlot, P!LoadDone

\* The arithmetic of PIPE_V and the end of the group are no steps of it.
LEMMA OtherStep ==
  ASSUME UNCHANGED <<given, aic, slot, ready, free, walk, queue, mtePc, source, tile>>
  PROVE  UNCHANGED P!vars
  <1>1. UNCHANGED P!task
    BY GivenStays
  <1> QED BY <1>1 DEF P!vars, P!task, aic

LEMMA ProtocolStep == IInv /\ [Next]_vars => [P!Next]_(P!vars)
  <1> SUFFICES ASSUME IInv, [Next]_vars PROVE [P!Next]_(P!vars)
    OBVIOUS
  <1>1. CASE IssueRound
    BY <1>1, IssueStep DEF P!Next
  <1>2. CASE Fix
    BY <1>2, StartCommitStep, FinishCommitStep, SetReadyStep DEF Fix, P!Fix, P!Next
  <1>3. ASSUME NEW k \in Lane, TakeTask(k) PROVE P!Next
    BY <1>3, TakeStep, SameTask DEF P!Next
  <1>4. ASSUME NEW k \in Lane, Mte2(k) PROVE P!Next
    BY <1>4, StartLoadStep, FinishLoadStep, ReleaseStep, SameTask DEF Mte2, P!Mte2, P!Next
  <1>5. ASSUME NEW k \in Lane, Finalize(k) PROVE UNCHANGED P!vars
    BY <1>5, OtherStep DEF Finalize
  <1>6. CASE UNCHANGED vars
    BY <1>6, OtherStep DEF vars
  <1> QED BY <1>1, <1>2, <1>3, <1>4, <1>5, <1>6 DEF Next, Finished

-----------------------------------------------------------------------------
(* What a step does to the lanes *)

LEMMA QueueForm ==
  ASSUME UNCHANGED given, NEW l \in Lane
  PROVE  QueueRight(l)' <=> \A i \in 1 .. Len(queue'[l]) :
           queue'[l][i] = EntryOf(l, mteRound(l)' + i - 1)
  <1>1. \A r : EntryOf(l, r)' = EntryOf(l, r)
    BY EntriesStay
  <1> QED BY <1>1 DEF QueueRight

LEMMA CursorForm ==
  ASSUME UNCHANGED given, NEW l \in Lane
  PROVE  CursorRight(walk[l])' <=> CursorRight(walk'[l])
  BY GivenStays DEF given, CursorRight, FullChunk, Valid, ChunkLen, Start

LEMMA ComputeForm ==
  ASSUME UNCHANGED given, NEW l \in Lane
  PROVE  ComputeRight(l)' <=>
           (compute'[l] # NoEntry =>
              /\ mtePc'[l] # "loading"
              /\ compute'[l].round < received(l)'
              /\ compute'[l] = EntryOf(l, compute'[l].round)
              /\ l \in Users(compute'[l].round)
              /\ tile'[l] = compute'[l].round)
  <1>1. \A r : EntryOf(l, r)' = EntryOf(l, r)
    BY EntriesStay
  <1>2. \A r : Users(r)' = Users(r)
    BY UsersStay
  <1> QED BY <1>1, <1>2 DEF ComputeRight, NoEntry

LEMMA OutForm ==
  ASSUME UNCHANGED given
  PROVE  /\ OutSound' <=>
              \A o \in out' : \E l \in Lane, r \in Nat :
                /\ r < received(l)' /\ l \in Users(r)
                /\ \E h \in LaneRepeats(Repeat, l) : o = Output(l, r, h)
         /\ OutComplete' <=>
              \A l \in Lane, r \in Nat : r < received(l)' /\ l \in Users(r) =>
                \/ compute'[l] # NoEntry /\ compute'[l].round = r
                \/ \A h \in LaneRepeats(Repeat, l) : Output(l, r, h) \in out'
  <1>1. \A l, r, h : Output(l, r, h)' = Output(l, r, h)
    BY EntriesStay
  <1>2. \A r : Users(r)' = Users(r)
    BY UsersStay
  <1>3. Repeat' = Repeat
    BY GivenStays
  <1> QED BY <1>1, <1>2, <1>3 DEF OutSound, OutComplete, NoEntry

\* All of the invariant that is not the protocol's.
OwnInv == GivenInv /\ TypeInv /\ LaneInv /\ OutSound /\ OutComplete

\* A step that leaves the lanes alone.
LEMMA LanesKept ==
  ASSUME IInv, UNCHANGED <<given, walk, queue, mtePc, tile, compute, out>>
  PROVE  OwnInv'
  <1>1. UNCHANGED given
    OBVIOUS
  <1>2. GivenInv' /\ TypeInv'
    BY <1>1, GivenStays DEF IInv, TypeInv
  <1>3. \A l \in Lane : UNCHANGED <<mteRound(l), received(l)>>
    BY DEF mteRound, received
  <1>4. ASSUME NEW l \in Lane
        PROVE  CursorRight(walk[l])' /\ QueueRight(l)' /\ ComputeRight(l)'
    <2>1. CursorRight(walk[l])'
      BY <1>1, CursorForm DEF IInv, LaneInv
    <2>2. QueueRight(l)'
      BY <1>1, <1>3, QueueForm DEF IInv, LaneInv, QueueRight
    <2>3. ComputeRight(l)'
      BY <1>1, <1>3, ComputeForm DEF IInv, LaneInv, ComputeRight
    <2> QED BY <2>1, <2>2, <2>3
  <1>5. OutSound' /\ OutComplete'
    BY <1>1, <1>3, OutForm DEF IInv, OutSound, OutComplete
  <1> QED BY <1>2, <1>4, <1>5 DEF OwnInv, LaneInv

\* What lane k does leaves the other lane as it was.
LEMMA OthersKept ==
  ASSUME IInv, UNCHANGED given, NEW l \in Lane,
         walk'[l] = walk[l], queue'[l] = queue[l], mtePc'[l] = mtePc[l],
         tile'[l] = tile[l], compute'[l] = compute[l]
  PROVE  /\ mteRound(l)' = mteRound(l) /\ received(l)' = received(l)
         /\ CursorRight(walk[l])' /\ QueueRight(l)' /\ ComputeRight(l)'
  <1>1. mteRound(l)' = mteRound(l) /\ received(l)' = received(l)
    BY DEF mteRound, received
  <1>2. CursorRight(walk[l])'
    BY CursorForm DEF IInv, LaneInv
  <1>3. QueueRight(l)'
    BY <1>1, QueueForm DEF IInv, LaneInv, QueueRight
  <1>4. ComputeRight(l)'
    BY <1>1, ComputeForm DEF IInv, LaneInv, ComputeRight
  <1> QED BY <1>1, <1>2, <1>3, <1>4

\* Nothing has been made and nothing received: the outputs stay right.
LEMMA OutKept ==
  ASSUME IInv, UNCHANGED <<given, out>>,
         \A l \in Lane : received(l)' = received(l) /\ compute'[l] = compute[l]
  PROVE  OutSound' /\ OutComplete'
  BY OutForm DEF IInv, OutSound, OutComplete

LEMMA EntryTyped ==
  ASSUME GivenInv, NEW l \in Lane, NEW r \in Rounds
  PROVE  EntryOf(l, r) \in Entry
  <1>1. ScheduledTaskId(group, r) \in Int /\ r \in Nat
    <2>1. totalTaskCount \in Nat /\ localTaskCount \in Nat
      BY Typed, CountTyped
    <2> QED BY <2>1, RoundTyped DEF Rounds
  <1>2. (l \in Users(r)) \in BOOLEAN /\ (r + SLOT_COUNT < localTaskCount) \in BOOLEAN
    OBVIOUS
  <1>3. LaneRepeats(Repeat, l) \in SUBSET Int
    <2>1. Repeat \in Nat
      BY Typed
    <2>2. FirstRepeat(Repeat, l) \in Int /\ RepeatEnd(Repeat, l) \in Int
      <3>1. l * Repeat \in Nat /\ (l + 1) * Repeat \in Nat
        BY <2>1 DEF Lane, AIVS_PER_AIC
      <3> QED BY <3>1 DEF FirstRepeat, RepeatEnd, AIVS_PER_AIC
    <2> QED BY <2>2 DEF LaneRepeats
  <1> QED BY Zenon, <1>1, <1>2, <1>3 DEF EntryOf, Entry

\* CrossCoreWaitFlag(READY) and what the lane's scalar issues behind it.
LEMMA TakeInv == ASSUME IInv, NEW k \in Lane, TakeTask(k) PROVE OwnInv'
  <1> DEFINE r == walk[k].localRound
             e == EntryOf(k, r)
  <1>1. /\ UNCHANGED <<given, mtePc, tile, compute, out>>
        /\ walk' = [walk EXCEPT ![k] = walk'[k]] /\ walk'[k] \in Cursors
        /\ queue' = [queue EXCEPT ![k] = Append(queue[k], e)]
        /\ r < localTaskCount /\ CursorRight(walk'[k]) /\ walk'[k].localRound = r + 1
    BY TakeIs
  <1>2. /\ walk \in [Lane -> Cursors] /\ queue \in [Lane -> Seq(Entry)]
        /\ compute \in [Lane -> Entry \cup {NoEntry}]
        /\ GivenInv
    BY DEF IInv, TypeInv
  <1>3. r \in Rounds
    BY <1>1, LaneOrder DEF Rounds
  <1>4. e \in Entry
    BY <1>2, <1>3, EntryTyped
  <1> HIDE DEF e
  <1>5. Append(queue[k], e) \in Seq(Entry) /\ queue'[k] = Append(queue[k], e)
    BY <1>1, <1>2, <1>4
  <1>6. walk' \in [Lane -> Cursors] /\ queue' \in [Lane -> Seq(Entry)]
    BY <1>1, <1>2, <1>5
  <1>7. GivenInv' /\ TypeInv'
    BY <1>1, <1>2, <1>6, GivenStays DEF TypeInv, NoEntry
  <1>8. mteRound(k)' = mteRound(k)
    <2>1. Len(queue'[k]) = Len(queue[k]) + 1 /\ Len(queue[k]) \in Nat /\ r \in Nat
      BY <1>2, <1>3, <1>5, LaneOrder
    <2> HIDE DEF r
    <2>2. walk'[k].localRound = r + 1
      BY <1>1
    <2>3. (r + 1) - (Len(queue[k]) + 1) = r - Len(queue[k])
      BY <2>1
    <2> QED BY <2>1, <2>2, <2>3 DEF mteRound, r
  <1>9. received(k)' = received(k)
    BY <1>1, <1>8 DEF received
  <1>10. QueueRight(k)'
    <2> DEFINE n == Len(queue[k])
               m == mteRound(k)
    <2>1. n \in Nat /\ m \in Nat /\ m + n = r
      BY LaneOrder
    <2>2. \A i \in 1 .. n : queue[k][i] = EntryOf(k, m + i - 1)
      BY DEF IInv, LaneInv, QueueRight
    <2>3. /\ Len(queue'[k]) = n + 1 /\ queue'[k][n + 1] = e
          /\ \A i \in 1 .. n : queue'[k][i] = queue[k][i]
      BY <1>2, <1>4, <1>5
    <2>4. e = EntryOf(k, m + (n + 1) - 1)
      <3> HIDE DEF n, m, r
      <3>1. m + (n + 1) - 1 = r
        BY <2>1
      <3> QED BY <3>1 DEF e
    <2>5. ASSUME NEW i \in 1 .. Len(queue'[k]) PROVE queue'[k][i] = EntryOf(k, m + i - 1)
      <3> HIDE DEF n, m, r
      <3>1. i \in 1 .. n \/ i = n + 1
        BY <2>1, <2>3
      <3> QED BY <2>2, <2>3, <2>4, <3>1
    <2>6. QueueRight(k)' <=> \A i \in 1 .. Len(queue'[k]) :
            queue'[k][i] = EntryOf(k, mteRound(k)' + i - 1)
      BY <1>1, QueueForm
    <2> QED BY <1>8, <2>5, <2>6
  <1>11. CursorRight(walk[k])'
    BY <1>1, CursorForm
  <1>12. ComputeRight(k)'
    BY <1>1, <1>9, ComputeForm DEF IInv, LaneInv, ComputeRight
  <1>13. ASSUME NEW l \in Lane, l # k
         PROVE  /\ received(l)' = received(l)
                /\ CursorRight(walk[l])' /\ QueueRight(l)' /\ ComputeRight(l)'
    <2>1. walk'[l] = walk[l] /\ queue'[l] = queue[l]
      BY <1>1, <1>2, <1>13
    <2> QED BY <1>1, <2>1, OthersKept
  <1>14. OutSound' /\ OutComplete'
    <2>1. \A l \in Lane : received(l)' = received(l) /\ compute'[l] = compute[l]
      BY <1>1, <1>9, <1>13
    <2> QED BY <1>1, <2>1, OutKept
  <1> QED BY <1>7, <1>10, <1>11, <1>12, <1>13, <1>14 DEF OwnInv, LaneInv

LEMMA EntryIsSome == ASSUME NEW l, NEW r PROVE EntryOf(l, r) # NoEntry
  <1>1. "task" \in DOMAIN EntryOf(l, r)
    BY DEF EntryOf
  <1>2. "task" \notin DOMAIN NoEntry
    <2>1. DOMAIN << >> = 1 .. 0
      OBVIOUS
    <2>2. 1 .. 0 = {}
      OBVIOUS
    <2> QED BY <2>1, <2>2 DEF NoEntry
  <1> QED BY <1>1, <1>2

\* The KKT copy begins.
LEMMA StartLoadInv == ASSUME IInv, NEW k \in Lane, StartLoad(k) PROVE OwnInv'
  <1>1. /\ UNCHANGED <<given, walk, queue, tile, compute, out>>
        /\ mtePc[k] = "idle" /\ compute[k] = NoEntry
        /\ mtePc' = [mtePc EXCEPT ![k] = "loading"]
    BY DEF StartLoad
  <1>2. mtePc \in [Lane -> {"idle", "loading", "loaded"}]
    BY SameTask DEF IInv, P!IInv, P!TypeOK
  <1>3. GivenInv' /\ TypeInv'
    BY <1>1, GivenStays DEF IInv, TypeInv
  <1>4. mteRound(k)' = mteRound(k) /\ received(k)' = received(k)
    BY <1>1, <1>2 DEF mteRound, received
  <1>5. CursorRight(walk[k])' /\ QueueRight(k)' /\ ComputeRight(k)'
    <2>1. CursorRight(walk[k])'
      BY <1>1, CursorForm DEF IInv, LaneInv
    <2>2. QueueRight(k)'
      BY <1>1, <1>4, QueueForm DEF IInv, LaneInv, QueueRight
    <2>3. ComputeRight(k)'
      BY <1>1, ComputeForm
    <2> QED BY <2>1, <2>2, <2>3
  <1>6. ASSUME NEW l \in Lane, l # k
        PROVE  /\ received(l)' = received(l)
               /\ CursorRight(walk[l])' /\ QueueRight(l)' /\ ComputeRight(l)'
    BY <1>1, <1>2, <1>6, OthersKept
  <1>7. OutSound' /\ OutComplete'
    BY <1>1, <1>4, <1>6, OutKept
  <1> QED BY <1>3, <1>5, <1>6, <1>7 DEF OwnInv, LaneInv

\* The KKT copy ends: PIPE_V has the Gram of the round to work with.
LEMMA FinishLoadInv == ASSUME IInv, NEW k \in Lane, FinishLoad(k) PROVE OwnInv'
  <1> DEFINE m == mteRound(k)
             e == EntryOf(k, m)
  <1>1. /\ UNCHANGED <<given, walk, queue, out>>
        /\ mtePc[k] = "loading"
        /\ mtePc' = [mtePc EXCEPT ![k] = "loaded"]
        /\ compute' = [compute EXCEPT ![k] = Head(queue[k])]
    BY DEF FinishLoad
  <1>2. /\ mtePc \in [Lane -> {"idle", "loading", "loaded"}]
        /\ tile \in [Lane -> (0 .. localTaskCount - 1) \cup {NoGram, Torn}]
    BY SameTask DEF IInv, P!IInv, P!TypeOK, P!Rounds
  <1>3. /\ GivenInv /\ compute \in [Lane -> Entry \cup {NoEntry}]
        /\ queue \in [Lane -> Seq(Entry)]
    BY DEF IInv, TypeInv
  <1>4. /\ m \in Rounds /\ m \in Nat /\ k \in Users(m) /\ Head(queue[k]) = e
    BY <1>1, LanePc, LaneHead, LaneOrder
  <1>5. e \in Entry /\ e.round = m /\ e # NoEntry
    BY <1>3, <1>4, EntryTyped, EntryFields, EntryIsSome
  <1>6. GivenInv' /\ TypeInv'
    <2>1. compute' \in [Lane -> Entry \cup {NoEntry}]
      <3> HIDE DEF e
      <3> QED BY <1>1, <1>3, <1>4, <1>5
    <2> QED BY <1>1, <1>3, <2>1, GivenStays DEF IInv, TypeInv, NoEntry
  <1>7. tile'[k] = m
    <2>1. P!IInv'
      <3>1. P!FinishLoad(k) /\ P!IInv /\ k \in P!Lane
        BY FinishLoadStep, SameTask DEF IInv
      <3> QED BY <3>1, P!FinishLoadIInv, PipelineFits
    <2>2. k \in P!Lane /\ mtePc'[k] = "loaded"
      BY <1>1, <1>2, SameTask
    <2>3. tile'[k] = [l \in Lane |-> walk'[l].localRound - Len(queue'[l])][k]
      BY <2>1, <2>2 DEF P!IInv, P!TileContent
    <2> QED BY <1>1, <2>3 DEF mteRound
  <1>8. mteRound(k)' = m /\ received(k) = m /\ received(k)' = m + 1
    BY <1>1, <1>2, <1>4 DEF mteRound, received
  <1>9. compute'[k] = e /\ mtePc'[k] = "loaded"
    BY <1>1, <1>2, <1>3, <1>4
  <1> HIDE DEF e, m
  <1>10. CursorRight(walk[k])' /\ QueueRight(k)' /\ ComputeRight(k)'
    <2>1. CursorRight(walk[k])'
      BY <1>1, CursorForm DEF IInv, LaneInv
    <2>2. QueueRight(k)'
      BY <1>1, <1>8, QueueForm DEF IInv, LaneInv, QueueRight, m
    <2>3. e.round < received(k)' /\ e = EntryOf(k, e.round)
      BY <1>4, <1>5, <1>8 DEF e
    <2>4. ComputeRight(k)'
      BY <1>1, <1>4, <1>5, <1>7, <1>9, <2>3, ComputeForm
    <2> QED BY <2>1, <2>2, <2>4
  <1>11. ASSUME NEW l \in Lane, l # k
         PROVE  /\ received(l)' = received(l) /\ compute'[l] = compute[l]
                /\ CursorRight(walk[l])' /\ QueueRight(l)' /\ ComputeRight(l)'
    <2>1. /\ walk'[l] = walk[l] /\ queue'[l] = queue[l] /\ mtePc'[l] = mtePc[l]
          /\ compute'[l] = compute[l]
      BY <1>1, <1>2, <1>3, <1>11
    <2>2. tile'[l] = tile[l]
      BY <1>2, <1>11 DEF FinishLoad
    <2> QED BY <1>1, <2>1, <2>2, OthersKept
  <1>12. OutSound'
    <2>1. \A l \in Lane, r \in Nat : r < received(l) => r < received(l)'
      BY <1>4, <1>8, <1>11
    <2>2. UNCHANGED <<given, out>>
      BY <1>1
    <2> QED BY <2>1, <2>2, OutForm DEF IInv, OutSound
  <1>13. OutComplete'
    <2> SUFFICES ASSUME NEW l \in Lane, NEW r \in Nat, r < received(l)', l \in Users(r)
                 PROVE  \/ compute'[l] # NoEntry /\ compute'[l].round = r
                        \/ \A h \in LaneRepeats(Repeat, l) : Output(l, r, h) \in out'
      BY <1>1, OutForm
    <2>1. CASE l # k
      BY <1>1, <1>11, <2>1 DEF IInv, OutComplete
    <2>2. CASE l = k /\ r = m
      BY <1>5, <1>9, <2>2
    <2>3. CASE l = k /\ r # m
      <3>1. r < received(k) /\ k \in Users(r)
        BY <1>4, <1>8, <2>3
      <3>2. compute[k] = NoEntry
        BY <1>1 DEF IInv, LaneInv, ComputeRight
      <3> QED BY <1>1, <2>3, <3>1, <3>2 DEF IInv, OutComplete
    <2> QED BY <2>1, <2>2, <2>3
  <1> QED BY <1>6, <1>10, <1>11, <1>12, <1>13 DEF OwnInv, LaneInv

\* CrossCoreSetFlag(FREE), or the end of a round without work.
LEMMA ReleaseInv == ASSUME IInv, NEW k \in Lane, Release(k) PROVE OwnInv'
  <1> DEFINE m == mteRound(k)
             e == EntryOf(k, m)
  <1>1. /\ UNCHANGED <<given, walk, tile, compute, out>>
        /\ queue[k] # << >>
        /\ mtePc[k] = IF Head(queue[k]).works THEN "loaded" ELSE "idle"
        /\ queue' = [queue EXCEPT ![k] = Tail(queue[k])]
        /\ mtePc' = [mtePc EXCEPT ![k] = "idle"]
    BY DEF Release
  <1>2. mtePc \in [Lane -> {"idle", "loading", "loaded"}]
    BY SameTask DEF IInv, P!IInv, P!TypeOK
  <1>3. /\ GivenInv /\ queue \in [Lane -> Seq(Entry)] /\ walk \in [Lane -> Cursors]
    BY DEF IInv, TypeInv
  <1>4. m \in Rounds /\ m \in Nat /\ Head(queue[k]) = e
    BY <1>1, LaneHead, LaneOrder
  <1>5. /\ mtePc[k] = "loaded" => k \in Users(m)
        /\ mtePc[k] # "loaded" => k \notin Users(m)
    <2>1. e.works = (k \in Users(m))
      BY EntryFields
    <2> HIDE DEF e
    <2>2. e.works <=> k \in Users(m)
      BY Zenon, <2>1
    <2> QED BY <1>1, <1>4, <2>2
  <1>6. /\ Tail(queue[k]) \in Seq(Entry) /\ Len(queue[k]) \in Nat \ {0}
        /\ Len(Tail(queue[k])) = Len(queue[k]) - 1
        /\ \A i \in 1 .. Len(queue[k]) - 1 : Tail(queue[k])[i] = queue[k][i + 1]
    BY <1>1, <1>3
  <1>7. queue'[k] = Tail(queue[k]) /\ mtePc'[k] = "idle"
    BY <1>1, <1>2, <1>3
  <1>8. GivenInv' /\ TypeInv'
    <2>1. queue' \in [Lane -> Seq(Entry)]
      BY <1>1, <1>3, <1>6
    <2> QED BY <1>1, <1>3, <2>1, GivenStays DEF IInv, TypeInv, NoEntry
  <1>9. mteRound(k)' = m + 1 /\ received(k)' = m + 1
        /\ received(k) = IF mtePc[k] = "loaded" THEN m + 1 ELSE m
    <2>1. walk[k].localRound \in Nat
      BY <1>3 DEF Cursors
    <2>2. walk'[k].localRound - Len(queue'[k]) = walk[k].localRound - Len(queue[k]) + 1
      <3>1. walk' = walk
        BY <1>1
      <3>2. Len(queue'[k]) = Len(queue[k]) - 1
        BY <1>6, <1>7
      <3> QED BY <1>6, <2>1, <3>1, <3>2
    <2>3. mteRound(k)' = m + 1
      BY <2>2 DEF mteRound
    <2> HIDE DEF m
    <2> QED BY <1>4, <1>7, <2>3 DEF received, m
  <1> HIDE DEF m, e
  <1>10. QueueRight(k)'
    <2>1. \A i \in 1 .. Len(queue[k]) : queue[k][i] = EntryOf(k, m + i - 1)
      BY DEF IInv, LaneInv, QueueRight, m
    <2>2. ASSUME NEW i \in 1 .. Len(queue'[k]) PROVE queue'[k][i] = EntryOf(k, (m + 1) + i - 1)
      <3>1. queue'[k][i] = queue[k][i + 1] /\ i + 1 \in 1 .. Len(queue[k])
        BY <1>6, <1>7
      <3>2. m + (i + 1) - 1 = (m + 1) + i - 1
        BY <1>4
      <3>3. queue[k][i + 1] = EntryOf(k, m + (i + 1) - 1)
        BY <2>1, <3>1
      <3> QED BY <3>1, <3>2, <3>3
    <2>3. QueueRight(k)' <=> \A i \in 1 .. Len(queue'[k]) :
            queue'[k][i] = EntryOf(k, mteRound(k)' + i - 1)
      BY <1>1, QueueForm
    <2> QED BY <1>9, <2>2, <2>3
  <1>11. CursorRight(walk[k])'
    BY <1>1, CursorForm DEF IInv, LaneInv
  <1>12. ComputeRight(k)'
    <2> SUFFICES ASSUME compute[k] # NoEntry
                 PROVE  /\ mtePc'[k] # "loading"
                        /\ compute[k].round < received(k)'
                        /\ compute[k] = EntryOf(k, compute[k].round)
                        /\ k \in Users(compute[k].round)
                        /\ tile[k] = compute[k].round
      BY <1>1, ComputeForm
    <2>1. /\ compute[k].round < received(k)
          /\ compute[k] = EntryOf(k, compute[k].round)
          /\ k \in Users(compute[k].round)
          /\ tile[k] = compute[k].round
      BY DEF IInv, LaneInv, ComputeRight
    <2>2. compute[k].round \in Nat
      BY DEF IInv, TypeInv, Entry
    <2> QED BY <1>4, <1>7, <1>9, <2>1, <2>2
  <1>13. ASSUME NEW l \in Lane, l # k
         PROVE  /\ received(l)' = received(l)
                /\ CursorRight(walk[l])' /\ QueueRight(l)' /\ ComputeRight(l)'
    <2>1. /\ walk'[l] = walk[l] /\ queue'[l] = queue[l] /\ mtePc'[l] = mtePc[l]
          /\ compute'[l] = compute[l] /\ tile'[l] = tile[l]
      BY <1>1, <1>2, <1>3, <1>13
    <2> QED BY <1>1, <2>1, OthersKept
  <1>14. OutSound'
    <2>1. \A l \in Lane, r \in Nat : r < received(l) => r < received(l)'
      BY <1>4, <1>9, <1>13
    <2>2. UNCHANGED <<given, out>>
      BY <1>1
    <2> QED BY <2>1, <2>2, OutForm DEF IInv, OutSound
  <1>15. OutComplete'
    <2> SUFFICES ASSUME NEW l \in Lane, NEW r \in Nat, r < received(l)', l \in Users(r)
                 PROVE  \/ compute'[l] # NoEntry /\ compute'[l].round = r
                        \/ \A h \in LaneRepeats(Repeat, l) : Output(l, r, h) \in out'
      BY <1>1, OutForm
    <2>1. r < received(l)
      <3>1. CASE l # k
        BY <1>13, <3>1
      <3>2. CASE l = k
        BY <1>4, <1>5, <1>9, <3>2
      <3> QED BY <3>1, <3>2
    <2> QED BY <1>1, <2>1 DEF IInv, OutComplete
  <1> QED BY <1>8, <1>10, <1>11, <1>12, <1>13, <1>14, <1>15 DEF OwnInv, LaneInv

\* FinalizeHeadWithKkt() of all the heads of the round.
LEMMA FinalizeInv == ASSUME IInv, NEW k \in Lane, Finalize(k) PROVE OwnInv'
  <1> DEFINE q == compute[k].round
             made == {[lane |-> k, round |-> q, task |-> compute[k].task,
                       repeat |-> h, gram |-> tile[k]] : h \in compute[k].repeats}
  <1>1. /\ UNCHANGED <<given, walk, queue, mtePc, tile>>
        /\ compute[k] # NoEntry /\ compute' = [compute EXCEPT ![k] = NoEntry]
        /\ out' = out \cup made
    BY DEF Finalize
  <1>2. compute \in [Lane -> Entry \cup {NoEntry}]
    BY DEF IInv, TypeInv
  <1>3. /\ q < received(k) /\ compute[k] = EntryOf(k, q) /\ k \in Users(q) /\ tile[k] = q
    BY <1>1 DEF IInv, LaneInv, ComputeRight
  <1>4. q \in Nat
    BY <1>1, <1>2 DEF Entry
  <1> HIDE DEF q
  <1>5. compute[k].task = ScheduledTaskId(group, q) /\ compute[k].repeats = LaneRepeats(Repeat, k)
    BY <1>3, EntryFields
  <1>6. made = {Output(k, q, h) : h \in LaneRepeats(Repeat, k)}
    BY <1>3, <1>5 DEF Output
  <1> HIDE DEF made
  <1>7. GivenInv' /\ TypeInv'
    <2>1. compute' \in [Lane -> Entry \cup {NoEntry}]
      BY <1>1, <1>2
    <2> QED BY <1>1, <2>1, GivenStays DEF IInv, TypeInv, NoEntry
  <1>8. \A l \in Lane : mteRound(l)' = mteRound(l) /\ received(l)' = received(l)
    BY <1>1 DEF mteRound, received
  <1>9. ASSUME NEW l \in Lane
        PROVE  CursorRight(walk[l])' /\ QueueRight(l)' /\ ComputeRight(l)'
    <2>1. CursorRight(walk[l])'
      BY <1>1, CursorForm DEF IInv, LaneInv
    <2>2. QueueRight(l)'
      BY <1>1, <1>8, QueueForm DEF IInv, LaneInv, QueueRight
    <2>3. ComputeRight(l)'
      <3>1. CASE l = k
        BY <1>1, <1>2, <3>1, ComputeForm
      <3>2. CASE l # k
        <4>1. compute'[l] = compute[l]
          BY <1>1, <1>2, <3>2
        <4> QED BY <1>1, <4>1, OthersKept
      <3> QED BY <3>1, <3>2
    <2> QED BY <2>1, <2>2, <2>3
  <1>10. OutSound'
    <2> SUFFICES ASSUME NEW o \in out'
                 PROVE  \E l \in Lane, r \in Nat :
                          /\ r < received(l)' /\ l \in Users(r)
                          /\ \E h \in LaneRepeats(Repeat, l) : o = Output(l, r, h)
      BY <1>1, OutForm
    <2>1. CASE o \in out
      BY <1>8, <2>1 DEF IInv, OutSound
    <2>2. CASE o \in made
      BY <1>3, <1>4, <1>6, <1>8, <2>2
    <2> QED BY <1>1, <2>1, <2>2
  <1>11. OutComplete'
    <2> SUFFICES ASSUME NEW l \in Lane, NEW r \in Nat, r < received(l)', l \in Users(r)
                 PROVE  \/ compute'[l] # NoEntry /\ compute'[l].round = r
                        \/ \A h \in LaneRepeats(Repeat, l) : Output(l, r, h) \in out'
      BY <1>1, OutForm
    <2>1. r < received(l)
      BY <1>8
    <2>2. \/ compute[l] # NoEntry /\ compute[l].round = r
          \/ \A h \in LaneRepeats(Repeat, l) : Output(l, r, h) \in out
      BY <2>1 DEF IInv, OutComplete
    <2>3. CASE l = k
      BY <1>1, <1>6, <2>2, <2>3 DEF q
    <2>4. CASE l # k
      BY <1>1, <1>2, <2>2, <2>4
    <2> QED BY <2>3, <2>4
  <1> QED BY <1>7, <1>9, <1>10, <1>11 DEF OwnInv, LaneInv

-----------------------------------------------------------------------------
(* The invariant holds, and what follows from it. *)

\* A group starts where its protocol does.
LEMMA InitProtocol == Init => P!Init
  <1> SUFFICES ASSUME Init PROVE P!Init
    OBVIOUS
  <1>a. GivenInv
    BY DEF Init, GivenInv
  <1>b. localTaskCount \in Nat
    BY <1>a, CountTyped
  <1>1. [r \in 0 .. localTaskCount - 1 |->
           IF Valid(AicChunk(r)) THEN ChunkLen(AicChunk(r)) ELSE 0]
          \in [0 .. localTaskCount - 1 -> Int]
    <2>1. ASSUME NEW r \in 0 .. localTaskCount - 1 PROVE ChunkLen(AicChunk(r)) \in Int
      BY <1>a, RoundTyped, ChunkTyped DEF Rounds
    <2> QED BY <2>1
  <1>2. /\ [l \in Lane |-> walk[l].localRound] = [l \in Lane |-> 0]
        /\ [l \in Lane |-> walk[l].localRound - Len(queue[l])] = [l \in Lane |-> 0]
    BY DEF Init
  <1>3. Repeat \in Nat \ {0}
    BY <1>a, Typed
  <1> QED BY <1>b, <1>1, <1>2, <1>3, SameTask DEF Init, P!Init

\* The cursors a lane starts with are at the first task of its group.
LEMMA InitIInv == Init => IInv
  <1> SUFFICES ASSUME Init PROVE IInv
    OBVIOUS
  <1>1. GivenInv
    BY DEF Init, GivenInv
  <1>2. Begin(group) \in Nat /\ numChunks \in Nat \ {0} /\ group \in Nat /\ blockDim \in Nat
    BY <1>1, BeginTyped, Typed
  <1>3. localTaskCount \in Nat
    BY <1>1, CountTyped
  <1>4. Begin(group) \div numChunks \in Nat /\ Begin(group) % numChunks \in Nat
    <2>1. Begin(group) % numChunks \in 0 .. numChunks - 1
      BY <1>2, DivMod
    <2> QED BY <1>2, <2>1, DivMod
  <1>5. TypeInv
    <2>1. walk \in [Lane -> Cursors]
      BY <1>2, <1>4 DEF Init, Cursors
    <2>2. queue \in [Lane -> Seq(Entry)] /\ compute \in [Lane -> Entry \cup {NoEntry}]
      BY DEF Init
    <2> QED BY <2>1, <2>2 DEF TypeInv
  <1>6. ASSUME NEW l \in Lane PROVE CursorRight(walk[l]) /\ QueueRight(l) /\ ComputeRight(l)
    <2>1. CursorRight(walk[l])
      <3>1. /\ walk[l].localRound = 0 /\ walk[l].inPair = FALSE
            /\ walk[l].ordinal = IF chunkLocal THEN Begin(group) ELSE group
            /\ walk[l].kvHeadId = Begin(group) \div numChunks
            /\ walk[l].chunkId = Begin(group) % numChunks
        BY DEF Init
      <3>2. group + 0 * blockDim = group /\ Begin(group) + 0 = Begin(group) /\ 0 <= localTaskCount
        BY <1>2, <1>3
      <3> QED BY <3>1, <3>2 DEF CursorRight
    <2>2. QueueRight(l) /\ ComputeRight(l)
      BY DEF Init, QueueRight, ComputeRight
    <2> QED BY <2>1, <2>2
  <1>7. \A l \in Lane : mteRound(l) = 0 /\ received(l) = 0
    BY DEF Init, mteRound, received
  <1>8. OutSound /\ OutComplete
    BY <1>7 DEF Init, OutSound, OutComplete
  <1>9. P!IInv
    BY InitProtocol, P!InitIInv, PipelineFits
  <1> QED BY <1>1, <1>5, <1>6, <1>8, <1>9 DEF IInv, LaneInv

\* Every step of the group keeps the invariant.
LEMMA NextIInv == IInv /\ [Next]_vars => IInv'
  <1> SUFFICES ASSUME IInv, [Next]_vars PROVE IInv'
    OBVIOUS
  <1>1. P!IInv'
    <2>1. P!IInv
      BY DEF IInv
    <2> QED BY <2>1, ProtocolStep, P!NextIInv, PipelineFits
  <1>2. OwnInv'
    <2>1. CASE IssueRound
      BY <2>1, LanesKept DEF IssueRound
    <2>2. CASE Fix
      BY <2>2, LanesKept DEF Fix, StartCommit, FinishCommit, SetReady
    <2>3. ASSUME NEW k \in Lane, TakeTask(k) PROVE OwnInv'
      BY <2>3, TakeInv
    <2>4. ASSUME NEW k \in Lane, Mte2(k) PROVE OwnInv'
      BY <2>4, StartLoadInv, FinishLoadInv, ReleaseInv DEF Mte2
    <2>5. ASSUME NEW k \in Lane, Finalize(k) PROVE OwnInv'
      BY <2>5, FinalizeInv
    <2>6. CASE UNCHANGED vars
      BY <2>6, LanesKept DEF vars
    <2> QED BY <2>1, <2>2, <2>3, <2>4, <2>5, <2>6 DEF Next, Finished
  <1> QED BY <1>1, <1>2 DEF IInv, OwnInv

\* The cursors of both walks, the queues of both lanes and the flags stay in
\* step with the AIC's schedule (Process() of both stages of v04).
THEOREM V04Invariant == Spec => []IInv
  BY InitIInv, NextIInv, PTL DEF Spec

\* A group of v04 behaves as the flag protocol of KktPipeline on the rounds
\* of its schedule: what is proved of that protocol holds of v04.
THEOREM ImplementsProtocol == Spec => Protocol!SafeSpec
  <1>1. Init => Protocol!Init
    BY InitProtocol, SameProtocol
  <1>2. IInv /\ [Next]_vars => [Protocol!Next]_(Protocol!vars)
    <2> SUFFICES ASSUME IInv, [Next]_vars PROVE Protocol!Next \/ UNCHANGED Protocol!vars
      OBVIOUS
    <2>1. P!Next \/ UNCHANGED P!vars
      BY ProtocolStep
    <2> QED BY <2>1, SameProtocol
  <1> QED BY <1>1, <1>2, V04Invariant, PTL DEF Spec, Protocol!SafeSpec

\* No tile is multiplied with another task's Gram (Finalize of v04).
THEOREM GramIsOwn == Spec => []OwnGram
  <1>1. IInv => OwnGram
    <2> SUFFICES ASSUME IInv, NEW o \in out
                 PROVE  o.gram >= 0 /\ ScheduledTaskId(group, o.gram) = o.task
      BY DEF OwnGram
    <2>1. PICK l \in Lane, r \in Nat : \E h \in LaneRepeats(Repeat, l) : o = Output(l, r, h)
      BY DEF IInv, OutSound
    <2>2. o.gram = r /\ o.task = ScheduledTaskId(group, r)
      BY <2>1 DEF Output
    <2> QED BY <2>2
  <1> QED BY <1>1, V04Invariant, PTL

\* A lane whose walk is over, and whose pipes are empty, has received every
\* round of the AIC's schedule (the two loop bounds of v04 agree).
LEMMA AllReceived ==
  ASSUME IInv, Done, NEW l \in Lane
  PROVE  mteRound(l) = localTaskCount /\ received(l) = localTaskCount
  <1>1. GivenInv /\ walk[l].localRound \in Nat /\ CursorRight(walk[l])
    BY DEF IInv, TypeInv, LaneInv, Cursors
  <1>2. localTaskCount \in Nat
    BY <1>1, CountTyped
  <1>3. WalkDone(l) /\ queue[l] = << >>
    BY DEF Done
  <1>4. walk[l].localRound <= localTaskCount
    BY <1>1 DEF CursorRight
  <1>5. ~(walk[l].localRound < localTaskCount)
    <2>1. CASE chunkLocal
      <3>1. /\ walk[l].ordinal = Begin(group) + walk[l].localRound
            /\ walk[l].ordinal >= Begin(group + 1)
            /\ localTaskCount = Begin(group + 1) - Begin(group)
        BY <1>1, <1>3, <2>1 DEF CursorRight, WalkDone, localTaskCount, ScheduledTaskCount
      <3>2. Begin(group) \in Nat /\ Begin(group + 1) \in Nat
        BY <1>1, BeginTyped
      <3> QED BY <1>1, <3>1, <3>2
    <2>2. CASE ~chunkLocal
      <3>1. /\ walk[l].ordinal = group + walk[l].localRound * blockDim
            /\ walk[l].ordinal >= totalTaskCount
        BY <1>1, <1>3, <2>2 DEF CursorRight, WalkDone
      <3>2. totalTaskCount \in Nat /\ group + walk[l].localRound * blockDim \in Nat
        BY <1>1, <2>2, CyclicBound, Typed
      <3>3. ~(group + walk[l].localRound * blockDim < totalTaskCount)
        BY <3>1, <3>2
      <3> QED BY <1>1, <2>2, <3>3, CyclicBound
    <2> QED BY <2>1, <2>2
  <1>6. mteRound(l) = localTaskCount
    BY <1>1, <1>2, <1>3, <1>4, <1>5 DEF mteRound
  <1>7. mtePc[l] # "loaded"
    <2>1. Len(queue[l]) = 0
      BY <1>3
    <2> QED BY <2>1, LaneOrder
  <1> QED BY <1>2, <1>6, <1>7 DEF received

\* Every head of every row is written once (PrepareVector to StoreKda of v04).
LEMMA WrittenOnce == ASSUME IInv PROVE OutputsExactlyOnce
  <1> SUFFICES ASSUME Done PROVE OutputsExactlyOnce
    BY DEF OutputsExactlyOnce
  <1>1. GivenInv /\ localTaskCount \in Nat
    BY CountTyped DEF IInv
  <1>2. ASSUME NEW o \in out
        PROVE  \E l \in Lane, r \in 0 .. localTaskCount - 1 :
                 /\ l \in Users(r)
                 /\ \E h \in LaneRepeats(Repeat, l) : o = Output(l, r, h)
    <2>1. PICK l \in Lane, r \in Nat :
            /\ r < received(l) /\ l \in Users(r)
            /\ \E h \in LaneRepeats(Repeat, l) : o = Output(l, r, h)
      BY DEF IInv, OutSound
    <2>2. r \in 0 .. localTaskCount - 1
      BY <1>1, <2>1, AllReceived
    <2> QED BY <2>1, <2>2
  <1>3. ASSUME NEW p \in out, NEW q \in out,
               p.lane = q.lane, p.task = q.task, p.repeat = q.repeat
        PROVE  p = q
    <2>1. PICK l1 \in Lane, r1 \in 0 .. localTaskCount - 1 :
            \E h \in LaneRepeats(Repeat, l1) : p = Output(l1, r1, h)
      BY <1>2
    <2>2. PICK l2 \in Lane, r2 \in 0 .. localTaskCount - 1 :
            \E h \in LaneRepeats(Repeat, l2) : q = Output(l2, r2, h)
      BY <1>2
    <2>a. PICK h1 : p = Output(l1, r1, h1)
      BY <2>1
    <2>b. PICK h2 : q = Output(l2, r2, h2)
      BY <2>2
    <2>3. l1 = l2 /\ h1 = h2 /\ ScheduledTaskId(group, r1) = ScheduledTaskId(group, r2)
      BY <1>3, <2>a, <2>b DEF Output
    <2>4. r1 = r2
      BY <1>1, <2>3, RoundUnique DEF Rounds
    <2> QED BY <2>a, <2>b, <2>3, <2>4
  <1>4. ASSUME NEW o \in out
        PROVE  \E r \in 0 .. localTaskCount - 1 :
                 /\ o.task = ScheduledTaskId(group, r)
                 /\ o.lane \in Users(r) /\ o.repeat \in LaneRepeats(Repeat, o.lane)
    BY <1>2 DEF Output
  <1>5. ASSUME NEW r \in 0 .. localTaskCount - 1, NEW l \in Users(r),
               NEW h \in LaneRepeats(Repeat, l)
        PROVE  \E o \in out :
                 o.lane = l /\ o.task = ScheduledTaskId(group, r) /\ o.repeat = h
    <2>1. l \in Lane
      BY DEF Users
    <2>2. r \in Nat /\ r < received(l) /\ compute[l] = NoEntry
      BY <1>1, <2>1, AllReceived DEF Done
    <2>3. Output(l, r, h) \in out
      BY <2>1, <2>2 DEF IInv, OutComplete
    <2> QED BY <2>3 DEF Output
  <1> QED BY <1>3, <1>4, <1>5 DEF OutputsExactlyOnce

\* The counters of the group go back to where they started (Process() of both
\* stages leaves no flag for the next launch).
LEMMA FlagsReturn == ASSUME IInv PROVE FlagsBalanced
  <1>1. P!ReadyCount /\ P!FreeCount /\ GivenInv
    BY DEF IInv, P!IInv
  <1>2. localTaskCount \in Nat
    BY <1>1, CountTyped
  <1>3. ASSUME NEW s \in Slot, NEW l \in Lane
        PROVE  /\ ready[s][l] <= 1 /\ free[s][l] <= 1
               /\ Done => ready[s][l] = 0 /\ free[s][l] = 0
    <2>1. ready[s][l] = IF \E r \in {walk[l].localRound, walk[l].localRound + 1} :
                                r < announced /\ SlotOf(r) = s
                        THEN 1 ELSE 0
      BY <1>1, SameTask DEF P!ReadyCount, P!SlotOf, SlotOf
    <2>2. free[s][l] = IF \E r \in {issued - 1, issued - 2} :
                            /\ r >= 0 /\ r < mteRound(l) /\ r + SLOT_COUNT < localTaskCount
                            /\ SlotOf(r) = s
                       THEN 1 ELSE 0
      BY <1>1, SameTask DEF P!FreeCount, P!WillReuseSlot, mteRound
    <2>3. ASSUME Done PROVE ready[s][l] = 0 /\ free[s][l] = 0
      <3>1. /\ issued \in Nat /\ announced = localTaskCount
            /\ issued <= localTaskCount /\ announced <= issued
        BY <2>3, LaneOrder DEF Done
      <3>2. walk[l].localRound = localTaskCount
        <4>1. mteRound(l) = localTaskCount /\ Len(queue[l]) = 0
          BY <2>3, AllReceived DEF Done
        <4> QED BY <1>2, <4>1, LaneOrder
      <3> QED BY <1>2, <2>1, <2>2, <3>1, <3>2 DEF SLOT_COUNT
    <2> QED BY <2>1, <2>2, <2>3
  <1> QED BY <1>3 DEF FlagsBalanced

\* A group of v04 that returns has written all of its output, once, and left
\* no flag for the next launch.
THEOREM GroupCompleteAndBalanced == Spec => []CompleteAndBalanced
  <1>1. IInv => CompleteAndBalanced
    BY WrittenOnce, FlagsReturn DEF CompleteAndBalanced
  <1> QED BY <1>1, V04Invariant, PTL
=============================================================================
