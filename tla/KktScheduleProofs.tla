--------------------------- MODULE KktScheduleProofs ---------------------------
(***************************************************************************)
(* The two sides of the schedule agree for every accepted shape: the walk  *)
(* of an AIV lane, with cursors of its own, is in round r at the task the  *)
(* AIC produces in round r, has as many rounds, and returns a slot exactly *)
(* when the AIC has a later round that waits for it.                       *)
(*                                                                         *)
(* The invariant behind it says where the cursors are: a walk in           *)
(* contiguous ranges has chunkId and kvHeadId at the quotient and the      *)
(* remainder the AIC computes by division for the same round.              *)
(***************************************************************************)
EXTENDS KktSchedule, TLAPS

-----------------------------------------------------------------------------
(* Division *)

\* A quotient is the one number whose multiple leaves a remainder in range.
LEMMA DivMod ==
  ASSUME NEW a \in Nat, NEW b \in Nat \ {0}
  PROVE  /\ a \div b \in Nat /\ a % b \in 0 .. b - 1
         /\ a = b * (a \div b) + (a % b)
  BY SMT

\* Multiplication by a natural number keeps the order.
LEMMA MulMono ==
  ASSUME NEW x \in Int, NEW y \in Int, NEW b \in Nat, x <= y
  PROVE  x * b <= y * b
  <1>1. (y - x) * b >= 0
    BY SMT
  <1>2. (y - x) * b = y * b - x * b
    BY SMT
  <1> QED BY <1>1, <1>2

\* ... and the quotient of such a sum is its multiple.
LEMMA DivUnique ==
  ASSUME NEW q \in Nat, NEW b \in Nat \ {0}, NEW r \in 0 .. b - 1
  PROVE  (q * b + r) \div b = q /\ (q * b + r) % b = r
  <1> DEFINE a == q * b + r
             d == a \div b
  <1>1. a \in Nat
    BY SMT
  <1>2. d \in Nat /\ a % b \in 0 .. b - 1 /\ a = b * d + (a % b)
    BY <1>1, DivMod
  <1> HIDE DEF d
  <1>3. d = q
    <2>1. CASE d < q
      <3>1. (d + 1) * b <= q * b
        BY <1>2, <2>1, MulMono
      <3> QED BY <1>2, <3>1
    <2>2. CASE q < d
      <3>1. (q + 1) * b <= d * b
        BY <1>2, <2>2, MulMono
      <3> QED BY <1>2, <3>1
    <2> QED BY <1>2, <2>1, <2>2
  <1> QED BY <1>2, <1>3 DEF d

\* p fits into a divided by b exactly if p multiples of b fit into a.
LEMMA DivBound ==
  ASSUME NEW a \in Nat, NEW b \in Nat \ {0}, NEW p \in Nat
  PROVE  p * b <= a <=> p <= a \div b
  <1> DEFINE q == a \div b
  <1>1. q \in Nat /\ a % b \in 0 .. b - 1 /\ a = b * q + (a % b)
    BY DivMod
  <1> HIDE DEF q
  <1>2. ASSUME p <= q PROVE p * b <= a
    BY <1>1, <1>2, MulMono
  <1>3. ASSUME q < p PROVE ~(p * b <= a)
    <2>1. (q + 1) * b <= p * b
      BY <1>1, <1>3, MulMono
    <2> QED BY <1>1, <2>1
  <1> QED BY <1>1, <1>2, <1>3 DEF q

-----------------------------------------------------------------------------
(* The tiling data and the AIC's side *)

TypedTiling(tl) ==
  /\ tl.totalTaskCount \in Nat \ {0} /\ tl.hg \in Nat \ {0}
  /\ tl.blockDim \in Nat \ {0} /\ tl.numRepeat \in Nat
  /\ NumChunks(tl) \in Nat \ {0}
  /\ tl.totalTaskCount = NumChunks(tl) * tl.hg

\* What the Host has accepted makes sense of every division below.
LEMMA TilingIsTyped == \A s \in Shapes : TypedTiling(Tiling(s))
  <1> SUFFICES ASSUME NEW s \in Shapes PROVE TypedTiling(Tiling(s))
    OBVIOUS
  <1>1. /\ s.h \in Nat \ {0} /\ s.hg \in Nat \ {0} /\ s.numChunks \in Nat \ {0}
        /\ s.aicNum \in Nat \ {0}
    BY ScheduleAssumption DEF Accepted, ShapeType
  <1> DEFINE n == s.numChunks
             hg == s.hg
  <1>2. n * hg \in Nat \ {0}
    <2>1. 1 * hg <= n * hg
      BY <1>1, MulMono
    <2> QED BY <1>1, <2>1
  <1>3. BlockDim(s) \in Nat \ {0}
    <2>1. SelectedBlockDim(s) \in Int
      BY <1>1, <1>2 DEF SelectedBlockDim, TotalTaskCount, CHAMP_SMALL_TASK_BLOCK_DIM,
        CHAMP_GROUP_ALIGNED_CORE_COUNT, MaxI, MinI32
    <2> QED BY <1>1, <2>1 DEF BlockDim, MaxI, MinI32
  <1>4. HeadPerGroup(s) \in Nat
    BY <1>1, DivMod DEF HeadPerGroup
  <1>5. (n * hg + 0) \div hg = n
    BY <1>1, DivUnique
  <1>6. n * hg + 0 = n * hg
    BY <1>2
  <1>7. NumChunks(Tiling(s)) = n
    BY <1>5, <1>6 DEF NumChunks, Tiling, TotalTaskCount
  <1> QED BY <1>1, <1>2, <1>3, <1>4, <1>7 DEF TypedTiling, Tiling, TotalTaskCount

\* The group-aligned count is a number: the policy has a core for every head.
LEMMA AlignedTyped ==
  ASSUME NEW tl, TypedTiling(tl), GroupAligned(tl), NEW g \in Nat
  PROVE  /\ AlignedCount(tl, g) \in Nat /\ ChunkStart(tl, g) \in Nat
         /\ KvHeadOfGroup(tl, g) \in Nat
  <1> DEFINE c == CoresPerKvGroup(tl)
  <1>1. c \in Nat \ {0}
    <2>1. tl.blockDim % tl.hg = 0
      BY DEF GroupAligned, UseChampionGroupAlignedSchedule
    <2>2. c \in Nat /\ tl.blockDim = tl.hg * c + (tl.blockDim % tl.hg)
      BY DivMod DEF CoresPerKvGroup, TypedTiling
    <2>3. tl.blockDim \in Nat \ {0} /\ tl.hg \in Nat \ {0}
      BY DEF TypedTiling
    <2> HIDE DEF c
    <2>4. c # 0
      BY <2>1, <2>2, <2>3
    <2> QED BY <2>2, <2>4
  <1> DEFINE m == ChunksPerCore(tl)
             e == ExtraChunks(tl)
             k == CoreInKvGroup(tl, g)
  <1>2. NumChunks(tl) \in Nat
    BY DEF TypedTiling
  <1>3. /\ m \in Nat /\ NumChunks(tl) % c \in 0 .. c - 1
        /\ NumChunks(tl) = c * m + (NumChunks(tl) % c)
    BY <1>1, <1>2, DivMod DEF ChunksPerCore
  <1>4. k \in Nat /\ KvHeadOfGroup(tl, g) \in Nat
    BY <1>1, DivMod DEF CoreInKvGroup, KvHeadOfGroup
  <1>5. e = NumChunks(tl) - m * c
    BY DEF ExtraChunks
  <1> HIDE DEF c, m, k, e
  <1>6. e \in Nat
    BY <1>1, <1>2, <1>3, <1>5
  <1>7. k * m \in Nat
    BY <1>3, <1>4
  <1>8. AlignedCount(tl, g) = m + (IF k < e THEN 1 ELSE 0)
    BY DEF AlignedCount, m, k, e
  <1>9. ChunkStart(tl, g) = k * m + (IF k < e THEN k ELSE e)
    BY DEF ChunkStart, MinI32, m, k, e
  <1> QED BY <1>3, <1>4, <1>6, <1>7, <1>8, <1>9

\* The contiguous ranges of the head-major order.
LEMMA BeginTyped ==
  ASSUME NEW tl, TypedTiling(tl), NEW g \in Nat
  PROVE  Begin(tl, g) \in Nat /\ Begin(tl, g) <= Begin(tl, g + 1)
  <1> DEFINE T == tl.totalTaskCount
             B == tl.blockDim
  <1>1. T \in Nat /\ B \in Nat \ {0}
    BY DEF TypedTiling
  <1> HIDE DEF T, B
  <1>2. T * g \in Nat /\ T * (g + 1) \in Nat /\ T * g <= T * (g + 1)
    <2>1. g * T <= (g + 1) * T
      BY <1>1, MulMono
    <2> QED BY <1>1, <2>1
  <1> DEFINE d == (T * g) \div B
  <1>3. d \in Nat
    BY <1>1, <1>2, DivMod
  <1>4. d * B <= T * g
    BY <1>1, <1>2, <1>3, DivBound
  <1>5. d * B <= T * (g + 1)
    <2> HIDE DEF d
    <2>1. d * B \in Nat
      BY <1>1, <1>3
    <2> QED BY <1>2, <1>4, <2>1
  <1>6. d <= (T * (g + 1)) \div B
    <2> HIDE DEF d
    <2> QED BY <1>1, <1>2, <1>3, <1>5, DivBound
  <1> QED BY <1>3, <1>6 DEF Begin, T, B

\* Of the tasks g, g + B, g + 2B, ... exactly the first Count are below T.
LEMMA CyclicCount ==
  ASSUME NEW tl, TypedTiling(tl), ~GroupAligned(tl), ~ChunkLocal(tl),
         NEW g \in Nat, NEW p \in Nat
  PROVE  /\ ScheduledTaskCount(tl, g) \in Nat
         /\ g + p * tl.blockDim < tl.totalTaskCount <=> p < ScheduledTaskCount(tl, g)
  <1> DEFINE T == tl.totalTaskCount
             B == tl.blockDim
  <1>1. T \in Nat \ {0} /\ B \in Nat \ {0}
    BY DEF TypedTiling
  <1>2. ScheduledTaskCount(tl, g) = IF g >= T THEN 0 ELSE ((T - 1 - g) \div B) + 1
    BY DEF ScheduledTaskCount
  <1> HIDE DEF T, B
  <1>3. p * B \in Nat
    BY <1>1
  <1>4. CASE g >= T
    BY <1>1, <1>2, <1>3, <1>4 DEF T, B
  <1>5. CASE g < T
    <2> DEFINE q == (T - 1 - g) \div B
    <2>1. T - 1 - g \in Nat
      BY <1>1, <1>5
    <2>2. q \in Nat
      BY <1>1, <2>1, DivMod
    <2>3. p * B <= T - 1 - g <=> p <= q
      BY <1>1, <2>1, DivBound
    <2>4. ScheduledTaskCount(tl, g) = q + 1
      BY <1>1, <1>2, <1>5
    <2> HIDE DEF q
    <2> QED BY <1>1, <1>3, <2>2, <2>3, <2>4 DEF T, B
  <1> QED BY <1>1, <1>4, <1>5

LEMMA CountTyped ==
  ASSUME NEW tl, TypedTiling(tl), NEW g \in Nat
  PROVE  ScheduledTaskCount(tl, g) \in Nat
  <1>1. CASE GroupAligned(tl)
    BY <1>1, AlignedTyped DEF ScheduledTaskCount
  <1>2. CASE ~GroupAligned(tl) /\ ChunkLocal(tl)
    <2>1. Begin(tl, g) \in Nat /\ Begin(tl, g + 1) \in Nat
          /\ Begin(tl, g) <= Begin(tl, g + 1)
      BY BeginTyped
    <2>2. ScheduledTaskCount(tl, g) = Begin(tl, g + 1) - Begin(tl, g)
      BY <1>2 DEF ScheduledTaskCount
    <2> QED BY <2>1, <2>2
  <1>3. CASE ~GroupAligned(tl) /\ ~ChunkLocal(tl)
    BY <1>3, CyclicCount
  <1> QED BY <1>1, <1>2, <1>3

-----------------------------------------------------------------------------
(* The invariant *)

Entries == [task : Int, round : Int, reuse : BOOLEAN, fused : BOOLEAN, heads : SUBSET Int]

\* What a walk has to hand to the task bodies in round r of group g.
Right(tl, g, e, r) ==
  /\ e.round = r
  /\ e.task = ScheduledTaskId(tl, g, r)
  /\ e.reuse <=> r + SLOT_COUNT < ScheduledTaskCount(tl, g)

GivenInv == shape \in Shapes /\ group \in Nat /\ lane \in Lane

CursorInv ==
  /\ position \in Nat /\ localRound = position
  /\ kvHeadId \in Nat /\ chunkId \in Nat
  /\ position <= ScheduledTaskCount(tiling, group)
  /\ GroupAligned(tiling) =>
       /\ kvHeadId = KvHeadOfGroup(tiling, group)
       /\ chunkId = ChunkStart(tiling, group) + position
  /\ ChunkLocal(tiling) =>
       /\ chunkId < NumChunks(tiling)
       /\ kvHeadId * NumChunks(tiling) + chunkId = Begin(tiling, group) + position

LogInv ==
  /\ log \in Seq(Entries)
  /\ Len(log) = position
  /\ \A i \in 1 .. Len(log) : Right(tiling, group, log[i], i - 1)

IInv == GivenInv /\ CursorInv /\ LogInv

\* The four walks, told apart by the two predicates of the AIC.
LEMMA WalkCases ==
  /\ Walk = "Cyclic" => ~GroupAligned(tiling) /\ ~ChunkLocal(tiling)
  /\ Walk = "ChunkLocal" => ~GroupAligned(tiling) /\ ChunkLocal(tiling)
  /\ Walk \in {"GroupAligned", "GroupAlignedR3"} => GroupAligned(tiling) /\ ~ChunkLocal(tiling)
  /\ Walk \in {"Cyclic", "ChunkLocal", "GroupAligned", "GroupAlignedR3"}
  BY DEF Walk, ChunkLocal

\* The AIV computes the same count as the AIC, where it computes one.
LEMMA SameCount ==
  ASSUME Walk # "Cyclic"
  PROVE  LocalTaskCount = ScheduledTaskCount(tiling, group)
  BY WalkCases DEF LocalTaskCount, ScheduledTaskCount

-----------------------------------------------------------------------------
(* Entries of the log *)

LEMMA EntryTyped ==
  ASSUME GivenInv, CursorInv, NEW task \in Int, NEW round \in Int, NEW reuse \in BOOLEAN,
         NEW fused \in BOOLEAN, NEW repeats \in SUBSET Int
  PROVE  Entry(task, round, reuse, fused, repeats) \in Entries
  <1>1. tiling.numRepeat \in Nat
    BY TilingIsTyped DEF GivenInv, TypedTiling, tiling
  <1>2. \A r \in repeats : kvHeadId * tiling.numRepeat + r \in Int
    BY <1>1 DEF CursorInv
  <1>3. HeadsOf(kvHeadId, repeats) \in SUBSET Int
    BY <1>2 DEF HeadsOf
  <1> QED BY <1>3 DEF Entry, Entries

LEMMA RepeatsTyped == ASSUME GivenInv PROVE LaneRepeats(tiling.numRepeat, lane) \in SUBSET Int
                                            /\ FusedRepeats \in SUBSET Int
  <1>1. tiling.numRepeat \in Nat
    BY TilingIsTyped DEF GivenInv, TypedTiling, tiling
  <1>2. \A a, b \in Int : a .. b \in SUBSET Int
    OBVIOUS
  <1> QED BY <1>1, <1>2 DEF LaneRepeats, FusedRepeats, FirstRepeat, RepeatEnd, GATE_HEAD_BATCH

\* One right entry more, and two.
LEMMA LogOne ==
  ASSUME LogInv, NEW e \in Entries, Right(tiling, group, e, position), position \in Nat,
         log' = Append(log, e), position' = position + 1, UNCHANGED given
  PROVE  LogInv'
  <1>1. tiling' = tiling /\ group' = group
    BY DEF given, tiling
  <1>2. /\ log' \in Seq(Entries) /\ Len(log') = Len(log) + 1
        /\ \A i \in 1 .. Len(log) : log'[i] = log[i]
        /\ log'[Len(log) + 1] = e
    BY DEF LogInv
  <1>3. \A i \in 1 .. Len(log') : Right(tiling, group, log'[i], i - 1)
    <2> SUFFICES ASSUME NEW i \in 1 .. Len(log') PROVE Right(tiling, group, log'[i], i - 1)
      OBVIOUS
    <2>1. CASE i = Len(log) + 1
      <3>1. i - 1 = position /\ log'[i] = e
        BY <1>2, <2>1 DEF LogInv
      <3> QED BY <3>1
    <2>2. CASE i \in 1 .. Len(log)
      BY <1>2, <2>2 DEF LogInv
    <2>3. Len(log) \in Nat
      BY DEF LogInv
    <2> QED BY <1>2, <2>1, <2>2, <2>3
  <1> QED BY <1>1, <1>2, <1>3 DEF LogInv

LEMMA LogTwo ==
  ASSUME LogInv, NEW e \in Entries, NEW f \in Entries, position \in Nat,
         Right(tiling, group, e, position), Right(tiling, group, f, position + 1),
         log' = log \o <<e, f>>, position' = position + 2, UNCHANGED given
  PROVE  LogInv'
  <1>1. tiling' = tiling /\ group' = group
    BY DEF given, tiling
  <1>2. /\ log' \in Seq(Entries) /\ Len(log') = Len(log) + 2
        /\ \A i \in 1 .. Len(log) : log'[i] = log[i]
        /\ log'[Len(log) + 1] = e /\ log'[Len(log) + 2] = f
    <2>1. <<e, f>> \in Seq(Entries) /\ Len(<<e, f>>) = 2
          /\ <<e, f>>[1] = e /\ <<e, f>>[2] = f
      OBVIOUS
    <2>2. log \in Seq(Entries) /\ Len(log) \in Nat
      BY DEF LogInv
    <2> QED BY <2>1, <2>2
  <1>3. \A i \in 1 .. Len(log') : Right(tiling, group, log'[i], i - 1)
    <2> SUFFICES ASSUME NEW i \in 1 .. Len(log') PROVE Right(tiling, group, log'[i], i - 1)
      OBVIOUS
    <2>1. CASE i = Len(log) + 1
      <3>1. i - 1 = position /\ log'[i] = e
        BY <1>2, <2>1 DEF LogInv
      <3> QED BY <3>1
    <2>2. CASE i = Len(log) + 2
      <3>1. i - 1 = position + 1
        BY <2>2 DEF LogInv
      <3>2. log'[i] = f
        BY <1>2, <2>2
      <3> QED BY <3>1, <3>2
    <2>3. CASE i \in 1 .. Len(log)
      BY <1>2, <2>3 DEF LogInv
    <2>4. Len(log) \in Nat
      BY DEF LogInv
    <2> QED BY <1>2, <2>1, <2>2, <2>3, <2>4
  <1> QED BY <1>1, <1>2, <1>3 DEF LogInv

-----------------------------------------------------------------------------
(* The steps *)

LEMMA InitIInv == Init => IInv
  <1> SUFFICES ASSUME Init PROVE IInv
    OBVIOUS
  <1> DEFINE N == NumChunks(tiling)
  <1>1. TypedTiling(tiling) /\ shape \in Shapes
    BY TilingIsTyped DEF Init, tiling
  <1>2. group \in Nat /\ lane \in Lane /\ position = 0 /\ localRound = 0 /\ log = << >>
    <2>1. BlockDim(shape) \in Nat
      BY <1>1 DEF TypedTiling, tiling, Tiling
    <2> QED BY <2>1 DEF Init
  <1>3. GivenInv
    BY <1>1, <1>2 DEF GivenInv
  <1>4. LogInv
    BY <1>2 DEF LogInv
  <1>5. ScheduledTaskCount(tiling, group) \in Nat
    BY <1>1, <1>2, CountTyped
  <1>6. CASE Walk = "Cyclic"
    <2>1. kvHeadId = group % tiling.hg /\ chunkId = group \div tiling.hg
      BY <1>6 DEF Init
    <2>2. tiling.hg \in Nat \ {0}
      BY <1>1 DEF TypedTiling
    <2>3. \A b \in Nat \ {0} : group \div b \in Nat /\ group % b \in Nat
      BY <1>2, DivMod
    <2>4. kvHeadId \in Nat /\ chunkId \in Nat
      BY <2>1, <2>2, <2>3
    <2> QED BY <1>2, <1>3, <1>4, <1>5, <1>6, <2>4, WalkCases DEF IInv, CursorInv
  <1>7. CASE Walk = "ChunkLocal"
    <2>1. kvHeadId = Begin(tiling, group) \div N /\ chunkId = Begin(tiling, group) % N
      BY <1>7 DEF Init
    <2>2. Begin(tiling, group) \in Nat /\ N \in Nat \ {0}
      BY <1>1, <1>2, BeginTyped DEF TypedTiling
    <2> DEFINE b == Begin(tiling, group)
    <2>3. kvHeadId = b \div N /\ chunkId = b % N /\ b \in Nat /\ N \in Nat \ {0}
      BY <2>1, <2>2
    <2> HIDE DEF N, b
    <2>4. b \div N \in Nat /\ b % N \in 0 .. N - 1 /\ b = N * (b \div N) + (b % N)
      BY <2>3, DivMod
    <2>5. /\ kvHeadId \in Nat /\ chunkId \in Nat /\ chunkId < N
          /\ Begin(tiling, group) = N * kvHeadId + chunkId
      <3>1. kvHeadId \in Nat /\ chunkId \in 0 .. N - 1 /\ b = N * kvHeadId + chunkId
        BY <2>3, <2>4
      <3> QED BY <2>3, <3>1 DEF b
    <2>6. kvHeadId * N + chunkId = Begin(tiling, group) + position
      BY <1>2, <2>2, <2>5
    <2> QED BY <1>2, <1>3, <1>4, <1>5, <1>7, <2>5, <2>6, WalkCases DEF IInv, CursorInv, N
  <1>8. CASE Walk \in {"GroupAligned", "GroupAlignedR3"}
    <2>1. kvHeadId = KvHeadOfGroup(tiling, group) /\ chunkId = ChunkStart(tiling, group)
      BY <1>8 DEF Init
    <2>2. kvHeadId \in Nat /\ chunkId \in Nat
      BY <1>1, <1>2, <1>8, <2>1, WalkCases, AlignedTyped
    <2> QED BY <1>2, <1>3, <1>4, <1>5, <1>8, <2>1, <2>2, WalkCases DEF IInv, CursorInv
  <1> QED BY <1>6, <1>7, <1>8, WalkCases

\* The task of a contiguous walk is the AIC's of the same round, and so is
\* that of its neighbour inside the head.
LEMMA ContiguousTask ==
  ASSUME GivenInv, CursorInv, Walk # "Cyclic", NEW i \in {0, 1},
         ChunkLocal(tiling) => chunkId + i < NumChunks(tiling)
  PROVE  TaskId(tiling, chunkId + i, kvHeadId) = ScheduledTaskId(tiling, group, position + i)
  <1> DEFINE N == NumChunks(tiling)
  <1>1. TypedTiling(tiling)
    BY TilingIsTyped DEF GivenInv, tiling
  <1>2. position \in Nat /\ chunkId \in Nat /\ kvHeadId \in Nat
    BY DEF CursorInv
  <1>3. CASE GroupAligned(tiling)
    <2>1. ChunkStart(tiling, group) \in Nat
      BY <1>1, <1>3, AlignedTyped DEF GivenInv
    <2>2. chunkId + i = ChunkStart(tiling, group) + (position + i)
      BY <1>2, <1>3, <2>1 DEF CursorInv
    <2>3. kvHeadId = KvHeadOfGroup(tiling, group)
      BY <1>3 DEF CursorInv
    <2> QED BY <1>3, <2>2, <2>3 DEF ScheduledTaskId
  <1>4. CASE ChunkLocal(tiling)
    <2> DEFINE ordinal == Begin(tiling, group) + (position + i)
    <2>1. Begin(tiling, group) \in Nat /\ N \in Nat \ {0}
      BY <1>1, BeginTyped DEF GivenInv, TypedTiling
    <2>2. kvHeadId * N + chunkId = Begin(tiling, group) + position
      BY <1>4 DEF CursorInv
    <2>3. chunkId + i \in 0 .. N - 1
      BY <1>2, <1>4, <2>1
    <2>4. ordinal = kvHeadId * N + (chunkId + i)
      <3> HIDE DEF N
      <3>1. kvHeadId * N \in Nat
        BY <1>2, <2>1
      <3> QED BY <1>2, <2>1, <2>2, <3>1
    <2>5. ordinal \div N = kvHeadId /\ ordinal % N = chunkId + i
      <3> DEFINE r == chunkId + i
      <3>1. r \in 0 .. N - 1 /\ ordinal = kvHeadId * N + r
        BY <2>3, <2>4
      <3> HIDE DEF N, ordinal, r
      <3>2. (kvHeadId * N + r) \div N = kvHeadId /\ (kvHeadId * N + r) % N = r
        BY <1>2, <2>1, <3>1, DivUnique
      <3> QED BY <3>1, <3>2 DEF r
    <2> QED BY <1>4, <2>5 DEF ScheduledTaskId, ChunkLocal
  <1> QED BY <1>3, <1>4, WalkCases

\* What Reuse() says is what the AIC's count says.
LEMMA ReuseIsRight ==
  ASSUME Walk # "Cyclic", NEW r \in Nat
  PROVE  Reuse(r) <=> r + SLOT_COUNT < ScheduledTaskCount(tiling, group)
  BY SameCount DEF Reuse

LEMMA ContiguousEntry ==
  ASSUME GivenInv, CursorInv, Walk # "Cyclic", NEW i \in {0, 1}, NEW fused \in BOOLEAN,
         NEW repeats \in SUBSET Int, ChunkLocal(tiling) => chunkId + i < NumChunks(tiling)
  PROVE  LET e == Entry(TaskId(tiling, chunkId + i, kvHeadId), localRound + i,
                        Reuse(localRound + i), fused, repeats)
         IN  e \in Entries /\ Right(tiling, group, e, position + i)
  <1> DEFINE task == TaskId(tiling, chunkId + i, kvHeadId)
             e == Entry(task, localRound + i, Reuse(localRound + i), fused, repeats)
  <1>1. TypedTiling(tiling)
    BY TilingIsTyped DEF GivenInv, tiling
  <1>2. task \in Int
    BY <1>1 DEF TaskId, CursorInv, TypedTiling
  <1>3. localRound + i \in Int /\ localRound + i = position + i /\ position + i \in Nat
    BY DEF CursorInv
  <1>4. Reuse(localRound + i) \in BOOLEAN
    BY DEF Reuse
  <1>5. task = ScheduledTaskId(tiling, group, position + i)
    BY ContiguousTask
  <1> HIDE DEF task
  <1>6. e \in Entries
    BY <1>2, <1>3, <1>4, EntryTyped
  <1>7. e.round = position + i /\ e.task = ScheduledTaskId(tiling, group, position + i)
    BY <1>3, <1>5 DEF Entry
  <1>8. e.reuse = Reuse(localRound + i)
    BY DEF Entry
  <1>9. Reuse(localRound + i) <=> position + i + SLOT_COUNT < ScheduledTaskCount(tiling, group)
    BY <1>3, ReuseIsRight
  <1>10. Right(tiling, group, e, position + i)
    BY <1>7, <1>8, <1>9, Zenon DEF Right
  <1> QED BY <1>6, <1>10 DEF task

\* One turn of a contiguous walk: the entries it hands over are those of the
\* AIC's next rounds, one or two.
LEMMA ContiguousLog ==
  ASSUME IInv, Walk # "Cyclic", NEW fuse \in BOOLEAN,
         fuse => position + 1 < LocalTaskCount /\ (ChunkLocal(tiling) => MayFuseInHead(chunkId)),
         IF fuse THEN AdjacentFullChunks
         ELSE Pipeline(TaskId(tiling, chunkId, kvHeadId), Reuse(localRound)),
         position' = position + (IF fuse THEN 2 ELSE 1), UNCHANGED given
  PROVE  LogInv'
  <1> DEFINE entry(i, repeats) ==
        Entry(TaskId(tiling, chunkId + i, kvHeadId), localRound + i, Reuse(localRound + i),
              fuse, repeats)
  <1>1. GivenInv /\ CursorInv /\ LogInv
    BY DEF IInv
  <1>2. /\ position \in Nat /\ localRound = position /\ chunkId \in Nat
        /\ chunkId + 0 = chunkId /\ localRound + 0 = localRound /\ position + 0 = position
    BY <1>1 DEF CursorInv
  <1>3. ChunkLocal(tiling) => chunkId < NumChunks(tiling)
    BY <1>1 DEF CursorInv
  <1>4. CASE fuse
    <2>1. ChunkLocal(tiling) => chunkId + 1 < NumChunks(tiling)
      BY <1>4 DEF MayFuseInHead
    <2>2. entry(0, FusedRepeats) \in Entries /\ Right(tiling, group, entry(0, FusedRepeats), position)
      BY <1>1, <1>2, <1>3, RepeatsTyped, ContiguousEntry
    <2>3. /\ entry(1, FusedRepeats) \in Entries
          /\ Right(tiling, group, entry(1, FusedRepeats), position + 1)
      BY <1>1, <1>2, <2>1, RepeatsTyped, ContiguousEntry
    <2>4. log' = log \o <<entry(0, FusedRepeats), entry(1, FusedRepeats)>>
      BY <1>2, <1>4 DEF AdjacentFullChunks
    <2>5. position' = position + 2
      BY <1>4
    <2> HIDE DEF entry
    <2> QED BY <1>1, <1>2, <2>2, <2>3, <2>4, <2>5, LogTwo
  <1>5. CASE ~fuse
    <2> DEFINE repeats == LaneRepeats(tiling.numRepeat, lane)
    <2>1. repeats \in SUBSET Int
      BY <1>1, RepeatsTyped
    <2>2. log' = Append(log, entry(0, repeats))
      BY <1>2, <1>5 DEF Pipeline
    <2> HIDE DEF repeats
    <2>3. entry(0, repeats) \in Entries /\ Right(tiling, group, entry(0, repeats), position)
      BY <1>1, <1>2, <1>3, <2>1, ContiguousEntry
    <2>4. position' = position + 1
      BY <1>5
    <2> HIDE DEF entry
    <2> QED BY <1>1, <1>2, <2>2, <2>3, <2>4, LogOne
  <1> QED BY <1>4, <1>5

\* What stays with the lane stays typed.
LEMMA GivenStays == ASSUME GivenInv, UNCHANGED given
                    PROVE  GivenInv' /\ tiling' = tiling /\ group' = group
  BY DEF GivenInv, given, tiling

LEMMA StepGroupAlignedInv == IInv /\ StepGroupAligned => IInv'
  <1> SUFFICES ASSUME IInv, StepGroupAligned PROVE IInv'
    OBVIOUS
  <1>1. Walk = "GroupAligned" /\ GroupAligned(tiling) /\ ~ChunkLocal(tiling) /\ UNCHANGED given
    BY WalkCases DEF StepGroupAligned
  <1>2. GivenInv /\ CursorInv
    BY DEF IInv
  <1>3. GivenInv' /\ tiling' = tiling /\ group' = group
    BY <1>1, <1>2, GivenStays
  <1>4. LocalTaskCount = ScheduledTaskCount(tiling, group)
        /\ ScheduledTaskCount(tiling, group) = AlignedCount(tiling, group)
    BY <1>1, SameCount DEF ScheduledTaskCount
  <1>5. AlignedCount(tiling, group) \in Nat /\ ChunkStart(tiling, group) \in Nat
    BY <1>1, <1>2, TilingIsTyped, AlignedTyped DEF GivenInv, tiling
  <1>6. position \in Nat /\ localRound = position /\ chunkId \in Nat /\ chunkId + 0 = chunkId
    BY <1>2 DEF CursorInv
  <1>7. TaskId(tiling, chunkId, kvHeadId) = ScheduledTaskId(tiling, group, localRound)
    <2>1. TaskId(tiling, chunkId + 0, kvHeadId) = ScheduledTaskId(tiling, group, position + 0)
      BY <1>1, <1>2, ContiguousTask
    <2> QED BY <1>6, <2>1
  <1>8. LogInv'
    <2>1. Pipeline(TaskId(tiling, chunkId, kvHeadId), Reuse(localRound))
          /\ position' = position + 1
      BY <1>7 DEF StepGroupAligned
    <2> QED BY <1>1, <2>1, ContiguousLog
  <1>9. CursorInv'
    BY <1>1, <1>2, <1>3, <1>4, <1>5, <1>6 DEF StepGroupAligned, CursorInv
  <1> QED BY <1>3, <1>8, <1>9 DEF IInv

LEMMA StepGroupAlignedR3Inv == IInv /\ StepGroupAlignedR3 => IInv'
  <1> SUFFICES ASSUME IInv, StepGroupAlignedR3 PROVE IInv'
    OBVIOUS
  <1> DEFINE fuse == position + 1 < LocalTaskCount /\ CanFuseAdjacentFullChunks(chunkId)
             taken == IF fuse THEN 2 ELSE 1
  <1>1. Walk = "GroupAlignedR3" /\ GroupAligned(tiling) /\ ~ChunkLocal(tiling) /\ UNCHANGED given
    BY WalkCases DEF StepGroupAlignedR3
  <1>2. GivenInv /\ CursorInv
    BY DEF IInv
  <1>3. GivenInv' /\ tiling' = tiling /\ group' = group
    BY <1>1, <1>2, GivenStays
  <1>4. LocalTaskCount = ScheduledTaskCount(tiling, group) /\ LocalTaskCount \in Nat
    BY <1>1, <1>2, SameCount, CountTyped, TilingIsTyped DEF GivenInv, tiling
  <1>5. ChunkStart(tiling, group) \in Nat
    BY <1>1, <1>2, TilingIsTyped, AlignedTyped DEF GivenInv, tiling
  <1>6. /\ position < LocalTaskCount /\ position' = position + taken
        /\ localRound' = localRound + taken /\ chunkId' = chunkId + taken /\ kvHeadId' = kvHeadId
        /\ IF fuse THEN AdjacentFullChunks
           ELSE Pipeline(TaskId(tiling, chunkId, kvHeadId), Reuse(localRound))
    BY DEF StepGroupAlignedR3
  <1>7. fuse => position + 1 < LocalTaskCount
    OBVIOUS
  <1>8. fuse \in BOOLEAN
    BY DEF CanFuseAdjacentFullChunks
  <1> HIDE DEF fuse
  <1>9. LogInv'
    BY <1>1, <1>6, <1>7, <1>8, ContiguousLog
  <1>10. CursorInv'
    BY <1>1, <1>2, <1>3, <1>4, <1>5, <1>6, <1>7 DEF CursorInv
  <1> QED BY <1>3, <1>9, <1>10 DEF IInv

LEMMA StepChunkLocalInv == IInv /\ StepChunkLocal => IInv'
  <1> SUFFICES ASSUME IInv, StepChunkLocal PROVE IInv'
    OBVIOUS
  <1> DEFINE fuse == /\ position + 1 < LocalTaskCount
                     /\ MayFuseInHead(chunkId)
                     /\ CanFuseAdjacentFullChunks(chunkId)
             taken == IF fuse THEN 2 ELSE 1
             N == NumChunks(tiling)
  <1>1. Walk = "ChunkLocal" /\ ChunkLocal(tiling) /\ ~GroupAligned(tiling) /\ UNCHANGED given
    BY WalkCases DEF StepChunkLocal
  <1>2. GivenInv /\ CursorInv
    BY DEF IInv
  <1>3. GivenInv' /\ tiling' = tiling /\ group' = group
    BY <1>1, <1>2, GivenStays
  <1>4. LocalTaskCount = ScheduledTaskCount(tiling, group) /\ LocalTaskCount \in Nat
    BY <1>1, <1>2, SameCount, CountTyped, TilingIsTyped DEF GivenInv, tiling
  <1>5. N \in Nat \ {0} /\ Begin(tiling, group) \in Nat
    BY <1>2, TilingIsTyped, BeginTyped DEF GivenInv, tiling, TypedTiling
  <1>6. /\ position < LocalTaskCount /\ position' = position + taken
        /\ localRound' = localRound + taken
        /\ kvHeadId' = NextHead(chunkId + taken) /\ chunkId' = NextChunk(chunkId + taken)
        /\ IF fuse THEN AdjacentFullChunks
           ELSE Pipeline(TaskId(tiling, chunkId, kvHeadId), Reuse(localRound))
    BY DEF StepChunkLocal
  <1>7. fuse => position + 1 < LocalTaskCount /\ MayFuseInHead(chunkId)
    OBVIOUS
  <1>8. fuse \in BOOLEAN
    BY DEF CanFuseAdjacentFullChunks, MayFuseInHead
  <1> HIDE DEF fuse
  <1>9. LogInv'
    BY <1>1, <1>6, <1>7, <1>8, ContiguousLog
  <1>10. /\ position \in Nat /\ localRound = position /\ chunkId \in Nat /\ kvHeadId \in Nat
         /\ chunkId < N /\ kvHeadId * N + chunkId = Begin(tiling, group) + position
    BY <1>1, <1>2 DEF CursorInv
  <1>11. taken \in {1, 2} /\ chunkId + taken <= N
    BY <1>5, <1>7, <1>10 DEF MayFuseInHead
  <1>12. position + taken <= LocalTaskCount
    BY <1>4, <1>6, <1>7, <1>10
  <1>13. /\ kvHeadId' \in Nat /\ chunkId' \in Nat /\ chunkId' < N
         /\ kvHeadId' * N + chunkId' = Begin(tiling, group) + (position + taken)
    <2>1. CASE chunkId + taken >= N
      <3> HIDE DEF taken
      <3>1. kvHeadId' = kvHeadId + 1 /\ chunkId' = (chunkId + taken) - N
        <4> DEFINE x == chunkId + taken
        <4>1. kvHeadId' = NextHead(x) /\ chunkId' = NextChunk(x)
          BY <1>6
        <4> HIDE DEF x
        <4>2. x >= N
          BY <2>1 DEF x
        <4>3. NextHead(x) = kvHeadId + 1 /\ NextChunk(x) = x - N
          BY <4>2 DEF NextHead, NextChunk
        <4> QED BY <4>1, <4>3 DEF x
      <3> HIDE DEF N
      <3>2. chunkId' = 0
        BY <1>5, <1>10, <1>11, <2>1, <3>1
      <3>3. (kvHeadId + 1) * N = kvHeadId * N + N /\ kvHeadId * N \in Nat
        BY <1>5, <1>10
      <3> QED BY <1>5, <1>10, <1>11, <2>1, <3>1, <3>2, <3>3
    <2>2. CASE ~(chunkId + taken >= N)
      <3> HIDE DEF taken
      <3>1. kvHeadId' = kvHeadId /\ chunkId' = chunkId + taken
        <4> DEFINE x == chunkId + taken
        <4>1. kvHeadId' = NextHead(x) /\ chunkId' = NextChunk(x)
          BY <1>6
        <4> HIDE DEF x
        <4> QED BY <2>2, <4>1 DEF NextHead, NextChunk, x
      <3> HIDE DEF N
      <3>2. kvHeadId * N \in Nat
        BY <1>5, <1>10
      <3> QED BY <1>5, <1>10, <1>11, <2>2, <3>1, <3>2
    <2> QED BY <2>1, <2>2
  <1>14. CursorInv'
    <2> HIDE DEF taken
    <2> QED BY <1>1, <1>3, <1>4, <1>6, <1>10, <1>11, <1>12, <1>13 DEF CursorInv
  <1> QED BY <1>3, <1>9, <1>14 DEF IInv

LEMMA StepCyclicInv == IInv /\ StepCyclic => IInv'
  <1> SUFFICES ASSUME IInv, StepCyclic PROVE IInv'
    OBVIOUS
  <1> DEFINE B == tiling.blockDim
             T == tiling.totalTaskCount
             count == ScheduledTaskCount(tiling, group)
             task == group + position * B
             repeats == LaneRepeats(tiling.numRepeat, lane)
             reuse == task + SLOT_COUNT * B < T
             e == Entry(task, localRound, reuse, FALSE, repeats)
  <1>1. Walk = "Cyclic" /\ ~ChunkLocal(tiling) /\ ~GroupAligned(tiling) /\ UNCHANGED given
    BY WalkCases DEF StepCyclic
  <1>2. GivenInv /\ CursorInv /\ LogInv
    BY DEF IInv
  <1>3. GivenInv' /\ tiling' = tiling /\ group' = group
    BY <1>1, <1>2, GivenStays
  <1>4. TypedTiling(tiling) /\ group \in Nat /\ count \in Nat
    BY <1>2, TilingIsTyped, CountTyped DEF GivenInv, tiling
  <1>5. B \in Nat \ {0} /\ T \in Nat \ {0} /\ tiling.hg \in Nat \ {0}
    BY <1>4 DEF TypedTiling
  <1>6. position \in Nat /\ localRound = position
    BY <1>2 DEF CursorInv
  <1>7. /\ task < T /\ log' = Append(log, e)
        /\ position' = position + 1 /\ localRound' = localRound + 1
        /\ kvHeadId' = (task + B) % tiling.hg /\ chunkId' = (task + B) \div tiling.hg
    BY DEF StepCyclic, Pipeline
  <1>8. \A p \in Nat : group + p * B < T <=> p < count
    BY <1>1, <1>4, CyclicCount
  <1>9. SLOT_COUNT = 2
    BY DEF SLOT_COUNT
  <1>10. ScheduledTaskId(tiling, group, position) = task
    BY <1>1 DEF ScheduledTaskId
  <1>11. repeats \in SUBSET Int
    BY <1>2, RepeatsTyped
  <1> HIDE DEF B, T, count, repeats
  <1>12. position * B \in Nat /\ (position + 2) * B = position * B + 2 * B
    BY <1>5, <1>6
  <1>13. reuse <=> position + SLOT_COUNT < count
    <2>1. group + (position + 2) * B < T <=> position + 2 < count
      BY <1>6, <1>8
    <2>2. task + SLOT_COUNT * B = group + (position + 2) * B
      BY <1>4, <1>5, <1>9, <1>12
    <2> QED BY <1>9, <2>1, <2>2
  <1>14. task \in Nat /\ task + B \in Nat
    BY <1>4, <1>5, <1>12
  <1> HIDE DEF task
  <1>15. e \in Entries
    <2>1. reuse \in BOOLEAN
      OBVIOUS
    <2> HIDE DEF reuse
    <2>2. \A fused \in BOOLEAN : Entry(task, localRound, reuse, fused, repeats) \in Entries
      BY <1>2, <1>6, <1>11, <1>14, <2>1, EntryTyped
    <2> QED BY <2>2, Zenon
  <1>16. Right(tiling, group, e, position)
    <2>1. e.round = position /\ e.task = task /\ e.reuse = reuse
      BY <1>6 DEF Entry
    <2> QED BY <1>10, <1>13, <2>1, Zenon DEF Right, count
  <1> HIDE DEF e
  <1>17. LogInv'
    BY <1>1, <1>2, <1>6, <1>7, <1>15, <1>16, LogOne
  <1>18. position + 1 <= count
    <2>1. position < count
      BY <1>6, <1>7, <1>8 DEF task
    <2> QED BY <1>4, <1>6, <2>1
  <1>19. kvHeadId' \in Nat /\ chunkId' \in Nat
    <2> DEFINE next == task + B
    <2>1. next \in Nat
      BY <1>14
    <2> HIDE DEF next
    <2>2. \A b \in Nat \ {0} : next \div b \in Nat /\ next % b \in Nat
      BY <2>1, DivMod
    <2> QED BY <1>5, <1>7, <2>2 DEF next
  <1>20. CursorInv'
    BY <1>1, <1>3, <1>6, <1>7, <1>18, <1>19 DEF CursorInv, count
  <1> QED BY <1>3, <1>17, <1>20 DEF IInv

LEMMA NextIInv == IInv /\ [Next]_vars => IInv'
  <1> SUFFICES ASSUME IInv, [Next]_vars PROVE IInv'
    OBVIOUS
  <1>1. CASE Step
    BY <1>1, StepCyclicInv, StepGroupAlignedInv, StepGroupAlignedR3Inv, StepChunkLocalInv DEF Step
  <1>2. CASE UNCHANGED vars
    BY <1>2 DEF vars, given, IInv, GivenInv, CursorInv, LogInv, tiling
  <1> QED BY <1>1, <1>2 DEF Next, Finished

-----------------------------------------------------------------------------
(* The theorems *)

\* The invariant of every walk over every accepted shape.
THEOREM ScheduleInvariant == Spec => []IInv
  <1> QED BY InitIInv, NextIInv, PTL DEF Spec

LEMMA IInvFollows == IInv => WalkFollowsAic
  <1> SUFFICES ASSUME IInv PROVE WalkFollowsAic
    OBVIOUS
  <1> DEFINE count == ScheduledTaskCount(tiling, group)
  <1>1. GivenInv /\ CursorInv /\ LogInv
    BY DEF IInv
  <1>2. TypedTiling(tiling) /\ group \in Nat /\ count \in Nat
    BY <1>1, TilingIsTyped, CountTyped DEF GivenInv, tiling
  <1>3. /\ position \in Nat /\ position <= count /\ Len(log) = position
        /\ DOMAIN log = 1 .. Len(log)
    BY <1>1 DEF CursorInv, LogInv
  <1>4. \A i \in DOMAIN log :
          log[i].round = i - 1 /\ log[i].task = ScheduledTaskId(tiling, group, i - 1)
    BY <1>1, <1>3 DEF LogInv, Right
  <1>5. ASSUME Done PROVE position = count
    <2>1. CASE Walk = "Cyclic"
      <3>1. ~GroupAligned(tiling) /\ ~ChunkLocal(tiling)
        BY <2>1, WalkCases
      <3>2. ~(group + position * tiling.blockDim < tiling.totalTaskCount)
        <4>1. group + position * tiling.blockDim >= tiling.totalTaskCount
          BY <1>5, <2>1 DEF Done
        <4>2. tiling.blockDim \in Nat /\ tiling.totalTaskCount \in Nat
          BY <1>2 DEF TypedTiling
        <4>3. position * tiling.blockDim \in Nat
          BY <1>3, <4>2
        <4> QED BY <1>2, <4>1, <4>2, <4>3
      <3>3. ~(position < count)
        BY <1>2, <1>3, <3>1, <3>2, CyclicCount
      <3> QED BY <1>2, <1>3, <3>3
    <2>2. CASE Walk # "Cyclic"
      BY <1>2, <1>3, <1>5, <2>2, SameCount DEF Done
    <2> QED BY <2>1, <2>2
  <1> QED BY <1>3, <1>4, <1>5 DEF WalkFollowsAic

\* For every accepted shape, group and lane, and whatever chunks are short:
\* in each round the AIV's loop is at the task the AIC computes for that
\* round, and it ends after exactly the AIC's number of rounds.
THEOREM WalksAgree == Spec => []WalkFollowsAic
  <1> QED BY ScheduleInvariant, IInvFollows, PTL

\* The four formulas of the AIV for willReuseSlot all say that the AIC has a
\* round two later, so FREE is sent exactly as often as it is waited for.
THEOREM ReturnsAgree == Spec => []ReuseFollowsAic
  <1>1. IInv => ReuseFollowsAic
    BY DEF IInv, LogInv, Right, ReuseFollowsAic
  <1> QED BY <1>1, ScheduleInvariant, PTL

\* Mode-2 flags need every group to be resident: no shape launches more of
\* them than there are cores, and each has its two slots in the workspace.
THEOREM AllGroupsResident == Spec => []GroupsResident
  <1> DEFINE Placed == shape \in Shapes /\ group \in 0 .. BlockDim(shape) - 1
  <1>1. Init => Placed
    BY DEF Init
  <1>2. Placed /\ [Next]_vars => Placed'
    BY DEF Next, Step, StepCyclic, StepGroupAligned, StepGroupAlignedR3, StepChunkLocal,
      Finished, vars, given
  <1>3. Placed => GroupsResident
    <2> SUFFICES ASSUME Placed PROVE GroupsResident
      OBVIOUS
    <2> DEFINE B == BlockDim(shape)
    <2>1. shape.aicNum \in Nat \ {0}
      BY ScheduleAssumption DEF Accepted, ShapeType
    <2>2. tiling.blockDim = B /\ B \in Nat \ {0}
      BY TilingIsTyped DEF TypedTiling, Tiling, tiling
    <2>3. B <= shape.aicNum
      <3> DEFINE selected == SelectedBlockDim(shape)
      <3>1. B = IF 1 < MinI32(shape.aicNum, selected) THEN MinI32(shape.aicNum, selected) ELSE 1
        BY DEF BlockDim, MaxI
      <3>2. MinI32(shape.aicNum, selected) \in {shape.aicNum, selected}
            /\ (MinI32(shape.aicNum, selected) = selected => ~(shape.aicNum < selected))
        BY <2>1 DEF MinI32
      <3> HIDE DEF B, selected
      <3> QED BY <2>1, <2>2, <3>1, <3>2
    <2>4. group \in Nat /\ group + 1 <= B
      <3> HIDE DEF B
      <3>1. group \in 0 .. B - 1
        BY DEF B
      <3> QED BY <2>2, <3>1
    <2> HIDE DEF B
    <2>5. (group * SLOT_COUNT + SLOT_COUNT) * KKT_SLOT_ELEMS <= B * SLOT_COUNT * KKT_SLOT_ELEMS
      BY <2>2, <2>4 DEF SLOT_COUNT, KKT_SLOT_ELEMS, BT
    <2> QED BY <2>2, <2>3, <2>5 DEF GroupsResident, WorkspaceElems, B
  <1> QED BY <1>1, <1>2, <1>3, PTL DEF Spec

-----------------------------------------------------------------------------
(* Every task has one owner *)

Total(tl) == tl.totalTaskCount
Groups(tl) == 0 .. tl.blockDim - 1
Rounds(tl, g) == 0 .. ScheduledTaskCount(tl, g) - 1

\* A task number determines its chunk and its KV head.
LEMMA TaskIdUnique ==
  ASSUME NEW tl, TypedTiling(tl), NEW n \in 0 .. NumChunks(tl) - 1, NEW kv \in 0 .. tl.hg - 1
  PROVE  /\ TaskId(tl, n, kv) \in 0 .. Total(tl) - 1
         /\ TaskId(tl, n, kv) \div tl.hg = n /\ TaskId(tl, n, kv) % tl.hg = kv
  <1> DEFINE N == NumChunks(tl)
             hg == tl.hg
  <1>1. N \in Nat \ {0} /\ hg \in Nat \ {0} /\ Total(tl) = N * hg /\ TaskId(tl, n, kv) = n * hg + kv
    BY DEF TypedTiling, TaskId, Total
  <1>2. n \in Nat /\ n + 1 <= N /\ kv \in 0 .. hg - 1
    BY <1>1
  <1> HIDE DEF N, hg
  <1>3. (n + 1) * hg <= N * hg
    BY <1>1, <1>2, MulMono
  <1>4. n * hg \in Nat /\ (n + 1) * hg = n * hg + hg
    BY <1>1, <1>2
  <1>5. (n * hg + kv) \div hg = n /\ (n * hg + kv) % hg = kv
    BY <1>1, <1>2, DivUnique
  <1> DEFINE id == TaskId(tl, n, kv)
  <1> HIDE DEF id
  <1>6. id = n * hg + kv
    BY <1>1 DEF id
  <1>7. id \in 0 .. Total(tl) - 1
    BY <1>1, <1>2, <1>3, <1>4, <1>6
  <1>8. id \div hg = n /\ id % hg = kv
    BY <1>5, <1>6
  <1> QED BY <1>7, <1>8 DEF hg, id

LEMMA TaskSplit ==
  ASSUME NEW tl, TypedTiling(tl), NEW t \in 0 .. Total(tl) - 1
  PROVE  /\ t \div tl.hg \in 0 .. NumChunks(tl) - 1 /\ t % tl.hg \in 0 .. tl.hg - 1
         /\ TaskId(tl, t \div tl.hg, t % tl.hg) = t
  <1> DEFINE N == NumChunks(tl)
             hg == tl.hg
             q == t \div hg
  <1>1. N \in Nat \ {0} /\ hg \in Nat \ {0} /\ Total(tl) = N * hg /\ t \in Nat
    BY DEF TypedTiling, Total
  <1>2. q \in Nat /\ t % hg \in 0 .. hg - 1 /\ t = hg * q + (t % hg)
    BY <1>1, DivMod
  <1>3. q < N
    <2> HIDE DEF N, hg, q
    <2>1. CASE N <= q
      <3>1. N * hg <= q * hg
        BY <1>1, <1>2, <2>1, MulMono
      <3>2. t < N * hg
        BY <1>1
      <3> QED BY <1>1, <1>2, <3>1, <3>2
    <2> QED BY <1>1, <1>2, <2>1
  <1>4. TaskId(tl, q, t % hg) = q * hg + (t % hg)
    BY DEF TaskId
  <1> HIDE DEF N, q
  <1> QED BY <1>1, <1>2, <1>3, <1>4 DEF N, q

(* Chunk-local: Begin() splits the head-major order *)

LEMMA BeginBound ==
  ASSUME NEW tl, TypedTiling(tl), NEW g \in Nat, NEW p \in Nat
  PROVE  p <= Begin(tl, g) <=> p * tl.blockDim <= Total(tl) * g
  <1> DEFINE a == Total(tl) * g
             b == tl.blockDim
  <1>1. a \in Nat /\ b \in Nat \ {0}
    BY DEF TypedTiling, Total
  <1>2. Begin(tl, g) = a \div b
    BY DEF Begin, Total
  <1> HIDE DEF a
  <1>3. p * b <= a <=> p <= a \div b
    BY <1>1, DivBound
  <1> QED BY <1>2, <1>3 DEF a

LEMMA BeginSplits ==
  ASSUME NEW tl, TypedTiling(tl)
  PROVE  /\ \A i \in 0 .. tl.blockDim : Begin(tl, i) \in Nat /\ Begin(tl, i) <= Total(tl)
         /\ \A i, j \in 0 .. tl.blockDim : i <= j => Begin(tl, i) <= Begin(tl, j)
         /\ \A x \in 0 .. Total(tl) - 1 : \E g \in Groups(tl) : Begin(tl, g) <= x /\ x < Begin(tl, g + 1)
  <1> DEFINE B == tl.blockDim
             T == Total(tl)
  <1>1. B \in Nat \ {0} /\ T \in Nat \ {0}
    BY DEF TypedTiling, Total
  <1>2. \A i \in Nat, p \in Nat : Begin(tl, i) \in Nat /\ (p <= Begin(tl, i) <=> p * B <= T * i)
    BY BeginTyped, BeginBound
  <1> HIDE DEF B, T
  <1>3. ASSUME NEW i \in 0 .. B, NEW j \in 0 .. B, i <= j
        PROVE  Begin(tl, i) <= Begin(tl, j)
    <2>1. i * T <= j * T /\ i * T = T * i /\ j * T = T * j
      BY <1>1, <1>3, MulMono
    <2>2. Begin(tl, i) \in Nat /\ Begin(tl, i) * B <= T * i
      BY <1>2
    <2>3. Begin(tl, i) * B <= T * j
      BY <1>1, <2>1, <2>2
    <2> QED BY <1>2, <2>2, <2>3
  <1>4. ASSUME NEW i \in 0 .. B PROVE Begin(tl, i) \in Nat /\ Begin(tl, i) <= T
    <2>1. Begin(tl, i) \in Nat /\ Begin(tl, B) \in Nat /\ Begin(tl, i) <= Begin(tl, B)
      BY <1>1, <1>2, <1>3
    <2>2. ~((T + 1) * B <= T * B) /\ T + 1 \in Nat
      BY <1>1
    <2>3. ~(T + 1 <= Begin(tl, B))
      BY <1>1, <1>2, <2>2
    <2> QED BY <1>1, <2>1, <2>3
  <1>5. ASSUME NEW x \in 0 .. T - 1
        PROVE  \E g \in 0 .. B - 1 : Begin(tl, g) <= x /\ x < Begin(tl, g + 1)
    <2> DEFINE a == (x + 1) * B - 1
               g == a \div T
    <2>1. x \in Nat /\ (x + 1) * B \in Nat /\ (x + 1) * B <= T * B /\ 1 * B <= (x + 1) * B
      BY <1>1, MulMono
    <2>2. a \in Nat /\ a + 1 = (x + 1) * B /\ a < T * B
      BY <1>1, <2>1
    <2> HIDE DEF a
    <2>3. g \in Nat /\ \A p \in Nat : p * T <= a <=> p <= g
      BY <1>1, <2>2, DivBound, DivMod
    <2> HIDE DEF g
    <2>4. g * T <= a /\ ~((g + 1) * T <= a) /\ ~(B * T <= a)
      BY <1>1, <2>2, <2>3
    <2>5. g < B
      BY <1>1, <2>3, <2>4
    <2>6. ~(x + 1 <= Begin(tl, g))
      <3>1. ~((x + 1) * B <= T * g)
        BY <1>1, <2>2, <2>3, <2>4
      <3> QED BY <1>2, <2>1, <2>3, <3>1
    <2>7. x + 1 <= Begin(tl, g + 1)
      <3>1. (x + 1) * B <= T * (g + 1)
        BY <1>1, <2>2, <2>3, <2>4
      <3> QED BY <1>2, <2>1, <2>3, <3>1
    <2>8. Begin(tl, g) \in Nat /\ Begin(tl, g + 1) \in Nat
      BY <1>2, <2>3
    <2>9. g \in 0 .. B - 1
      BY <1>1, <2>3, <2>5
    <2> QED BY <2>1, <2>6, <2>7, <2>8, <2>9
  <1> QED BY <1>3, <1>4, <1>5 DEF B, T, Groups

(* Group-aligned: ChunkStart splits the chunks of a head among its cores *)

CoreStart(tl, k) == k * ChunksPerCore(tl) + MinI32(k, ExtraChunks(tl))

LEMMA AlignedParts ==
  ASSUME NEW tl, TypedTiling(tl), GroupAligned(tl)
  PROVE  LET c == CoresPerKvGroup(tl)
             m == ChunksPerCore(tl)
             e == ExtraChunks(tl)
         IN  /\ c \in Nat \ {0} /\ tl.blockDim = tl.hg * c
             /\ m \in Nat /\ e \in 0 .. c - 1 /\ NumChunks(tl) = m * c + e
  <1> DEFINE c == CoresPerKvGroup(tl)
             m == ChunksPerCore(tl)
             N == NumChunks(tl)
  <1>1. tl.blockDim \in Nat \ {0} /\ tl.hg \in Nat \ {0} /\ N \in Nat \ {0}
    BY DEF TypedTiling
  <1>2. c \in Nat /\ tl.blockDim = tl.hg * c
    <2>1. tl.blockDim % tl.hg = 0
      BY DEF GroupAligned, UseChampionGroupAlignedSchedule
    <2>2. c \in Nat /\ tl.blockDim = tl.hg * c + (tl.blockDim % tl.hg)
      BY <1>1, DivMod DEF CoresPerKvGroup
    <2> HIDE DEF c
    <2> QED BY <1>1, <2>1, <2>2
  <1>3. c # 0
    <2> HIDE DEF c
    <2> QED BY <1>1, <1>2
  <1>4. m \in Nat /\ N % c \in 0 .. c - 1 /\ N = c * m + (N % c)
    BY <1>1, <1>2, <1>3, DivMod DEF ChunksPerCore
  <1>5. ExtraChunks(tl) = N - m * c
    BY DEF ExtraChunks
  <1> HIDE DEF c, m, N
  <1>6. ExtraChunks(tl) = N % c /\ N = m * c + (N % c)
    BY <1>1, <1>2, <1>4, <1>5
  <1> QED BY <1>2, <1>3, <1>4, <1>6 DEF c, m, N

LEMMA CoreSplits ==
  ASSUME NEW tl, TypedTiling(tl), GroupAligned(tl)
  PROVE  LET c == CoresPerKvGroup(tl)
         IN  /\ \A k \in 0 .. c : CoreStart(tl, k) \in Nat /\ CoreStart(tl, k) <= NumChunks(tl)
             /\ \A i, j \in 0 .. c : i <= j => CoreStart(tl, i) <= CoreStart(tl, j)
             /\ \A x \in 0 .. NumChunks(tl) - 1 : \E k \in 0 .. c - 1 :
                  CoreStart(tl, k) <= x /\ x < CoreStart(tl, k + 1)
  <1> DEFINE c == CoresPerKvGroup(tl)
             m == ChunksPerCore(tl)
             e == ExtraChunks(tl)
             N == NumChunks(tl)
             S(k) == CoreStart(tl, k)
  <1>1. c \in Nat \ {0} /\ m \in Nat /\ e \in 0 .. c - 1 /\ N = m * c + e
    BY AlignedParts
  <1>2. \A k \in Nat : S(k) = k * m + (IF k < e THEN k ELSE e)
    BY DEF CoreStart, MinI32
  <1> HIDE DEF c, m, e, N, S
  <1>3. \A k \in Nat : k * m \in Nat /\ S(k) \in Nat
    BY <1>1, <1>2
  <1>4. ASSUME NEW i \in 0 .. c, NEW j \in 0 .. c, i <= j PROVE S(i) <= S(j)
    <2>1. i * m <= j * m /\ i * m \in Nat /\ j * m \in Nat
      BY <1>1, <1>4, MulMono
    <2> DEFINE u == IF i < e THEN i ELSE e
               v == IF j < e THEN j ELSE e
    <2>2. u <= v
      BY <1>1, <1>4
    <2>3. u \in Nat /\ v \in Nat
      BY <1>1
    <2>4. S(i) = i * m + u /\ S(j) = j * m + v
      BY <1>1, <1>2
    <2> HIDE DEF u, v
    <2> QED BY <2>1, <2>2, <2>3, <2>4
  <1>5. S(c) = N
    <2>1. S(c) = c * m + e
      BY <1>1, <1>2
    <2> QED BY <1>1, <2>1
  <1>6. ASSUME NEW k \in 0 .. c PROVE S(k) \in Nat /\ S(k) <= N
    <2>1. S(k) <= S(c)
      BY <1>1, <1>4
    <2> QED BY <1>3, <1>5, <2>1
  <1>7. ASSUME NEW x \in 0 .. N - 1 PROVE \E k \in 0 .. c - 1 : S(k) <= x /\ x < S(k + 1)
    <2>1. x \in Nat /\ x < N /\ e * (m + 1) \in Nat /\ e * (m + 1) = e * m + e /\ e * m \in Nat
      BY <1>1
    <2>2. CASE x < e * (m + 1)
      <3> DEFINE k == x \div (m + 1)
      <3>1. m + 1 \in Nat \ {0} /\ k \in Nat /\ \A p \in Nat : p * (m + 1) <= x <=> p <= k
        BY <1>1, <2>1, DivBound, DivMod
      <3> HIDE DEF k
      <3>2. k * (m + 1) <= x /\ ~((k + 1) * (m + 1) <= x) /\ ~(e * (m + 1) <= x)
        BY <1>1, <2>1, <2>2, <3>1
      <3>3. k < e
        BY <1>1, <3>1, <3>2
      <3>4. k * (m + 1) = k * m + k /\ (k + 1) * (m + 1) = (k + 1) * m + (k + 1)
            /\ k * m \in Nat /\ (k + 1) * m \in Nat
        BY <1>1, <3>1
      <3>5. S(k) = k * m + k
        BY <1>2, <3>1, <3>3
      <3>6. S(k + 1) = (k + 1) * m + (k + 1)
        <4>1. S(k + 1) = (k + 1) * m + (IF k + 1 < e THEN k + 1 ELSE e)
          BY <1>2, <3>1
        <4>2. (IF k + 1 < e THEN k + 1 ELSE e) = k + 1
          BY <1>1, <3>1, <3>3
        <4> QED BY <4>1, <4>2
      <3>7. k \in 0 .. c - 1
        BY <1>1, <3>1, <3>3
      <3> QED BY <2>1, <3>1, <3>2, <3>4, <3>5, <3>6, <3>7
    <2>3. CASE ~(x < e * (m + 1))
      <3> DEFINE y == x - e * (m + 1)
                 j == y \div m
                 k == e + j
      <3>1. y \in Nat /\ x = e * m + e + y
        BY <2>1, <2>3
      <3>2. m # 0
        BY <1>1, <2>1, <2>3
      <3> HIDE DEF y
      <3>3. j \in Nat /\ \A p \in Nat : p * m <= y <=> p <= j
        BY <1>1, <3>1, <3>2, DivBound, DivMod
      <3> HIDE DEF j
      <3>4. j * m <= y /\ ~((j + 1) * m <= y)
        BY <1>1, <3>3
      <3>5. k \in Nat /\ k * m = e * m + j * m /\ (k + 1) * m = e * m + (j + 1) * m
            /\ j * m \in Nat /\ (j + 1) * m \in Nat
        BY <1>1, <3>3
      <3>6. S(k) = k * m + e /\ S(k + 1) = (k + 1) * m + e
        <4>1. k >= e /\ k + 1 >= e /\ k + 1 \in Nat
          BY <1>1, <3>3
        <4> HIDE DEF k
        <4>2. ~(k < e) /\ ~(k + 1 < e)
          BY <1>1, <3>5, <4>1
        <4> QED BY <1>2, <3>5, <4>1, <4>2
      <3>7. S(k) <= x /\ x < S(k + 1)
        <4> HIDE DEF k
        <4> QED BY <1>1, <2>1, <3>1, <3>4, <3>5, <3>6
      <3>8. k < c
        <4> HIDE DEF k
        <4>1. CASE c <= k
          <5>1. c * m <= k * m
            BY <1>1, <3>5, <4>1, MulMono
          <5> QED BY <1>1, <2>1, <3>5, <3>6, <3>7, <5>1
        <4> QED BY <1>1, <3>5, <4>1
      <3>9. k \in 0 .. c - 1
        <4> HIDE DEF k
        <4> QED BY <1>1, <3>5, <3>8
      <3> QED BY <3>7, <3>9
    <2> QED BY <2>2, <2>3
  <1> QED BY <1>4, <1>6, <1>7 DEF S, N, c

(* The three policies *)

\* A round of a group has a task, and each task is that of a round.
IdInRange(tl) ==
  \A g \in Groups(tl) : \A r \in Rounds(tl, g) : ScheduledTaskId(tl, g, r) \in 0 .. Total(tl) - 1
Covering(tl) ==
  \A t \in 0 .. Total(tl) - 1 : \E g \in Groups(tl) : \E r \in Rounds(tl, g) : ScheduledTaskId(tl, g, r) = t
Injective(tl) ==
  \A g1, g2 \in Groups(tl) : \A r1 \in Rounds(tl, g1), r2 \in Rounds(tl, g2) :
    ScheduledTaskId(tl, g1, r1) = ScheduledTaskId(tl, g2, r2) => g1 = g2 /\ r1 = r2
Partition(tl) == IdInRange(tl) /\ Covering(tl) /\ Injective(tl)

LEMMA CyclicPartition ==
  ASSUME NEW tl, TypedTiling(tl), ~GroupAligned(tl), ~ChunkLocal(tl)
  PROVE  Partition(tl)
  <1> DEFINE B == tl.blockDim
             T == Total(tl)
             id(g, r) == ScheduledTaskId(tl, g, r)
  <1>1. B \in Nat \ {0} /\ T \in Nat \ {0}
    BY DEF TypedTiling, Total
  <1>2. \A g, r : id(g, r) = g + r * B
    BY DEF ScheduledTaskId
  <1>3. \A g \in Nat, p \in Nat : /\ ScheduledTaskCount(tl, g) \in Nat
                                  /\ g + p * B < T <=> p < ScheduledTaskCount(tl, g)
    BY CyclicCount DEF Total
  <1>4. Groups(tl) = 0 .. B - 1
    BY DEF Groups
  <1> HIDE DEF B, T, id
  <1>5. \A g \in Groups(tl) : \A r : r \in Rounds(tl, g) <=> r \in Nat /\ g + r * B < T
    <2> SUFFICES ASSUME NEW g \in Groups(tl), NEW r
                 PROVE  r \in Rounds(tl, g) <=> r \in Nat /\ g + r * B < T
      OBVIOUS
    <2> DEFINE count == ScheduledTaskCount(tl, g)
    <2>1. g \in Nat /\ count \in Nat /\ \A q \in Nat : g + q * B < T <=> q < count
      BY <1>1, <1>3, <1>4
    <2>2. Rounds(tl, g) = 0 .. count - 1
      BY DEF Rounds
    <2> HIDE DEF count
    <2> QED BY <2>1, <2>2
  <1>6. \A g \in Groups(tl) : \A r \in Rounds(tl, g) : id(g, r) \in 0 .. T - 1
    <2> SUFFICES ASSUME NEW g \in Groups(tl), NEW r \in Rounds(tl, g) PROVE id(g, r) \in 0 .. T - 1
      OBVIOUS
    <2>1. g \in Nat /\ r \in Nat /\ g + r * B < T /\ id(g, r) = g + r * B
      BY <1>1, <1>2, <1>4, <1>5
    <2>2. r * B \in Nat
      BY <1>1, <2>1
    <2> QED BY <1>1, <2>1, <2>2
  <1>7. ASSUME NEW t \in 0 .. T - 1
        PROVE  \E g \in Groups(tl) : \E r \in Rounds(tl, g) : id(g, r) = t
    <2> DEFINE q == t \div B
               g == t % B
    <2>1. q \in Nat /\ g \in 0 .. B - 1 /\ t = B * q + g /\ t \in Nat
      <3>1. t \in Nat
        BY <1>1
      <3> QED BY <1>1, <3>1, DivMod
    <2> HIDE DEF q, g
    <2>2. g + q * B = t /\ t < T
      BY <1>1, <2>1
    <2>3. g \in Groups(tl) /\ q \in Rounds(tl, g) /\ id(g, q) = t
      BY <1>2, <1>4, <1>5, <2>1, <2>2
    <2> QED BY <2>3
  <1>8. ASSUME NEW g1 \in Groups(tl), NEW g2 \in Groups(tl),
               NEW r1 \in Rounds(tl, g1), NEW r2 \in Rounds(tl, g2), id(g1, r1) = id(g2, r2)
        PROVE  g1 = g2 /\ r1 = r2
    <2>1. r1 \in Nat /\ r2 \in Nat /\ g1 \in 0 .. B - 1 /\ g2 \in 0 .. B - 1
      BY <1>4, <1>5
    <2>2. r1 * B + g1 = r2 * B + g2
      BY <1>1, <1>2, <1>8, <2>1
    <2>3. (r1 * B + g1) \div B = r1 /\ (r1 * B + g1) % B = g1
          /\ (r2 * B + g2) \div B = r2 /\ (r2 * B + g2) % B = g2
      BY <1>1, <2>1, DivUnique
    <2> QED BY <2>2, <2>3
  <1> QED BY <1>6, <1>7, <1>8 DEF id, T, Partition, IdInRange, Covering, Injective

LEMMA ChunkLocalPartition ==
  ASSUME NEW tl, TypedTiling(tl), ChunkLocal(tl)
  PROVE  Partition(tl)
  <1> DEFINE B == tl.blockDim
             T == Total(tl)
             N == NumChunks(tl)
             hg == tl.hg
             S(g) == Begin(tl, g)
             id(g, r) == ScheduledTaskId(tl, g, r)
             of(o) == TaskId(tl, o % N, o \div N)
  <1>1. B \in Nat \ {0} /\ T \in Nat \ {0} /\ N \in Nat \ {0} /\ hg \in Nat \ {0} /\ T = N * hg
    BY DEF TypedTiling, Total
  <1>2. \A g, r : id(g, r) = of(S(g) + r)
    BY DEF ScheduledTaskId, ChunkLocal
  <1>3. /\ \A i \in 0 .. B : S(i) \in Nat /\ S(i) <= T
        /\ \A i, j \in 0 .. B : i <= j => S(i) <= S(j)
        /\ \A x \in 0 .. T - 1 : \E g \in 0 .. B - 1 : S(g) <= x /\ x < S(g + 1)
    BY BeginSplits DEF Groups
  <1>4. Groups(tl) = 0 .. B - 1 /\ \A g \in 0 .. B - 1 : ScheduledTaskCount(tl, g) = S(g + 1) - S(g)
    BY DEF Groups, ScheduledTaskCount, ChunkLocal
  <1>5. ASSUME NEW o \in 0 .. T - 1
        PROVE  o % N \in 0 .. N - 1 /\ o \div N \in 0 .. hg - 1 /\ o = N * (o \div N) + (o % N)
               /\ of(o) \in 0 .. T - 1 /\ of(o) \div hg = o % N /\ of(o) % hg = o \div N
    <2> DEFINE q == o \div N
    <2>1. q \in Nat /\ o % N \in 0 .. N - 1 /\ o = N * q + (o % N) /\ o \in Nat /\ o < T
      <3>1. o \in Nat /\ o < T /\ N \in Nat \ {0}
        BY <1>1
      <3> HIDE DEF N, T
      <3> QED BY <3>1, DivMod
    <2>2. q \in 0 .. hg - 1
      <3> HIDE DEF q, N, T, hg
      <3>1. CASE hg <= q
        <4>1. hg * N <= q * N
          BY <1>1, <2>1, <3>1, MulMono
        <4> QED BY <1>1, <2>1, <4>1
      <3> QED BY <1>1, <2>1, <3>1
    <2>3. of(o) \in 0 .. T - 1 /\ of(o) \div hg = o % N /\ of(o) % hg = q
      BY <2>1, <2>2, TaskIdUnique
    <2> QED BY <2>1, <2>2, <2>3
  <1> HIDE DEF B, T, N, hg, S, id, of
  <1>6. \A g \in 0 .. B - 1 : \A r : r \in Rounds(tl, g) <=> r \in Nat /\ S(g) + r < S(g + 1)
    <2> SUFFICES ASSUME NEW g \in 0 .. B - 1, NEW r
                 PROVE  r \in Rounds(tl, g) <=> r \in Nat /\ S(g) + r < S(g + 1)
      OBVIOUS
    <2>1. g \in 0 .. B /\ g + 1 \in 0 .. B
      BY <1>1
    <2>2. S(g) \in Nat /\ S(g + 1) \in Nat /\ Rounds(tl, g) = 0 .. (S(g + 1) - S(g)) - 1
      BY <1>3, <1>4, <2>1 DEF Rounds
    <2> QED BY <2>2
  <1>7. ASSUME NEW g \in 0 .. B - 1, NEW r \in Rounds(tl, g)
        PROVE  /\ r \in Nat /\ S(g) + r \in 0 .. T - 1
               /\ S(g) <= S(g) + r /\ S(g) + r < S(g + 1) /\ S(g) \in Nat
    <2>1. g \in 0 .. B /\ g + 1 \in 0 .. B
      BY <1>1
    <2>2. S(g) \in Nat /\ S(g + 1) \in Nat /\ S(g + 1) <= T
      BY <1>3, <2>1
    <2> QED BY <1>1, <1>6, <2>2
  <1>8. \A g \in Groups(tl) : \A r \in Rounds(tl, g) : id(g, r) \in 0 .. T - 1
    BY <1>2, <1>4, <1>5, <1>7
  <1>9. ASSUME NEW t \in 0 .. T - 1
        PROVE  \E g \in Groups(tl) : \E r \in Rounds(tl, g) : id(g, r) = t
    <2> DEFINE kv == t % hg
               n == t \div hg
               o == kv * N + n
    <2>1. n \in 0 .. N - 1 /\ kv \in 0 .. hg - 1 /\ TaskId(tl, n, kv) = t
      BY TaskSplit DEF T, hg, N
    <2> HIDE DEF kv, n
    <2>2. o \div N = kv /\ o % N = n
      <3>1. kv \in Nat
        BY <1>1, <2>1
      <3> QED BY <1>1, <2>1, <3>1, DivUnique
    <2>3. o \in 0 .. T - 1
      <3>1. (kv + 1) * N <= hg * N
        BY <1>1, <2>1, MulMono
      <3>2. kv * N \in Nat /\ (kv + 1) * N = kv * N + N /\ hg * N = T
        BY <1>1, <2>1
      <3> QED BY <1>1, <2>1, <3>1, <3>2
    <2>4. of(o) = t
      BY <2>1, <2>2 DEF of
    <2> HIDE DEF o
    <2>5. PICK g \in 0 .. B - 1 : S(g) <= o /\ o < S(g + 1)
      BY <1>3, <2>3
    <2>6. S(g) \in Nat
      <3>1. g \in 0 .. B
        BY <1>1
      <3> QED BY <1>3, <3>1
    <2>7. o - S(g) \in Nat /\ S(g) + (o - S(g)) = o
      BY <2>3, <2>5, <2>6
    <2>8. o - S(g) \in Rounds(tl, g) /\ id(g, o - S(g)) = t
      BY <1>2, <1>6, <2>4, <2>5, <2>7
    <2> QED BY <1>4, <2>8
  <1>10. ASSUME NEW g1 \in Groups(tl), NEW g2 \in Groups(tl),
                NEW r1 \in Rounds(tl, g1), NEW r2 \in Rounds(tl, g2), id(g1, r1) = id(g2, r2)
         PROVE  g1 = g2 /\ r1 = r2
    <2>1. /\ r1 \in Nat /\ S(g1) + r1 \in 0 .. T - 1 /\ S(g1) + r1 < S(g1 + 1) /\ S(g1) \in Nat
          /\ r2 \in Nat /\ S(g2) + r2 \in 0 .. T - 1 /\ S(g2) + r2 < S(g2 + 1) /\ S(g2) \in Nat
          /\ g1 \in 0 .. B - 1 /\ g2 \in 0 .. B - 1
      BY <1>4, <1>7
    <2>2. S(g1) + r1 = S(g2) + r2
      <3> DEFINE a == S(g1) + r1
                 b == S(g2) + r2
      <3>1. of(a) = of(b) /\ a \in 0 .. T - 1 /\ b \in 0 .. T - 1
        BY <1>2, <1>10, <2>1
      <3> HIDE DEF a, b
      <3>2. a = N * (of(a) % hg) + (of(a) \div hg) /\ b = N * (of(b) % hg) + (of(b) \div hg)
        BY <1>5, <3>1
      <3>3. a = b
        BY <3>1, <3>2
      <3> QED BY <3>3 DEF a, b
    <2>3. CASE g1 < g2
      <3>1. g1 + 1 \in 0 .. B /\ g2 \in 0 .. B /\ g1 + 1 <= g2
        BY <1>1, <2>1, <2>3
      <3>2. S(g1 + 1) <= S(g2) /\ S(g1 + 1) \in Nat
        BY <1>3, <3>1
      <3> QED BY <2>1, <2>2, <3>2
    <2>4. CASE g2 < g1
      <3>1. g2 + 1 \in 0 .. B /\ g1 \in 0 .. B /\ g2 + 1 <= g1
        BY <1>1, <2>1, <2>4
      <3>2. S(g2 + 1) <= S(g1) /\ S(g2 + 1) \in Nat
        BY <1>3, <3>1
      <3> QED BY <2>1, <2>2, <3>2
    <2>5. g1 = g2
      BY <1>1, <2>1, <2>3, <2>4
    <2> QED BY <2>1, <2>2, <2>5
  <1> QED BY <1>8, <1>9, <1>10 DEF id, T, Partition, IdInRange, Covering, Injective

LEMMA AlignedPartition ==
  ASSUME NEW tl, TypedTiling(tl), GroupAligned(tl)
  PROVE  Partition(tl)
  <1> DEFINE T == Total(tl)
             N == NumChunks(tl)
             hg == tl.hg
             c == CoresPerKvGroup(tl)
             m == ChunksPerCore(tl)
             e == ExtraChunks(tl)
             S(k) == CoreStart(tl, k)
             kv(g) == KvHeadOfGroup(tl, g)
             core(g) == CoreInKvGroup(tl, g)
             id(g, r) == ScheduledTaskId(tl, g, r)
             of(n, h) == TaskId(tl, n, h)
  <1>1. T \in Nat \ {0} /\ N \in Nat \ {0} /\ hg \in Nat \ {0} /\ T = N * hg
    BY DEF TypedTiling, Total
  <1>2. c \in Nat \ {0} /\ tl.blockDim = hg * c /\ m \in Nat /\ e \in 0 .. c - 1
    BY AlignedParts
  <1>3. /\ \A k \in 0 .. c : S(k) \in Nat /\ S(k) <= N
        /\ \A i, j \in 0 .. c : i <= j => S(i) <= S(j)
        /\ \A x \in 0 .. N - 1 : \E k \in 0 .. c - 1 : S(k) <= x /\ x < S(k + 1)
    BY CoreSplits
  <1>4. \A g, r : id(g, r) = of(S(core(g)) + r, kv(g))
    BY DEF ScheduledTaskId, ChunkStart, CoreStart
  <1>5. Groups(tl) = 0 .. hg * c - 1
    BY <1>2 DEF Groups
  <1>6. ASSUME NEW g \in 0 .. hg * c - 1
        PROVE  core(g) \in 0 .. c - 1 /\ kv(g) \in 0 .. hg - 1 /\ g = c * kv(g) + core(g)
    <2> HIDE DEF hg, c
    <2>1. g \in Nat /\ g < hg * c
      BY <1>1, <1>2
    <2> DEFINE q == g \div c
    <2>2. q \in Nat /\ g % c \in 0 .. c - 1 /\ g = c * q + (g % c)
      BY <1>2, <2>1, DivMod
    <2> HIDE DEF q
    <2>3. q < hg
      <3>1. CASE hg <= q
        <4>1. hg * c <= q * c
          BY <1>1, <1>2, <2>2, <3>1, MulMono
        <4>2. q * c = c * q /\ q * c \in Nat /\ hg * c \in Nat
          BY <1>1, <1>2, <2>2
        <4> QED BY <1>2, <2>1, <2>2, <4>1, <4>2
      <3> QED BY <1>1, <2>2, <3>1
    <2>4. q \in 0 .. hg - 1
      BY <1>1, <2>2, <2>3
    <2> QED BY <2>2, <2>4 DEF q, c, KvHeadOfGroup, CoreInKvGroup
  <1>7. ASSUME NEW k \in 0 .. c - 1, NEW h \in 0 .. hg - 1
        PROVE  /\ c * h + k \in 0 .. hg * c - 1
               /\ core(c * h + k) = k /\ kv(c * h + k) = h
    <2> HIDE DEF hg, c
    <2>1. (h + 1) * c <= hg * c /\ (h + 1) * c = h * c + c /\ h * c = c * h /\ h * c \in Nat
      BY <1>1, <1>2, MulMono
    <2>2. (h * c + k) \div c = h /\ (h * c + k) % c = k
      <3>1. h \in Nat
        BY <1>1
      <3> QED BY <1>2, <3>1, DivUnique
    <2>3. c * h + k \in 0 .. hg * c - 1
      BY <1>1, <1>2, <2>1
    <2>4. (c * h + k) \div c = h /\ (c * h + k) % c = k
      BY <2>1, <2>2
    <2> QED BY <2>3, <2>4 DEF c, KvHeadOfGroup, CoreInKvGroup
  <1>8. ASSUME NEW g \in 0 .. hg * c - 1
        PROVE  ScheduledTaskCount(tl, g) = S(core(g) + 1) - S(core(g))
    <2> DEFINE k == core(g)
    <2>1. k \in 0 .. c - 1
      BY <1>6
    <2>2. ScheduledTaskCount(tl, g) = m + (IF k < e THEN 1 ELSE 0)
      BY DEF ScheduledTaskCount, AlignedCount
    <2>3. \A i : S(i) = i * m + (IF i < e THEN i ELSE e)
      BY DEF CoreStart, MinI32
    <2> HIDE DEF k, m, e, c, S
    <2>4. (k + 1) * m = k * m + m /\ k * m \in Nat /\ k \in Nat
      BY <1>2, <2>1
    <2>5. CASE k < e
      <3>1. (IF k + 1 < e THEN k + 1 ELSE e) = k + 1
        BY <1>2, <2>1, <2>5
      <3>2. S(k) = k * m + k /\ S(k + 1) = (k + 1) * m + (k + 1)
        BY <2>3, <2>5, <3>1
      <3> QED BY <1>2, <2>2, <2>4, <2>5, <3>2 DEF k
    <2>6. CASE ~(k < e)
      <3>1. S(k) = k * m + e /\ S(k + 1) = (k + 1) * m + e
        <4>1. ~(k + 1 < e)
          BY <1>2, <2>1, <2>6
        <4> QED BY <2>3, <2>6, <4>1
      <3> QED BY <1>2, <2>2, <2>4, <2>6, <3>1 DEF k
    <2> QED BY <2>5, <2>6
  <1>9. ASSUME NEW n \in 0 .. N - 1, NEW h \in 0 .. hg - 1
        PROVE  of(n, h) \in 0 .. T - 1 /\ of(n, h) \div hg = n /\ of(n, h) % hg = h
    BY TaskIdUnique
  <1> HIDE DEF T, N, hg, c, m, e, S, kv, core, id, of
  <1>10. ASSUME NEW g \in 0 .. hg * c - 1
         PROVE  /\ S(core(g)) \in Nat /\ S(core(g) + 1) \in Nat /\ S(core(g) + 1) <= N
                /\ \A r : r \in Rounds(tl, g) <=> r \in Nat /\ S(core(g)) + r < S(core(g) + 1)
    <2>1. core(g) \in 0 .. c /\ core(g) + 1 \in 0 .. c
      BY <1>2, <1>6
    <2>2. S(core(g)) \in Nat /\ S(core(g) + 1) \in Nat /\ S(core(g) + 1) <= N
          /\ Rounds(tl, g) = 0 .. (S(core(g) + 1) - S(core(g))) - 1
      BY <1>3, <1>8, <2>1 DEF Rounds
    <2> QED BY <2>2
  <1>11. ASSUME NEW g \in 0 .. hg * c - 1, NEW r \in Rounds(tl, g)
         PROVE  /\ r \in Nat /\ S(core(g)) + r \in 0 .. N - 1
                /\ S(core(g)) + r < S(core(g) + 1)
    BY <1>1, <1>10
  <1>12. \A g \in Groups(tl) : \A r \in Rounds(tl, g) : id(g, r) \in 0 .. T - 1
    BY <1>4, <1>5, <1>6, <1>9, <1>11
  <1>13. ASSUME NEW t \in 0 .. T - 1
         PROVE  \E g \in Groups(tl) : \E r \in Rounds(tl, g) : id(g, r) = t
    <2> DEFINE h == t % hg
               n == t \div hg
    <2>1. n \in 0 .. N - 1 /\ h \in 0 .. hg - 1 /\ of(n, h) = t
      BY TaskSplit DEF T, hg, N, of
    <2> HIDE DEF h, n
    <2>2. PICK k \in 0 .. c - 1 : S(k) <= n /\ n < S(k + 1)
      BY <1>3, <2>1
    <2> DEFINE g == c * h + k
    <2>3. g \in 0 .. hg * c - 1 /\ core(g) = k /\ kv(g) = h
      BY <1>7, <2>1
    <2> HIDE DEF g
    <2>4. n - S(k) \in Nat /\ S(k) + (n - S(k)) = n
      BY <1>10, <2>1, <2>2, <2>3
    <2>5. n - S(k) \in Rounds(tl, g) /\ id(g, n - S(k)) = t
      BY <1>4, <1>10, <2>1, <2>2, <2>3, <2>4
    <2> QED BY <1>5, <2>3, <2>5
  <1>14. ASSUME NEW g1 \in Groups(tl), NEW g2 \in Groups(tl),
                NEW r1 \in Rounds(tl, g1), NEW r2 \in Rounds(tl, g2), id(g1, r1) = id(g2, r2)
         PROVE  g1 = g2 /\ r1 = r2
    <2> DEFINE n1 == S(core(g1)) + r1
               n2 == S(core(g2)) + r2
    <2>1. g1 \in 0 .. hg * c - 1 /\ g2 \in 0 .. hg * c - 1
      BY <1>5
    <2>2. /\ n1 \in 0 .. N - 1 /\ n2 \in 0 .. N - 1
          /\ core(g1) \in 0 .. c - 1 /\ core(g2) \in 0 .. c - 1
          /\ kv(g1) \in 0 .. hg - 1 /\ kv(g2) \in 0 .. hg - 1
          /\ g1 = c * kv(g1) + core(g1) /\ g2 = c * kv(g2) + core(g2)
      BY <1>6, <1>11, <2>1
    <2>3. of(n1, kv(g1)) = of(n2, kv(g2))
      BY <1>4, <1>14
    <2> HIDE DEF n1, n2
    <2>4. n1 = n2 /\ kv(g1) = kv(g2)
      BY <1>9, <2>2, <2>3
    <2>5. /\ r1 \in Nat /\ n1 < S(core(g1) + 1) /\ S(core(g1)) \in Nat /\ n1 = S(core(g1)) + r1
          /\ S(core(g1)) <= n1 /\ S(core(g2)) <= n2
          /\ r2 \in Nat /\ n2 < S(core(g2) + 1) /\ S(core(g2)) \in Nat /\ n2 = S(core(g2)) + r2
      BY <1>10, <1>11, <2>1 DEF n1, n2
    <2>6. CASE core(g1) < core(g2)
      <3>1. core(g1) + 1 \in 0 .. c /\ core(g2) \in 0 .. c /\ core(g1) + 1 <= core(g2)
        BY <1>2, <2>2, <2>6
      <3>2. S(core(g1) + 1) <= S(core(g2)) /\ S(core(g1) + 1) \in Nat
        BY <1>3, <3>1
      <3> QED BY <2>4, <2>5, <3>2
    <2>7. CASE core(g2) < core(g1)
      <3>1. core(g2) + 1 \in 0 .. c /\ core(g1) \in 0 .. c /\ core(g2) + 1 <= core(g1)
        BY <1>2, <2>2, <2>7
      <3>2. S(core(g2) + 1) <= S(core(g1)) /\ S(core(g2) + 1) \in Nat
        BY <1>3, <3>1
      <3> QED BY <2>4, <2>5, <3>2
    <2>8. core(g1) = core(g2)
      BY <1>2, <2>2, <2>6, <2>7
    <2>9. g1 = g2
      BY <2>2, <2>4, <2>8
    <2>10. r1 = n1 - S(core(g1)) /\ r2 = n2 - S(core(g2))
      BY <2>5
    <2> QED BY <2>4, <2>8, <2>9, <2>10
  <1> QED BY <1>12, <1>13, <1>14 DEF id, T, Partition, IdInRange, Covering, Injective

LEMMA Partitioned == ASSUME NEW tl, TypedTiling(tl) PROVE Partition(tl)
  BY CyclicPartition, ChunkLocalPartition, AlignedPartition DEF ChunkLocal

\* For every accepted shape, whichever of the three policies applies: every
\* task is computed by one group in one of its rounds, and by no other.
THEOREM TasksPartitionedAlways == Spec => []TasksPartitioned
  <1>1. IInv => TasksPartitioned
    <2> SUFFICES ASSUME IInv PROVE TasksPartitioned
      OBVIOUS
    <2> DEFINE groups == 0 .. tiling.blockDim - 1
               rounds(g) == 0 .. ScheduledTaskCount(tiling, g) - 1
               owned == [g \in groups |-> {ScheduledTaskId(tiling, g, r) : r \in rounds(g)}]
    <2>1. Partition(tiling)
      BY TilingIsTyped, Partitioned DEF IInv, GivenInv, tiling
    <2>2. /\ \A g \in groups : \A r \in rounds(g) :
               ScheduledTaskId(tiling, g, r) \in 0 .. tiling.totalTaskCount - 1
          /\ \A t \in 0 .. tiling.totalTaskCount - 1 :
               \E g \in groups : \E r \in rounds(g) : ScheduledTaskId(tiling, g, r) = t
          /\ \A g1, g2 \in groups : \A r1 \in rounds(g1), r2 \in rounds(g2) :
               ScheduledTaskId(tiling, g1, r1) = ScheduledTaskId(tiling, g2, r2)
                 => g1 = g2 /\ r1 = r2
      BY <2>1 DEF Partition, IdInRange, Covering, Injective, Groups, Rounds, Total
    <2> HIDE DEF groups, rounds
    <2>3. UNION {owned[g] : g \in groups} = 0 .. tiling.totalTaskCount - 1
      <3>1. \A g \in groups : owned[g] = {ScheduledTaskId(tiling, g, r) : r \in rounds(g)}
        OBVIOUS
      <3> HIDE DEF owned
      <3>2. \A g \in groups : owned[g] \subseteq 0 .. tiling.totalTaskCount - 1
        BY <2>2, <3>1
      <3>3. \A t \in 0 .. tiling.totalTaskCount - 1 : \E g \in groups : t \in owned[g]
        BY <2>2, <3>1
      <3> QED BY <3>2, <3>3
    <2>4. \A g1, g2 \in groups : g1 # g2 => owned[g1] \cap owned[g2] = {}
      BY <2>2
    <2>5. \A g \in groups : \A r1, r2 \in rounds(g) :
            r1 # r2 => ScheduledTaskId(tiling, g, r1) # ScheduledTaskId(tiling, g, r2)
      BY <2>2
    <2> QED BY <2>3, <2>4, <2>5 DEF TasksPartitioned, groups, rounds
  <1> QED BY <1>1, ScheduleInvariant, PTL

-----------------------------------------------------------------------------
(* Fused steps *)

PlacedInv == group \in 0 .. tiling.blockDim - 1

LEMMA PlacedStep ==
  /\ Init => PlacedInv
  /\ PlacedInv /\ [Next]_vars => PlacedInv'
  <1>1. Init => PlacedInv
    BY DEF Init, PlacedInv, tiling, Tiling
  <1>2. PlacedInv /\ [Next]_vars => PlacedInv'
    BY DEF PlacedInv, Next, Step, StepCyclic, StepGroupAligned, StepGroupAlignedR3, StepChunkLocal,
      Finished, vars, given, tiling
  <1> QED BY <1>1, <1>2

\* A walk that is not over is at a KV head of the operator.
LEMMA HeadInRange ==
  ASSUME IInv, PlacedInv, Walk # "Cyclic", position < LocalTaskCount
  PROVE  kvHeadId \in 0 .. tiling.hg - 1
  <1> DEFINE N == NumChunks(tiling)
             hg == tiling.hg
             B == tiling.blockDim
  <1>1. GivenInv /\ CursorInv /\ TypedTiling(tiling)
    BY TilingIsTyped DEF IInv, GivenInv, tiling
  <1>2. /\ N \in Nat \ {0} /\ hg \in Nat \ {0} /\ B \in Nat \ {0} /\ Total(tiling) = N * hg
        /\ group \in 0 .. B - 1 /\ kvHeadId \in Nat /\ chunkId \in Nat /\ position \in Nat
    BY <1>1 DEF TypedTiling, Total, PlacedInv, CursorInv
  <1>3. CASE GroupAligned(tiling)
    <2> DEFINE c == CoresPerKvGroup(tiling)
    <2>1. c \in Nat \ {0} /\ B = hg * c /\ kvHeadId = group \div c
      BY <1>1, <1>3, AlignedParts DEF CursorInv, KvHeadOfGroup
    <2> HIDE DEF c, B, hg
    <2>2. group \in Nat /\ group < hg * c
      BY <1>2, <2>1
    <2>3. kvHeadId \in Nat /\ group % c \in 0 .. c - 1 /\ group = c * kvHeadId + (group % c)
      BY <2>1, <2>2, DivMod
    <2>4. CASE hg <= kvHeadId
      <3>1. hg * c <= kvHeadId * c /\ kvHeadId * c = c * kvHeadId /\ kvHeadId * c \in Nat
            /\ hg * c \in Nat
        BY <1>2, <2>1, <2>3, <2>4, MulMono
      <3> QED BY <2>1, <2>2, <2>3, <3>1
    <2> QED BY <1>2, <2>4 DEF hg
  <1>4. CASE ChunkLocal(tiling)
    <2>1. LocalTaskCount = Begin(tiling, group + 1) - Begin(tiling, group)
      BY <1>4, WalkCases DEF LocalTaskCount
    <2>2. kvHeadId * N + chunkId = Begin(tiling, group) + position
      BY <1>1, <1>4 DEF CursorInv
    <2>3. /\ Begin(tiling, group) \in Nat /\ Begin(tiling, group + 1) \in Nat
          /\ Begin(tiling, group + 1) <= N * hg
      <3>1. group \in 0 .. B /\ group + 1 \in 0 .. B
        BY <1>2
      <3> QED BY <1>1, <1>2, <3>1, BeginSplits
    <2> HIDE DEF N, hg, B
    <2>4. kvHeadId * N < N * hg
      <3>1. kvHeadId * N \in Nat /\ N * hg \in Nat
        BY <1>2
      <3> QED BY <1>2, <2>1, <2>2, <2>3, <3>1
    <2>5. CASE hg <= kvHeadId
      <3>1. hg * N <= kvHeadId * N /\ hg * N = N * hg /\ kvHeadId * N \in Nat /\ N * hg \in Nat
        BY <1>2, <2>5, MulMono
      <3> QED BY <2>4, <3>1
    <2> QED BY <1>2, <2>5 DEF hg
  <1> QED BY <1>3, <1>4, WalkCases

\* What FusedAreNeighbours asks of entry i of a log.
Neighboured(l, i) ==
  l[i].fused =>
    /\ l[i].task \div tiling.hg \notin shape.short
    /\ \E j \in {i - 1, i + 1} \cap DOMAIN l :
         /\ l[j].fused
         /\ l[i].task - l[j].task = (i - j) * tiling.hg
         /\ l[j].heads = l[i].heads
    /\ l[i].heads = HeadsOf(l[i].task % tiling.hg, LaneRepeats(3, lane))

LEMMA FusedForm == FusedAreNeighbours <=> \A i \in DOMAIN log : Neighboured(log, i)
  BY DEF FusedAreNeighbours, Neighboured

LEMMA FusedFormNext ==
  ASSUME UNCHANGED given, \A i \in DOMAIN log' : Neighboured(log', i)
  PROVE  FusedAreNeighbours'
  <1>1. tiling' = tiling /\ shape' = shape /\ lane' = lane
    BY DEF given, tiling
  <1> QED BY <1>1 DEF FusedAreNeighbours, Neighboured, HeadsOf

\* The heads of the fused body are those of the lane.
LEMMA SameRepeats == ASSUME lane \in Lane PROVE FusedRepeats = LaneRepeats(3, lane)
  <1>1. lane \in {0, 1}
    BY DEF Lane, AIVS_PER_AIC
  <1>2. CASE lane = 0
    BY <1>2 DEF FusedRepeats, LaneRepeats, FirstRepeat, RepeatEnd, AIVS_PER_AIC
  <1>3. CASE lane = 1
    BY <1>3 DEF FusedRepeats, LaneRepeats, FirstRepeat, RepeatEnd, AIVS_PER_AIC, GATE_HEAD_BATCH
  <1> QED BY <1>1, <1>2, <1>3

\* Entries keep their neighbours when the log grows.
LEMMA NeighbouredKept ==
  ASSUME NEW l \in Seq(Entries), NEW m \in Seq(Entries), Len(l) <= Len(m),
         \A i \in 1 .. Len(l) : m[i] = l[i], NEW i \in 1 .. Len(l), Neighboured(l, i)
  PROVE  Neighboured(m, i)
  <1>1. DOMAIN l = 1 .. Len(l) /\ DOMAIN m = 1 .. Len(m) /\ Len(l) \in Nat /\ Len(m) \in Nat
    OBVIOUS
  <1>2. SUFFICES ASSUME m[i].fused PROVE Neighboured(m, i)
    BY DEF Neighboured
  <1>3. m[i] = l[i]
    OBVIOUS
  <1>4. PICK j \in {i - 1, i + 1} \cap DOMAIN l :
          /\ l[j].fused
          /\ l[i].task - l[j].task = (i - j) * tiling.hg
          /\ l[j].heads = l[i].heads
    BY <1>2, <1>3 DEF Neighboured
  <1>5. m[j] = l[j] /\ j \in {i - 1, i + 1} \cap DOMAIN m
    BY <1>1, <1>4
  <1>6. \E k \in {i - 1, i + 1} \cap DOMAIN m :
          /\ m[k].fused
          /\ m[i].task - m[k].task = (i - k) * tiling.hg
          /\ m[k].heads = m[i].heads
    BY <1>3, <1>4, <1>5
  <1> QED BY <1>2, <1>3, <1>6 DEF Neighboured

\* One entry that is not fused.
LEMMA PlainFused ==
  ASSUME FusedAreNeighbours, LogInv, LogInv', UNCHANGED given, NEW e, log' = Append(log, e),
         e.fused = FALSE
  PROVE  FusedAreNeighbours'
  <1>1. log \in Seq(Entries) /\ log' \in Seq(Entries) /\ Len(log) \in Nat
        /\ DOMAIN log = 1 .. Len(log) /\ DOMAIN log' = 1 .. Len(log')
    BY DEF LogInv
  <1>2. Len(log') = Len(log) + 1 /\ log'[Len(log) + 1] = e
        /\ \A i \in 1 .. Len(log) : log'[i] = log[i]
    BY <1>1
  <1>3. \A i \in DOMAIN log' : Neighboured(log', i)
    <2> SUFFICES ASSUME NEW i \in 1 .. Len(log') PROVE Neighboured(log', i)
      BY <1>1
    <2>1. CASE i \in 1 .. Len(log)
      <3>1. Neighboured(log, i)
        BY <1>1, <2>1, FusedForm
      <3>2. Len(log) <= Len(log')
        BY <1>1, <1>2
      <3> QED BY <1>1, <1>2, <2>1, <3>1, <3>2, NeighbouredKept
    <2>2. CASE i = Len(log) + 1
      BY <1>2, <2>2 DEF Neighboured
    <2> QED BY <1>1, <1>2, <2>1, <2>2
  <1> QED BY <1>3, FusedFormNext

\* A pair of full neighbouring chunks.
LEMMA PairFused ==
  ASSUME IInv, PlacedInv, FusedAreNeighbours, LogInv', UNCHANGED given,
         Walk # "Cyclic", position + 1 < LocalTaskCount,
         ChunkLocal(tiling) => MayFuseInHead(chunkId),
         CanFuseAdjacentFullChunks(chunkId), AdjacentFullChunks
  PROVE  FusedAreNeighbours'
  <1> DEFINE hg == tiling.hg
             e(i) == Entry(TaskId(tiling, chunkId + i, kvHeadId), localRound + i,
                           Reuse(localRound + i), TRUE, FusedRepeats)
             n == Len(log)
             heads == HeadsOf(kvHeadId, FusedRepeats)
  <1>1. log \in Seq(Entries) /\ log' \in Seq(Entries) /\ n \in Nat
        /\ DOMAIN log = 1 .. n /\ DOMAIN log' = 1 .. Len(log')
    BY DEF LogInv, IInv
  <1>2. /\ hg \in Nat \ {0} /\ chunkId \in Nat /\ localRound \in Nat /\ position \in Nat /\ lane \in Lane
        /\ LocalTaskCount \in Nat
    <2>1. TypedTiling(tiling)
      BY TilingIsTyped DEF IInv, GivenInv, tiling
    <2> QED BY <2>1, SameCount, CountTyped DEF IInv, GivenInv, CursorInv, TypedTiling
  <1>3. kvHeadId \in 0 .. hg - 1
    BY <1>2, HeadInRange
  <1>4. log' = log \o <<e(0), e(1)>>
    BY <1>2 DEF AdjacentFullChunks
  <1>5. /\ e(0).fused = TRUE /\ e(0).task = chunkId * hg + kvHeadId /\ e(0).heads = heads
        /\ e(1).fused = TRUE /\ e(1).task = (chunkId + 1) * hg + kvHeadId /\ e(1).heads = heads
    BY <1>2 DEF Entry, TaskId
  <1> HIDE DEF e
  <1>6. /\ Len(log') = n + 2 /\ log'[n + 1] = e(0) /\ log'[n + 2] = e(1)
        /\ \A i \in 1 .. n : log'[i] = log[i]
    <2>1. Len(<<e(0), e(1)>>) = 2 /\ <<e(0), e(1)>>[1] = e(0) /\ <<e(0), e(1)>>[2] = e(1)
          /\ <<e(0), e(1)>> \in Seq({e(0), e(1)})
      OBVIOUS
    <2>2. log \in Seq(Entries \cup {e(0), e(1)}) /\ <<e(0), e(1)>> \in Seq(Entries \cup {e(0), e(1)})
      BY <1>1
    <2> QED BY <1>1, <1>4, <2>1, <2>2
  <1>7. \A q \in Nat : (q * hg + kvHeadId) \div hg = q /\ (q * hg + kvHeadId) % hg = kvHeadId
    <2> HIDE DEF hg
    <2> QED BY <1>2, <1>3, DivUnique
  <1>8. /\ (chunkId * hg + kvHeadId) \div hg = chunkId /\ (chunkId * hg + kvHeadId) % hg = kvHeadId
        /\ ((chunkId + 1) * hg + kvHeadId) \div hg = chunkId + 1
        /\ ((chunkId + 1) * hg + kvHeadId) % hg = kvHeadId
    BY <1>2, <1>7
  <1>9. heads = HeadsOf(kvHeadId, LaneRepeats(3, lane))
    BY <1>2, SameRepeats
  <1>10. chunkId \notin shape.short /\ chunkId + 1 \notin shape.short
    BY DEF CanFuseAdjacentFullChunks
  <1>11. e(0).task - e(1).task = ((n + 1) - (n + 2)) * hg /\ e(1).task - e(0).task = ((n + 2) - (n + 1)) * hg
    <2>1. (chunkId + 1) * hg = chunkId * hg + hg /\ chunkId * hg \in Nat
      BY <1>2
    <2>2. (n + 1) - (n + 2) = -1 /\ (n + 2) - (n + 1) = 1 /\ (-1) * hg = -hg /\ 1 * hg = hg
      BY <1>1, <1>2
    <2> QED BY <1>2, <1>3, <1>5, <2>1, <2>2
  <1> HIDE DEF heads, hg
  <1>12. Neighboured(log', n + 1)
    <2> DEFINE j == n + 2
    <2>1. j \in {(n + 1) - 1, (n + 1) + 1} \cap DOMAIN log'
      BY <1>1, <1>6
    <2>2. log'[j].fused /\ log'[n + 1].task - log'[j].task = ((n + 1) - j) * hg
          /\ log'[j].heads = log'[n + 1].heads
      BY <1>5, <1>6, <1>11
    <2>3. log'[n + 1].task \div hg = chunkId /\ log'[n + 1].task % hg = kvHeadId
          /\ log'[n + 1].heads = heads
      BY <1>5, <1>6, <1>8
    <2> HIDE DEF j
    <2> QED BY <1>9, <1>10, <2>1, <2>2, <2>3 DEF Neighboured, hg
  <1>13. Neighboured(log', n + 2)
    <2> DEFINE j == n + 1
    <2>1. j \in {(n + 2) - 1, (n + 2) + 1} \cap DOMAIN log'
      BY <1>1, <1>6
    <2>2. log'[j].fused /\ log'[n + 2].task - log'[j].task = ((n + 2) - j) * hg
          /\ log'[j].heads = log'[n + 2].heads
      BY <1>5, <1>6, <1>11
    <2>3. log'[n + 2].task \div hg = chunkId + 1 /\ log'[n + 2].task % hg = kvHeadId
          /\ log'[n + 2].heads = heads
      BY <1>5, <1>6, <1>8
    <2> HIDE DEF j
    <2> QED BY <1>9, <1>10, <2>1, <2>2, <2>3 DEF Neighboured, hg
  <1>14. \A i \in DOMAIN log' : Neighboured(log', i)
    <2> SUFFICES ASSUME NEW i \in 1 .. Len(log') PROVE Neighboured(log', i)
      BY <1>1
    <2>1. CASE i \in 1 .. n
      <3>1. Neighboured(log, i)
        BY <1>1, <2>1, FusedForm
      <3>2. Len(log) <= Len(log')
        BY <1>1, <1>6
      <3> QED BY <1>1, <1>6, <2>1, <3>1, <3>2, NeighbouredKept
    <2>2. i \in 1 .. n \/ i = n + 1 \/ i = n + 2
      BY <1>1, <1>6
    <2> QED BY <1>12, <1>13, <2>1, <2>2
  <1> QED BY <1>14, FusedFormNext

LEMMA FusedStep ==
  IInv /\ PlacedInv /\ FusedAreNeighbours /\ [Next]_vars => FusedAreNeighbours'
  <1> SUFFICES ASSUME IInv, PlacedInv, FusedAreNeighbours, [Next]_vars PROVE FusedAreNeighbours'
    OBVIOUS
  <1>1. LogInv /\ LogInv'
    BY NextIInv DEF IInv
  <1>2. \A task, reuse : Pipeline(task, reuse) =>
          \E e : log' = Append(log, e) /\ e.fused = FALSE
    <2> SUFFICES ASSUME NEW task, NEW reuse, Pipeline(task, reuse)
                 PROVE  \E e : log' = Append(log, e) /\ e.fused = FALSE
      OBVIOUS
    <2> DEFINE e == Entry(task, localRound, reuse, FALSE, LaneRepeats(tiling.numRepeat, lane))
    <2>1. log' = Append(log, e) /\ e.fused = FALSE
      BY DEF Pipeline, Entry
    <2> HIDE DEF e
    <2> QED BY <2>1
  <1>3. ASSUME NEW task, NEW reuse, Pipeline(task, reuse), UNCHANGED given
        PROVE  FusedAreNeighbours'
    <2>1. PICK e : log' = Append(log, e) /\ e.fused = FALSE
      BY <1>2, <1>3
    <2> QED BY <1>1, <1>3, <2>1, PlainFused
  <1>4. CASE StepCyclic \/ StepGroupAligned
    <2>1. UNCHANGED given /\ \E task, reuse : Pipeline(task, reuse)
      BY <1>4 DEF StepCyclic, StepGroupAligned
    <2> QED BY <1>3, <2>1
  <1>5. CASE StepGroupAlignedR3
    <2> DEFINE fuse == position + 1 < LocalTaskCount /\ CanFuseAdjacentFullChunks(chunkId)
    <2>1. UNCHANGED given /\ Walk = "GroupAlignedR3"
          /\ IF fuse THEN AdjacentFullChunks ELSE Pipeline(TaskId(tiling, chunkId, kvHeadId), Reuse(localRound))
      BY <1>5 DEF StepGroupAlignedR3
    <2>2. ~ChunkLocal(tiling)
      BY <2>1, WalkCases
    <2>3. CASE fuse
      BY <1>1, <2>1, <2>2, <2>3, PairFused
    <2>4. CASE ~fuse
      BY <1>3, <2>1, <2>4
    <2> QED BY <2>3, <2>4
  <1>6. CASE StepChunkLocal
    <2> DEFINE fuse == /\ position + 1 < LocalTaskCount
                       /\ MayFuseInHead(chunkId)
                       /\ CanFuseAdjacentFullChunks(chunkId)
    <2>1. UNCHANGED given /\ Walk = "ChunkLocal"
          /\ IF fuse THEN AdjacentFullChunks ELSE Pipeline(TaskId(tiling, chunkId, kvHeadId), Reuse(localRound))
      BY <1>6 DEF StepChunkLocal
    <2>2. CASE fuse
      BY <1>1, <2>1, <2>2, PairFused
    <2>3. CASE ~fuse
      BY <1>3, <2>1, <2>3
    <2> QED BY <2>2, <2>3
  <1>7. CASE UNCHANGED vars
    BY <1>7 DEF vars, given, FusedAreNeighbours, HeadsOf, tiling
  <1> QED BY <1>4, <1>5, <1>6, <1>7 DEF Next, Step, Finished

\* Whatever chunks are short and wherever the range of a group begins: what a
\* fused step takes is two full neighbouring chunks of one KV head, and it
\* writes the heads the lane writes one chunk at a time.
THEOREM FusedAreNeighboursAlways == Spec => []FusedAreNeighbours
  <1>1. Init => IInv /\ PlacedInv /\ FusedAreNeighbours
    <2>1. Init => FusedAreNeighbours
      BY DEF Init, FusedAreNeighbours
    <2> QED BY <2>1, InitIInv, PlacedStep
  <1>2. IInv /\ PlacedInv /\ FusedAreNeighbours /\ [Next]_vars
          => IInv' /\ PlacedInv' /\ FusedAreNeighbours'
    BY NextIInv, PlacedStep, FusedStep
  <1> QED BY <1>1, <1>2, PTL DEF Spec
=============================================================================
