--------------------------- MODULE KktVectorProofs ---------------------------
(***************************************************************************)
(* Safety of the pipeline of an AIV lane, for every walk of chunk lengths, *)
(* every head ratio, every choice of fused pairs and one or two MTE3_S     *)
(* event ids.                                                              *)
(*                                                                         *)
(* The scalar unit and the pipes each are at a place in the same program.  *)
(* The invariant numbers the batches and the outputs of that program by    *)
(* their places: a counter is the number of the place its owner is at, the *)
(* n-th batch or output lives in buffer n % BUFFER_NUM, and an event is    *)
(* the difference of two counters in one buffer.                           *)
(***************************************************************************)
EXTENDS KktVector, FiniteSetTheorems, TLAPS

\* Multiplication by a natural number keeps the order.
LEMMA MulMono ==
  ASSUME NEW x \in Int, NEW y \in Int, NEW b \in Nat, x <= y
  PROVE  x * b <= y * b
  <1>1. (y - x) * b >= 0
    BY SMT
  <1>2. (y - x) * b = y * b - x * b
    BY SMT
  <1> QED BY <1>1, <1>2

\* The rounds with work for the lane, and those whose batches each complete
\* an output.
Working == {r \in Rounds : Works(r)}
Closing == {r \in Working : ~FirstHalf(r)}

Below(rounds, r)  == {q \in rounds : q < r}
Before(rounds, r) == Cardinality(Below(rounds, r))

\* The number of a batch and of the output it goes to.
BatchIndex(r, b)  == Before(Working, r) * BatchCount + b
OutputIndex(r, b) == Before(Closing, r) * BatchCount + b

Batches == 0 .. BatchCount - 1

\* A place in the program: between two batches of a round, or before a round.
Place(r, b) ==
  /\ r \in Progress /\ b \in Nat
  /\ b > 0 => r \in Working /\ b < BatchCount

One(condition) == IF condition THEN 1 ELSE 0

-----------------------------------------------------------------------------
(* The scalar unit *)

\* Batches it has prefetched beyond those computed.
Ahead ==
  CASE pc \in {"ready", "batch"} -> 1
    [] pc \in {"acquire", "prepare"} -> IF batch > 0 /\ ~LastBatch(batch) THEN 2 ELSE 1
    [] OTHER -> 0

ScalarOrder ==
  /\ Place(localRound, batch)
  /\ pc \in {"fetch", "ready", "batch", "acquire", "prepare"} => localRound \in Working
  /\ pc = "fetch" => FirstHalf(localRound)
  /\ pc = "acquire" => ~FirstHalf(localRound) /\ ~SecondHalf(localRound)
  /\ pc \in {"top", "fetch", "ready", "drain0", "drain1", "done"} => batch = 0
  /\ pc \in {"drain0", "drain1", "done"} => localRound = TaskCount
  /\ taken = localRound + One(pc \in {"batch", "acquire", "prepare"})
  /\ released = localRound + One(batch > 0)
  /\ computed = BatchIndex(localRound, batch)
  /\ dequeued = computed + One(pc \in {"acquire", "prepare"})
  /\ fetched = computed + Ahead

\* It has acquired the output of the batch it prepares; a fused pair has one
\* from before its first half to the end of its second.
Holding == pc = "prepare" \/ (FirstHalf(localRound) /\ pc # "top") \/ SecondHalf(localRound)

Draining == pc \in {"drain0", "drain1", "done"}
Drained(s) == pc = "done" \/ (pc = "drain1" /\ s = 0)

\* The last output acquired that uses slot and buffer s.
LastOutput(s) == IF BufferOf(acquired) = s THEN acquired - 2 ELSE acquired - 1

Names(dest, n) == \E r \in Closing, b \in Batches : OutputIndex(r, b) = n /\ dest = Destination(r, b)

\* At most one output is enqueued and not launched, two are in use.
Window ==
  /\ enqueued = OutputIndex(localRound, batch)
  /\ acquired = enqueued + One(Holding)
  /\ readyOutput # NoOutput <=> enqueued > 0 /\ ~Draining /\ ~SecondHalf(localRound)
  /\ launched = enqueued - One(readyOutput # NoOutput)
  /\ readyOutput # NoOutput =>
       readyOutput.slot = BufferOf(launched) /\ Names(readyOutput.dest, launched)
  /\ Holding => outSlot = BufferOf(enqueued)
  /\ nextOutputSlot = BufferOf(acquired)
  /\ \A s \in Slot :
       /\ slotBuffer[s] = s
       /\ slotBusy[s] <=> ~Drained(s) /\ 0 <= LastOutput(s) /\ LastOutput(s) < launched
       /\ s \in outFree <=> Drained(s) \/ LastOutput(s) < 0

\* The copies that are done, and the slots whose copy has not been waited for.
copied == Len(gm)
busy   == One(slotBusy[0]) + One(slotBusy[1])

Copies ==
  /\ launched = copied + Len(copies)
  /\ copying => copies # << >>
  /\ acquired - 2 <= copied
  /\ IF sharedEvent
     THEN outCopied[0] = busy - Len(copies) /\ outCopied[1] = 0
     ELSE \A s \in Slot :
            /\ outCopied[s] = One(slotBusy[s] /\ LastOutput(s) < copied)
            /\ Drained(s) => LastOutput(s) < copied
  /\ \A j \in DOMAIN copies :
       /\ copies[j].buffer = BufferOf(copied + j - 1) /\ copies[j].slot = copies[j].buffer
       /\ Names(copies[j].dest, copied + j - 1)

-----------------------------------------------------------------------------
(* The pipes *)

Mte2Order ==
  /\ Place(mteRound, mteBatch)
  /\ mtePc # "gate" => mteRound \in Working
  /\ mtePc \in {"kkt", "loadingKkt", "free"} => mteBatch = 0
  /\ loaded = BatchIndex(mteRound, mteBatch) + One(mtePc \in {"kkt", "loadingKkt", "free"})
  /\ mtePc \in {"loadingKkt", "free"} => mteRound < taken

VectorOrder ==
  /\ Place(vRound, vBatch)
  /\ vPc # "top" => vRound \in Working /\ vRound < taken
  /\ vPc \in {"top", "zeroing"} => vBatch = 0
  /\ used = BatchIndex(vRound, vBatch)
  /\ produced = OutputIndex(vRound, vBatch)
  /\ vPc \in {"preparing", "mul", "multiplying"} => used < computed

\* How far MTE2 has begun to load g/beta, V to use it, MTE3 to copy outputs,
\* and of how many rounds MTE2 has returned the slot.
loadBegun == loaded + One(mtePc = "loadingGate")
useBegun  == used + One(vPc \in {"clearing", "prepare", "preparing", "mul", "multiplying"})
copyBegun == copied + One(copying)
freed     == mteRound + One(mteBatch > 0)

Order ==
  /\ vRound <= taken /\ freed <= released
  /\ useBegun <= dequeued /\ loadBegun <= fetched
  /\ useBegun <= loaded /\ loadBegun <= used + BUFFER_NUM
  /\ copyBegun <= produced /\ produced <= copied + BUFFER_NUM
  /\ taken <= aicRound /\ aicRound <= freed + SLOT_COUNT

\* n is counted in buffer x from first on, before last.
Counted(first, last, x) == \E n \in {first, first + 1} : n < last /\ BufferOf(n) = x

GateEvents == \A x \in Buffer :
  /\ gateFull[x] = One(Counted(useBegun, loaded, x))
  /\ gateFree[x] = 1 - One(Counted(used, loadBegun, x))

OutEvents == \A x \in Buffer : outFull[x] = One(Counted(copyBegun, produced, x))

ReadyCount == \A s \in Slot : ready[s] = One(Counted(taken, aicRound, s))

FreeCount == \A s \in Slot :
  free[s] = One(\E r \in {aicRound - 1, aicRound - 2} :
                  r >= 0 /\ r < freed /\ WillReuseSlot(r) /\ SlotOf(r) = s)

\* The KKT tile of round r: handed over by V, being copied, there, in use.
Handed(r)   == r < vRound \/ (r = vRound /\ vPc \notin {"top", "zeroing"})
Copying(r)  == r < mteRound \/ (r = mteRound /\ (mteBatch > 0 \/ mtePc \in {"loadingKkt", "free"}))
Arrived(r)  == r < mteRound \/ (r = mteRound /\ (mteBatch > 0 \/ mtePc = "free"))
Consumed(r) == r < vRound \/ (r = vRound /\ (vBatch > 0 \/ vPc = "multiplying"))

KktTile ==
  /\ \A r \in Working : (Copying(r) => Handed(r)) /\ (Consumed(r) => Arrived(r))
  /\ kktEmpty = One(Handed(vRound) /\ ~Copying(vRound))
  /\ kktFull = One(vRound \in Working /\ Arrived(vRound) /\ ~Consumed(vRound))

-----------------------------------------------------------------------------
(* What the buffers hold *)

Multiplied(tiles) == {[tile |-> t, ownGate |-> TRUE, gram |-> t[1]] : t \in tiles}
Prepared(tiles)   == {[tile |-> t, ownGate |-> TRUE, gram |-> NoGram] : t \in tiles}

\* The tiles of the half before vRound, in the output of the pair.
EarlierHalf == IF SecondHalf(vRound) THEN {vRound - 1} \X Batch(vBatch) ELSE {}

GateContent == \A r \in Working, b \in Batches :
  LET n == BatchIndex(r, b) IN used <= n /\ n < loaded => gate[BufferOf(n)] = {r} \X Batch(b)

KktContent == vRound \in Working /\ Arrived(vRound) => kkt = vRound

OutContent ==
  /\ \A r \in Closing, b \in Batches :
       LET n == OutputIndex(r, b)
       IN  copied <= n /\ n < produced => out[BufferOf(n)] = Multiplied(Destination(r, b))
  /\ vPc \in {"mul", "multiplying"} =>
       out[BufferOf(produced)] = Multiplied(EarlierHalf) \cup Prepared({vRound} \X Batch(vBatch))
  /\ SecondHalf(vRound) /\ vPc \notin {"mul", "multiplying"} =>
       out[BufferOf(produced)] = Multiplied(EarlierHalf)

GmContent == \A i \in DOMAIN gm :
  Names(gm[i].dest, i - 1) /\ gm[i].tiles = Multiplied(gm[i].dest)

Contents == GateContent /\ KktContent /\ OutContent /\ GmContent

Given ==
  /\ lane \in Lane /\ repeat \in Repeats /\ chunkLen \in Walks
  /\ fused \in SUBSET Rounds /\ MayFuse(fused) /\ sharedEvent \in BOOLEAN

IInv ==
  /\ Given /\ TypeOK /\ ScalarOrder /\ Window /\ Copies
  /\ Mte2Order /\ VectorOrder /\ Order
  /\ GateEvents /\ OutEvents /\ ReadyCount /\ FreeCount /\ KktTile /\ Contents

-----------------------------------------------------------------------------
(* The work of a lane *)

LEMMA Sizes ==
  ASSUME Given
  PROVE  /\ TaskCount \in Nat /\ Rounds = 0 .. TaskCount - 1 /\ Progress = 0 .. TaskCount
         /\ \A r \in Rounds : LenOf(r) \in Int
         /\ \A r : r \in Working <=> r \in Rounds /\ Works(r)
         /\ \A r : r \in Closing <=> r \in Working /\ r \notin fused
         /\ repeat \in Nat /\ repeat > 0 /\ lane \in {0, 1}
         /\ FirstRepeat(repeat, lane) \in Nat /\ TotalHeads \in Nat /\ TotalHeads > 0
         /\ RepeatEnd(repeat, lane) = FirstRepeat(repeat, lane) + TotalHeads
         /\ BatchCount \in Nat /\ BatchCount > 0
         /\ 2 * BatchCount - 2 < TotalHeads /\ TotalHeads <= 2 * BatchCount
         /\ Batches = 0 .. BatchCount - 1
         /\ repeat = 3 => BatchCount = 1
  <1>1. chunkLen \in Seq(Int) /\ repeat \in Nat /\ repeat > 0 /\ lane \in {0, 1}
    BY VectorAssumption DEF Given, Lane, AIVS_PER_AIC
  <1>2. TaskCount \in Nat /\ Rounds = 0 .. TaskCount - 1 /\ Progress = 0 .. TaskCount
    BY <1>1 DEF TaskCount, Rounds, Progress
  <1>3. \A r \in Rounds : LenOf(r) \in Int
    BY <1>1 DEF TaskCount, Rounds, LenOf
  <1>4. /\ \A r : r \in Working <=> r \in Rounds /\ Works(r)
        /\ \A r : r \in Closing <=> r \in Working /\ r \notin fused
    BY DEF Working, Closing, FirstHalf
  <1>5. /\ FirstRepeat(repeat, lane) \in Nat /\ RepeatEnd(repeat, lane) \in Nat
        /\ FirstRepeat(repeat, lane) < RepeatEnd(repeat, lane)
        /\ repeat = 3 => RepeatEnd(repeat, lane) - FirstRepeat(repeat, lane) <= 2
    <2>1. CASE lane = 0
      BY <1>1, <2>1 DEF FirstRepeat, RepeatEnd, AIVS_PER_AIC
    <2>2. CASE lane = 1
      BY <1>1, <2>2 DEF FirstRepeat, RepeatEnd, AIVS_PER_AIC
    <2> QED BY <1>1, <2>1, <2>2
  <1>6. /\ TotalHeads \in Nat /\ TotalHeads > 0
        /\ RepeatEnd(repeat, lane) = FirstRepeat(repeat, lane) + TotalHeads
        /\ repeat = 3 => TotalHeads <= 2
    BY <1>5 DEF TotalHeads
  <1>7. BatchCount = (TotalHeads + 1) \div 2
    BY <1>6 DEF BatchCount, GATE_HEAD_BATCH
  <1>8. /\ BatchCount \in Nat /\ BatchCount > 0
        /\ 2 * BatchCount - 2 < TotalHeads /\ TotalHeads <= 2 * BatchCount
    BY <1>6, <1>7
  <1>9. repeat = 3 => BatchCount = 1
    BY <1>6, <1>8
  <1> QED BY <1>1, <1>2, <1>3, <1>4, <1>5, <1>6, <1>8, <1>9 DEF Batches

\* A fused pair is two neighbouring rounds of one batch each.
LEMMA Fused ==
  ASSUME Given, NEW r, r \in fused
  PROVE  /\ r \in Rounds /\ r + 1 \in Rounds /\ BatchCount = 1
         /\ r \in Working /\ r + 1 \in Working
         /\ r + 1 \notin fused /\ r - 1 \notin fused /\ r + 1 \in Closing
  <1>1. fused \in SUBSET Rounds /\ MayFuse(fused)
    BY DEF Given
  <1>2. repeat = 3
    BY <1>1 DEF MayFuse
  <1>3. /\ r + 1 \in Rounds /\ r + 1 \notin fused
        /\ LenOf(r) = BT /\ LenOf(r + 1) = BT
    BY <1>1, <1>2 DEF MayFuse
  <1>4. r - 1 \notin fused
    <2>1. r \in Int
      BY <1>1, Sizes
    <2>2. r - 1 \in fused => (r - 1) + 1 \notin fused
      BY <1>1, <1>2 DEF MayFuse
    <2> QED BY <2>1, <2>2
  <1>5. HasWork(repeat, lane, BT)
    <2>1. 0 \in LaneRows(repeat, lane, BT)
      BY <1>2 DEF LaneRows, AIVS_PER_AIC, BT
    <2>2. FirstRepeat(repeat, lane) \in LaneRepeats(repeat, lane)
      BY Sizes DEF LaneRepeats
    <2> QED BY <2>1, <2>2 DEF HasWork, BT
  <1>6. r \in Working /\ r + 1 \in Working
    BY <1>1, <1>3, <1>5 DEF Working, Works
  <1> QED BY <1>1, <1>2, <1>3, <1>4, <1>6, Sizes

\* The halves that begin an output: none is the second of a pair, too.
LEMMA Halves ==
  ASSUME Given, NEW r \in Nat
  PROVE  /\ FirstHalf(r) => /\ r \in Working /\ BatchCount = 1 /\ ~SecondHalf(r)
                            /\ SecondHalf(r + 1) /\ ~FirstHalf(r + 1) /\ r \notin Closing
         /\ SecondHalf(r) => /\ r \in Closing /\ r > 0 /\ BatchCount = 1 /\ ~FirstHalf(r)
                             /\ FirstHalf(r - 1) /\ r - 1 \in Working
         /\ r \in Working => (r \in Closing <=> ~FirstHalf(r))
         /\ SecondHalf(r + 1) <=> FirstHalf(r)
  <1>1. SecondHalf(r + 1) <=> FirstHalf(r)
    BY DEF SecondHalf, FirstHalf
  <1>2. ASSUME FirstHalf(r)
        PROVE  /\ r \in Working /\ BatchCount = 1 /\ ~SecondHalf(r)
               /\ ~FirstHalf(r + 1) /\ r \notin Closing
    BY <1>2, Fused DEF FirstHalf, SecondHalf, Closing
  <1>3. ASSUME SecondHalf(r)
        PROVE  /\ r \in Closing /\ r > 0 /\ BatchCount = 1 /\ ~FirstHalf(r)
               /\ FirstHalf(r - 1) /\ r - 1 \in Working
    <2>1. r - 1 \in fused
      BY <1>3 DEF SecondHalf
    <2>2. (r - 1) + 1 = r
      OBVIOUS
    <2>3. r - 1 \in Rounds /\ BatchCount = 1 /\ r - 1 \in Working /\ r \notin fused /\ r \in Closing
      BY <2>1, <2>2, Fused
    <2> QED BY <2>1, <2>3, Sizes DEF FirstHalf
  <1>4. r \in Working => (r \in Closing <=> ~FirstHalf(r))
    BY DEF Closing
  <1> QED BY <1>1, <1>2, <1>3, <1>4

-----------------------------------------------------------------------------
(* The numbers of batches and outputs *)

LEMMA BelowStep ==
  ASSUME NEW rounds, \A q \in rounds : q \in Nat, NEW r \in Nat
  PROVE  /\ Below(rounds, 0) = {}
         /\ r \in rounds =>
              Below(rounds, r + 1) = Below(rounds, r) \cup {r} /\ r \notin Below(rounds, r)
         /\ r \notin rounds => Below(rounds, r + 1) = Below(rounds, r)
  BY DEF Below

LEMMA BelowOrder ==
  ASSUME NEW rounds, \A q \in rounds : q \in Nat, NEW r \in Nat, NEW q \in Nat, r <= q
  PROVE  Below(rounds, r) \subseteq Below(rounds, q)
  BY DEF Below

LEMMA BeforeStep ==
  ASSUME NEW n \in Nat, NEW rounds, rounds \subseteq 0 .. n - 1, NEW r \in Nat
  PROVE  /\ Before(rounds, r) \in Nat
         /\ Before(rounds, r + 1) = Before(rounds, r) + One(r \in rounds)
         /\ Before(rounds, 0) = 0
  <1>0. \A q \in rounds : q \in Nat
    OBVIOUS
  <1>1. \A k : IsFiniteSet(Below(rounds, k))
    <2> TAKE k
    <2>1. IsFiniteSet(0 .. n - 1)
      BY FS_Interval
    <2>2. Below(rounds, k) \in SUBSET (0 .. n - 1)
      BY DEF Below
    <2> QED BY <2>1, <2>2, FS_Subset
  <1>2. Before(rounds, r) \in Nat
    BY <1>1, FS_CardinalityType DEF Before
  <1>3. Before(rounds, 0) = 0
    <2>1. Below(rounds, 0) = {}
      BY <1>0, BelowStep
    <2> QED BY <2>1, FS_EmptySet DEF Before
  <1>4. CASE r \in rounds
    <2>1. Below(rounds, r + 1) = Below(rounds, r) \cup {r} /\ r \notin Below(rounds, r)
      BY <1>0, <1>4, BelowStep
    <2>2. Cardinality(Below(rounds, r) \cup {r}) = Cardinality(Below(rounds, r)) + 1
      <3>1. IsFiniteSet(Below(rounds, r)) /\ r \notin Below(rounds, r)
        BY <1>1, <2>1
      <3> QED BY <3>1, FS_AddElement
    <2> QED BY <1>2, <1>4, <1>3, <2>1, <2>2 DEF Before, One
  <1>5. CASE r \notin rounds
    <2>1. Below(rounds, r + 1) = Below(rounds, r)
      BY <1>0, <1>5, BelowStep
    <2> QED BY <1>2, <1>3, <1>5, <2>1 DEF Before, One
  <1> QED BY <1>4, <1>5

LEMMA BeforeOrder ==
  ASSUME NEW n \in Nat, NEW rounds, rounds \subseteq 0 .. n - 1,
         NEW r \in Nat, NEW q \in Nat, r <= q
  PROVE  Before(rounds, r) <= Before(rounds, q)
  <1>1. \A k \in rounds : k \in Nat
    OBVIOUS
  <1>2. Below(rounds, r) \in SUBSET Below(rounds, q)
    BY <1>1, BelowOrder
  <1>3. IsFiniteSet(Below(rounds, q))
    <2>1. IsFiniteSet(0 .. n - 1)
      BY FS_Interval
    <2>2. Below(rounds, q) \in SUBSET (0 .. n - 1)
      BY DEF Below
    <2> QED BY <2>1, <2>2, FS_Subset
  <1> QED BY <1>2, <1>3, FS_Subset DEF Before

LEMMA IndexStep ==
  ASSUME Given, NEW r \in Nat, NEW b \in Nat
  PROVE  /\ BatchIndex(r, b) \in Nat /\ OutputIndex(r, b) \in Nat
         /\ BatchIndex(0, 0) = 0 /\ OutputIndex(0, 0) = 0
         /\ BatchIndex(r, b + 1) = BatchIndex(r, b) + 1
         /\ OutputIndex(r, b + 1) = OutputIndex(r, b) + 1
         /\ r \in Working /\ LastBatch(b) => BatchIndex(r + 1, 0) = BatchIndex(r, b) + 1
         /\ r \notin Working => BatchIndex(r + 1, 0) = BatchIndex(r, 0)
         /\ r \in Closing /\ LastBatch(b) => OutputIndex(r + 1, 0) = OutputIndex(r, b) + 1
         /\ r \notin Closing => OutputIndex(r + 1, 0) = OutputIndex(r, 0)
  <1> DEFINE w == Before(Working, r)
             c == Before(Closing, r)
             N == BatchCount
  <1>1. TaskCount \in Nat /\ N \in Nat /\ Rounds = 0 .. TaskCount - 1
    BY Sizes
  <1>2. Working \subseteq 0 .. TaskCount - 1 /\ Closing \subseteq 0 .. TaskCount - 1
    BY <1>1 DEF Working, Closing
  <1>3. w \in Nat /\ Before(Working, r + 1) = w + One(r \in Working) /\ Before(Working, 0) = 0
    BY <1>1, <1>2, BeforeStep
  <1>4. c \in Nat /\ Before(Closing, r + 1) = c + One(r \in Closing) /\ Before(Closing, 0) = 0
    BY <1>1, <1>2, BeforeStep
  <1> HIDE DEF w, c, N
  <1>5. /\ w * N \in Nat /\ (w + 1) * N = w * N + N /\ (w + 0) * N = w * N
        /\ c * N \in Nat /\ (c + 1) * N = c * N + N /\ (c + 0) * N = c * N
        /\ 0 * N = 0
    BY <1>1, <1>3, <1>4
  <1>6. LastBatch(b) => N = b + 1
    BY <1>1 DEF LastBatch, N
  <1>7. /\ \A k : BatchIndex(r, k) = w * N + k /\ OutputIndex(r, k) = c * N + k
        /\ BatchIndex(0, 0) = 0 /\ OutputIndex(0, 0) = 0
    BY <1>3, <1>4, <1>5 DEF BatchIndex, OutputIndex, w, c, N
  <1>8. /\ BatchIndex(r + 1, 0) = (w + One(r \in Working)) * N + 0
        /\ OutputIndex(r + 1, 0) = (c + One(r \in Closing)) * N + 0
    BY <1>3, <1>4 DEF BatchIndex, OutputIndex, N
  <1>9. BatchIndex(r + 1, 0) = IF r \in Working THEN w * N + N ELSE w * N
    BY <1>1, <1>3, <1>5, <1>8 DEF One
  <1>10. OutputIndex(r + 1, 0) = IF r \in Closing THEN c * N + N ELSE c * N
    BY <1>1, <1>4, <1>5, <1>8 DEF One
  <1>11. /\ BatchIndex(r, b) = w * N + b /\ OutputIndex(r, b) = c * N + b
         /\ BatchIndex(r, b + 1) = w * N + (b + 1) /\ OutputIndex(r, b + 1) = c * N + (b + 1)
         /\ BatchIndex(r, 0) = w * N + 0 /\ OutputIndex(r, 0) = c * N + 0
    BY <1>7
  <1>12. /\ BatchIndex(r, b) \in Nat /\ OutputIndex(r, b) \in Nat
         /\ BatchIndex(r, b + 1) = BatchIndex(r, b) + 1
         /\ OutputIndex(r, b + 1) = OutputIndex(r, b) + 1
    BY <1>5, <1>11
  <1>13. /\ r \in Working /\ LastBatch(b) => BatchIndex(r + 1, 0) = BatchIndex(r, b) + 1
         /\ r \notin Working => BatchIndex(r + 1, 0) = BatchIndex(r, 0)
    BY <1>1, <1>5, <1>6, <1>9, <1>11
  <1>14. /\ r \in Closing /\ LastBatch(b) => OutputIndex(r + 1, 0) = OutputIndex(r, b) + 1
         /\ r \notin Closing => OutputIndex(r + 1, 0) = OutputIndex(r, 0)
    BY <1>1, <1>5, <1>6, <1>10, <1>11
  <1> QED BY <1>7, <1>12, <1>13, <1>14

\* The numbers follow the order of the places.
LEMMA IndexOrder ==
  ASSUME Given, NEW r, NEW b, NEW q, NEW d, Place(r, b), Place(q, d),
         r < q \/ (r = q /\ b <= d)
  PROVE  /\ BatchIndex(r, b) <= BatchIndex(q, d) /\ OutputIndex(r, b) <= OutputIndex(q, d)
         /\ r \in Working /\ b \in Batches /\ (r < q \/ b < d) => BatchIndex(r, b) < BatchIndex(q, d)
         /\ r \in Closing /\ b \in Batches /\ (r < q \/ b < d) => OutputIndex(r, b) < OutputIndex(q, d)
  <1> DEFINE N == BatchCount
  <1>1. /\ TaskCount \in Nat /\ N \in Nat /\ Rounds = 0 .. TaskCount - 1 /\ N > 0
        /\ Batches = 0 .. N - 1 /\ Progress = 0 .. TaskCount
        /\ \A k : k \in Closing <=> k \in Working /\ k \notin fused
    BY Sizes
  <1>2. r \in Nat /\ q \in Nat /\ b \in Nat /\ d \in Nat
    BY <1>1 DEF Place
  <1>3. CASE r = q
    <2>1. /\ \A k : BatchIndex(r, k) = BatchIndex(r, 0) + k \/ k \notin Nat
          /\ \A k : OutputIndex(r, k) = OutputIndex(r, 0) + k \/ k \notin Nat
      <3>1. Before(Working, r) * N \in Nat /\ Before(Closing, r) * N \in Nat
        <4>1. Working \subseteq 0 .. TaskCount - 1 /\ Closing \subseteq 0 .. TaskCount - 1
          BY <1>1 DEF Working, Closing
        <4>2. Before(Working, r) \in Nat /\ Before(Closing, r) \in Nat
          BY <1>1, <1>2, <4>1, BeforeStep
        <4> HIDE DEF N
        <4> QED BY <1>1, <4>2
      <3> QED BY <3>1 DEF BatchIndex, OutputIndex
    <2>2. BatchIndex(r, 0) \in Nat /\ OutputIndex(r, 0) \in Nat
      BY <1>2, IndexStep
    <2> QED BY <1>2, <1>3, <2>1, <2>2
  <1>4. CASE r < q
    <2>1. Working \subseteq 0 .. TaskCount - 1 /\ Closing \subseteq 0 .. TaskCount - 1
      BY <1>1 DEF Working, Closing
    <2>2. /\ Before(Working, r) \in Nat /\ Before(Closing, r) \in Nat
          /\ Before(Working, q) \in Nat /\ Before(Closing, q) \in Nat
          /\ Before(Working, r + 1) = Before(Working, r) + One(r \in Working)
          /\ Before(Closing, r + 1) = Before(Closing, r) + One(r \in Closing)
      BY <1>1, <1>2, <2>1, BeforeStep
    <2>3. Before(Working, r + 1) <= Before(Working, q) /\ Before(Closing, r + 1) <= Before(Closing, q)
      <3>1. r + 1 \in Nat /\ r + 1 <= q
        BY <1>2, <1>4
      <3> QED BY <1>1, <1>2, <2>1, <3>1, BeforeOrder
    <2> DEFINE w == Before(Working, r)
               c == Before(Closing, r)
               wq == Before(Working, q)
               cq == Before(Closing, q)
    <2>4. /\ BatchIndex(r, b) = w * N + b /\ BatchIndex(q, d) = wq * N + d
          /\ OutputIndex(r, b) = c * N + b /\ OutputIndex(q, d) = cq * N + d
      BY DEF BatchIndex, OutputIndex
    <2>5. /\ w \in Nat /\ c \in Nat /\ wq \in Nat /\ cq \in Nat
          /\ w <= wq /\ c <= cq
          /\ r \in Working => w + 1 <= wq
          /\ r \in Closing => c + 1 <= cq
      BY <2>2, <2>3 DEF One
    <2>6. b > 0 => r \in Working /\ b < N
      BY DEF Place
    <2>7. b > 0 => r \in Closing
      <3>1. ASSUME b > 0, r \in fused PROVE FALSE
        BY <1>1, <1>2, <2>6, <3>1, Fused
      <3> QED BY <1>1, <2>6, <3>1
    <2> HIDE DEF N, w, c, wq, cq
    <2>8. /\ w * N <= wq * N /\ c * N <= cq * N
          /\ w + 1 <= wq => (w + 1) * N <= wq * N
          /\ c + 1 <= cq => (c + 1) * N <= cq * N
      BY <1>1, <2>5, MulMono
    <2>9. /\ w * N \in Nat /\ (w + 1) * N = w * N + N /\ wq * N \in Nat
          /\ c * N \in Nat /\ (c + 1) * N = c * N + N /\ cq * N \in Nat
      BY <1>1, <2>5
    <2>10. BatchIndex(r, b) <= BatchIndex(q, d)
      BY <1>1, <1>2, <2>4, <2>5, <2>6, <2>8, <2>9
    <2>11. OutputIndex(r, b) <= OutputIndex(q, d)
      BY <1>1, <1>2, <2>4, <2>5, <2>6, <2>7, <2>8, <2>9
    <2>12. r \in Working /\ b \in Batches => BatchIndex(r, b) < BatchIndex(q, d)
      BY <1>1, <1>2, <2>4, <2>5, <2>8, <2>9
    <2>13. r \in Closing /\ b \in Batches => OutputIndex(r, b) < OutputIndex(q, d)
      BY <1>1, <1>2, <2>4, <2>5, <2>8, <2>9
    <2> QED BY <2>10, <2>11, <2>12, <2>13
  <1> QED BY <1>3, <1>4

\* ... and tell the places apart.
LEMMA IndexBefore ==
  ASSUME Given, NEW r, NEW b, NEW q, NEW d, Place(r, b), Place(q, d)
  PROVE  /\ BatchIndex(r, b) < BatchIndex(q, d) => r < q \/ (r = q /\ b < d)
         /\ OutputIndex(r, b) < OutputIndex(q, d) => r < q \/ (r = q /\ b < d)
  <1>1. r \in Nat /\ q \in Nat /\ b \in Nat /\ d \in Nat
    BY Sizes DEF Place
  <1>2. ASSUME ~(r < q \/ (r = q /\ b < d))
        PROVE  BatchIndex(q, d) <= BatchIndex(r, b) /\ OutputIndex(q, d) <= OutputIndex(r, b)
    <2>1. q < r \/ (q = r /\ d <= b)
      BY <1>1, <1>2
    <2> QED BY <2>1, IndexOrder
  <1>3. /\ BatchIndex(r, b) \in Nat /\ BatchIndex(q, d) \in Nat
        /\ OutputIndex(r, b) \in Nat /\ OutputIndex(q, d) \in Nat
    BY <1>1, IndexStep
  <1> QED BY <1>2, <1>3

LEMMA IndexUnique ==
  ASSUME Given, NEW r \in Working, NEW b \in Batches, NEW q \in Working, NEW d \in Batches
  PROVE  /\ Place(r, b)
         /\ BatchIndex(r, b) = BatchIndex(q, d) => r = q /\ b = d
         /\ r \in Closing /\ q \in Closing /\ OutputIndex(r, b) = OutputIndex(q, d) => r = q /\ b = d
  <1>1. /\ Place(r, b) /\ Place(q, d)
        /\ r \in Nat /\ q \in Nat /\ b \in Nat /\ d \in Nat
    BY Sizes DEF Place, Working
  <1>2. /\ BatchIndex(r, b) \in Nat /\ BatchIndex(q, d) \in Nat
        /\ OutputIndex(r, b) \in Nat /\ OutputIndex(q, d) \in Nat
    BY <1>1, IndexStep
  <1>3. CASE r < q \/ (r = q /\ b < d)
    <2>1. BatchIndex(r, b) < BatchIndex(q, d)
      BY <1>1, <1>3, IndexOrder
    <2>2. r \in Closing => OutputIndex(r, b) < OutputIndex(q, d)
      BY <1>1, <1>3, IndexOrder
    <2> QED BY <1>1, <1>2, <2>1, <2>2
  <1>4. CASE q < r \/ (q = r /\ d < b)
    <2>1. BatchIndex(q, d) < BatchIndex(r, b)
      BY <1>1, <1>4, IndexOrder
    <2>2. q \in Closing => OutputIndex(q, d) < OutputIndex(r, b)
      BY <1>1, <1>4, IndexOrder
    <2> QED BY <1>1, <1>2, <2>1, <2>2
  <1> QED BY <1>1, <1>3, <1>4

\* The work of the lane never changes.
LEMMA WorkIsFixed ==
  ASSUME UNCHANGED work
  PROVE  /\ TaskCount' = TaskCount /\ Rounds' = Rounds /\ Progress' = Progress
         /\ Working' = Working /\ Closing' = Closing
         /\ BatchCount' = BatchCount /\ Batches' = Batches
         /\ OwnTiles' = OwnTiles /\ TileState' = TileState
         /\ sharedEvent' = sharedEvent
         /\ \A r : /\ Works(r)' <=> Works(r)
                   /\ FirstHalf(r)' <=> FirstHalf(r)
                   /\ SecondHalf(r)' <=> SecondHalf(r)
                   /\ WillReuseSlot(r)' <=> WillReuseSlot(r)
                   /\ SlotEvent(r)' = SlotEvent(r)
                   /\ Batch(r)' = Batch(r)
                   /\ LastBatch(r)' <=> LastBatch(r)
         /\ \A r, b : /\ BatchIndex(r, b)' = BatchIndex(r, b)
                      /\ OutputIndex(r, b)' = OutputIndex(r, b)
                      /\ Destination(r, b)' = Destination(r, b)
                      /\ Place(r, b)' <=> Place(r, b)
                      /\ Names(r, b)' <=> Names(r, b)
         /\ Given' <=> Given
  <1>1. TaskCount' = TaskCount /\ Rounds' = Rounds /\ Progress' = Progress /\ sharedEvent' = sharedEvent
    BY DEF work, TaskCount, Rounds, Progress
  <1>2. \A r : LenOf(r)' = LenOf(r)
    BY DEF work, LenOf
  <1>3. \A r : Works(r)' <=> Works(r)
    BY <1>2 DEF Works, work
  <1>4. \A r : (FirstHalf(r)' <=> FirstHalf(r)) /\ (SecondHalf(r)' <=> SecondHalf(r))
    BY DEF FirstHalf, SecondHalf, work
  <1>5. \A r : (WillReuseSlot(r)' <=> WillReuseSlot(r)) /\ SlotEvent(r)' = SlotEvent(r)
    BY <1>1 DEF WillReuseSlot, SlotEvent
  <1>6. BatchCount' = BatchCount
    BY DEF BatchCount, TotalHeads, work
  <1>7. Batches' = Batches
    BY <1>6 DEF Batches
  <1>8. \A r : Batch(r)' = Batch(r) /\ (LastBatch(r)' <=> LastBatch(r))
    BY <1>6 DEF Batch, LastBatch, work
  <1>9. Working' = Working
    BY <1>1, <1>3 DEF Working
  <1>10. Closing' = Closing
    BY <1>4, <1>9 DEF Closing
  <1>11. OwnTiles' = OwnTiles /\ TileState' = TileState
    BY <1>1, <1>3 DEF OwnTiles, TileState, work
  <1>12. \A r, b : BatchIndex(r, b)' = BatchIndex(r, b) /\ OutputIndex(r, b)' = OutputIndex(r, b)
    BY <1>6, <1>9, <1>10 DEF BatchIndex, OutputIndex
  <1>13. \A r, b : Destination(r, b)' = Destination(r, b)
    BY <1>4, <1>8 DEF Destination
  <1>14. \A r, b : Place(r, b)' <=> Place(r, b)
    BY <1>1, <1>6, <1>9 DEF Place
  <1>15. \A r, b : Names(r, b)' <=> Names(r, b)
    BY <1>7, <1>10, <1>12, <1>13 DEF Names
  <1>16. Given' <=> Given
    <2>1. MayFuse(fused)' <=> MayFuse(fused)
      BY <1>1, <1>2 DEF MayFuse, work
    <2> QED BY <1>1, <2>1 DEF Given, work
  <1> QED BY <1>1, <1>3, <1>4, <1>5, <1>6, <1>7, <1>8, <1>9, <1>10, <1>11, <1>12, <1>13, <1>14,
             <1>15, <1>16

-----------------------------------------------------------------------------
(* The steps *)

\* Every action leaves the work of the lane alone.
LEMMA WorkUnchanged ==
  ASSUME [Next]_vars
  PROVE  UNCHANGED work
  BY DEF Next, vars, Finished, AicRound,
         Scalar, PrefetchFirstBatch, WaitReady, BeginBatch, AcquireOutputSlot, ProcessBatch,
         Epilogue, DrainOutputSlot, ScalarOnly,
         Mte2, StartLoadGate, FinishLoadGate, StartLoadKkt, FinishLoadKkt, ReleaseSlot, Mte2Only,
         VectorPipe, StartZeroKkt, HandOverKkt, PassRound, TakeGate, FinishZeroTail,
         StartPrepare, FinishPrepare, StartMul, FinishMul, VectorOnly,
         Mte3, StartCopyOut, FinishCopyOut, Mte3Only

\* What each of the four leaves alone.
LEMMA Frames ==
  /\ AicRound => UNCHANGED <<scalar, mte2, vpipe, copies, copying, gateEv, outFull,
                             outCopied, kktEv, memory>>
  /\ Scalar => UNCHANGED <<aicRound, mte2, vpipe, copying, gateEv, outFull, kktEv, free,
                           memory>>
  /\ Mte2 => UNCHANGED <<aicRound, scalar, vpipe, copies, copying, outFull, outCopied,
                         ready, out, gm>>
  /\ VectorPipe => UNCHANGED <<aicRound, scalar, mte2, copies, copying, outCopied, ready,
                               free, gate, gm>>
  /\ Mte3 => UNCHANGED <<aicRound, scalar, mte2, vpipe, gateEv, kktEv, ready, free, gate,
                         kkt, out>>
  <1>1. AicRound => UNCHANGED <<scalar, mte2, vpipe, copies, copying, gateEv, outFull, outCopied,
                                 kktEv, memory>>
    BY DEF AicRound
  <1>2. Scalar => UNCHANGED <<aicRound, mte2, vpipe, copying, gateEv, outFull, kktEv, free, memory>>
    BY DEF Scalar, PrefetchFirstBatch, WaitReady, BeginBatch, AcquireOutputSlot, ProcessBatch,
         Epilogue, DrainOutputSlot, ScalarOnly
  <1>3. Mte2 => UNCHANGED <<aicRound, scalar, vpipe, copies, copying, outFull, outCopied, ready,
                             out, gm>>
    BY DEF Mte2, StartLoadGate, FinishLoadGate, StartLoadKkt, FinishLoadKkt, ReleaseSlot, Mte2Only
  <1>4. VectorPipe => UNCHANGED <<aicRound, scalar, mte2, copies, copying, outCopied, ready, free,
                                   gate, gm>>
    BY DEF VectorPipe, StartZeroKkt, HandOverKkt, PassRound, TakeGate, FinishZeroTail,
         StartPrepare, FinishPrepare, StartMul, FinishMul, VectorOnly
  <1>5. Mte3 => UNCHANGED <<aicRound, scalar, mte2, vpipe, gateEv, kktEv, ready, free, gate, kkt,
                             out>>
    BY DEF Mte3, StartCopyOut, FinishCopyOut, Mte3Only
  <1> QED BY <1>1, <1>2, <1>3, <1>4, <1>5

\* The scalar unit goes through the batches in order, and counts them.
LEMMA NextScalarOrder ==
  ASSUME IInv, [Next]_vars
  PROVE  ScalarOrder'
  <1> USE DEF place, gateVar, scalar, One
  <1>1. /\ TaskCount \in Nat /\ Progress = 0 .. TaskCount /\ Rounds = 0 .. TaskCount - 1
        /\ BatchCount \in Nat /\ BatchCount > 0
        /\ \A r : r \in Working <=> r \in Rounds /\ Works(r)
    BY Sizes DEF IInv
  <1>2. UNCHANGED work
    BY WorkUnchanged
  <1>3. /\ TaskCount' = TaskCount /\ Progress' = Progress /\ Working' = Working
        /\ BatchCount' = BatchCount
        /\ \A r : /\ FirstHalf(r)' <=> FirstHalf(r)
                  /\ SecondHalf(r)' <=> SecondHalf(r)
                  /\ LastBatch(r)' <=> LastBatch(r)
        /\ \A r, b : BatchIndex(r, b)' = BatchIndex(r, b) /\ (Place(r, b)' <=> Place(r, b))
    BY <1>2, WorkIsFixed
  <1>4. ScalarOrder
    BY DEF IInv
  <1>5. localRound \in Nat /\ batch \in Nat /\ localRound <= TaskCount
    BY <1>1, <1>4 DEF ScalarOrder, Place
  <1>6. /\ BatchIndex(localRound, batch) \in Nat
        /\ BatchIndex(localRound, batch + 1) = BatchIndex(localRound, batch) + 1
        /\ localRound \in Working /\ LastBatch(batch) =>
             BatchIndex(localRound + 1, 0) = BatchIndex(localRound, batch) + 1
        /\ localRound \notin Working => BatchIndex(localRound + 1, 0) = BatchIndex(localRound, 0)
    BY <1>5, IndexStep DEF IInv
  <1>7. Place(localRound, batch)
    BY <1>4 DEF ScalarOrder
  <1>8. FirstHalf(localRound) => localRound \in Working
    BY <1>5, Halves DEF IInv
  <1>9. localRound < TaskCount => Place(localRound + 1, 0)
    BY <1>1, <1>5 DEF Place
  <1>10. localRound \in Working /\ ~LastBatch(batch) => Place(localRound, batch + 1)
    BY <1>1, <1>5, <1>7 DEF Place, LastBatch
  <1>11. CASE PrefetchFirstBatch
    BY <1>1, <1>3, <1>4, <1>5, <1>6, <1>7, <1>11
       DEF PrefetchFirstBatch, ScalarOrder, Go, Prefetch, Ahead, Place
  <1>12. CASE WaitReady
    <2>1. localRound < TaskCount
      BY <1>12 DEF WaitReady
    <2>2. localRound \in Working <=> Works(localRound)
      BY <1>1, <1>5, <2>1
    <2>3. CASE Works(localRound)
      BY <1>1, <1>3, <1>4, <1>5, <1>6, <1>7, <1>12, <2>2, <2>3
         DEF WaitReady, ScalarOrder, Go, Ahead
    <2>4. CASE ~Works(localRound)
      BY <1>1, <1>3, <1>4, <1>5, <1>6, <1>9, <1>12, <2>1, <2>2, <2>4
         DEF WaitReady, ScalarOrder, Go, Ahead
    <2> QED BY <2>3, <2>4
  <1>13. CASE BeginBatch
    BY <1>1, <1>3, <1>4, <1>5, <1>6, <1>7, <1>13
       DEF BeginBatch, ScalarOrder, Go, Prefetch, Ahead
  <1>14. CASE AcquireOutputSlot
    BY <1>1, <1>3, <1>4, <1>5, <1>6, <1>7, <1>8, <1>14
       DEF AcquireOutputSlot, ScalarOrder, Go, Ahead
  <1>15. CASE ProcessBatch
    <2>1. localRound \in Working
      BY <1>4, <1>15 DEF ProcessBatch, ScalarOrder
    <2>2. CASE LastBatch(batch)
      BY <1>1, <1>3, <1>4, <1>5, <1>6, <1>9, <1>15, <2>1, <2>2
         DEF ProcessBatch, ScalarOrder, Go, Prefetch, Ahead
    <2>3. CASE ~LastBatch(batch)
      BY <1>1, <1>3, <1>4, <1>5, <1>6, <1>10, <1>15, <2>1, <2>3
         DEF ProcessBatch, ScalarOrder, Go, Prefetch, Ahead
    <2> QED BY <2>2, <2>3
  <1>16. CASE Epilogue
    BY <1>1, <1>3, <1>4, <1>5, <1>6, <1>7, <1>16 DEF Epilogue, ScalarOrder, Go, Ahead
  <1>17. CASE DrainOutputSlot
    BY <1>1, <1>3, <1>4, <1>5, <1>6, <1>7, <1>17 DEF DrainOutputSlot, ScalarOrder, Go, Ahead
  <1>18. CASE UNCHANGED scalar
    BY <1>3, <1>4, <1>18 DEF ScalarOrder, Ahead
  <1> QED BY <1>11, <1>12, <1>13, <1>14, <1>15, <1>16, <1>17, <1>18, Frames
          DEF Next, Scalar, Finished, vars

LEMMA Progresses ==
  ASSUME IInv
  PROVE  /\ aicRound \in Nat /\ localRound \in Nat /\ mteRound \in Nat /\ vRound \in Nat
         /\ taken \in Nat /\ released \in Nat
         /\ batch \in Nat /\ mteBatch \in Nat /\ vBatch \in Nat
         /\ fetched \in Nat /\ dequeued \in Nat /\ computed \in Nat /\ loaded \in Nat /\ used \in Nat
         /\ acquired \in Nat /\ enqueued \in Nat /\ launched \in Nat /\ produced \in Nat
         /\ pc \in {"top", "fetch", "ready", "batch", "acquire", "prepare", "drain0", "drain1", "done"}
         /\ mtePc \in {"gate", "loadingGate", "kkt", "loadingKkt", "free"}
         /\ vPc \in {"top", "zeroing", "gate", "clearing", "prepare", "preparing", "mul", "multiplying"}
         /\ TaskCount \in Nat /\ copied \in Nat /\ Len(copies) \in Nat
  <1>1. TaskCount \in Nat /\ Progress = 0 .. TaskCount /\ ProgressType
    BY Sizes DEF IInv, TypeOK
  <1>2. copied \in Nat /\ Len(copies) \in Nat
    BY DEF IInv, TypeOK, OutputType, MemoryType, copied
  <1> QED BY <1>1, <1>2 DEF ProgressType

\* The scalar unit never takes anything back ...
LEMMA ScalarGrows ==
  ASSUME IInv, Scalar \/ UNCHANGED scalar
  PROVE  /\ taken <= taken' /\ released <= released'
         /\ fetched <= fetched' /\ dequeued <= dequeued' /\ computed <= computed'
         /\ taken' \in Nat /\ released' \in Nat
         /\ fetched' \in Nat /\ dequeued' \in Nat /\ computed' \in Nat
  <1> USE DEF place, gateVar, scalar
  <1>1. /\ taken \in Nat /\ released \in Nat
        /\ fetched \in Nat /\ dequeued \in Nat /\ computed \in Nat
    BY Progresses
  <1> QED BY <1>1 DEF Scalar, PrefetchFirstBatch, WaitReady, BeginBatch, AcquireOutputSlot,
                      ProcessBatch, Epilogue, DrainOutputSlot, Prefetch

\* ... and stays within the walk.
LEMMA ScalarBounds ==
  ASSUME IInv
  PROVE  /\ released <= taken /\ taken <= TaskCount
         /\ fetched <= BatchIndex(TaskCount, 0)
         /\ computed <= dequeued /\ dequeued <= fetched /\ dequeued <= computed + 1
         /\ fetched <= dequeued + 1 /\ fetched <= computed + BUFFER_NUM
  <1> USE DEF One, BUFFER_NUM
  <1>1. /\ TaskCount \in Nat /\ Progress = 0 .. TaskCount /\ Rounds = 0 .. TaskCount - 1
        /\ BatchCount \in Nat /\ BatchCount > 0 /\ Batches = 0 .. BatchCount - 1
        /\ \A r : r \in Working <=> r \in Rounds /\ Works(r)
    BY Sizes DEF IInv
  <1>2. ScalarOrder
    BY DEF IInv
  <1>3. /\ localRound \in Nat /\ batch \in Nat /\ localRound <= TaskCount
        /\ pc \in {"top", "fetch", "ready", "batch", "acquire", "prepare", "drain0", "drain1", "done"}
    BY <1>1, Progresses, <1>2 DEF ScalarOrder, Place
  <1>4. released <= taken /\ taken <= TaskCount
    BY <1>1, <1>2, <1>3 DEF ScalarOrder, Place
  <1>5. Place(localRound, batch) /\ Place(TaskCount, 0)
    BY <1>1, <1>2 DEF ScalarOrder, Place
  <1>6. /\ BatchIndex(localRound, batch) \in Nat /\ BatchIndex(TaskCount, 0) \in Nat
        /\ BatchIndex(localRound, batch + 1) = BatchIndex(localRound, batch) + 1
    BY <1>1, <1>3, IndexStep DEF IInv
  <1>7. BatchIndex(localRound, batch) <= BatchIndex(TaskCount, 0)
    <2>1. localRound < TaskCount \/ (localRound = TaskCount /\ batch <= 0)
      BY <1>1, <1>3, <1>5 DEF Place
    <2> QED BY <1>5, <2>1, IndexOrder DEF IInv
  <1>8. ASSUME localRound \in Working
        PROVE  BatchIndex(localRound, batch) + 1 <= BatchIndex(TaskCount, 0)
    <2>1. batch \in Batches /\ localRound < TaskCount
      BY <1>1, <1>3, <1>5, <1>8 DEF Place
    <2>2. BatchIndex(localRound, batch) < BatchIndex(TaskCount, 0)
      BY <1>1, <1>5, <1>8, <2>1, IndexOrder DEF IInv
    <2> QED BY <1>6, <2>2
  <1>9. ASSUME localRound \in Working, ~LastBatch(batch)
        PROVE  BatchIndex(localRound, batch) + 2 <= BatchIndex(TaskCount, 0)
    <2>1. batch + 1 \in Batches /\ localRound < TaskCount /\ Place(localRound, batch + 1)
      BY <1>1, <1>3, <1>5, <1>9 DEF Place, LastBatch
    <2>2. BatchIndex(localRound, batch + 1) < BatchIndex(TaskCount, 0)
      BY <1>1, <1>5, <1>9, <2>1, IndexOrder DEF IInv
    <2> QED BY <1>6, <2>2
  <1>10. fetched <= BatchIndex(TaskCount, 0)
    BY <1>2, <1>3, <1>6, <1>7, <1>8, <1>9 DEF ScalarOrder, Ahead
  <1>11. /\ computed <= dequeued /\ dequeued <= fetched /\ dequeued <= computed + 1
         /\ fetched <= dequeued + 1 /\ fetched <= computed + 2
    BY <1>2, <1>3, <1>6 DEF ScalarOrder, Ahead
  <1> QED BY <1>4, <1>10, <1>11

\* PIPE_MTE2 goes through the same places, a round's KKT tile behind its
\* first batch.
LEMMA NextMte2Order ==
  ASSUME IInv, [Next]_vars
  PROVE  Mte2Order'
  <1> USE DEF mte2, One
  <1>1. /\ TaskCount \in Nat /\ Progress = 0 .. TaskCount /\ Rounds = 0 .. TaskCount - 1
        /\ BatchCount \in Nat /\ BatchCount > 0
        /\ \A r : r \in Working <=> r \in Rounds /\ Works(r)
    BY Sizes DEF IInv
  <1>2. UNCHANGED work
    BY WorkUnchanged
  <1>3. /\ Progress' = Progress /\ Working' = Working /\ BatchCount' = BatchCount
        /\ \A r, b : BatchIndex(r, b)' = BatchIndex(r, b) /\ (Place(r, b)' <=> Place(r, b))
    BY <1>2, WorkIsFixed
  <1>4. Mte2Order
    BY DEF IInv
  <1>5. /\ mteRound \in Nat /\ mteBatch \in Nat /\ mteRound <= TaskCount /\ loaded \in Nat
        /\ taken \in Nat /\ released \in Nat /\ fetched \in Nat
        /\ mtePc \in {"gate", "loadingGate", "kkt", "loadingKkt", "free"}
    BY <1>1, <1>4, Progresses DEF Mte2Order, Place
  <1>6. /\ BatchIndex(mteRound, mteBatch) \in Nat
        /\ BatchIndex(mteRound, mteBatch + 1) = BatchIndex(mteRound, mteBatch) + 1
        /\ mteRound \in Working /\ LastBatch(mteBatch) =>
             BatchIndex(mteRound + 1, 0) = BatchIndex(mteRound, mteBatch) + 1
        /\ mteRound \notin Working => BatchIndex(mteRound + 1, 0) = BatchIndex(mteRound, 0)
    BY <1>5, IndexStep DEF IInv
  <1>7. Place(mteRound, mteBatch)
    BY <1>4 DEF Mte2Order
  <1>8. mteRound < TaskCount => Place(mteRound + 1, 0)
    BY <1>1, <1>5 DEF Place
  <1>9. mteRound \in Working /\ ~LastBatch(mteBatch) => Place(mteRound, mteBatch + 1)
    BY <1>1, <1>5, <1>7 DEF Place, LastBatch
  <1>10. released <= taken /\ taken <= TaskCount /\ fetched <= BatchIndex(TaskCount, 0)
    BY ScalarBounds
  <1>11. CASE StartLoadGate
    <2>1. mteRound \in Working
      <3>1. CASE mteRound = TaskCount
        <4>1. mteBatch = 0
          BY <1>1, <1>5, <1>7, <3>1 DEF Place
        <4>2. loaded = BatchIndex(TaskCount, 0)
          BY <1>4, <1>6, <1>11, <3>1, <4>1 DEF Mte2Order, StartLoadGate
        <4> QED BY <1>5, <1>10, <1>11, <4>2 DEF StartLoadGate
      <3>2. CASE mteRound # TaskCount
        BY <1>1, <1>5, <1>11, <3>2 DEF StartLoadGate
      <3> QED BY <3>1, <3>2
    <2> QED BY <1>3, <1>4, <1>5, <1>6, <1>11, <2>1 DEF StartLoadGate, Mte2Only, Mte2Order
  <1>12. CASE FinishLoadGate
    <2>1. mteRound \in Working /\ mteRound < TaskCount /\ loaded = BatchIndex(mteRound, mteBatch)
      BY <1>1, <1>4, <1>6, <1>12 DEF FinishLoadGate, Mte2Order
    <2>2. CASE mteBatch = 0
      BY <1>3, <1>4, <1>5, <1>6, <1>7, <1>12, <2>1, <2>2 DEF FinishLoadGate, Mte2Only, Mte2Order
    <2>3. CASE mteBatch # 0 /\ LastBatch(mteBatch)
      BY <1>1, <1>3, <1>5, <1>6, <1>8, <1>12, <2>1, <2>3 DEF FinishLoadGate, NextLoad, Mte2Only, Mte2Order
    <2>4. CASE mteBatch # 0 /\ ~LastBatch(mteBatch)
      BY <1>1, <1>3, <1>5, <1>6, <1>9, <1>12, <2>1, <2>4 DEF FinishLoadGate, NextLoad, Mte2Only, Mte2Order
    <2> QED BY <2>2, <2>3, <2>4
  <1>13. CASE StartLoadKkt
    <2>1. taken' = taken
      BY <1>13 DEF StartLoadKkt, Mte2Only, scalar
    <2> QED BY <1>3, <1>4, <1>5, <1>6, <1>13, <2>1 DEF StartLoadKkt, Mte2Order
  <1>14. CASE FinishLoadKkt
    <2>1. taken' = taken
      BY <1>14 DEF FinishLoadKkt, Mte2Only, scalar
    <2> QED BY <1>3, <1>4, <1>5, <1>6, <1>14, <2>1 DEF FinishLoadKkt, Mte2Order
  <1>15. CASE ReleaseSlot
    <2>1. mteRound < TaskCount /\ (mteRound \in Working <=> Works(mteRound))
      BY <1>1, <1>5, <1>10, <1>15 DEF ReleaseSlot
    <2>2. mteBatch = 0
      BY <1>1, <1>4, <1>5, <1>7, <1>15, <2>1 DEF ReleaseSlot, Mte2Order, Place
    <2>3. loaded = IF mteRound \in Working THEN BatchIndex(mteRound, 0) + 1 ELSE BatchIndex(mteRound, 0)
      BY <1>4, <1>6, <1>15, <2>1, <2>2 DEF ReleaseSlot, Mte2Order
    <2>4. CASE mteRound \in Working /\ LastBatch(0)
      BY <1>1, <1>3, <1>5, <1>6, <1>8, <1>15, <2>1, <2>2, <2>3, <2>4 DEF ReleaseSlot, NextLoad, Mte2Order
    <2>5. CASE mteRound \in Working /\ ~LastBatch(0)
      BY <1>1, <1>3, <1>5, <1>6, <1>9, <1>15, <2>1, <2>2, <2>3, <2>5 DEF ReleaseSlot, NextLoad, Mte2Order
    <2>6. CASE mteRound \notin Working
      BY <1>1, <1>3, <1>5, <1>6, <1>8, <1>15, <2>1, <2>2, <2>3, <2>6 DEF ReleaseSlot, Mte2Order
    <2> QED BY <2>4, <2>5, <2>6
  <1>16. CASE UNCHANGED mte2 /\ (Scalar \/ UNCHANGED scalar)
    <2>1. taken <= taken' /\ taken' \in Nat
      BY <1>16, ScalarGrows
    <2> QED BY <1>3, <1>4, <1>5, <1>16, <2>1 DEF Mte2Order
  <1> QED BY <1>11, <1>12, <1>13, <1>14, <1>15, <1>16, Frames DEF Next, Mte2, Finished, vars

\* PIPE_V goes through them, too, the second half of a pair in the output of
\* the first.
LEMMA NextVectorOrder ==
  ASSUME IInv, [Next]_vars
  PROVE  VectorOrder'
  <1> USE DEF vpipe, One
  <1>1. /\ TaskCount \in Nat /\ Progress = 0 .. TaskCount /\ Rounds = 0 .. TaskCount - 1
        /\ BatchCount \in Nat /\ BatchCount > 0
        /\ \A r : r \in Working <=> r \in Rounds /\ Works(r)
    BY Sizes DEF IInv
  <1>2. UNCHANGED work
    BY WorkUnchanged
  <1>3. /\ Progress' = Progress /\ Working' = Working /\ BatchCount' = BatchCount
        /\ \A r, b : /\ BatchIndex(r, b)' = BatchIndex(r, b)
                     /\ OutputIndex(r, b)' = OutputIndex(r, b)
                     /\ Place(r, b)' <=> Place(r, b)
    BY <1>2, WorkIsFixed
  <1>4. VectorOrder
    BY DEF IInv
  <1>5. /\ vRound \in Nat /\ vBatch \in Nat /\ vRound <= TaskCount
        /\ used \in Nat /\ produced \in Nat /\ taken \in Nat /\ taken <= TaskCount /\ computed \in Nat
        /\ vPc \in {"top", "zeroing", "gate", "clearing", "prepare", "preparing", "mul", "multiplying"}
    BY <1>1, <1>4, Progresses, ScalarBounds DEF VectorOrder, Place
  <1>6. /\ BatchIndex(vRound, vBatch) \in Nat
        /\ BatchIndex(vRound, vBatch + 1) = BatchIndex(vRound, vBatch) + 1
        /\ vRound \in Working /\ LastBatch(vBatch) =>
             BatchIndex(vRound + 1, 0) = BatchIndex(vRound, vBatch) + 1
        /\ vRound \notin Working => BatchIndex(vRound + 1, 0) = BatchIndex(vRound, 0)
    BY <1>5, IndexStep DEF IInv
  <1>7. /\ OutputIndex(vRound, vBatch) \in Nat
        /\ OutputIndex(vRound, vBatch + 1) = OutputIndex(vRound, vBatch) + 1
        /\ vRound \in Closing /\ LastBatch(vBatch) =>
             OutputIndex(vRound + 1, 0) = OutputIndex(vRound, vBatch) + 1
        /\ vRound \notin Closing => OutputIndex(vRound + 1, 0) = OutputIndex(vRound, 0)
    BY <1>5, IndexStep DEF IInv
  <1>8. /\ vRound \in Closing => vRound \in Working
        /\ vRound \in Working => (vRound \in Closing <=> ~FirstHalf(vRound))
        /\ FirstHalf(vRound) => BatchCount = 1
    BY <1>5, Halves, Sizes DEF IInv
  <1>9. Place(vRound, vBatch)
    BY <1>4 DEF VectorOrder
  <1>10. vRound < TaskCount => Place(vRound + 1, 0)
    BY <1>1, <1>5 DEF Place
  <1>11. vRound \in Working /\ ~LastBatch(vBatch) => Place(vRound, vBatch + 1)
    BY <1>1, <1>5, <1>9 DEF Place, LastBatch
  <1>12. VectorPipe => UNCHANGED <<taken, computed>>
    BY Frames DEF scalar, gateVar
  <1>13. CASE StartZeroKkt \/ HandOverKkt
    <2>1. vPc = "top" => vRound \in Working /\ vRound < taken
      BY <1>1, <1>5, <1>13 DEF StartZeroKkt, HandOverKkt
    <2>2. UNCHANGED <<vRound, vBatch, used, produced>> /\ vPc' \in {"zeroing", "gate"}
      BY <1>13 DEF StartZeroKkt, HandOverKkt
    <2>3. vPc \in {"top", "zeroing"} /\ UNCHANGED <<taken, computed>>
      BY <1>12, <1>13 DEF StartZeroKkt, HandOverKkt, VectorPipe
    <2> QED BY <1>3, <1>4, <1>5, <2>1, <2>2, <2>3 DEF VectorOrder
  <1>14. CASE PassRound
    <2>1. vRound \notin Working /\ vRound < TaskCount /\ vRound \notin Closing
      BY <1>1, <1>5, <1>8, <1>14 DEF PassRound
    <2>2. vBatch = 0 /\ UNCHANGED <<taken, computed>>
      BY <1>4, <1>12, <1>14 DEF PassRound, VectorOrder, VectorPipe
    <2> QED BY <1>1, <1>3, <1>4, <1>5, <1>6, <1>7, <1>10, <1>14, <2>1, <2>2 DEF PassRound, VectorOrder
  <1>15. CASE TakeGate \/ FinishZeroTail \/ StartPrepare \/ FinishPrepare \/ StartMul
    <2>1. UNCHANGED <<vRound, vBatch, used, produced, taken, computed>>
      BY <1>12, <1>15 DEF TakeGate, FinishZeroTail, StartPrepare, FinishPrepare, StartMul, VectorPipe
    <2>2. /\ vPc \in {"gate", "clearing", "prepare", "preparing", "mul"}
          /\ vPc' \in {"clearing", "prepare", "preparing", "mul", "multiplying"}
          /\ vPc' \in {"preparing", "mul", "multiplying"} =>
               vPc \in {"preparing", "mul"} \/ used < computed
      BY <1>15 DEF TakeGate, FinishZeroTail, StartPrepare, FinishPrepare, StartMul
    <2> QED BY <1>3, <1>4, <1>5, <2>1, <2>2 DEF VectorOrder
  <1>16. CASE FinishMul
    <2>1. vRound \in Working /\ vRound < taken /\ vRound < TaskCount
      BY <1>1, <1>4, <1>5, <1>16 DEF FinishMul, VectorOrder
    <2>2. UNCHANGED <<taken, computed>> /\ used' = used + 1 /\ used = BatchIndex(vRound, vBatch)
          /\ produced = OutputIndex(vRound, vBatch)
          /\ produced' = IF vRound \in Closing THEN produced + 1 ELSE produced
      BY <1>4, <1>8, <1>12, <1>16, <2>1 DEF FinishMul, VectorOrder, VectorPipe
    <2>3. vRound \notin Closing => vBatch = 0 /\ LastBatch(vBatch)
      BY <1>1, <1>5, <1>8, <1>9, <2>1 DEF Place, LastBatch
    <2>4. CASE LastBatch(vBatch)
      <3>1. vRound' = vRound + 1 /\ vBatch' = 0 /\ vPc' = "top"
        BY <1>16, <2>4 DEF FinishMul
      <3>2. used' = BatchIndex(vRound + 1, 0) /\ produced' = OutputIndex(vRound + 1, 0)
        BY <1>6, <1>7, <2>1, <2>2, <2>3, <2>4
      <3> QED BY <1>3, <1>10, <2>1, <2>2, <3>1, <3>2 DEF VectorOrder
    <2>5. CASE ~LastBatch(vBatch)
      <3>1. vRound' = vRound /\ vBatch' = vBatch + 1 /\ vPc' = "gate"
        BY <1>16, <2>5 DEF FinishMul
      <3>2. used' = BatchIndex(vRound, vBatch + 1) /\ produced' = OutputIndex(vRound, vBatch + 1)
        BY <1>6, <1>7, <2>1, <2>2, <2>3, <2>5
      <3> QED BY <1>3, <1>11, <2>1, <2>2, <2>5, <3>1, <3>2 DEF VectorOrder
    <2> QED BY <2>4, <2>5
  <1>17. CASE UNCHANGED vpipe /\ (Scalar \/ UNCHANGED scalar)
    <2>1. taken <= taken' /\ taken' \in Nat /\ computed <= computed' /\ computed' \in Nat
      BY <1>17, ScalarGrows
    <2> QED BY <1>3, <1>4, <1>5, <1>17, <2>1 DEF VectorOrder
  <1> QED BY <1>13, <1>14, <1>15, <1>16, <1>17, Frames DEF Next, VectorPipe, Finished, vars

\* The tensors of a queue, and the slots, alternate.
LEMMA Alternate ==
  /\ Buffer = {0, 1} /\ Slot = {0, 1}
  /\ \A n \in Int : /\ BufferOf(n) \in {0, 1} /\ SlotOf(n) = BufferOf(n)
                    /\ BufferOf(n + 1) = 1 - BufferOf(n)
                    /\ BufferOf(n - 1) = 1 - BufferOf(n)
                    /\ BufferOf(n + 2) = BufferOf(n)
                    /\ BufferOf(n - 2) = BufferOf(n)
  BY DEF BufferOf, BUFFER_NUM, Buffer, Slot, SLOT_COUNT, SlotOf

\* The window of at most one enqueued output and two output slots.
LEMMA NextWindow ==
  ASSUME IInv, [Next]_vars
  PROVE  Window'
  <1> USE DEF place, outVar, scalar, One
  <1>1. /\ TaskCount \in Nat /\ Progress = 0 .. TaskCount /\ Rounds = 0 .. TaskCount - 1
        /\ BatchCount \in Nat /\ BatchCount > 0 /\ Batches = 0 .. BatchCount - 1
        /\ \A r : r \in Working <=> r \in Rounds /\ Works(r)
    BY Sizes DEF IInv
  <1>2. UNCHANGED work
    BY WorkUnchanged
  <1>3. /\ TaskCount' = TaskCount
        /\ \A r : /\ FirstHalf(r)' <=> FirstHalf(r)
                  /\ SecondHalf(r)' <=> SecondHalf(r)
        /\ \A r, b : OutputIndex(r, b)' = OutputIndex(r, b) /\ (Names(r, b)' <=> Names(r, b))
    BY <1>2, WorkIsFixed
  <1>4. ScalarOrder /\ Window /\ OutputType
    BY DEF IInv, TypeOK
  <1>5. /\ localRound \in Nat /\ batch \in Nat /\ localRound <= TaskCount
        /\ acquired \in Nat /\ enqueued \in Nat /\ launched \in Nat
        /\ pc \in {"top", "fetch", "ready", "batch", "acquire", "prepare", "drain0", "drain1", "done"}
    BY <1>1, <1>4, Progresses DEF ScalarOrder, Place
  <1>6. /\ OutputIndex(localRound, batch) \in Nat
        /\ OutputIndex(localRound, batch + 1) = OutputIndex(localRound, batch) + 1
        /\ localRound \in Closing /\ LastBatch(batch) =>
             OutputIndex(localRound + 1, 0) = OutputIndex(localRound, batch) + 1
        /\ localRound \notin Closing => OutputIndex(localRound + 1, 0) = OutputIndex(localRound, 0)
    BY <1>5, IndexStep DEF IInv
  <1>7. /\ FirstHalf(localRound) => localRound \in Working /\ BatchCount = 1 /\ ~SecondHalf(localRound)
        /\ SecondHalf(localRound) => /\ localRound \in Closing /\ localRound \in Working
                                     /\ BatchCount = 1 /\ ~FirstHalf(localRound)
        /\ localRound \in Working => (localRound \in Closing <=> ~FirstHalf(localRound))
        /\ SecondHalf(localRound + 1) <=> FirstHalf(localRound)
    BY <1>5, Halves, Sizes DEF IInv
  <1>8. /\ enqueued = OutputIndex(localRound, batch)
        /\ acquired = enqueued + One(Holding)
        /\ readyOutput # NoOutput <=> enqueued > 0 /\ ~Draining /\ ~SecondHalf(localRound)
        /\ launched = enqueued - One(readyOutput # NoOutput)
        /\ nextOutputSlot = BufferOf(acquired)
    BY <1>4 DEF Window
  <1>9. /\ Buffer = {0, 1} /\ Slot = {0, 1}
        /\ slotBusy \in [{0, 1} -> BOOLEAN] /\ slotBuffer \in [{0, 1} -> {0, 1}]
        /\ outFree \subseteq {0, 1} /\ outSlot \in {0, 1}
    BY <1>4, Alternate DEF OutputType
  <1>10. CASE PrefetchFirstBatch
    <2>1. /\ UNCHANGED <<localRound, batch, outVar, launched, slotBusy, slotBuffer>>
          /\ pc \in {"top", "fetch"} /\ pc' = "ready" /\ (pc = "fetch" <=> FirstHalf(localRound))
      BY <1>10 DEF PrefetchFirstBatch, Go, launch
    <2>2. (Holding' <=> Holding) /\ ~Draining /\ ~Draining' /\ \A s : ~Drained(s) /\ ~Drained(s)'
      BY <1>3, <2>1 DEF Holding, Draining, Drained
    <2>3. \A s : LastOutput(s)' = LastOutput(s)
      BY <2>1 DEF LastOutput
    <2> QED BY <1>3, <1>4, <2>1, <2>2, <2>3 DEF Window

  <1>11. CASE WaitReady
    <2>1. UNCHANGED <<outVar, launched, slotBusy, slotBuffer>> /\ localRound < TaskCount
      BY <1>11 DEF WaitReady, launch
    <2>2. localRound \in Working <=> Works(localRound)
      BY <1>1, <1>5, <2>1
    <2>3. \A s : LastOutput(s)' = LastOutput(s)
      BY <2>1 DEF LastOutput
    <2>4. CASE Works(localRound)
      <3>1. UNCHANGED <<localRound, batch>> /\ pc = "ready" /\ pc' = "batch"
        BY <1>11, <2>4 DEF WaitReady, Go
      <3>2. (Holding' <=> Holding) /\ ~Draining /\ ~Draining' /\ \A s : ~Drained(s) /\ ~Drained(s)'
        BY <1>3, <3>1 DEF Holding, Draining, Drained
      <3> QED BY <1>3, <1>4, <2>1, <2>3, <3>1, <3>2 DEF Window
    <2>5. CASE ~Works(localRound)
      <3>1. localRound' = localRound + 1 /\ batch' = 0 /\ pc = "top" /\ pc' = "top" /\ batch = 0
        BY <1>4, <1>11, <2>5 DEF WaitReady, Go, ScalarOrder
      <3>2. ~FirstHalf(localRound) /\ ~SecondHalf(localRound) /\ ~SecondHalf(localRound + 1)
            /\ localRound \notin Closing
        BY <1>7, <2>2, <2>5 DEF Closing
      <3>3. ~Holding /\ ~Holding' /\ ~Draining /\ ~Draining' /\ \A s : ~Drained(s) /\ ~Drained(s)'
        BY <1>3, <3>1, <3>2 DEF Holding, Draining, Drained
      <3>4. OutputIndex(localRound, batch)' = OutputIndex(localRound, batch)
        BY <1>3, <1>6, <3>1, <3>2
      <3> QED BY <1>3, <1>4, <2>1, <2>3, <3>1, <3>2, <3>3, <3>4 DEF Window
    <2> QED BY <2>4, <2>5
  <1>12. CASE BeginBatch
    <2>1. /\ UNCHANGED <<localRound, batch, outVar, launched, slotBusy, slotBuffer>>
          /\ pc = "batch"
          /\ pc' = IF FirstHalf(localRound) \/ SecondHalf(localRound) THEN "prepare" ELSE "acquire"
      BY <1>12 DEF BeginBatch, Go, launch
    <2>2. (Holding' <=> Holding) /\ ~Draining /\ ~Draining' /\ \A s : ~Drained(s) /\ ~Drained(s)'
      BY <1>3, <2>1 DEF Holding, Draining, Drained
    <2>3. \A s : LastOutput(s)' = LastOutput(s)
      BY <2>1 DEF LastOutput
    <2> QED BY <1>3, <1>4, <2>1, <2>2, <2>3 DEF Window
  <1>13. CASE AcquireOutputSlot
    <2> PICK n \in {0, 1} : n = BufferOf(acquired)
      BY <1>5, Alternate
    <2>1. /\ UNCHANGED <<localRound, batch, enqueued, readyOutput, launched, slotBuffer>>
          /\ acquired' = acquired + 1 /\ nextOutputSlot' = 1 - n /\ outSlot' = n
          /\ outFree' = Returned(n) \ {n}
          /\ slotBusy' = [slotBusy EXCEPT ![n] = FALSE]
      BY <1>8, <1>13 DEF AcquireOutputSlot, Go, Retire, OtherSlot
    <2>2. pc \in {"top", "acquire"} /\ pc' \in {"fetch", "prepare"}
          /\ (pc = "top" => pc' = "fetch" /\ FirstHalf(localRound))
          /\ (pc = "acquire" => pc' = "prepare" /\ ~FirstHalf(localRound) /\ ~SecondHalf(localRound))
      BY <1>4, <1>13 DEF AcquireOutputSlot, Go, ScalarOrder
    <2>3. ~Holding /\ Holding' /\ ~Draining /\ ~Draining' /\ \A s : ~Drained(s) /\ ~Drained(s)'
      BY <1>3, <1>7, <2>1, <2>2 DEF Holding, Draining, Drained
    <2>4. /\ n \in {0, 1} /\ BufferOf(acquired + 1) = 1 - n /\ acquired = enqueued /\ launched <= acquired
          /\ 1 - n \in {0, 1} /\ 1 - n # n
      BY <1>5, <1>8, <2>3, Alternate
    <2>5. /\ LastOutput(n) = acquired - 2 /\ LastOutput(n)' = acquired
          /\ LastOutput(1 - n) = acquired - 1 /\ LastOutput(1 - n)' = acquired - 1
      BY <1>5, <2>1, <2>4 DEF LastOutput
    <2>6. slotBuffer[n] = n
      BY <1>4, <1>9, <2>4 DEF Window
    <2>7. \A s \in Slot :
            /\ slotBuffer'[s] = s
            /\ slotBusy'[s] <=> ~Drained(s)' /\ 0 <= LastOutput(s)' /\ LastOutput(s)' < launched'
      <3> TAKE s \in Slot
      <3>1. s = n \/ s = 1 - n
        BY <1>9, <2>4
      <3>2. slotBuffer'[s] = s
        BY <1>4, <2>1 DEF Window
      <3>3. CASE s = n
        <4>1. ~slotBusy'[s]
          BY <1>9, <2>1, <2>4, <3>3
        <4>2. ~(LastOutput(s)' < launched')
          BY <1>5, <2>1, <2>4, <2>5, <3>3
        <4> QED BY <3>2, <4>1, <4>2
      <3>4. CASE s = 1 - n
        <4>1. slotBusy'[s] <=> slotBusy[s]
          BY <1>9, <2>1, <2>4, <3>4
        <4>2. slotBusy[s] <=> 0 <= LastOutput(s) /\ LastOutput(s) < launched
          BY <1>4, <2>3 DEF Window
        <4>3. LastOutput(s)' = LastOutput(s) /\ launched' = launched
          BY <2>1, <2>5, <3>4
        <4> QED BY <2>3, <3>2, <4>1, <4>2, <4>3
      <3> QED BY <3>1, <3>3, <3>4
    <2>8. \A s \in Slot : s \in outFree' <=> Drained(s)' \/ LastOutput(s)' < 0
      <3> TAKE s \in Slot
      <3>1. s = n \/ s = 1 - n
        BY <1>9, <2>4
      <3>2. CASE s = n
        BY <1>5, <2>1, <2>3, <2>5, <3>2
      <3>3. CASE s = 1 - n
        <4>1. s \in outFree' <=> s \in outFree
          BY <2>1, <2>4, <2>6, <3>3 DEF Returned
        <4>2. s \in outFree <=> LastOutput(s) < 0
          BY <1>4, <2>3 DEF Window
        <4> QED BY <2>3, <2>5, <3>3, <4>1, <4>2
      <3> QED BY <3>1, <3>2, <3>3
    <2>9. outSlot' = BufferOf(enqueued') /\ nextOutputSlot' = BufferOf(acquired')
      BY <2>1, <2>4
    <2> QED BY <1>3, <1>4, <1>5, <1>8, <2>1, <2>3, <2>4, <2>7, <2>8, <2>9 DEF Window
  <1>14. CASE ProcessBatch
    <2>1. /\ localRound \in Working /\ pc = "prepare" /\ Holding /\ ~Draining /\ \A s : ~Drained(s)
          /\ acquired = enqueued + 1 /\ batch \in Batches
      BY <1>1, <1>4, <1>5, <1>8, <1>14
         DEF ProcessBatch, ScalarOrder, Holding, Draining, Drained, Place
    <2>2. /\ UNCHANGED <<acquired, outFree, outSlot, nextOutputSlot>>
          /\ enqueued' = IF localRound \in Closing THEN enqueued + 1 ELSE enqueued
          /\ readyOutput' = IF localRound \notin Closing THEN NoOutput
                            ELSE [slot |-> outSlot, dest |-> Destination(localRound, batch)]
      BY <1>7, <1>14, <2>1 DEF ProcessBatch
    <2>3. launched' = enqueued
      BY <1>5, <1>8, <1>14 DEF ProcessBatch, LaunchReadyOutput, launch
    <2>4. /\ enqueued' = OutputIndex(localRound', batch')
          /\ SecondHalf(localRound') <=> localRound \notin Closing
          /\ Holding' <=> localRound \notin Closing
          /\ ~Draining' /\ \A s : ~Drained(s)'
      <3>1. CASE LastBatch(batch)
        <4>1. localRound' = localRound + 1 /\ batch' = 0 /\ pc' = "top"
          BY <1>14, <3>1 DEF ProcessBatch, Go
        <4>2. localRound \notin Closing => batch = 0
          BY <1>1, <1>7, <2>1
        <4>3. enqueued' = OutputIndex(localRound + 1, 0)
          BY <1>6, <1>8, <2>1, <2>2, <3>1, <4>2
        <4>4. SecondHalf(localRound + 1) <=> localRound \notin Closing
          BY <1>7, <2>1
        <4> QED BY <1>3, <4>1, <4>3, <4>4 DEF Holding, Draining, Drained
      <3>2. CASE ~LastBatch(batch)
        <4>1. localRound' = localRound /\ batch' = batch + 1 /\ pc' = "batch"
          BY <1>14, <3>2 DEF ProcessBatch, Go
        <4>2. BatchCount # 1
          BY <1>1, <1>5, <2>1, <3>2 DEF LastBatch
        <4>3. localRound \in Closing /\ ~FirstHalf(localRound) /\ ~SecondHalf(localRound)
          BY <1>7, <2>1, <4>2
        <4>4. enqueued' = OutputIndex(localRound, batch + 1)
          BY <1>6, <1>8, <2>2, <4>3
        <4> QED BY <1>3, <4>1, <4>3, <4>4 DEF Holding, Draining, Drained
      <3> QED BY <3>1, <3>2
    <2>5. readyOutput' # NoOutput <=> localRound \in Closing
      <3>1. [slot |-> outSlot, dest |-> Destination(localRound, batch)] # NoOutput
        BY <1>9 DEF NoOutput, NoSlot
      <3> QED BY <2>2, <3>1
    <2>6. outSlot = BufferOf(enqueued)
      BY <1>4, <2>1 DEF Window
    <2>7. readyOutput' # NoOutput =>
            readyOutput'.slot = BufferOf(launched') /\ Names(readyOutput'.dest, launched')
      <3>1. localRound \in Closing => Names(Destination(localRound, batch), enqueued)
        BY <1>8, <2>1 DEF Names
      <3> QED BY <2>2, <2>3, <2>5, <2>6, <3>1
    <2>8. \A s : LastOutput(s)' = LastOutput(s)
      BY <2>2 DEF LastOutput
    <2>9. \A s \in Slot :
            /\ slotBuffer'[s] = s
            /\ slotBusy'[s] <=> 0 <= LastOutput(s) /\ LastOutput(s) < launched'
      <3>0. \A s \in Slot : slotBuffer[s] = s
        BY <1>4 DEF Window
      <3>1. CASE readyOutput = NoOutput
        <4>1. UNCHANGED <<slotBusy, slotBuffer, launched>>
          BY <1>14, <3>1 DEF ProcessBatch, LaunchReadyOutput, launch
        <4> QED BY <1>4, <2>1, <3>0, <4>1 DEF Window
      <3>2. CASE readyOutput # NoOutput
        <4> DEFINE n == BufferOf(launched)
        <4>1. launched = acquired - 2 /\ 0 <= launched
          BY <1>5, <1>8, <2>1, <3>2
        <4>2. n \in {0, 1} /\ n = BufferOf(acquired)
          BY <1>5, <4>1, Alternate
        <4>3. /\ slotBuffer' = [slotBuffer EXCEPT ![n] = n]
              /\ slotBusy' = [slotBusy EXCEPT ![n] = TRUE]
          BY <1>4, <1>14, <3>2 DEF ProcessBatch, LaunchReadyOutput, Window
        <4>4. LastOutput(n) = launched /\ LastOutput(1 - n) = launched + 1
          BY <1>5, <4>1, <4>2 DEF LastOutput
        <4>5. launched' = launched + 1
          BY <1>14, <3>2 DEF ProcessBatch, LaunchReadyOutput
        <4> HIDE DEF n
        <4> TAKE s \in Slot
        <4>6. slotBuffer'[s] = s
          BY <1>9, <3>0, <4>2, <4>3
        <4>7. CASE s = n
          BY <1>5, <1>9, <4>1, <4>2, <4>3, <4>4, <4>5, <4>6, <4>7
        <4>8. CASE s = 1 - n
          <5>1. slotBusy'[s] <=> slotBusy[s]
            BY <1>9, <4>2, <4>3, <4>8
          <5>2. slotBusy[s] <=> 0 <= LastOutput(s) /\ LastOutput(s) < launched
            BY <1>4, <2>1 DEF Window
          <5>3. ~(LastOutput(s) < launched) /\ ~(LastOutput(s) < launched')
            BY <1>5, <4>4, <4>5, <4>8
          <5> QED BY <4>6, <5>1, <5>2, <5>3
        <4> QED BY <1>9, <4>2, <4>7, <4>8
      <3> QED BY <3>1, <3>2
    <2>10. \A s \in Slot : s \in outFree' <=> LastOutput(s) < 0
      BY <1>4, <2>1, <2>2 DEF Window
    <2>11. launched' = enqueued' - One(readyOutput' # NoOutput) /\ acquired' = enqueued' + One(Holding')
      BY <1>5, <2>1, <2>2, <2>3, <2>4, <2>5
    <2>12. Holding' => outSlot' = BufferOf(enqueued')
      BY <2>2, <2>4, <2>6
    <2>13. readyOutput' # NoOutput <=> enqueued' > 0 /\ ~Draining' /\ ~SecondHalf(localRound')
      BY <1>5, <2>2, <2>4, <2>5
    <2>14. nextOutputSlot' = BufferOf(acquired')
      BY <1>8, <2>2
    <2>15. /\ OutputIndex(localRound, batch)' = OutputIndex(localRound', batch')
           /\ SecondHalf(localRound)' <=> SecondHalf(localRound')
           /\ \A d, k : Names(d, k)' <=> Names(d, k)
      BY <1>3
    <2> QED BY <2>4, <2>7, <2>8, <2>9, <2>10, <2>11, <2>12, <2>13, <2>14, <2>15 DEF Window
  <1>15. CASE Epilogue
    <2>1. /\ localRound = TaskCount /\ pc = "top" /\ pc' = "drain0" /\ UNCHANGED <<localRound, batch>>
          /\ UNCHANGED <<acquired, enqueued, outFree, outSlot, nextOutputSlot>>
          /\ readyOutput' = NoOutput
      BY <1>15 DEF Epilogue, Go
    <2>2. localRound \notin Working /\ ~FirstHalf(localRound) /\ ~SecondHalf(localRound)
      BY <1>1, <1>5, <1>7, <2>1
    <2>3. /\ ~Holding /\ ~Holding' /\ ~Draining /\ Draining'
          /\ \A s : ~Drained(s) /\ ~Drained(s)'
      BY <1>3, <2>1, <2>2 DEF Holding, Draining, Drained
    <2>4. launched' = enqueued /\ acquired = enqueued
      BY <1>5, <1>8, <1>15, <2>3 DEF Epilogue, LaunchReadyOutput, launch
    <2>5. \A s : LastOutput(s)' = LastOutput(s)
      BY <2>1 DEF LastOutput
    <2>6. \A s \in Slot :
            /\ slotBuffer'[s] = s
            /\ slotBusy'[s] <=> 0 <= LastOutput(s) /\ LastOutput(s) < launched'
      <3>0. \A s \in Slot : slotBuffer[s] = s
        BY <1>4 DEF Window
      <3>1. CASE readyOutput = NoOutput
        <4>1. UNCHANGED <<slotBusy, slotBuffer, launched>>
          BY <1>15, <3>1 DEF Epilogue, LaunchReadyOutput, launch
        <4> QED BY <1>4, <2>3, <3>0, <4>1 DEF Window
      <3>2. CASE readyOutput # NoOutput
        <4> DEFINE n == BufferOf(launched)
        <4>1. launched = acquired - 1 /\ 0 <= launched
          BY <1>5, <1>8, <2>4, <3>2
        <4>2. n \in {0, 1} /\ n = 1 - BufferOf(acquired) /\ BufferOf(acquired) \in {0, 1}
          BY <1>5, <4>1, Alternate
        <4>3. /\ slotBuffer' = [slotBuffer EXCEPT ![n] = n]
              /\ slotBusy' = [slotBusy EXCEPT ![n] = TRUE]
          BY <1>4, <1>15, <3>2 DEF Epilogue, LaunchReadyOutput, Window
        <4>4. LastOutput(n) = launched /\ LastOutput(1 - n) = launched - 1
          BY <1>5, <4>1, <4>2 DEF LastOutput
        <4>5. launched' = launched + 1
          BY <1>15, <3>2 DEF Epilogue, LaunchReadyOutput
        <4> HIDE DEF n
        <4> TAKE s \in Slot
        <4>6. slotBuffer'[s] = s
          BY <1>9, <3>0, <4>2, <4>3
        <4>7. CASE s = n
          BY <1>5, <1>9, <4>1, <4>2, <4>3, <4>4, <4>5, <4>6, <4>7
        <4>8. CASE s = 1 - n
          <5>1. slotBusy'[s] <=> slotBusy[s]
            BY <1>9, <4>2, <4>3, <4>8
          <5>2. slotBusy[s] <=> 0 <= LastOutput(s) /\ LastOutput(s) < launched
            BY <1>4, <2>3 DEF Window
          <5>3. LastOutput(s) < launched /\ LastOutput(s) < launched'
            BY <1>5, <4>4, <4>5, <4>8
          <5> QED BY <4>6, <5>1, <5>2, <5>3
        <4> QED BY <1>9, <4>2, <4>7, <4>8
      <3> QED BY <3>1, <3>2
    <2>7. \A s \in Slot : s \in outFree' <=> LastOutput(s) < 0
      BY <1>4, <2>1, <2>3 DEF Window
    <2> QED BY <1>3, <1>5, <1>8, <2>1, <2>3, <2>4, <2>5, <2>6, <2>7 DEF Window
  <1>16. CASE DrainOutputSlot
    <2> DEFINE n == IF pc = "drain0" THEN 0 ELSE 1
    <2>1. /\ UNCHANGED <<localRound, batch, acquired, enqueued, outSlot, nextOutputSlot, readyOutput,
                         launched, slotBuffer>>
          /\ pc \in {"drain0", "drain1"} /\ pc' = IF pc = "drain0" THEN "drain1" ELSE "done"
          /\ outFree' = Returned(n)
          /\ slotBusy' = [slotBusy EXCEPT ![n] = FALSE]
      BY <1>16 DEF DrainOutputSlot, Go, Retire
    <2>2. localRound = TaskCount /\ localRound \notin Working /\ ~FirstHalf(localRound)
          /\ ~SecondHalf(localRound)
      BY <1>1, <1>4, <1>5, <1>7, <2>1 DEF ScalarOrder
    <2>3. /\ ~Holding /\ ~Holding' /\ Draining /\ Draining'
          /\ \A s \in {0, 1} : (Drained(s)' <=> s = n \/ Drained(s)) /\ ~Drained(n)
      BY <1>3, <2>1, <2>2 DEF Holding, Draining, Drained
    <2>4. launched = acquired /\ n \in {0, 1}
      BY <1>5, <1>8, <2>3
    <2>5. \A s : LastOutput(s)' = LastOutput(s)
      BY <2>1 DEF LastOutput
    <2>6. \A s : LastOutput(s) < launched
      BY <1>5, <2>4 DEF LastOutput
    <2> HIDE DEF n
    <2>7. \A s \in Slot :
            /\ slotBuffer[s] = s
            /\ slotBusy[s] <=> ~Drained(s) /\ 0 <= LastOutput(s)
            /\ s \in outFree <=> Drained(s) \/ LastOutput(s) < 0
      BY <1>4, <2>6 DEF Window
    <2>8. \A s \in Slot : slotBusy'[s] <=> ~Drained(s)' /\ 0 <= LastOutput(s)
      <3> TAKE s \in Slot
      <3>1. slotBusy'[s] = IF s = n THEN FALSE ELSE slotBusy[s]
        BY <1>9, <2>1
      <3>2. Drained(s)' <=> s = n \/ Drained(s)
        BY <1>9, <2>3
      <3> QED BY <2>7, <3>1, <3>2
    <2>9. \A s \in Slot : s \in outFree' <=> Drained(s)' \/ LastOutput(s) < 0
      <3> TAKE s \in Slot
      <3>1. Drained(s)' <=> s = n \/ Drained(s)
        BY <1>9, <2>3
      <3>2. slotBuffer[n] = n /\ n \in Slot
        BY <1>9, <2>4, <2>7
      <3>3. s \in outFree' <=> s \in outFree \/ (slotBusy[n] /\ s = n)
        BY <2>1, <3>2 DEF Returned
      <3>4. LastOutput(n) \in Int
        BY <1>5 DEF LastOutput
      <3> QED BY <2>3, <2>4, <2>7, <3>1, <3>2, <3>3, <3>4
    <2> QED BY <1>3, <1>4, <2>1, <2>3, <2>5, <2>6, <2>7, <2>8, <2>9 DEF Window
  <1>17. CASE UNCHANGED scalar
    <2>1. /\ Holding' <=> Holding
          /\ Draining' <=> Draining
          /\ \A s : (Drained(s)' <=> Drained(s)) /\ LastOutput(s)' = LastOutput(s)
      BY <1>3, <1>17 DEF Holding, Draining, Drained, LastOutput
    <2> QED BY <1>3, <1>4, <1>17, <2>1 DEF Window
  <1> QED BY <1>10, <1>11, <1>12, <1>13, <1>14, <1>15, <1>16, <1>17, Frames
          DEF Next, Scalar, Finished, vars

\* What PIPE_V computes has an output by then.
LEMMA Lag ==
  ASSUME IInv, used < computed, vRound \in Working
  PROVE  produced < acquired
  <1> USE DEF One
  <1>1. /\ used = BatchIndex(vRound, vBatch) /\ produced = OutputIndex(vRound, vBatch)
        /\ computed = BatchIndex(localRound, batch) /\ enqueued = OutputIndex(localRound, batch)
        /\ acquired = enqueued + One(Holding)
        /\ Place(vRound, vBatch) /\ Place(localRound, batch)
    BY DEF IInv, VectorOrder, ScalarOrder, Window
  <1>2. /\ TaskCount \in Nat /\ Progress = 0 .. TaskCount /\ Rounds = 0 .. TaskCount - 1
        /\ BatchCount \in Nat /\ BatchCount > 0 /\ Batches = 0 .. BatchCount - 1
        /\ \A r : r \in Working <=> r \in Rounds /\ Works(r)
    BY Sizes DEF IInv
  <1>3. /\ vRound \in Nat /\ vBatch \in Nat /\ localRound \in Nat /\ batch \in Nat
        /\ produced \in Nat /\ enqueued \in Nat /\ acquired \in Nat
        /\ localRound <= TaskCount
    BY <1>1, <1>2, Progresses DEF Place
  <1>4. vRound < localRound \/ (vRound = localRound /\ vBatch < batch)
    BY <1>1, IndexBefore DEF IInv
  <1>5. CASE vRound \in Closing
    <2>1. vBatch \in Batches
      BY <1>1, <1>2, <1>3 DEF Place
    <2>2. OutputIndex(vRound, vBatch) < OutputIndex(localRound, batch)
      BY <1>1, <1>3, <1>4, <1>5, <2>1, IndexOrder DEF IInv, Closing
    <2> QED BY <1>1, <1>3, <2>2
  <1>6. CASE vRound \notin Closing
    <2>1. FirstHalf(vRound) /\ BatchCount = 1 /\ SecondHalf(vRound + 1)
      BY <1>3, <1>6, Halves DEF IInv
    <2>2. vBatch = 0 /\ vRound < localRound
      BY <1>1, <1>2, <1>3, <1>4, <2>1 DEF Place
    <2>3. vRound + 1 \in Closing /\ vRound + 1 \in Nat /\ vRound + 1 \in Working
      BY <1>3, <2>1, Halves DEF IInv, Closing
    <2>4. OutputIndex(vRound + 1, 0) = produced
      BY <1>1, <1>3, <1>6, <2>2, IndexStep DEF IInv
    <2>5. CASE localRound = vRound + 1
      <3>1. Holding /\ batch = 0
        BY <1>1, <1>2, <1>3, <2>1, <2>5 DEF Holding, Place
      <3> QED BY <1>1, <1>3, <2>4, <2>5, <3>1
    <2>6. CASE localRound # vRound + 1
      <3>1. vRound + 1 < localRound /\ Place(vRound + 1, 0) /\ 0 \in Batches
        BY <1>2, <1>3, <2>2, <2>3, <2>6 DEF Place
      <3>2. OutputIndex(vRound + 1, 0) < OutputIndex(localRound, batch)
        BY <1>1, <2>3, <3>1, IndexOrder DEF IInv
      <3> QED BY <1>1, <1>3, <2>4, <3>2
    <2> QED BY <2>5, <2>6
  <1> QED BY <1>5, <1>6

\* No pipe overtakes the one it depends on, or runs away from the one that
\* frees its buffers.
LEMMA NextOrder ==
  ASSUME IInv, [Next]_vars
  PROVE  Order'
  <1> USE DEF One, BUFFER_NUM, SLOT_COUNT
  <1>1. /\ Order /\ Place(mteRound, mteBatch) /\ Copies
        /\ mtePc \in {"kkt", "loadingKkt", "free"} => mteBatch = 0
        /\ taken = localRound + One(pc \in {"batch", "acquire", "prepare"})
        /\ pc \in {"top", "ready"} => batch = 0
    BY DEF IInv, ScalarOrder, Mte2Order
  <1>2. /\ aicRound \in Nat /\ mteRound \in Nat /\ vRound \in Nat
        /\ taken \in Nat /\ released \in Nat /\ mteBatch \in Nat /\ localRound \in Nat
        /\ fetched \in Nat /\ dequeued \in Nat /\ loaded \in Nat /\ used \in Nat /\ produced \in Nat
        /\ copied \in Nat /\ copying \in BOOLEAN
    BY Progresses DEF IInv, TypeOK, OutputType
  <1>3. CASE AicRound
    <2>1. aicRound' = aicRound + 1 /\ UNCHANGED <<scalar, mte2, vpipe, copying, gm>>
      BY <1>3 DEF AicRound, memory
    <2>2. aicRound + 1 <= freed + 2
      <3>1. CASE aicRound >= 2
        <4>1. free[SlotOf(aicRound)] > 0
          BY <1>3, <3>1 DEF AicRound
        <4>2. SlotOf(aicRound) \in Slot /\ SlotOf(aicRound) # SlotOf(aicRound - 1)
          BY <1>2, Alternate
        <4>3. PICK r \in {aicRound - 1, aicRound - 2} : r < freed /\ SlotOf(r) = SlotOf(aicRound)
          BY <4>1, <4>2 DEF IInv, FreeCount
        <4> QED BY <1>2, <4>2, <4>3 DEF freed
      <3>2. CASE ~(aicRound >= 2)
        BY <1>2, <3>2 DEF freed
      <3> QED BY <3>1, <3>2
    <2> QED BY <1>1, <1>2, <2>1, <2>2
            DEF Order, freed, useBegun, loadBegun, copyBegun, copied, scalar, gateVar, mte2, vpipe
  <1>4. CASE Scalar
    <2>1. UNCHANGED <<aicRound, mte2, vpipe, copying, gm>>
      BY <1>4, Frames DEF memory
    <2>2. /\ taken <= taken' /\ released <= released' /\ fetched <= fetched' /\ dequeued <= dequeued'
          /\ taken' \in Nat /\ released' \in Nat /\ fetched' \in Nat /\ dequeued' \in Nat
      BY <1>4, ScalarGrows
    <2>3. taken' <= aicRound
      <3>1. CASE WaitReady
        <4>1. taken' = taken + 1 /\ ready[SlotOf(localRound)] > 0 /\ taken = localRound
          BY <1>1, <1>2, <3>1 DEF WaitReady
        <4>2. SlotOf(taken) \in Slot
          BY <1>2, Alternate
        <4>3. Counted(taken, aicRound, SlotOf(taken))
          BY <4>1, <4>2 DEF IInv, ReadyCount
        <4> QED BY <1>2, <4>1, <4>3 DEF Counted
      <3>2. CASE taken' = taken
        BY <1>1, <3>2 DEF Order
      <3> QED BY <1>4, <3>1, <3>2
              DEF Scalar, PrefetchFirstBatch, BeginBatch, AcquireOutputSlot, ProcessBatch,
                  Epilogue, DrainOutputSlot
    <2> QED BY <1>1, <1>2, <2>1, <2>2, <2>3
            DEF Order, freed, useBegun, loadBegun, copyBegun, copied, mte2, vpipe
  <1>5. CASE Mte2
    <2>1. UNCHANGED <<aicRound, taken, released, gateVar, vpipe, copying, gm>>
      BY <1>5, Frames DEF scalar
    <2>2. freed' <= released /\ (freed' = freed \/ freed' = freed + 1) /\ freed \in Nat
      <3>1. CASE ReleaseSlot
        <4>1. mteRound < released /\ mteBatch = 0
          BY <1>1, <3>1 DEF ReleaseSlot, Place, Working
        <4>2. freed' = mteRound + 1 /\ freed = mteRound
          BY <1>2, <3>1, <4>1 DEF ReleaseSlot, NextLoad, freed
        <4> QED BY <1>2, <4>1, <4>2 DEF freed
      <3>2. CASE FinishLoadGate
        BY <1>1, <1>2, <3>2 DEF FinishLoadGate, NextLoad, Order, freed
      <3>3. CASE UNCHANGED <<mteRound, mteBatch>>
        BY <1>1, <1>2, <3>3 DEF Order, freed
      <3> QED BY <1>5, <3>1, <3>2, <3>3 DEF Mte2, StartLoadGate, StartLoadKkt, FinishLoadKkt
    <2>3. loadBegun' <= fetched /\ loadBegun' <= used + 2 /\ loaded <= loaded' /\ loaded' \in Nat
      <3>1. CASE StartLoadGate
        <4>1. /\ loaded < fetched /\ gateFree[BufferOf(loaded)] > 0 /\ mtePc = "gate"
              /\ loaded' = loaded /\ mtePc' = "loadingGate"
          BY <3>1 DEF StartLoadGate
        <4>2. BufferOf(loaded) \in Buffer /\ BufferOf(loaded - 2) = BufferOf(loaded)
          BY <1>2, Alternate
        <4>3. ~Counted(used, loadBegun, BufferOf(loaded))
          BY <4>1, <4>2 DEF IInv, GateEvents
        <4>4. loadBegun = loaded /\ loadBegun' = loaded + 1 /\ loaded <= used + 2
          BY <1>1, <1>2, <4>1 DEF loadBegun, Order
        <4>5. loaded # used + 2
          BY <1>2, <4>2, <4>3, <4>4 DEF Counted
        <4> QED BY <1>2, <4>1, <4>4, <4>5
      <3>2. CASE FinishLoadGate
        <4>1. loaded' = loaded + 1 /\ mtePc = "loadingGate" /\ mtePc' \in {"kkt", "gate"}
          BY <3>2 DEF FinishLoadGate, NextLoad
        <4> QED BY <1>1, <1>2, <4>1 DEF Order, loadBegun
      <3>3. CASE ~StartLoadGate /\ ~FinishLoadGate
        <4>1. loaded' = loaded /\ (mtePc' = "loadingGate" => mtePc = "loadingGate")
          BY <1>5, <3>3 DEF Mte2, StartLoadKkt, FinishLoadKkt, ReleaseSlot, NextLoad
        <4> QED BY <1>1, <1>2, <4>1 DEF Order, loadBegun
      <3> QED BY <3>1, <3>2, <3>3
    <2>4. aicRound' <= freed' + SLOT_COUNT
      BY <1>1, <1>2, <2>1, <2>2 DEF Order
    <2>5. loadBegun' <= used' + BUFFER_NUM /\ used' = used /\ UNCHANGED <<useBegun, copyBegun, copied, produced>>
      BY <1>2, <2>1, <2>3 DEF vpipe, useBegun, copyBegun, copied
    <2>6. useBegun' <= loaded'
      BY <1>1, <1>2, <2>3, <2>5 DEF Order, useBegun
    <2> QED BY <1>1, <1>2, <2>1, <2>2, <2>3, <2>4, <2>5, <2>6 DEF Order, gateVar, vpipe
  <1>6. CASE VectorPipe
    <2>1. UNCHANGED <<aicRound, taken, released, gateVar, mte2, copying, gm>>
      BY <1>6, Frames DEF scalar
    <2>2. vRound' <= taken
      BY <1>1, <1>2, <1>6, NextVectorOrder
         DEF VectorPipe, StartZeroKkt, HandOverKkt, PassRound, TakeGate, FinishZeroTail,
             StartPrepare, FinishPrepare, StartMul, FinishMul, IInv, VectorOrder, Order
    <2>3. used <= used' /\ produced <= produced' /\ used' \in Nat /\ produced' \in Nat
      BY <1>2, <1>6
         DEF VectorPipe, StartZeroKkt, HandOverKkt, PassRound, TakeGate, FinishZeroTail,
             StartPrepare, FinishPrepare, StartMul, FinishMul
    <2>4. useBegun' <= dequeued /\ useBegun' <= loaded
      <3>1. CASE TakeGate
        <4>1. /\ used < dequeued /\ gateFull[BufferOf(used)] > 0 /\ vPc = "gate"
              /\ used' = used /\ vPc' \in {"clearing", "prepare"}
          BY <3>1 DEF TakeGate
        <4>2. BufferOf(used) \in Buffer
          BY <1>2, Alternate
        <4>3. useBegun = used /\ useBegun' = used + 1
          BY <1>2, <4>1 DEF useBegun
        <4>4. Counted(used, loaded, BufferOf(used))
          BY <4>1, <4>2, <4>3 DEF IInv, GateEvents
        <4> QED BY <1>2, <4>1, <4>3, <4>4 DEF Counted
      <3>2. CASE FinishMul
        <4>1. used' = used + 1 /\ vPc = "multiplying" /\ vPc' \in {"top", "gate"}
          BY <3>2 DEF FinishMul
        <4> QED BY <1>1, <1>2, <4>1 DEF Order, useBegun
      <3>3. CASE ~TakeGate /\ ~FinishMul
        <4>1. used' = used /\ (vPc' \in {"clearing", "prepare", "preparing", "mul", "multiplying"} =>
                               vPc \in {"clearing", "prepare", "preparing", "mul", "multiplying"})
          BY <1>6, <3>3 DEF VectorPipe, StartZeroKkt, HandOverKkt, PassRound, FinishZeroTail,
                            StartPrepare, FinishPrepare, StartMul
        <4> QED BY <1>1, <1>2, <4>1 DEF Order, useBegun
      <3> QED BY <3>1, <3>2, <3>3
    <2>5. /\ UNCHANGED <<aicRound, taken, released, fetched, dequeued, loaded, freed, loadBegun>>
          /\ copyBegun' = copyBegun /\ copyBegun \in Nat /\ loadBegun \in Nat
      BY <1>2, <2>1 DEF freed, loadBegun, copyBegun, copied, gateVar, mte2
    <2>6. loadBegun' <= used' + BUFFER_NUM
      <3>1. loadBegun' = loadBegun /\ loadBegun <= used + BUFFER_NUM
        BY <1>1, <2>5 DEF Order
      <3>2. used' = used \/ used' = used + 1
        BY <1>6 DEF VectorPipe, StartZeroKkt, HandOverKkt, PassRound, TakeGate, FinishZeroTail,
                    StartPrepare, FinishPrepare, StartMul, FinishMul
      <3> QED BY <1>2, <2>5, <3>1, <3>2
    <2>7. /\ vRound' <= taken' /\ freed' <= released'
          /\ useBegun' <= dequeued' /\ loadBegun' <= fetched' /\ useBegun' <= loaded'
          /\ taken' <= aicRound' /\ aicRound' <= freed' + SLOT_COUNT
      BY <1>1, <1>2, <2>2, <2>4, <2>5 DEF Order
    <2>8. copyBegun' <= produced'
      BY <1>1, <1>2, <2>3, <2>5 DEF Order
    <2>9. produced' <= copied' + BUFFER_NUM
      <3>1. copied' = copied /\ produced <= copied + 2
        BY <1>1, <2>1 DEF Order, copied
      <3>2. CASE FinishMul
        <4>1. vRound \in Working /\ used < computed
          BY <3>2 DEF FinishMul, IInv, VectorOrder
        <4>2. produced < acquired /\ acquired \in Nat /\ acquired - 2 <= copied
          BY <1>1, <4>1, Lag, Progresses DEF Copies
        <4>3. produced' = produced \/ produced' = produced + 1
          BY <3>2 DEF FinishMul
        <4> QED BY <1>2, <3>1, <4>2, <4>3
      <3>3. CASE ~FinishMul
        <4>1. produced' = produced
          BY <1>6, <3>3 DEF VectorPipe, StartZeroKkt, HandOverKkt, PassRound, TakeGate,
                            FinishZeroTail, StartPrepare, FinishPrepare, StartMul
        <4> QED BY <3>1, <4>1
      <3> QED BY <3>2, <3>3
    <2> QED BY <2>6, <2>7, <2>8, <2>9 DEF Order
  <1>7. CASE Mte3
    <2>1. UNCHANGED <<aicRound, scalar, mte2, vpipe>>
      BY <1>7, Frames
    <2>2. copyBegun' <= produced
      <3>1. CASE StartCopyOut
        <4>1. /\ ~copying /\ copying' /\ copies # << >> /\ UNCHANGED gm
              /\ outFull[Head(copies).buffer] > 0
          BY <3>1 DEF StartCopyOut
        <4>2. Head(copies).buffer = BufferOf(copied)
          <5>1. copies \in Seq([buffer : Buffer, slot : Slot, dest : SUBSET OwnTiles])
            BY DEF IInv, TypeOK, OutputType
          <5>2. 1 \in DOMAIN copies /\ Head(copies) = copies[1]
            BY <4>1, <5>1
          <5>3. copies[1].buffer = BufferOf(copied + 1 - 1)
            BY <1>1, <5>2 DEF Copies
          <5> QED BY <1>2, <5>2, <5>3
        <4>3. BufferOf(copied) \in Buffer /\ copyBegun = copied
          BY <1>2, <4>1, Alternate DEF copyBegun
        <4>4. Counted(copied, produced, BufferOf(copied))
          BY <4>1, <4>2, <4>3 DEF IInv, OutEvents
        <4>5. copyBegun' = copied + 1
          BY <1>2, <4>1 DEF copyBegun, copied
        <4> QED BY <1>2, <4>4, <4>5 DEF Counted
      <3>2. CASE FinishCopyOut
        <4>1. copying /\ ~copying' /\ gm' = Append(gm, gm'[Len(gm')])
          BY <3>2 DEF FinishCopyOut, IInv, TypeOK, MemoryType
        <4>2. Len(gm') = copied + 1
          BY <3>2 DEF FinishCopyOut, IInv, TypeOK, MemoryType, copied
        <4> QED BY <1>1, <1>2, <4>1, <4>2 DEF Order, copyBegun, copied
      <3> QED BY <1>7, <3>1, <3>2 DEF Mte3
    <2>3. produced <= copied' + BUFFER_NUM
      <3>1. copied' = copied \/ copied' = copied + 1
        BY <1>7 DEF Mte3, StartCopyOut, FinishCopyOut, IInv, TypeOK, MemoryType, copied
      <3> QED BY <1>1, <1>2, <3>1 DEF Order
    <2> QED BY <1>1, <1>2, <2>1, <2>2, <2>3
            DEF Order, freed, useBegun, loadBegun, scalar, gateVar, mte2, vpipe
  <1>8. CASE UNCHANGED vars
    BY <1>1, <1>8 DEF vars, Order, freed, useBegun, loadBegun, copyBegun, copied, scalar,
                      gateVar, mte2, vpipe, memory
  <1> QED BY <1>3, <1>4, <1>5, <1>6, <1>7, <1>8 DEF Next, Finished

LEMMA LastOutputs ==
  ASSUME acquired \in Nat
  PROVE  \A s \in {0, 1} :
           /\ LastOutput(s) \in Int /\ BufferOf(LastOutput(s)) = s
           /\ acquired - 2 <= LastOutput(s) /\ LastOutput(s) < acquired
           /\ LastOutput(BufferOf(acquired)) = acquired - 2
           /\ s # BufferOf(acquired) => LastOutput(s) = acquired - 1
  <1>1. \A s \in {0, 1} : /\ LastOutput(s) \in Int
                          /\ acquired - 2 <= LastOutput(s) /\ LastOutput(s) < acquired
                          /\ LastOutput(BufferOf(acquired)) = acquired - 2
                          /\ s # BufferOf(acquired) => LastOutput(s) = acquired - 1
    BY DEF LastOutput
  <1>2. \A s \in {0, 1} : BufferOf(LastOutput(s)) = s
    <2> TAKE s \in {0, 1}
    <2>1. acquired \in Int /\ BufferOf(acquired) \in {0, 1}
      BY Alternate
    <2>2. CASE s = BufferOf(acquired)
      BY <2>1, <2>2, Alternate DEF LastOutput
    <2>3. CASE s # BufferOf(acquired)
      <3>1. s = 1 - BufferOf(acquired)
        BY <2>1, <2>3
      <3> QED BY <2>1, <2>3, <3>1, Alternate DEF LastOutput
    <2> QED BY <2>2, <2>3
  <1> QED BY <1>1, <1>2

\* Waiting for the copy of a slot's last output.
LEMMA Retired ==
  ASSUME IInv, NEW s \in {0, 1}, Retire(s), UNCHANGED work
  PROVE  /\ busy' = busy - One(slotBusy[s]) /\ busy \in 0 .. 2 /\ busy >= One(slotBusy[s])
         /\ slotBusy'[s] = FALSE /\ slotBusy'[1 - s] = slotBusy[1 - s]
         /\ sharedEvent =>
              /\ outCopied'[0] = outCopied[0] - One(slotBusy[s]) /\ outCopied'[1] = outCopied[1]
              /\ slotBusy[s] => outCopied[0] > 0
         /\ ~sharedEvent =>
              /\ outCopied'[s] = outCopied[s] - One(slotBusy[s])
              /\ outCopied'[1 - s] = outCopied[1 - s]
              /\ slotBusy[s] => outCopied[s] > 0
  <1>1. /\ slotBusy \in [{0, 1} -> BOOLEAN] /\ outCopied \in [{0, 1} -> 0 .. 2]
        /\ Slot = {0, 1} /\ sharedEvent \in BOOLEAN
    BY Alternate DEF IInv, TypeOK, OutputType, EventType, Given
  <1>2. slotBusy' = [slotBusy EXCEPT ![s] = FALSE]
    BY DEF Retire
  <1>3. slotBusy'[s] = FALSE /\ slotBusy'[1 - s] = slotBusy[1 - s]
    <2>1. 1 - s \in {0, 1} /\ s # 1 - s
      OBVIOUS
    <2> QED BY <1>1, <1>2, <2>1
  <1>4. CASE s = 0
    BY <1>1, <1>3, <1>4 DEF busy, One, Retire, SlotEvent
  <1>5. CASE s = 1
    BY <1>1, <1>3, <1>5 DEF busy, One, Retire, SlotEvent
  <1> QED BY <1>3, <1>4, <1>5

\* The delayed copy, once issued.
LEMMA LaunchedCopies ==
  ASSUME IInv, LaunchReadyOutput, UNCHANGED <<work, acquired, copying, gm, outCopied>>,
         ~Draining, pc' \notin {"drain1", "done"}
  PROVE  Copies'
  <1> USE DEF One
  <1>1. /\ launched \in Nat /\ acquired \in Nat /\ enqueued \in Nat /\ copied \in Nat
        /\ Slot = {0, 1} /\ Buffer = {0, 1}
    BY Progresses, Alternate
  <1>2. /\ slotBusy \in [{0, 1} -> BOOLEAN] /\ outCopied \in [{0, 1} -> 0 .. 2]
        /\ copies \in Seq([buffer : Buffer, slot : Slot, dest : SUBSET OwnTiles])
        /\ copying \in BOOLEAN /\ sharedEvent \in BOOLEAN
    BY <1>1 DEF IInv, TypeOK, OutputType, EventType, Given
  <1>3. Copies /\ Window
    BY DEF IInv
  <1>4. /\ \A r, b : Names(r, b)' <=> Names(r, b)
        /\ sharedEvent' = sharedEvent
    BY WorkIsFixed
  <1>5. \A s : ~Drained(s) /\ ~Drained(s)'
    BY DEF Drained, Draining
  <1>6. \A s : LastOutput(s)' = LastOutput(s)
    BY DEF LastOutput
  <1>7. copied' = copied
    BY DEF copied
  <1>8. CASE readyOutput = NoOutput
    <2>1. UNCHANGED <<launched, slotBusy, copies>>
      BY <1>8 DEF LaunchReadyOutput, launch
    <2>2. busy' = busy
      BY <2>1 DEF busy
    <2> QED BY <1>3, <1>4, <1>5, <1>6, <1>7, <2>1, <2>2 DEF Copies
  <1>9. CASE readyOutput # NoOutput
    <2> PICK n \in {0, 1} : n = BufferOf(launched)
      BY <1>1, Alternate
    <2> DEFINE c == [buffer |-> n, slot |-> n, dest |-> readyOutput.dest]
    <2>1. /\ launched' = launched + 1
          /\ copies' = Append(copies, c)
          /\ slotBusy' = [slotBusy EXCEPT ![n] = TRUE]
          /\ Names(readyOutput.dest, launched)
      BY <1>3, <1>9 DEF LaunchReadyOutput, Window
    <2>2. launched = enqueued - 1 /\ (acquired = enqueued \/ acquired = enqueued + 1)
      BY <1>1, <1>3, <1>9 DEF Window
    <2>3. /\ LastOutput(n) = launched /\ LastOutput(n) \in Int /\ LastOutput(1 - n) \in Int
          /\ 1 - n \in {0, 1} /\ 1 - n # n
      <3>1. /\ BufferOf(acquired) \in {0, 1} /\ BufferOf(acquired - 1) = 1 - BufferOf(acquired)
            /\ BufferOf(acquired - 2) = BufferOf(acquired)
        BY <1>1, Alternate
      <3>2. launched = acquired - 1 \/ launched = acquired - 2
        BY <1>1, <2>2
      <3> QED BY <1>1, <3>1, <3>2, LastOutputs
    <2>4. ~slotBusy[n] /\ slotBusy'[n] /\ slotBusy'[1 - n] = slotBusy[1 - n]
      <3>1. ~(LastOutput(n) < launched)
        BY <1>1, <2>3
      <3> QED BY <1>1, <1>2, <1>3, <2>1, <2>3, <3>1 DEF Window
    <2>5. busy' = busy + 1 /\ busy \in 0 .. 2
      <3>1. CASE n = 0
        BY <1>2, <2>4, <3>1 DEF busy
      <3>2. CASE n = 1
        BY <1>2, <2>4, <3>2 DEF busy
      <3> QED BY <3>1, <3>2
    <2>6. Len(copies') = Len(copies) + 1 /\ copies' # << >> /\ Len(copies) \in Nat
      BY <1>1, <1>2, <2>1
    <2>7. launched' = copied' + Len(copies') /\ launched >= copied
      <3>1. launched' = launched + 1 /\ launched = copied + Len(copies)
        BY <1>3, <2>1 DEF Copies
      <3> QED BY <1>1, <1>7, <2>6, <3>1
    <2>8. IF sharedEvent
          THEN outCopied[0] = busy' - Len(copies') /\ outCopied[1] = 0
          ELSE \A s \in Slot : outCopied[s] = One(slotBusy'[s] /\ LastOutput(s) < copied)
      <3>1. CASE sharedEvent
        BY <1>2, <1>3, <2>5, <2>6, <3>1 DEF Copies
      <3>2. CASE ~sharedEvent
        <4> SUFFICES ASSUME NEW s \in Slot
                     PROVE  outCopied[s] = One(slotBusy'[s] /\ LastOutput(s) < copied)
          BY <3>2
        <4>1. outCopied[s] = One(slotBusy[s] /\ LastOutput(s) < copied)
          BY <1>3, <3>2 DEF Copies
        <4>2. s = n \/ s = 1 - n
          BY <1>1, <2>3
        <4>3. CASE s = n
          BY <1>1, <2>3, <2>4, <2>7, <4>1, <4>3
        <4>4. CASE s = 1 - n
          BY <2>4, <4>1, <4>4
        <4> QED BY <4>2, <4>3, <4>4
      <3> QED BY <3>1, <3>2
    <2>9. \A j \in DOMAIN copies' :
            /\ copies'[j].buffer = BufferOf(copied + j - 1) /\ copies'[j].slot = copies'[j].buffer
            /\ Names(copies'[j].dest, copied + j - 1)
      <3> SUFFICES ASSUME NEW j \in DOMAIN copies'
                   PROVE  /\ copies'[j].buffer = BufferOf(copied + j - 1)
                          /\ copies'[j].slot = copies'[j].buffer
                          /\ Names(copies'[j].dest, copied + j - 1)
        OBVIOUS
      <3>0. c \in [buffer : {0, 1}, slot : {0, 1}, dest : {readyOutput.dest}]
        OBVIOUS
      <3> HIDE DEF c
      <3>1. DOMAIN copies = 1 .. Len(copies) /\ j \in 1 .. Len(copies) + 1
        BY <1>2, <2>1
      <3>2. CASE j \in DOMAIN copies
        <4>1. copies'[j] = copies[j]
          BY <1>2, <2>1, <3>1, <3>2
        <4> QED BY <1>3, <3>2, <4>1 DEF Copies
      <3>3. CASE j \notin DOMAIN copies
        <4>1. j = Len(copies) + 1
          BY <2>6, <3>1, <3>3
        <4>2. copies'[j] = c
          BY <1>2, <2>1, <4>1
        <4>3. copied + j - 1 = launched
          BY <1>1, <1>3, <2>6, <4>1 DEF Copies
        <4> QED BY <2>1, <4>2, <4>3 DEF c
      <3> QED BY <3>2, <3>3
    <2> QED BY <1>3, <1>4, <1>5, <1>6, <1>7, <2>6, <2>7, <2>8, <2>9 DEF Copies
  <1> QED BY <1>8, <1>9

\* Copies are issued and completed in the order of the outputs, and what the
\* scalar unit takes for granted of a slot has been copied.
LEMMA NextCopies ==
  ASSUME IInv, [Next]_vars
  PROVE  Copies'
  <1> USE DEF One
  <1>1. /\ launched \in Nat /\ acquired \in Nat /\ enqueued \in Nat /\ copied \in Nat
        /\ Slot = {0, 1} /\ Buffer = {0, 1}
        /\ Len(copies) \in Nat
    BY Progresses, Alternate
  <1>2. /\ slotBusy \in [{0, 1} -> BOOLEAN] /\ outCopied \in [{0, 1} -> 0 .. 2]
        /\ copies \in Seq([buffer : Buffer, slot : Slot, dest : SUBSET OwnTiles])
        /\ copying \in BOOLEAN /\ sharedEvent \in BOOLEAN
        /\ gm \in Seq([dest : SUBSET OwnTiles, tiles : SUBSET TileState])
    BY <1>1 DEF IInv, TypeOK, OutputType, EventType, MemoryType, Given
  <1>3. Copies /\ Window
    BY DEF IInv
  <1>4. UNCHANGED work /\ (\A r, b : Names(r, b)' <=> Names(r, b)) /\ sharedEvent' = sharedEvent
    BY WorkUnchanged, WorkIsFixed
  <1>5. \A s \in {0, 1} : /\ LastOutput(s) \in Int
                          /\ acquired - 2 <= LastOutput(s) /\ LastOutput(s) < acquired
    BY <1>1, LastOutputs
  <1>6. ASSUME UNCHANGED <<acquired, launched, slotBusy, copies, outCopied, gm>>,
               \A s : Drained(s)' <=> Drained(s), copying' => copies # << >>
        PROVE  Copies'
    <2>1. copied' = copied /\ busy' = busy /\ \A s : LastOutput(s)' = LastOutput(s)
      BY <1>6 DEF copied, busy, LastOutput
    <2> QED BY <1>3, <1>4, <1>6, <2>1 DEF Copies
  <1>7. CASE PrefetchFirstBatch \/ WaitReady \/ BeginBatch
    <2>1. UNCHANGED <<acquired, launched, slotBusy, copies, copying, outCopied, gm>>
      BY <1>7 DEF PrefetchFirstBatch, WaitReady, BeginBatch, ScalarOnly, outVar, launch, memory
    <2>2. pc \in {"top", "fetch", "ready", "batch"} /\ pc' \in {"top", "ready", "batch", "acquire", "prepare"}
      BY <1>7 DEF PrefetchFirstBatch, WaitReady, BeginBatch, Go
    <2>3. \A s : Drained(s)' <=> Drained(s)
      BY <2>2 DEF Drained
    <2>4. copying' => copies # << >>
      BY <1>3, <2>1 DEF Copies
    <2> QED BY <1>6, <2>1, <2>3, <2>4
  <1>8. CASE AcquireOutputSlot
    <2> PICK n \in {0, 1} : n = BufferOf(acquired)
      BY <1>1, Alternate
    <2>1. /\ UNCHANGED <<launched, copies, copying, gm>> /\ acquired' = acquired + 1
          /\ Retire(n)
      BY <1>3, <1>8 DEF AcquireOutputSlot, Window, ScalarOnly, memory
    <2>2. ~Holding /\ ~Draining /\ ~SecondHalf(localRound) /\ \A s : ~Drained(s) /\ ~Drained(s)'
      <3>1. /\ pc \in {"top", "acquire"} /\ pc' \in {"fetch", "prepare"}
            /\ pc = "top" => FirstHalf(localRound)
        BY <1>8 DEF AcquireOutputSlot, Go
      <3>2. pc = "acquire" => ~FirstHalf(localRound) /\ ~SecondHalf(localRound)
        BY DEF IInv, ScalarOrder
      <3>3. FirstHalf(localRound) => ~SecondHalf(localRound)
        BY Progresses, Halves DEF IInv
      <3> QED BY <3>1, <3>2, <3>3 DEF Holding, Draining, Drained
    <2>3. /\ acquired = enqueued /\ launched <= acquired /\ acquired - 1 <= launched
          /\ acquired > 0 => launched = acquired - 1
      BY <1>1, <1>3, <2>2 DEF Window
    <2>4. /\ LastOutput(n) = acquired - 2 /\ LastOutput(1 - n) = acquired - 1
          /\ 1 - n \in {0, 1} /\ 1 - n # n
      BY <1>1, LastOutputs
    <2>5. LastOutput(n)' = acquired /\ LastOutput(1 - n)' = acquired - 1
      <3>1. BufferOf(acquired + 1) = 1 - n
        BY <1>1, Alternate
      <3> QED BY <1>1, <2>1, <2>4, <3>1 DEF LastOutput
    <2>6. ~slotBusy[1 - n]
      <3>1. slotBusy[1 - n] => 0 <= LastOutput(1 - n) /\ LastOutput(1 - n) < launched
        BY <1>1, <1>3, <2>4 DEF Window
      <3> QED BY <1>1, <2>3, <2>4, <3>1
    <2>7. slotBusy[n] <=> 0 <= acquired - 2
      <3>1. slotBusy[n] <=> 0 <= LastOutput(n) /\ LastOutput(n) < launched
        BY <1>1, <1>3, <2>2 DEF Window
      <3> QED BY <1>1, <2>3, <2>4, <3>1
    <2>8. slotBusy'[n] = FALSE /\ slotBusy'[1 - n] = FALSE
      <3>1. slotBusy'[n] = FALSE /\ slotBusy'[1 - n] = slotBusy[1 - n]
        BY <1>4, <2>1, Retired
      <3>2. slotBusy[1 - n] = FALSE
        BY <1>2, <2>4, <2>6
      <3> QED BY <3>1, <3>2
    <2>9. busy' = 0 /\ busy = One(slotBusy[n])
      <3>1. CASE n = 0
        BY <2>6, <2>8, <3>1 DEF busy
      <3>2. CASE n = 1
        BY <2>6, <2>8, <3>2 DEF busy
      <3> QED BY <3>1, <3>2
    <2>10. CASE sharedEvent
      <3>1. /\ outCopied[0] = busy - Len(copies) /\ outCopied[1] = 0
            /\ outCopied'[0] = outCopied[0] - One(slotBusy[n]) /\ outCopied'[1] = outCopied[1]
            /\ slotBusy[n] => outCopied[0] > 0
        BY <1>3, <1>4, <2>1, <2>10, Retired DEF Copies
      <3>2. Len(copies) = 0
        BY <1>1, <1>2, <2>9, <3>1
      <3>3. acquired - 1 <= copied
        BY <1>1, <1>3, <2>3, <3>2 DEF Copies
      <3>4. outCopied'[0] = 0 /\ outCopied'[1] = 0
        BY <2>9, <3>1, <3>2
      <3>5. acquired' - 2 <= copied' /\ launched' = copied' + Len(copies')
        <4>1. copied' = copied /\ copied + Len(copies) = launched
          BY <1>3, <2>1 DEF copied, Copies
        <4> QED BY <1>1, <2>1, <3>3, <4>1
      <3>6. copies = << >>
        BY <1>2, <3>2
      <3> QED BY <1>3, <1>4, <2>1, <2>9, <2>10, <3>2, <3>4, <3>5, <3>6 DEF Copies
    <2>11. CASE ~sharedEvent
      <3>1. /\ outCopied[n] = One(slotBusy[n] /\ LastOutput(n) < copied)
            /\ outCopied[1 - n] = One(slotBusy[1 - n] /\ LastOutput(1 - n) < copied)
        BY <1>1, <1>3, <2>4, <2>11 DEF Copies
      <3>2. /\ outCopied'[n] = outCopied[n] - One(slotBusy[n])
            /\ outCopied'[1 - n] = outCopied[1 - n]
            /\ slotBusy[n] => outCopied[n] > 0
        BY <1>4, <2>1, <2>11, Retired
      <3>3. acquired - 1 <= copied
        <4>1. CASE slotBusy[n]
          BY <1>1, <2>4, <3>1, <3>2, <4>1
        <4>2. CASE ~slotBusy[n]
          BY <1>1, <2>7, <4>2
        <4> QED BY <4>1, <4>2
      <3>4. outCopied'[n] = 0 /\ outCopied'[1 - n] = 0
        BY <2>6, <3>1, <3>2
      <3>5. acquired' - 2 <= copied' /\ launched' = copied' + Len(copies') /\ copied' = copied
        <4>1. copied' = copied /\ copied + Len(copies) = launched
          BY <1>3, <2>1 DEF copied, Copies
        <4> QED BY <1>1, <2>1, <3>3, <4>1
      <3>6. \A s \in Slot : outCopied'[s] = 0 /\ slotBusy'[s] = FALSE
        BY <1>1, <2>8, <3>4
      <3> QED BY <1>3, <1>4, <2>1, <2>2, <2>11, <3>5, <3>6 DEF Copies
    <2> QED BY <1>2, <2>10, <2>11
  <1>9. CASE ProcessBatch \/ Epilogue
    <2>1. /\ LaunchReadyOutput /\ UNCHANGED <<acquired, outCopied>>
          /\ pc \in {"prepare", "top"} /\ pc' \in {"top", "batch", "drain0"}
      BY <1>9 DEF ProcessBatch, Epilogue, Go
    <2>2. UNCHANGED <<copying, gm>>
      BY <1>9 DEF ProcessBatch, Epilogue, ScalarOnly, memory
    <2> QED BY <1>4, <2>1, <2>2, LaunchedCopies DEF Draining
  <1>10. CASE DrainOutputSlot
    <2> PICK n \in {0, 1} : n = IF pc = "drain0" THEN 0 ELSE 1
      OBVIOUS
    <2>1. /\ UNCHANGED <<acquired, launched, copies, copying, gm>> /\ Retire(n)
          /\ pc = (IF n = 0 THEN "drain0" ELSE "drain1")
          /\ pc' = (IF n = 0 THEN "drain1" ELSE "done")
      BY <1>10 DEF DrainOutputSlot, Go, ScalarOnly, memory
    <2>2. Draining /\ ~Drained(n) /\ \A s \in {0, 1} : Drained(s)' <=> Drained(s) \/ s = n
      BY <2>1 DEF Drained, Draining
    <2>3. launched = acquired
      <3>1. localRound = TaskCount /\ TaskCount \in Nat
        BY <2>2, Sizes DEF Draining, IInv, ScalarOrder
      <3>2. ~FirstHalf(localRound) /\ ~SecondHalf(localRound)
        <4>1. localRound \notin Working
          BY <3>1, Sizes DEF IInv
        <4> QED BY <3>1, <4>1, Halves DEF IInv, Closing
      <3>3. ~Holding
        BY <2>2, <3>2 DEF Holding, Draining
      <3> QED BY <1>1, <1>3, <2>2, <3>3 DEF Window
    <2>4. 1 - n \in {0, 1} /\ 1 - n # n
      OBVIOUS
    <2>5. slotBusy[n] <=> 0 <= LastOutput(n)
      BY <1>1, <1>3, <1>5, <2>2, <2>3 DEF Window
    <2>6. \A s : LastOutput(s)' = LastOutput(s)
      BY <2>1 DEF LastOutput
    <2>7. copied' = copied /\ launched' = copied' + Len(copies') /\ acquired' - 2 <= copied'
      <3>1. copied' = copied /\ copied + Len(copies) = launched /\ acquired - 2 <= copied
        BY <1>3, <2>1 DEF copied, Copies
      <3> QED BY <2>1, <3>1
    <2>8. slotBusy'[n] = FALSE /\ slotBusy'[1 - n] = slotBusy[1 - n]
      BY <1>4, <2>1, Retired
    <2>9. CASE sharedEvent
      <3>1. outCopied'[0] = busy' - Len(copies') /\ outCopied'[1] = 0
        <4>1. busy' = busy - One(slotBusy[n]) /\ busy \in 0 .. 2
          BY <1>4, <2>1, Retired
        <4>2. outCopied'[0] = outCopied[0] - One(slotBusy[n]) /\ outCopied'[1] = outCopied[1]
          BY <1>4, <2>1, <2>9, Retired
        <4>3. outCopied[0] = busy - Len(copies) /\ outCopied[1] = 0
          BY <1>3, <2>9 DEF Copies
        <4> HIDE DEF One
        <4>4. One(slotBusy[n]) \in {0, 1}
          BY DEF One
        <4> QED BY <1>1, <2>1, <4>1, <4>2, <4>3, <4>4
      <3> QED BY <1>3, <1>4, <2>1, <2>7, <2>9, <3>1 DEF Copies
    <2>10. CASE ~sharedEvent
      <3>1. /\ outCopied[n] = One(slotBusy[n] /\ LastOutput(n) < copied)
            /\ outCopied[1 - n] = One(slotBusy[1 - n] /\ LastOutput(1 - n) < copied)
            /\ Drained(1 - n) => LastOutput(1 - n) < copied
        BY <1>1, <1>3, <2>4, <2>10 DEF Copies
      <3>2. /\ outCopied'[n] = outCopied[n] - One(slotBusy[n])
            /\ outCopied'[1 - n] = outCopied[1 - n]
            /\ slotBusy[n] => outCopied[n] > 0
        BY <1>4, <2>1, <2>10, Retired
      <3>3. LastOutput(n) < copied
        <4>1. CASE slotBusy[n]
          BY <3>1, <3>2, <4>1
        <4>2. CASE ~slotBusy[n]
          BY <1>1, <1>5, <2>5, <4>2
        <4> QED BY <4>1, <4>2
      <3>4. outCopied'[n] = 0
        BY <3>1, <3>2, <3>3
      <3>5. \A s \in Slot : /\ outCopied'[s] = One(slotBusy'[s] /\ LastOutput(s) < copied)
                            /\ Drained(s)' => LastOutput(s) < copied
        <4> TAKE s \in Slot
        <4>1. s = n \/ s = 1 - n
          BY <1>1
        <4>2. CASE s = n
          BY <2>8, <3>3, <3>4, <4>2
        <4>3. CASE s = 1 - n
          BY <2>2, <2>4, <2>8, <3>1, <3>2, <4>3
        <4> QED BY <4>1, <4>2, <4>3
      <3> QED BY <1>3, <1>4, <2>1, <2>6, <2>7, <2>10, <3>5 DEF Copies
    <2> QED BY <1>2, <2>9, <2>10
  <1>11. CASE StartCopyOut
    <2>1. UNCHANGED <<acquired, launched, slotBusy, copies, outCopied, gm, pc>> /\ copies # << >>
      BY <1>11 DEF StartCopyOut, Mte3Only, scalar, outVar, place
    <2>2. \A s : Drained(s)' <=> Drained(s)
      BY <2>1 DEF Drained
    <2> QED BY <1>6, <2>1, <2>2
  <1>12. CASE FinishCopyOut
    <2> DEFINE c == Head(copies)
    <2>1. /\ UNCHANGED <<acquired, launched, slotBusy, pc>> /\ copying /\ copying' = FALSE
          /\ copies' = Tail(copies) /\ Len(gm') = copied + 1
          /\ outCopied' = [outCopied EXCEPT ![SlotEvent(c.slot)] = @ + 1]
      BY <1>2, <1>12 DEF FinishCopyOut, Mte3Only, scalar, outVar, place, copied
    <2>2. copies # << >> /\ c = copies[1] /\ DOMAIN copies = 1 .. Len(copies) /\ Len(copies) > 0
      BY <1>2, <1>3, <2>1 DEF Copies
    <2>3. c.slot = BufferOf(copied)
      <3>1. 1 \in DOMAIN copies
        BY <1>1, <2>2
      <3>2. copies[1].buffer = BufferOf(copied + 1 - 1) /\ copies[1].slot = copies[1].buffer
        BY <1>3, <3>1 DEF Copies
      <3>3. copied + 1 - 1 = copied
        BY <1>1
      <3> QED BY <2>2, <3>2, <3>3
    <2> HIDE DEF c
    <2> PICK n \in {0, 1} : n = BufferOf(copied)
      BY <1>1, Alternate
    <2>4. (\A s : Drained(s)' <=> Drained(s)) /\ (\A s : LastOutput(s)' = LastOutput(s)) /\ busy' = busy
      BY <2>1 DEF Drained, LastOutput, busy
    <2>5. copied < launched /\ launched = copied + Len(copies) /\ acquired - 2 <= copied /\ launched <= acquired
      BY <1>1, <1>3, <2>2 DEF Copies, Window
    <2>6. Len(copies') = Len(copies) - 1 /\ Len(copies) - 1 \in Nat
      BY <1>1, <1>2, <2>1, <2>2
    <2>7. copied' = copied + 1
      BY <2>1 DEF copied
    <2>8. launched' = copied' + Len(copies') /\ acquired' - 2 <= copied'
      <3>1. copied + Len(copies) = (copied + 1) + (Len(copies) - 1) /\ acquired - 2 <= copied + 1
        BY <1>1, <2>5
      <3> QED BY <2>1, <2>5, <2>6, <2>7, <3>1
    <2>9. /\ LastOutput(n) = copied /\ 1 - n \in {0, 1} /\ 1 - n # n
          /\ LastOutput(1 - n) < copied <=> LastOutput(1 - n) < copied + 1
      <3>1. copied = acquired - 1 \/ copied = acquired - 2
        BY <1>1, <2>5
      <3>2. /\ BufferOf(acquired) \in {0, 1} /\ BufferOf(acquired - 1) = 1 - BufferOf(acquired)
            /\ BufferOf(acquired - 2) = BufferOf(acquired)
        <4>1. acquired \in Int
          BY <1>1
        <4> QED BY <4>1, Alternate
      <3> QED BY <1>1, <1>5, <3>1, <3>2, LastOutputs
    <2>10. ASSUME sharedEvent
           PROVE  outCopied'[0] = busy' - Len(copies') /\ outCopied'[1] = 0
      <3>1. outCopied[0] = busy - Len(copies) /\ outCopied[1] = 0
        BY <1>3, <2>10 DEF Copies
      <3>2. outCopied'[0] = outCopied[0] + 1 /\ outCopied'[1] = outCopied[1]
        BY <1>2, <2>1, <2>10 DEF SlotEvent
      <3>3. busy \in 0 .. 2
        BY <1>2 DEF busy
      <3>4. outCopied'[0] = busy - (Len(copies) - 1)
        BY <1>1, <3>1, <3>2, <3>3
      <3> QED BY <1>4, <2>4, <2>6, <2>10, <3>1, <3>2, <3>4
    <2>11. ASSUME ~sharedEvent
           PROVE  \A s \in Slot :
                    /\ outCopied'[s] = One(slotBusy'[s] /\ LastOutput(s)' < copied')
                    /\ Drained(s)' => LastOutput(s)' < copied'
      <3>1. /\ \A s \in Slot : outCopied[s] = One(slotBusy[s] /\ LastOutput(s) < copied)
            /\ \A s \in Slot : Drained(s) => LastOutput(s) < copied
        BY <1>3, <2>11 DEF Copies
      <3>2. outCopied'[n] = outCopied[n] + 1 /\ outCopied'[1 - n] = outCopied[1 - n]
        BY <1>2, <2>1, <2>3, <2>9, <2>11 DEF SlotEvent
      <3>3. slotBusy[n]
        <4>1. ~Drained(n)
          BY <1>1, <2>9, <3>1
        <4> QED BY <1>1, <1>3, <2>5, <2>9, <4>1 DEF Window
      <3>4. outCopied[n] = 0
        BY <1>1, <2>9, <3>1
      <3>5. \A s \in Slot : outCopied'[s] = One(slotBusy[s] /\ LastOutput(s) < copied + 1)
        <4> TAKE s \in Slot
        <4>1. s = n \/ s = 1 - n
          BY <1>1
        <4>2. CASE s = n
          BY <1>1, <2>9, <3>2, <3>3, <3>4, <4>2
        <4>3. CASE s = 1 - n
          BY <1>1, <2>9, <3>1, <3>2, <4>3
        <4> QED BY <4>1, <4>2, <4>3
      <3>6. \A s \in Slot : Drained(s) => LastOutput(s) < copied + 1
        BY <1>1, <1>5, <3>1
      <3> QED BY <1>4, <2>1, <2>4, <2>7, <2>11, <3>5, <3>6
    <2>12. \A j \in DOMAIN copies' :
             /\ copies'[j].buffer = BufferOf(copied' + j - 1) /\ copies'[j].slot = copies'[j].buffer
             /\ Names(copies'[j].dest, copied' + j - 1)
      <3> SUFFICES ASSUME NEW j \in DOMAIN copies'
                   PROVE  /\ copies'[j].buffer = BufferOf(copied' + j - 1)
                          /\ copies'[j].slot = copies'[j].buffer
                          /\ Names(copies'[j].dest, copied' + j - 1)
        OBVIOUS
      <3>1. j + 1 \in DOMAIN copies /\ copies'[j] = copies[j + 1] /\ j \in Nat
        BY <1>2, <2>1, <2>2
      <3>2. copied' + j - 1 = copied + (j + 1) - 1
        BY <1>1, <2>7, <3>1
      <3>3. /\ copies[j + 1].buffer = BufferOf(copied + (j + 1) - 1)
            /\ copies[j + 1].slot = copies[j + 1].buffer
            /\ Names(copies[j + 1].dest, copied + (j + 1) - 1)
        BY <1>3, <3>1 DEF Copies
      <3> QED BY <3>1, <3>2, <3>3
    <2>13. IF sharedEvent'
           THEN outCopied'[0] = busy' - Len(copies') /\ outCopied'[1] = 0
           ELSE \A s \in Slot :
                  /\ outCopied'[s] = One(slotBusy'[s] /\ LastOutput(s)' < copied')
                  /\ Drained(s)' => LastOutput(s)' < copied'
      BY <1>4, <2>10, <2>11
    <2> QED BY <1>4, <2>1, <2>8, <2>12, <2>13 DEF Copies
  <1>13. CASE UNCHANGED <<acquired, launched, slotBusy, copies, copying, outCopied, gm, pc>>
    <2>1. (\A s : Drained(s)' <=> Drained(s)) /\ (copying' => copies # << >>)
      BY <1>3, <1>13 DEF Drained, Copies
    <2> QED BY <1>6, <1>13, <2>1
  <1>14. AicRound \/ Mte2 \/ VectorPipe \/ UNCHANGED vars =>
           UNCHANGED <<acquired, launched, slotBusy, copies, copying, outCopied, gm, pc>>
    BY Frames DEF vars, scalar, outVar, place, memory
  <1> QED BY <1>7, <1>8, <1>9, <1>10, <1>11, <1>12, <1>13, <1>14 DEF Next, Scalar, Mte3, Finished

-----------------------------------------------------------------------------
(* Events *)

LEMMA CountedLast ==
  ASSUME NEW f \in Nat, NEW l \in Nat, f <= l, l < f + 2
  PROVE  /\ ~Counted(f, l, BufferOf(l)) /\ Counted(f, l + 1, BufferOf(l))
         /\ \A x \in {0, 1} : x # BufferOf(l) => (Counted(f, l + 1, x) <=> Counted(f, l, x))
  <1>1. BufferOf(f) \in {0, 1} /\ BufferOf(f + 1) = 1 - BufferOf(f)
    BY Alternate
  <1>2. l = f \/ l = f + 1
    OBVIOUS
  <1> QED BY <1>1, <1>2 DEF Counted

LEMMA CountedFirst ==
  ASSUME NEW f \in Nat, NEW l \in Nat, f < l, l <= f + 2
  PROVE  /\ Counted(f, l, BufferOf(f)) /\ ~Counted(f + 1, l, BufferOf(f))
         /\ \A x \in {0, 1} : x # BufferOf(f) => (Counted(f + 1, l, x) <=> Counted(f, l, x))
  <1>1. /\ BufferOf(f) \in {0, 1} /\ BufferOf(f + 1) = 1 - BufferOf(f)
        /\ BufferOf((f + 1) + 1) = BufferOf(f)
    BY Alternate
  <1>2. l = f + 1 \/ l = f + 2
    OBVIOUS
  <1> QED BY <1>1, <1>2 DEF Counted

LEMMA Bounds ==
  ASSUME IInv
  PROVE  /\ useBegun \in Nat /\ loadBegun \in Nat /\ copyBegun \in Nat /\ freed \in Nat /\ copied \in Nat
         /\ used <= useBegun /\ useBegun <= used + 1 /\ useBegun <= loaded /\ useBegun <= dequeued
         /\ loaded <= loadBegun /\ loadBegun <= loaded + 1 /\ loadBegun <= used + 2
         /\ loadBegun <= fetched
         /\ copied <= copyBegun /\ copyBegun <= copied + 1
         /\ copyBegun <= produced /\ produced <= copied + 2
         /\ mteRound <= freed /\ freed <= mteRound + 1 /\ freed <= released
         /\ vRound <= taken /\ taken <= aicRound /\ aicRound <= freed + 2
         /\ released <= taken
  <1>1. /\ used \in Nat /\ loaded \in Nat /\ mteRound \in Nat /\ mteBatch \in Nat /\ copied \in Nat
    BY Progresses
  <1>2. Order
    BY DEF IInv
  <1> QED BY <1>1, <1>2, ScalarBounds
          DEF Order, useBegun, loadBegun, copyBegun, freed, One, BUFFER_NUM, SLOT_COUNT

\* The events of a g/beta buffer: loaded and not yet taken, taken back and
\* not yet loaded anew.
LEMMA NextGateEvents ==
  ASSUME IInv, [Next]_vars
  PROVE  GateEvents'
  <1>1. GateEvents /\ Buffer = {0, 1}
    BY Alternate DEF IInv
  <1>2. /\ used \in Nat /\ loaded \in Nat /\ loadBegun \in Nat /\ useBegun \in Nat
        /\ gateFull \in [{0, 1} -> 0 .. 1] /\ gateFree \in [{0, 1} -> 0 .. 1]
        /\ BufferOf(used) \in {0, 1} /\ BufferOf(loaded) \in {0, 1}
    <2>1. used \in Int /\ loaded \in Int /\ used \in Nat /\ loaded \in Nat
      BY Progresses
    <2>2. loadBegun \in Nat /\ useBegun \in Nat
      BY Bounds
    <2>3. gateFull \in [{0, 1} -> 0 .. 1] /\ gateFree \in [{0, 1} -> 0 .. 1]
      BY <1>1 DEF IInv, TypeOK, EventType
    <2> QED BY <2>1, <2>2, <2>3, Alternate
  <1>3. /\ used <= useBegun /\ useBegun <= loaded /\ loaded <= loadBegun /\ loadBegun <= used + 2
    BY Bounds
  <1>4. ASSUME UNCHANGED <<useBegun, loaded, gateFull>>
        PROVE  \A x \in Buffer : gateFull'[x] = One(Counted(useBegun', loaded', x))
    BY <1>1, <1>4 DEF GateEvents
  <1>5. ASSUME UNCHANGED <<used, loadBegun, gateFree>>
        PROVE  \A x \in Buffer : gateFree'[x] = 1 - One(Counted(used', loadBegun', x))
    BY <1>1, <1>5 DEF GateEvents
  <1>6. CASE StartLoadGate
    <2>1. /\ UNCHANGED <<useBegun, used, loaded, gateFull>>
          /\ gateFree' = [gateFree EXCEPT ![BufferOf(loaded)] = @ - 1]
          /\ mtePc = "gate" /\ mtePc' = "loadingGate" /\ gateFree[BufferOf(loaded)] > 0
      BY <1>6 DEF StartLoadGate, Mte2Only, vpipe, useBegun
    <2>2. loadBegun = loaded /\ loadBegun' = loaded + 1
      BY <1>2, <2>1 DEF loadBegun, One
    <2>3. ~Counted(used, loadBegun, BufferOf(loaded))
      BY <1>1, <1>2, <2>1 DEF GateEvents, One
    <2>4. loaded < used + 2
      <3>1. BufferOf(used + 2) = BufferOf(used)
        BY <1>2, Alternate
      <3> QED BY <1>2, <1>3, <2>2, <2>3, <3>1 DEF Counted
    <2>5. /\ Counted(used, loaded + 1, BufferOf(loaded))
          /\ \A x \in {0, 1} : x # BufferOf(loaded) =>
               (Counted(used, loaded + 1, x) <=> Counted(used, loaded, x))
      BY <1>2, <1>3, <2>4, CountedLast
    <2>6. \A x \in Buffer : gateFree'[x] = 1 - One(Counted(used', loadBegun', x))
      BY <1>1, <1>2, <2>1, <2>2, <2>3, <2>5 DEF GateEvents, One
    <2> QED BY <1>4, <2>1, <2>6 DEF GateEvents
  <1>7. CASE FinishLoadGate
    <2>1. /\ UNCHANGED <<useBegun, used, gateFree>> /\ loaded' = loaded + 1
          /\ gateFull' = [gateFull EXCEPT ![BufferOf(loaded)] = @ + 1]
          /\ mtePc = "loadingGate" /\ mtePc' \in {"gate", "kkt"}
      BY <1>7 DEF FinishLoadGate, NextLoad, Mte2Only, vpipe, useBegun
    <2>2. loadBegun = loaded + 1 /\ loadBegun' = loaded + 1
      BY <1>2, <2>1 DEF loadBegun, One
    <2>3. loaded < useBegun + 2
      BY <1>2, <1>3, <2>2
    <2>4. /\ ~Counted(useBegun, loaded, BufferOf(loaded))
          /\ Counted(useBegun, loaded + 1, BufferOf(loaded))
          /\ \A x \in {0, 1} : x # BufferOf(loaded) =>
               (Counted(useBegun, loaded + 1, x) <=> Counted(useBegun, loaded, x))
      BY <1>2, <1>3, <2>3, CountedLast
    <2>5. \A x \in Buffer : gateFull'[x] = One(Counted(useBegun', loaded', x))
      BY <1>1, <1>2, <2>1, <2>4 DEF GateEvents, One
    <2> QED BY <1>5, <2>1, <2>2, <2>5 DEF GateEvents
  <1>8. CASE TakeGate
    <2>1. /\ UNCHANGED <<loadBegun, loaded, used, gateFree>>
          /\ gateFull' = [gateFull EXCEPT ![BufferOf(used)] = @ - 1]
          /\ vPc = "gate" /\ vPc' \in {"clearing", "prepare"} /\ gateFull[BufferOf(used)] > 0
      BY <1>8 DEF TakeGate, VectorOnly, mte2, loadBegun
    <2>2. useBegun = used /\ useBegun' = used + 1
      BY <1>2, <2>1 DEF useBegun, One
    <2>3. used < loaded
      <3>1. Counted(used, loaded, BufferOf(used))
        BY <1>1, <1>2, <2>1, <2>2 DEF GateEvents, One
      <3> QED BY <1>2, <3>1 DEF Counted
    <2>4. loaded <= used + 2
      BY <1>2, <1>3
    <2>5. /\ Counted(used, loaded, BufferOf(used)) /\ ~Counted(used + 1, loaded, BufferOf(used))
          /\ \A x \in {0, 1} : x # BufferOf(used) =>
               (Counted(used + 1, loaded, x) <=> Counted(used, loaded, x))
      BY <1>2, <2>3, <2>4, CountedFirst
    <2>6. \A x \in Buffer : gateFull'[x] = One(Counted(useBegun', loaded', x))
      BY <1>1, <1>2, <2>1, <2>2, <2>5 DEF GateEvents, One
    <2> QED BY <1>5, <2>1, <2>6 DEF GateEvents
  <1>9. CASE FinishMul
    <2>1. /\ UNCHANGED <<loadBegun, loaded, gateFull>> /\ used' = used + 1
          /\ gateFree' = [gateFree EXCEPT ![BufferOf(used)] = @ + 1]
          /\ vPc = "multiplying" /\ vPc' \in {"top", "gate"}
      BY <1>9 DEF FinishMul, VectorOnly, mte2, loadBegun
    <2>2. useBegun = used + 1 /\ useBegun' = used + 1
      BY <1>2, <2>1 DEF useBegun, One
    <2>3. used < loadBegun
      BY <1>2, <1>3, <2>2
    <2>4. /\ Counted(used, loadBegun, BufferOf(used)) /\ ~Counted(used + 1, loadBegun, BufferOf(used))
          /\ \A x \in {0, 1} : x # BufferOf(used) =>
               (Counted(used + 1, loadBegun, x) <=> Counted(used, loadBegun, x))
      BY <1>2, <1>3, <2>3, CountedFirst
    <2>5. \A x \in Buffer : gateFree'[x] = 1 - One(Counted(used', loadBegun', x))
      BY <1>1, <1>2, <2>1, <2>4 DEF GateEvents, One
    <2> QED BY <1>4, <2>1, <2>2, <2>5 DEF GateEvents
  <1>10. CASE UNCHANGED <<useBegun, loaded, gateFull, used, loadBegun, gateFree>>
    BY <1>4, <1>5, <1>10 DEF GateEvents
  <1>11. AicRound \/ Scalar \/ Mte3 \/ UNCHANGED vars =>
           UNCHANGED <<useBegun, loaded, gateFull, used, loadBegun, gateFree>>
    BY Frames DEF vars, mte2, vpipe, gateEv, useBegun, loadBegun
  <1>12. StartLoadKkt \/ FinishLoadKkt \/ ReleaseSlot =>
           UNCHANGED <<useBegun, loaded, gateFull, used, loadBegun, gateFree>>
    BY DEF StartLoadKkt, FinishLoadKkt, ReleaseSlot, NextLoad, Mte2Only, vpipe, gateEv, useBegun,
           loadBegun, One
  <1>13. StartZeroKkt \/ HandOverKkt \/ PassRound \/ FinishZeroTail \/ StartPrepare
           \/ FinishPrepare \/ StartMul =>
           UNCHANGED <<useBegun, loaded, gateFull, used, loadBegun, gateFree>>
    BY DEF StartZeroKkt, HandOverKkt, PassRound, FinishZeroTail, StartPrepare, FinishPrepare, StartMul,
           VectorOnly, mte2, gateEv, useBegun, loadBegun, One
  <1> QED BY <1>6, <1>7, <1>8, <1>9, <1>10, <1>11, <1>12, <1>13 DEF Next, Mte2, VectorPipe, Finished

\* The event of an output buffer: finished by PIPE_V and not yet being copied.
LEMMA NextOutEvents ==
  ASSUME IInv, [Next]_vars
  PROVE  OutEvents'
  <1>1. OutEvents /\ Buffer = {0, 1}
    BY Alternate DEF IInv
  <1>2. /\ produced \in Nat /\ copied \in Nat /\ copyBegun \in Nat
        /\ outFull \in [{0, 1} -> 0 .. 1] /\ BufferOf(produced) \in {0, 1} /\ BufferOf(copied) \in {0, 1}
        /\ gm \in Seq([dest : SUBSET OwnTiles, tiles : SUBSET TileState])
    <2>1. produced \in Int /\ copied \in Int /\ produced \in Nat /\ copied \in Nat
      BY Progresses
    <2>2. copyBegun \in Nat
      BY Bounds
    <2>3. /\ outFull \in [{0, 1} -> 0 .. 1]
          /\ gm \in Seq([dest : SUBSET OwnTiles, tiles : SUBSET TileState])
      BY <1>1 DEF IInv, TypeOK, EventType, MemoryType
    <2> QED BY <2>1, <2>2, <2>3, Alternate
  <1>3. copied <= copyBegun /\ copyBegun <= produced /\ produced <= copied + 2
    BY Bounds
  <1>4. CASE FinishMul
    <2>1. UNCHANGED <<copyBegun, copied>>
      BY <1>4 DEF FinishMul, VectorOnly, copyBegun, copied
    <2>2. CASE FirstHalf(vRound)
      BY <1>1, <1>4, <2>1, <2>2 DEF FinishMul, OutEvents
    <2>3. CASE ~FirstHalf(vRound)
      <3>1. outFull' = [outFull EXCEPT ![BufferOf(produced)] = @ + 1] /\ produced' = produced + 1
        BY <1>4, <2>3 DEF FinishMul
      <3>2. produced < copyBegun + 2
        <4>1. vRound \in Working /\ used < computed
          BY <1>4 DEF FinishMul, IInv, VectorOrder
        <4>2. produced < acquired /\ acquired \in Nat /\ acquired - 2 <= copied
          BY <4>1, Lag, Progresses DEF IInv, Copies
        <4> QED BY <1>2, <1>3, <4>2
      <3>3. /\ ~Counted(copyBegun, produced, BufferOf(produced))
            /\ Counted(copyBegun, produced + 1, BufferOf(produced))
            /\ \A x \in {0, 1} : x # BufferOf(produced) =>
                 (Counted(copyBegun, produced + 1, x) <=> Counted(copyBegun, produced, x))
        BY <1>2, <1>3, <3>2, CountedLast
      <3> QED BY <1>1, <1>2, <2>1, <3>1, <3>3 DEF OutEvents, One
    <2> QED BY <2>2, <2>3
  <1>5. CASE StartCopyOut
    <2>1. /\ ~copying /\ copying' = TRUE /\ copies # << >> /\ UNCHANGED <<gm, produced>>
          /\ outFull' = [outFull EXCEPT ![Head(copies).buffer] = @ - 1]
          /\ outFull[Head(copies).buffer] > 0
      BY <1>5 DEF StartCopyOut, Mte3Only, vpipe
    <2>2. Head(copies).buffer = BufferOf(copied)
      <3>1. copies \in Seq([buffer : Buffer, slot : Slot, dest : SUBSET OwnTiles])
        BY DEF IInv, TypeOK, OutputType
      <3>2. 1 \in DOMAIN copies /\ Head(copies) = copies[1]
        BY <2>1, <3>1
      <3>3. copies[1].buffer = BufferOf(copied + 1 - 1)
        BY <3>2 DEF IInv, Copies
      <3> QED BY <1>2, <3>2, <3>3
    <2>3. copyBegun = copied /\ copyBegun' = copied + 1
      BY <1>2, <2>1 DEF copyBegun, copied, One
    <2>4. copied < produced
      <3>1. Counted(copied, produced, BufferOf(copied))
        BY <1>1, <1>2, <2>1, <2>2, <2>3 DEF OutEvents, One
      <3> QED BY <1>2, <3>1 DEF Counted
    <2>5. /\ Counted(copied, produced, BufferOf(copied)) /\ ~Counted(copied + 1, produced, BufferOf(copied))
          /\ \A x \in {0, 1} : x # BufferOf(copied) =>
               (Counted(copied + 1, produced, x) <=> Counted(copied, produced, x))
      BY <1>2, <1>3, <2>4, CountedFirst
    <2> QED BY <1>1, <1>2, <2>1, <2>2, <2>3, <2>5 DEF OutEvents, One
  <1>6. CASE FinishCopyOut
    <2>1. /\ UNCHANGED <<outFull, produced>> /\ copying /\ copying' = FALSE
          /\ Len(gm') = copied + 1
      BY <1>2, <1>6 DEF FinishCopyOut, Mte3Only, vpipe, copied
    <2>2. copyBegun' = copyBegun
      BY <1>2, <2>1 DEF copyBegun, copied, One
    <2> QED BY <1>1, <2>1, <2>2 DEF OutEvents
  <1>7. CASE UNCHANGED <<copyBegun, produced, outFull>>
    BY <1>1, <1>7 DEF OutEvents
  <1>8. AicRound \/ Scalar \/ Mte2 \/ UNCHANGED vars => UNCHANGED <<copyBegun, produced, outFull>>
    BY Frames DEF vars, vpipe, copyBegun, copied, memory
  <1>9. StartZeroKkt \/ HandOverKkt \/ PassRound \/ TakeGate \/ FinishZeroTail \/ StartPrepare
           \/ FinishPrepare \/ StartMul => UNCHANGED <<copyBegun, produced, outFull>>
    BY DEF StartZeroKkt, HandOverKkt, PassRound, TakeGate, FinishZeroTail, StartPrepare, FinishPrepare,
           StartMul, VectorOnly, copyBegun, copied
  <1> QED BY <1>4, <1>5, <1>6, <1>7, <1>8, <1>9 DEF Next, VectorPipe, Mte3, Finished

\* MTE2 frees a slot behind a round's first load.
LEMMA FreedSteps ==
  ASSUME IInv
  PROVE  /\ ReleaseSlot => freed = mteRound /\ freed' = freed + 1 /\ mteRound < released
         /\ Mte2 /\ ~ReleaseSlot => freed' = freed
  <1>1. /\ mteRound \in Nat /\ mteBatch \in Nat
        /\ Place(mteRound, mteBatch)
        /\ mtePc \in {"kkt", "loadingKkt", "free"} => mteBatch = 0
    BY Progresses DEF IInv, Mte2Order
  <1>2. ASSUME ReleaseSlot
        PROVE  freed = mteRound /\ freed' = freed + 1 /\ mteRound < released
    <2>1. mteRound < released /\ mteBatch = 0
      BY <1>1, <1>2 DEF ReleaseSlot, Place, Working
    <2> QED BY <1>1, <1>2, <2>1 DEF ReleaseSlot, NextLoad, freed, One
  <1>3. FinishLoadGate => freed' = freed
    BY <1>1 DEF FinishLoadGate, NextLoad, freed, One
  <1>4. UNCHANGED <<mteRound, mteBatch>> => freed' = freed
    BY DEF freed
  <1> QED BY <1>2, <1>3, <1>4 DEF Mte2, StartLoadGate, StartLoadKkt, FinishLoadKkt

\* The cross-core flags of a slot.
LEMMA NextReadyCount ==
  ASSUME IInv, [Next]_vars
  PROVE  ReadyCount'
  <1>1. ReadyCount /\ Slot = {0, 1}
    BY Alternate DEF IInv
  <1>2. taken \in Nat /\ aicRound \in Nat /\ freed \in Nat /\ freed <= taken
    <2>1. taken \in Nat /\ aicRound \in Nat /\ released \in Nat
      BY Progresses
    <2>2. freed \in Nat /\ freed <= released /\ released <= taken
      BY Bounds
    <2> QED BY <2>1, <2>2
  <1>3. taken <= aicRound /\ aicRound <= taken + 2
    <2>1. taken <= aicRound /\ aicRound <= freed + 2
      BY Bounds
    <2> QED BY <1>2, <2>1
  <1>4. ready \in [{0, 1} -> 0 .. 1]
    BY <1>1 DEF IInv, TypeOK, EventType
  <1>5. /\ SlotOf(taken) = BufferOf(taken) /\ BufferOf(taken) \in {0, 1}
        /\ SlotOf(aicRound) = BufferOf(aicRound) /\ BufferOf(aicRound) \in {0, 1}
    BY <1>2, Alternate
  <1>6. CASE AicRound
    <2>1. /\ aicRound' = aicRound + 1 /\ taken' = taken /\ freed' = freed
          /\ ready' = [ready EXCEPT ![BufferOf(aicRound)] = @ + 1]
      BY <1>5, <1>6 DEF AicRound, scalar, mte2, freed
    <2>2. aicRound < taken + 2
      <3>1. aicRound + 1 <= freed + 2
        <4>1. aicRound' <= freed' + 2
          BY NextOrder DEF Order, SLOT_COUNT
        <4> QED BY <1>2, <2>1, <4>1
      <3> QED BY <1>2, <3>1
    <2>3. /\ ~Counted(taken, aicRound, BufferOf(aicRound))
          /\ Counted(taken, aicRound + 1, BufferOf(aicRound))
          /\ \A x \in {0, 1} : x # BufferOf(aicRound) =>
               (Counted(taken, aicRound + 1, x) <=> Counted(taken, aicRound, x))
      BY <1>2, <1>3, <2>2, CountedLast
    <2> QED BY <1>1, <1>4, <1>5, <2>1, <2>3 DEF ReadyCount, One
  <1>7. CASE WaitReady
    <2>1. /\ aicRound' = aicRound /\ taken' = taken + 1
          /\ ready' = [ready EXCEPT ![BufferOf(taken)] = @ - 1]
          /\ ready[BufferOf(taken)] > 0
      <3>1. taken = localRound
        BY <1>7, Progresses DEF IInv, ScalarOrder, WaitReady, One
      <3> QED BY <1>5, <1>7, <3>1 DEF WaitReady, ScalarOnly
    <2>2. taken < aicRound
      <3>1. Counted(taken, aicRound, BufferOf(taken))
        BY <1>1, <1>5, <2>1 DEF ReadyCount, One
      <3> QED BY <1>2, <3>1 DEF Counted
    <2>3. /\ Counted(taken, aicRound, BufferOf(taken)) /\ ~Counted(taken + 1, aicRound, BufferOf(taken))
          /\ \A x \in {0, 1} : x # BufferOf(taken) =>
               (Counted(taken + 1, aicRound, x) <=> Counted(taken, aicRound, x))
      BY <1>2, <1>3, <2>2, CountedFirst
    <2> QED BY <1>1, <1>4, <1>5, <2>1, <2>3 DEF ReadyCount, One
  <1>8. CASE UNCHANGED <<taken, aicRound, ready>>
    BY <1>1, <1>8 DEF ReadyCount
  <1>9. Scalar /\ ~WaitReady => UNCHANGED <<taken, aicRound, ready>>
    BY DEF Scalar, PrefetchFirstBatch, BeginBatch, AcquireOutputSlot, ProcessBatch, Epilogue,
           DrainOutputSlot, ScalarOnly
  <1>10. Mte2 \/ VectorPipe \/ Mte3 \/ UNCHANGED vars => UNCHANGED <<taken, aicRound, ready>>
    BY Frames DEF vars, scalar
  <1> QED BY <1>6, <1>7, <1>8, <1>9, <1>10 DEF Next, Finished

LEMMA NextFreeCount ==
  ASSUME IInv, [Next]_vars
  PROVE  FreeCount'
  <1> DEFINE Freed(a, m, s) == \E r \in {a - 1, a - 2} :
                                 r >= 0 /\ r < m /\ WillReuseSlot(r) /\ SlotOf(r) = s
  <1>1. /\ \A s \in Slot : free[s] = One(Freed(aicRound, freed, s))
        /\ Slot = {0, 1}
    BY Alternate DEF IInv, FreeCount
  <1>2. aicRound \in Nat /\ freed \in Nat /\ mteRound \in Nat /\ released \in Nat
    <2>1. aicRound \in Nat /\ mteRound \in Nat /\ released \in Nat
      BY Progresses
    <2> QED BY <2>1, Bounds
  <1>3. freed <= released /\ released <= aicRound /\ aicRound <= freed + 2
    <2>1. taken \in Nat
      BY Progresses
    <2>2. freed <= released /\ released <= taken /\ taken <= aicRound /\ aicRound <= freed + 2
      BY Bounds
    <2> QED BY <1>2, <2>1, <2>2
  <1>4. free \in [{0, 1} -> 0 .. 1]
    BY <1>1 DEF IInv, TypeOK, EventType
  <1>5. \A r : WillReuseSlot(r)' <=> WillReuseSlot(r)
    BY WorkUnchanged, WorkIsFixed
  <1>6. CASE AicRound
    <2> DEFINE a == aicRound
    <2>1. aicRound' = a + 1 /\ freed' = freed
      BY <1>6 DEF AicRound, mte2, freed
    <2>2. /\ a >= 2 => free[SlotOf(a)] > 0
          /\ free' = IF a >= 2 THEN [free EXCEPT ![SlotOf(a)] = @ - 1] ELSE free
      BY <1>6 DEF AicRound, SLOT_COUNT
    <2>3. /\ SlotOf(a) \in {0, 1} /\ SlotOf(a - 1) = 1 - SlotOf(a) /\ SlotOf(a - 2) = SlotOf(a)
      BY <1>2, Alternate
    <2> HIDE DEF a
    <2>4. a \in Nat /\ freed <= a /\ a = aicRound
      BY <1>2, <1>3 DEF a
    <2> DEFINE s0 == SlotOf(a)
    <2>5. \A s \in {0, 1} : Freed(a + 1, freed, s) <=> s # s0 /\ Freed(a, freed, s)
      <3>1. (a + 1) - 1 = a /\ (a + 1) - 2 = a - 1 /\ ~(a < freed)
        BY <1>2, <2>4
      <3> QED BY <2>3, <3>1
    <2>6. free'[s0] = 0
      <3>1. CASE a >= 2
        <4>1. free[s0] = 1
          BY <1>4, <2>2, <2>3, <3>1
        <4> QED BY <1>4, <2>2, <2>3, <3>1, <4>1
      <3>2. CASE ~(a >= 2)
        <4>1. ~(a - 2 >= 0)
          BY <2>4, <3>2
        <4>2. ~Freed(a, freed, s0)
          BY <2>3, <4>1
        <4> QED BY <1>1, <2>2, <2>3, <2>4, <3>2, <4>2 DEF One
      <3> QED BY <3>1, <3>2
    <2>7. \A s \in {0, 1} : s # s0 => free'[s] = free[s]
      BY <1>4, <2>2, <2>3
    <2> HIDE DEF Freed
    <2>8. \A s \in Slot : free'[s] = One(Freed(a + 1, freed, s))
      BY <1>1, <2>4, <2>5, <2>6, <2>7 DEF One
    <2> QED BY <1>5, <2>1, <2>8 DEF FreeCount, Freed
  <1>7. CASE ReleaseSlot
    <2>1. freed = mteRound /\ freed' = freed + 1 /\ mteRound < released /\ aicRound' = aicRound
      BY <1>7, FreedSteps DEF ReleaseSlot, Mte2Only
    <2>2. free' = IF WillReuseSlot(freed) THEN [free EXCEPT ![SlotOf(freed)] = @ + 1] ELSE free
      BY <1>7, <2>1 DEF ReleaseSlot
    <2>3. freed = aicRound - 1 \/ freed = aicRound - 2
      BY <1>2, <1>3, <2>1
    <2>4. /\ SlotOf(aicRound - 1) \in {0, 1} /\ SlotOf(aicRound - 2) \in {0, 1}
          /\ SlotOf(aicRound - 1) # SlotOf(aicRound - 2)
      BY <1>2, Alternate
    <2>5. /\ ~Freed(aicRound, freed, SlotOf(freed))
          /\ \A s : Freed(aicRound, freed + 1, s) <=>
                      Freed(aicRound, freed, s) \/ (WillReuseSlot(freed) /\ SlotOf(freed) = s)
      BY <1>2, <2>3, <2>4
    <2> HIDE DEF Freed
    <2>6. \A s \in Slot : free'[s] = One(Freed(aicRound, freed + 1, s))
      BY <1>1, <1>4, <2>2, <2>3, <2>4, <2>5 DEF One
    <2> QED BY <1>5, <2>1, <2>6 DEF FreeCount, Freed
  <1>8. CASE UNCHANGED <<aicRound, freed, free>>
    BY <1>1, <1>5, <1>8 DEF FreeCount
  <1>9. Mte2 /\ ~ReleaseSlot => UNCHANGED <<aicRound, freed, free>>
    BY FreedSteps DEF Mte2, StartLoadGate, FinishLoadGate, StartLoadKkt, FinishLoadKkt, Mte2Only
  <1>10. Scalar \/ VectorPipe \/ Mte3 \/ UNCHANGED vars => UNCHANGED <<aicRound, freed, free>>
    BY Frames DEF vars, mte2, freed
  <1> QED BY <1>6, <1>7, <1>8, <1>9, <1>10 DEF Next, Finished

-----------------------------------------------------------------------------
(* The KKT tile *)

LEMMA KktOrder ==
  ASSUME IInv
  PROVE  /\ \A r \in Nat : /\ Arrived(r) => Copying(r)
                           /\ Consumed(r) => Handed(r)
                           /\ Handed(r) => r <= vRound
                           /\ r < vRound => Consumed(r)
         /\ \A r \in Working : /\ Copying(r) => Handed(r) /\ r <= vRound
                               /\ Consumed(r) => Arrived(r)
                               /\ r > vRound => ~Copying(r) /\ ~Arrived(r)
         /\ Handed(vRound) => vRound \in Working
         /\ vRound \in Nat /\ mteRound \in Nat
  <1>1. /\ vRound \in Nat /\ mteRound \in Nat /\ vBatch \in Nat /\ mteBatch \in Nat
        /\ vPc \in {"top", "zeroing", "gate", "clearing", "prepare", "preparing", "mul", "multiplying"}
    BY Progresses
  <1>2. /\ vPc # "top" => vRound \in Working
        /\ vPc \in {"top", "zeroing"} => vBatch = 0
    BY DEF IInv, VectorOrder
  <1>3. \A r \in Working : r \in Nat
    BY Sizes DEF IInv, Working
  <1>4. \A r \in Nat : /\ Arrived(r) => Copying(r)
                       /\ Consumed(r) => Handed(r)
                       /\ Handed(r) => r <= vRound
                       /\ r < vRound => Consumed(r)
    BY <1>1, <1>2 DEF Arrived, Copying, Consumed, Handed
  <1>5. Handed(vRound) => vRound \in Working
    BY <1>1, <1>2 DEF Handed
  <1>6. \A r \in Working : (Copying(r) => Handed(r)) /\ (Consumed(r) => Arrived(r))
    BY DEF IInv, KktTile
  <1> QED BY <1>1, <1>3, <1>4, <1>5, <1>6

\* MTE2 copies the tile PIPE_V has handed over, and no other.
LEMMA KktCopyOfRound ==
  ASSUME IInv
  PROVE  /\ StartLoadKkt => vRound = mteRound /\ Handed(vRound)
         /\ mtePc = "loadingKkt" =>
              /\ vRound = mteRound /\ Handed(vRound) /\ ~Consumed(vRound) /\ ~Arrived(vRound)
              /\ mteRound \in Working /\ vRound \in Working
  <1>1. /\ mtePc \in {"kkt", "loadingKkt"} => mteRound \in Working /\ mteBatch = 0
        /\ kktEmpty = One(Handed(vRound) /\ ~Copying(vRound))
    BY DEF IInv, Mte2Order, KktTile
  <1>2. /\ \A r \in Nat : (Handed(r) => r <= vRound) /\ (r < vRound => Consumed(r))
        /\ \A r \in Working : (Copying(r) => Handed(r)) /\ (Consumed(r) => Arrived(r))
        /\ vRound \in Nat /\ mteRound \in Nat
        /\ Handed(vRound) => vRound \in Working
    BY KktOrder
  <1>3. ASSUME mtePc \in {"kkt", "loadingKkt"}
        PROVE  ~Arrived(mteRound) /\ vRound <= mteRound
    <2>1. ~Arrived(mteRound)
      BY <1>1, <1>2, <1>3 DEF Arrived
    <2>2. ~(mteRound < vRound)
      BY <1>1, <1>2, <1>3, <2>1
    <2> QED BY <1>2, <2>1, <2>2
  <1>4. ASSUME StartLoadKkt
        PROVE  vRound = mteRound /\ Handed(vRound)
    <2>1. mtePc = "kkt" /\ Handed(vRound) /\ ~Copying(vRound)
      BY <1>1, <1>4 DEF StartLoadKkt, One
    <2>2. ~(vRound < mteRound)
      BY <2>1 DEF Copying
    <2> QED BY <1>2, <1>3, <2>1, <2>2
  <1>5. ASSUME mtePc = "loadingKkt"
        PROVE  /\ vRound = mteRound /\ Handed(vRound) /\ ~Consumed(vRound) /\ ~Arrived(vRound)
               /\ mteRound \in Working /\ vRound \in Working
    <2>1. mteRound \in Working /\ Copying(mteRound)
      BY <1>1, <1>5 DEF Copying
    <2>2. mteRound <= vRound /\ Handed(mteRound)
      BY <1>2, <2>1
    <2>3. vRound = mteRound
      BY <1>2, <1>3, <1>5, <2>2
    <2> QED BY <1>2, <1>3, <1>5, <2>1, <2>2, <2>3
  <1> QED BY <1>4, <1>5

\* The rest of what MTE2 does does not concern the tile.
LEMMA KktKept ==
  ASSUME IInv, Mte2, ~StartLoadKkt, ~FinishLoadKkt
  PROVE  /\ UNCHANGED <<vpipe, kktEmpty, kktFull>>
         /\ \A r \in Working : (Copying(r)' <=> Copying(r)) /\ (Arrived(r)' <=> Arrived(r))
  <1>1. mteRound \in Nat
    BY Progresses
  <1>2. mteBatch \in Nat /\ mtePc \in {"gate", "loadingGate", "kkt", "loadingKkt", "free"}
    BY Progresses
  <1>3. \A r \in Working : r \in Nat
    BY Sizes DEF IInv, Working
  <1>4. UNCHANGED <<vpipe, kktEmpty, kktFull>>
    BY DEF Mte2, StartLoadGate, FinishLoadGate, ReleaseSlot, Mte2Only, kktEv
  <1>5. CASE StartLoadGate
    BY <1>4, <1>5 DEF StartLoadGate, Copying, Arrived
  <1>6. CASE FinishLoadGate
    <2>1. \A r \in Nat : r < mteRound + 1 <=> r < mteRound \/ r = mteRound
      BY <1>1
    <2>2. CASE mteBatch = 0
      BY <1>1, <1>2, <1>4, <1>6, <2>2 DEF FinishLoadGate, Copying, Arrived
    <2>3. CASE mteBatch # 0 /\ LastBatch(mteBatch)
      <3>1. /\ mteBatch > 0 /\ mtePc = "loadingGate" /\ mtePc' = "gate"
            /\ mteRound' = mteRound + 1 /\ mteBatch' = 0
        BY <1>2, <1>6, <2>3 DEF FinishLoadGate, NextLoad
      <3> QED BY <1>3, <1>4, <2>1, <3>1 DEF Copying, Arrived
    <2>4. CASE mteBatch # 0 /\ ~LastBatch(mteBatch)
      <3>1. /\ mteBatch > 0 /\ mtePc = "loadingGate" /\ mtePc' = "gate"
            /\ mteRound' = mteRound /\ mteBatch' = mteBatch + 1
        BY <1>2, <1>6, <2>4 DEF FinishLoadGate, NextLoad
      <3> QED BY <1>2, <1>4, <3>1 DEF Copying, Arrived
    <2> QED BY <2>2, <2>3, <2>4
  <1>7. CASE ReleaseSlot
    <2>1. \A r \in Nat : r < mteRound + 1 <=> r < mteRound \/ r = mteRound
      BY <1>1
    <2>2. mtePc' = "gate"
      BY <1>7 DEF ReleaseSlot, NextLoad
    <2>3. CASE Works(mteRound) /\ LastBatch(0)
      <3>1. mtePc = "free" /\ mteRound' = mteRound + 1 /\ mteBatch' = 0
        BY <1>7, <2>3 DEF ReleaseSlot, NextLoad
      <3>2. ~(mteBatch' > 0)
        BY <3>1
      <3> QED BY <1>3, <1>4, <2>1, <2>2, <3>1, <3>2 DEF Copying, Arrived
    <2>4. CASE Works(mteRound) /\ ~LastBatch(0)
      <3>1. mtePc = "free" /\ mteRound' = mteRound /\ mteBatch' = 1
        BY <1>7, <2>4 DEF ReleaseSlot, NextLoad
      <3>2. mteBatch' > 0
        BY <3>1
      <3> QED BY <1>4, <2>2, <3>1, <3>2 DEF Copying, Arrived
    <2>5. CASE ~Works(mteRound)
      <3>1. mtePc = "gate" /\ mteRound' = mteRound + 1 /\ mteBatch' = 0
        BY <1>7, <2>5 DEF ReleaseSlot
      <3>2. ~(mteBatch' > 0)
        BY <3>1
      <3>3. mteRound \notin Working
        BY <2>5 DEF Working
      <3> QED BY <1>3, <1>4, <2>1, <2>2, <3>1, <3>2, <3>3 DEF Copying, Arrived
    <2> QED BY <2>3, <2>4, <2>5
  <1> QED BY <1>4, <1>5, <1>6, <1>7 DEF Mte2

LEMMA NextKktTile ==
  ASSUME IInv, [Next]_vars
  PROVE  KktTile'
  <1>1. /\ \A r \in Nat : /\ Arrived(r) => Copying(r)
                          /\ Consumed(r) => Handed(r)
                          /\ Handed(r) => r <= vRound
                          /\ r < vRound => Consumed(r)
        /\ \A r \in Working : /\ Copying(r) => Handed(r) /\ r <= vRound
                              /\ Consumed(r) => Arrived(r)
                              /\ r > vRound => ~Copying(r) /\ ~Arrived(r)
        /\ Handed(vRound) => vRound \in Working
        /\ vRound \in Nat /\ mteRound \in Nat
    BY KktOrder
  <1>2. /\ vBatch \in Nat /\ mteBatch \in Nat
        /\ vPc \in {"top", "zeroing", "gate", "clearing", "prepare", "preparing", "mul", "multiplying"}
        /\ mtePc \in {"gate", "loadingGate", "kkt", "loadingKkt", "free"}
    BY Progresses
  <1>3. /\ kktEmpty = One(Handed(vRound) /\ ~Copying(vRound))
        /\ kktFull = One(vRound \in Working /\ Arrived(vRound) /\ ~Consumed(vRound))
    BY DEF IInv, KktTile
  <1>4. Working' = Working /\ \A r \in Working : r \in Nat
    BY WorkUnchanged, WorkIsFixed, Sizes DEF IInv, Working
  <1>5. /\ vPc # "top" => vRound \in Working
        /\ vPc \in {"top", "zeroing"} => vBatch = 0
        /\ mtePc # "gate" => mteRound \in Working
        /\ mtePc \in {"kkt", "loadingKkt", "free"} => mteBatch = 0
    BY DEF IInv, VectorOrder, Mte2Order
  <1>6. ASSUME \A r \in Working : /\ Copying(r)' <=> Copying(r)
                                  /\ Arrived(r)' <=> Arrived(r)
                                  /\ Handed(r)' <=> Handed(r)
                                  /\ Consumed(r)' <=> Consumed(r)
        PROVE  \A r \in Working : (Copying(r)' => Handed(r)') /\ (Consumed(r)' => Arrived(r)')
    BY <1>1, <1>6
  <1>7. CASE StartLoadKkt
    <2>1. UNCHANGED <<mteRound, mteBatch, vpipe, kktFull>> /\ mtePc = "kkt" /\ mtePc' = "loadingKkt"
          /\ kktEmpty' = kktEmpty - 1
      BY <1>7 DEF StartLoadKkt, Mte2Only
    <2>2. mteRound = vRound /\ Handed(vRound) /\ vRound \in Working
      BY <1>1, <1>7, KktCopyOfRound
    <2>3. ~Copying(vRound)
      BY <1>1, <1>5, <2>1, <2>2 DEF Copying
    <2>4. \A r : /\ Copying(r)' <=> Copying(r) \/ r = vRound
                 /\ Arrived(r)' <=> Arrived(r)
                 /\ Handed(r)' <=> Handed(r)
                 /\ Consumed(r)' <=> Consumed(r)
      BY <2>1, <2>2 DEF Copying, Arrived, Handed, Consumed, vpipe
    <2>5. vRound' = vRound
      BY <2>1 DEF vpipe
    <2>6. kktEmpty = 1 /\ kktEmpty' = 0
      BY <1>3, <2>1, <2>2, <2>3 DEF One
    <2>7. \A r \in Working : (Copying(r)' => Handed(r)') /\ (Consumed(r)' => Arrived(r)')
      BY <1>1, <2>2, <2>4
    <2>8. kktFull' = One(vRound \in Working /\ Arrived(vRound)' /\ ~Consumed(vRound)')
      BY <1>3, <2>1, <2>4, <2>5 DEF One
    <2>9. kktEmpty' = One(Handed(vRound)' /\ ~Copying(vRound)')
      BY <2>2, <2>4, <2>5, <2>6 DEF One
    <2> QED BY <1>4, <2>5, <2>7, <2>8, <2>9 DEF KktTile
  <1>8. CASE FinishLoadKkt
    <2>1. /\ UNCHANGED <<mteRound, mteBatch, vRound, vpipe, kktEmpty>>
          /\ mtePc = "loadingKkt" /\ mtePc' = "free" /\ kktFull' = kktFull + 1
      BY <1>8 DEF FinishLoadKkt, Mte2Only, vpipe
    <2>2. /\ vRound = mteRound /\ ~Consumed(vRound) /\ ~Arrived(vRound) /\ vRound \in Working
      BY <2>1, KktCopyOfRound
    <2>3. \A r : /\ Copying(r)' <=> Copying(r)
                 /\ Arrived(r)' <=> Arrived(r) \/ r = vRound
                 /\ Handed(r)' <=> Handed(r)
                 /\ Consumed(r)' <=> Consumed(r)
      BY <2>1, <2>2 DEF Copying, Arrived, Handed, Consumed, vpipe
    <2>4. \A r \in Working : (Copying(r)' => Handed(r)') /\ (Consumed(r)' => Arrived(r)')
      BY <1>1, <2>3
    <2>5. kktFull = 0 /\ kktFull' = 1
      BY <1>3, <2>1, <2>2 DEF One
    <2>6. vRound' = vRound
      BY <2>1
    <2>7. kktFull' = One(vRound' \in Working /\ Arrived(vRound)' /\ ~Consumed(vRound)')
      BY <2>2, <2>3, <2>5, <2>6 DEF One
    <2>8. kktEmpty' = One(Handed(vRound)' /\ ~Copying(vRound)')
      BY <1>3, <2>1, <2>3, <2>6 DEF One
    <2> QED BY <1>4, <2>4, <2>7, <2>8 DEF KktTile
  <1>9. ASSUME Mte2, ~StartLoadKkt, ~FinishLoadKkt
        PROVE  /\ UNCHANGED <<vpipe, kktEmpty, kktFull>>
               /\ \A r \in Working : (Copying(r)' <=> Copying(r)) /\ (Arrived(r)' <=> Arrived(r))
    BY <1>9, KktKept
  <1>10. ASSUME UNCHANGED <<vpipe, kktEmpty, kktFull>>,
                \A r \in Working : (Copying(r)' <=> Copying(r)) /\ (Arrived(r)' <=> Arrived(r))
         PROVE  KktTile'
    <2>1. vRound' = vRound /\ \A r : (Handed(r)' <=> Handed(r)) /\ (Consumed(r)' <=> Consumed(r))
      BY <1>10 DEF vpipe, Handed, Consumed
    <2>2. \A r \in Working : (Copying(r)' => Handed(r)') /\ (Consumed(r)' => Arrived(r)')
      BY <1>6, <1>10, <2>1
    <2>3. Handed(vRound)' /\ ~Copying(vRound)' <=> Handed(vRound) /\ ~Copying(vRound)
      BY <1>1, <1>10, <2>1
    <2>4. vRound' \in Working' /\ Arrived(vRound)' /\ ~Consumed(vRound)' <=>
            vRound \in Working /\ Arrived(vRound) /\ ~Consumed(vRound)
      BY <1>4, <1>10, <2>1
    <2> QED BY <1>3, <1>4, <1>10, <2>2, <2>3, <2>4 DEF KktTile, One
  <1>11. ASSUME VectorPipe
         PROVE  \A r : (Copying(r)' <=> Copying(r)) /\ (Arrived(r)' <=> Arrived(r))
    BY <1>11, Frames DEF mte2, Copying, Arrived
  <1>12. CASE StartZeroKkt \/ TakeGate \/ FinishZeroTail \/ StartPrepare \/ FinishPrepare
    <2>1. /\ UNCHANGED <<vRound, vBatch, kktEmpty, kktFull>>
          /\ vPc \in {"top", "zeroing"} <=> vPc' \in {"top", "zeroing"}
          /\ vPc # "multiplying" /\ vPc' # "multiplying"
      BY <1>12 DEF StartZeroKkt, TakeGate, FinishZeroTail, StartPrepare, FinishPrepare, kktEv
    <2>2. \A r : (Handed(r)' <=> Handed(r)) /\ (Consumed(r)' <=> Consumed(r))
      BY <2>1 DEF Handed, Consumed
    <2>3. \A r : (Copying(r)' <=> Copying(r)) /\ (Arrived(r)' <=> Arrived(r))
      BY <1>11, <1>12 DEF VectorPipe
    <2>4. \A r \in Working : (Copying(r)' => Handed(r)') /\ (Consumed(r)' => Arrived(r)')
      BY <1>6, <2>2, <2>3
    <2>5. vRound' = vRound
      BY <2>1
    <2>6. (Handed(vRound)' <=> Handed(vRound)) /\ (Copying(vRound)' <=> Copying(vRound))
          /\ (Arrived(vRound)' <=> Arrived(vRound)) /\ (Consumed(vRound)' <=> Consumed(vRound))
      BY <2>2, <2>3, <2>5
    <2> QED BY <1>3, <1>4, <2>1, <2>4, <2>6 DEF KktTile, One
  <1>13. CASE HandOverKkt
    <2>1. /\ UNCHANGED <<vRound, vBatch, kktFull>> /\ vPc \in {"top", "zeroing"} /\ vPc' = "gate"
          /\ kktEmpty' = kktEmpty + 1
      BY <1>13 DEF HandOverKkt
    <2>2. vRound \in Working
      <3>1. CASE vPc = "zeroing"
        BY <1>5, <3>1
      <3>2. CASE vPc = "top"
        <4>1. vRound < taken /\ Works(vRound)
          BY <1>13, <3>2 DEF HandOverKkt
        <4>2. taken <= TaskCount /\ taken \in Nat /\ TaskCount \in Nat /\ Rounds = 0 .. TaskCount - 1
          BY ScalarBounds, Progresses, Sizes DEF IInv
        <4> QED BY <1>1, <4>1, <4>2 DEF Working
      <3> QED BY <2>1, <3>1, <3>2
    <2>3. ~Handed(vRound) /\ ~Copying(vRound)
      BY <1>1, <2>1, <2>2 DEF Handed
    <2>4. \A r : (Handed(r)' <=> Handed(r) \/ r = vRound) /\ (Consumed(r)' <=> Consumed(r))
      BY <2>1 DEF Handed, Consumed
    <2>5. \A r : (Copying(r)' <=> Copying(r)) /\ (Arrived(r)' <=> Arrived(r))
      BY <1>11, <1>13 DEF VectorPipe
    <2>6. \A r \in Working : (Copying(r)' => Handed(r)') /\ (Consumed(r)' => Arrived(r)')
      BY <1>1, <2>4, <2>5
    <2>7. vRound' = vRound
      BY <2>1
    <2>8. kktEmpty' = 1
      BY <1>3, <2>1, <2>3 DEF One
    <2>9. Handed(vRound)' /\ ~Copying(vRound)'
      BY <2>3, <2>4, <2>5, <2>7
    <2>10. Arrived(vRound)' /\ ~Consumed(vRound)' <=> Arrived(vRound) /\ ~Consumed(vRound)
      BY <2>4, <2>5, <2>7
    <2> QED BY <1>3, <1>4, <2>1, <2>6, <2>8, <2>9, <2>10 DEF KktTile, One
  <1>14. CASE StartMul
    <2>1. /\ UNCHANGED <<vRound, vBatch, kktEmpty>> /\ vPc = "mul" /\ vPc' = "multiplying"
          /\ vBatch = 0 => kktFull > 0
          /\ kktFull' = IF vBatch = 0 THEN kktFull - 1 ELSE kktFull
      BY <1>14 DEF StartMul
    <2>2. vRound \in Working /\ Handed(vRound)
      BY <1>5, <2>1 DEF Handed
    <2>3. Arrived(vRound) /\ kktFull' = 0
      <3>1. CASE vBatch = 0
        BY <1>3, <2>1, <3>1 DEF One
      <3>2. CASE vBatch # 0
        <4>1. Consumed(vRound)
          BY <1>2, <3>2 DEF Consumed
        <4> QED BY <1>1, <1>3, <2>1, <2>2, <3>2, <4>1 DEF One
      <3> QED BY <3>1, <3>2
    <2>4. \A r : (Handed(r)' <=> Handed(r)) /\ (Consumed(r)' <=> Consumed(r) \/ r = vRound)
      BY <2>1 DEF Handed, Consumed
    <2>5. \A r : (Copying(r)' <=> Copying(r)) /\ (Arrived(r)' <=> Arrived(r))
      BY <1>11, <1>14 DEF VectorPipe
    <2>6. \A r \in Working : (Copying(r)' => Handed(r)') /\ (Consumed(r)' => Arrived(r)')
      BY <1>1, <2>3, <2>4, <2>5
    <2>7. vRound' = vRound
      BY <2>1
    <2>8. Consumed(vRound)' /\ (Handed(vRound)' <=> Handed(vRound)) /\ (Copying(vRound)' <=> Copying(vRound))
      BY <2>4, <2>5, <2>7
    <2> QED BY <1>3, <1>4, <2>1, <2>3, <2>6, <2>8 DEF KktTile, One
  <1>15. CASE FinishMul /\ ~LastBatch(vBatch)
    <2>1. /\ vRound' = vRound /\ vBatch' = vBatch + 1 /\ vPc = "multiplying" /\ vPc' = "gate"
          /\ UNCHANGED <<kktEmpty, kktFull>>
      BY <1>15 DEF FinishMul, kktEv
    <2>2. vBatch' > 0
      BY <1>2, <2>1
    <2>3. \A r : (Handed(r)' <=> Handed(r)) /\ (Consumed(r)' <=> Consumed(r))
      BY <2>1, <2>2 DEF Handed, Consumed
    <2>4. \A r : (Copying(r)' <=> Copying(r)) /\ (Arrived(r)' <=> Arrived(r))
      BY <1>11, <1>15 DEF VectorPipe
    <2>5. \A r \in Working : (Copying(r)' => Handed(r)') /\ (Consumed(r)' => Arrived(r)')
      BY <1>6, <2>3, <2>4
    <2>6. (Handed(vRound)' <=> Handed(vRound)) /\ (Copying(vRound)' <=> Copying(vRound))
          /\ (Arrived(vRound)' <=> Arrived(vRound)) /\ (Consumed(vRound)' <=> Consumed(vRound))
      BY <2>1, <2>3, <2>4
    <2> QED BY <1>3, <1>4, <2>1, <2>5, <2>6 DEF KktTile, One
  <1>16. CASE PassRound \/ (FinishMul /\ LastBatch(vBatch))
    <2>1. /\ vRound' = vRound + 1 /\ vPc' = "top" /\ UNCHANGED <<kktEmpty, kktFull>>
          /\ vBatch' = 0
      BY <1>5, <1>16 DEF PassRound, FinishMul, kktEv
    <2>2. vRound \in Working => Handed(vRound) /\ Consumed(vRound)
      <3>1. CASE PassRound
        BY <3>1 DEF PassRound, Working
      <3>2. CASE FinishMul
        BY <3>2 DEF FinishMul, Handed, Consumed
      <3> QED BY <1>16, <3>1, <3>2
    <2>3. \A r \in Nat : r < vRound + 1 <=> r < vRound \/ r = vRound
      BY <1>1
    <2>4. \A r \in Working : (Handed(r)' <=> Handed(r)) /\ (Consumed(r)' <=> Consumed(r))
      <3> TAKE r \in Working
      <3>1. ~(vBatch' > 0)
        BY <2>1
      <3>2. r \in Nat
        BY <1>4
      <3>3. (Handed(r)' <=> r < vRound \/ r = vRound) /\ (Consumed(r)' <=> r < vRound \/ r = vRound)
        BY <2>1, <2>3, <3>1, <3>2 DEF Handed, Consumed
      <3>4. CASE r = vRound
        BY <2>2, <3>3, <3>4
      <3>5. CASE r # vRound
        BY <3>3, <3>5 DEF Handed, Consumed
      <3> QED BY <3>4, <3>5
    <2>5. \A r : (Copying(r)' <=> Copying(r)) /\ (Arrived(r)' <=> Arrived(r))
      BY <1>11, <1>16 DEF VectorPipe
    <2>6. \A r \in Working : (Copying(r)' => Handed(r)') /\ (Consumed(r)' => Arrived(r)')
      BY <1>6, <2>4, <2>5
    <2>7. kktEmpty = 0 /\ kktFull = 0
      <3>1. vRound \in Working => Copying(vRound)
        BY <1>1, <2>2
      <3> QED BY <1>1, <1>3, <2>2, <3>1 DEF One
    <2>8. ~Handed(vRound)'
      BY <1>1, <2>1 DEF Handed
    <2>9. vRound' \in Working => ~Arrived(vRound)'
      <3>1. vRound + 1 \in Working => ~Arrived(vRound + 1)
        BY <1>1
      <3> QED BY <2>1, <2>5, <3>1
    <2> QED BY <1>4, <2>1, <2>6, <2>7, <2>8, <2>9 DEF KktTile, One
  <1>17. AicRound \/ Scalar \/ Mte3 \/ UNCHANGED vars =>
           UNCHANGED <<vpipe, kktEmpty, kktFull, mteRound, mteBatch, mtePc>>
    BY Frames DEF vars, kktEv, mte2
  <1>18. UNCHANGED <<mteRound, mteBatch, mtePc>> =>
           \A r : (Copying(r)' <=> Copying(r)) /\ (Arrived(r)' <=> Arrived(r))
    BY DEF Copying, Arrived
  <1>19. CASE AicRound \/ Scalar \/ Mte3 \/ UNCHANGED vars
    BY <1>10, <1>17, <1>18, <1>19
  <1>20. CASE Mte2
    BY <1>7, <1>8, <1>9, <1>10, <1>20
  <1>21. CASE VectorPipe
    BY <1>12, <1>13, <1>14, <1>15, <1>16, <1>21 DEF VectorPipe
  <1> QED BY <1>19, <1>20, <1>21 DEF Next, Finished

-----------------------------------------------------------------------------
(* What the buffers hold *)

\* While PIPE_V prepares or multiplies, its output is the next one behind
\* those copied, at most one of which is still to be copied.
LEMMA Preparing ==
  ASSUME IInv, vPc \in {"preparing", "mul", "multiplying"}
  PROVE  /\ vRound \in Working /\ vBatch \in Batches
         /\ used < loaded /\ loaded <= loadBegun /\ loadBegun <= used + 2
         /\ copied <= produced /\ produced <= copied + 1
         /\ produced \in Nat /\ copied \in Nat /\ used \in Nat /\ loaded \in Nat
         /\ used = BatchIndex(vRound, vBatch) /\ produced = OutputIndex(vRound, vBatch)
  <1>1. /\ vRound \in Working /\ used < computed /\ Place(vRound, vBatch)
        /\ used = BatchIndex(vRound, vBatch) /\ produced = OutputIndex(vRound, vBatch)
    BY DEF IInv, VectorOrder
  <1>2. vBatch \in Batches
    BY <1>1, Sizes DEF IInv, Place
  <1>3. /\ used \in Nat /\ loaded \in Nat /\ produced \in Nat /\ copied \in Nat /\ acquired \in Nat
    BY Progresses
  <1>4. useBegun = used + 1
    BY DEF useBegun, One
  <1>5. /\ useBegun <= loaded /\ loaded <= loadBegun /\ loadBegun <= used + 2
        /\ copied <= copyBegun /\ copyBegun <= produced /\ copyBegun \in Nat
    BY Bounds
  <1>6. produced < acquired /\ acquired - 2 <= copied
    BY <1>1, Lag DEF IInv, Copies
  <1>7. used < loaded
    BY <1>3, <1>4, <1>5
  <1>8. copied <= produced /\ produced <= copied + 1
    BY <1>3, <1>5, <1>6
  <1> QED BY <1>1, <1>2, <1>3, <1>5, <1>7, <1>8

\* Two numbers in a window of two share a buffer only if they are equal.
LEMMA Apart ==
  ASSUME NEW m \in Nat, NEW n \in Nat, BufferOf(m) = BufferOf(n), m <= n, n <= m + 1
  PROVE  m = n
  BY Alternate

LEMMA NextGateContent ==
  ASSUME IInv, [Next]_vars
  PROVE  GateContent'
  <1>1. GateContent
    BY DEF IInv, Contents
  <1>2. /\ Working' = Working /\ Batches' = Batches
        /\ \A r, b : BatchIndex(r, b)' = BatchIndex(r, b)
        /\ \A b : Batch(b)' = Batch(b)
    BY WorkUnchanged, WorkIsFixed
  <1>3. used \in Nat /\ loaded \in Nat /\ gate \in [{0, 1} -> SUBSET OwnTiles]
    BY Progresses, Alternate DEF IInv, TypeOK, MemoryType
  <1>4. \A r \in Working, b \in Batches : BatchIndex(r, b) \in Nat
    <2> TAKE r \in Working, b \in Batches
    <2>1. r \in Nat /\ b \in Nat
      BY Sizes DEF IInv, Working
    <2> QED BY <2>1, IndexStep DEF IInv
  <1>5. CASE FinishLoadGate
    <2>1. /\ gate' = [gate EXCEPT ![BufferOf(loaded)] = {mteRound} \X Batch(mteBatch)]
          /\ loaded' = loaded + 1 /\ used' = used /\ mtePc = "loadingGate"
      BY <1>5 DEF FinishLoadGate, PrefetchedHeads, Mte2Only, vpipe
    <2>2. /\ loaded = BatchIndex(mteRound, mteBatch) /\ mteRound \in Working /\ mteBatch \in Batches
      <3>1. /\ mteRound \in Working /\ Place(mteRound, mteBatch)
            /\ loaded = BatchIndex(mteRound, mteBatch) + 0
        BY <2>1 DEF IInv, Mte2Order, One
      <3>2. mteBatch \in Batches
        BY <3>1, Sizes DEF IInv, Place
      <3> QED BY <1>4, <3>1, <3>2
    <2>3. loaded <= used + 1
      <3>1. loadBegun = loaded + 1
        BY <2>1 DEF loadBegun, One
      <3> QED BY <1>3, <3>1, Bounds
    <2>4. BufferOf(loaded) \in {0, 1}
      BY <1>3, Alternate
    <2>5. ASSUME NEW r \in Working, NEW b \in Batches, NEW n \in Nat, n = BatchIndex(r, b),
                 used <= n, n < loaded + 1
          PROVE  gate'[BufferOf(n)] = {r} \X Batch(b)
      <3>1. BufferOf(n) \in {0, 1}
        BY Alternate
      <3>2. CASE n = loaded
        <4>1. r = mteRound /\ b = mteBatch
          <5>1. BatchIndex(r, b) = BatchIndex(mteRound, mteBatch) /\ Given
            BY <2>2, <2>5, <3>2 DEF IInv
          <5> QED BY <2>2, <2>5, <5>1, IndexUnique
        <4> QED BY <1>3, <2>1, <2>4, <3>2, <4>1
      <3>3. CASE n # loaded
        <4>1. n < loaded /\ n <= loaded /\ loaded <= n + 1
          BY <1>3, <2>3, <2>5, <3>3
        <4>2. BufferOf(n) # BufferOf(loaded)
          BY <1>3, <3>3, <4>1, Apart
        <4>3. gate[BufferOf(n)] = {r} \X Batch(b)
          BY <1>1, <2>5, <4>1 DEF GateContent
        <4> QED BY <1>3, <2>1, <3>1, <4>2, <4>3
      <3> QED BY <3>2, <3>3
    <2>6. \A r \in Working, b \in Batches :
            used <= BatchIndex(r, b) /\ BatchIndex(r, b) < loaded + 1 =>
              gate'[BufferOf(BatchIndex(r, b))] = {r} \X Batch(b)
      BY <1>4, <2>5
    <2> QED BY <1>2, <2>1, <2>6 DEF GateContent
  <1>6. CASE UNCHANGED <<gate, loaded>> /\ (used' = used \/ used' = used + 1)
    <2>1. \A n \in Nat : used' <= n => used <= n
      BY <1>3, <1>6
    <2>2. \A r \in Working, b \in Batches :
            used' <= BatchIndex(r, b) /\ BatchIndex(r, b) < loaded =>
              gate[BufferOf(BatchIndex(r, b))] = {r} \X Batch(b)
      BY <1>1, <1>4, <2>1 DEF GateContent
    <2> QED BY <1>2, <1>6, <2>2 DEF GateContent
  <1>7. AicRound \/ Scalar \/ Mte3 \/ UNCHANGED vars => UNCHANGED <<gate, loaded, used>>
    BY Frames DEF vars, memory, mte2, vpipe
  <1>8. Mte2 /\ ~FinishLoadGate => UNCHANGED <<gate, loaded, used>>
    BY DEF Mte2, StartLoadGate, StartLoadKkt, FinishLoadKkt, ReleaseSlot, Mte2Only, vpipe
  <1>9. VectorPipe => UNCHANGED <<gate, loaded>>
    BY Frames DEF mte2
  <1>10. VectorPipe => used' = used \/ used' = used + 1
    BY DEF VectorPipe, StartZeroKkt, HandOverKkt, PassRound, TakeGate, FinishZeroTail,
           StartPrepare, FinishPrepare, StartMul, FinishMul
  <1> QED BY <1>5, <1>6, <1>7, <1>8, <1>9, <1>10 DEF Next, Finished

LEMMA NextKktContent ==
  ASSUME IInv, [Next]_vars
  PROVE  KktContent'
  <1>1. KktContent
    BY DEF IInv, Contents
  <1>2. Working' = Working /\ (\A r \in Working : r > vRound => ~Arrived(r)) /\ vRound \in Nat
    BY WorkUnchanged, WorkIsFixed, KktOrder
  <1>3. CASE FinishLoadKkt
    <2>1. vRound = mteRound
      BY <1>3, KktCopyOfRound DEF FinishLoadKkt
    <2> QED BY <1>3, <2>1 DEF FinishLoadKkt, Mte2Only, vpipe, KktContent
  <1>4. CASE Mte2 /\ ~FinishLoadKkt
    <2>1. \A r \in Working : Arrived(r)' <=> Arrived(r)
      <3>1. CASE StartLoadKkt
        BY <3>1 DEF StartLoadKkt, Arrived
      <3> QED BY <1>4, <3>1, KktKept
    <2>2. UNCHANGED <<kkt, vRound>>
      BY <1>4 DEF Mte2, StartLoadGate, FinishLoadGate, StartLoadKkt, ReleaseSlot, Mte2Only, vpipe
    <2> QED BY <1>1, <1>2, <2>1, <2>2 DEF KktContent
  <1>5. VectorPipe => \A r : Arrived(r)' <=> Arrived(r)
    BY Frames DEF mte2, Arrived
  <1>6. CASE HandOverKkt
    <2>1. vRound' = vRound /\ vPc \in {"top", "zeroing"}
      BY <1>6 DEF HandOverKkt
    <2>2. vRound \in Working => ~Arrived(vRound)
      BY <1>2, <2>1, KktOrder DEF Handed
    <2> QED BY <1>2, <1>5, <1>6, <2>1, <2>2 DEF KktContent, VectorPipe
  <1>7. CASE VectorPipe /\ vRound' = vRound + 1
    <2>1. vRound + 1 \in Working => ~Arrived(vRound + 1)
      BY <1>2
    <2> QED BY <1>2, <1>5, <1>7, <2>1 DEF KktContent
  <1>8. CASE VectorPipe /\ UNCHANGED <<vRound, kkt>>
    BY <1>1, <1>2, <1>5, <1>8 DEF KktContent
  <1>9. VectorPipe => HandOverKkt \/ vRound' = vRound + 1 \/ UNCHANGED <<vRound, kkt>>
    BY DEF VectorPipe, StartZeroKkt, PassRound, TakeGate, FinishZeroTail,
           StartPrepare, FinishPrepare, StartMul, FinishMul
  <1>10. CASE AicRound \/ Scalar \/ Mte3 \/ UNCHANGED vars
    <2>1. UNCHANGED <<kkt, vRound, mteRound, mteBatch, mtePc>>
      BY <1>10, Frames DEF vars, memory, mte2, vpipe
    <2> QED BY <1>1, <1>2, <2>1 DEF KktContent, Arrived
  <1> QED BY <1>3, <1>4, <1>6, <1>7, <1>8, <1>9, <1>10 DEF Next, Finished

\* What the multiplication makes of an output.
LEMMA Multiply ==
  ASSUME NEW E, NEW T, NEW v, \A t \in E : t[1] # v, \A t \in T : t[1] = v
  PROVE  {IF t.tile[1] = v THEN [t EXCEPT !.gram = v] ELSE t : t \in Multiplied(E) \cup Prepared(T)}
           = Multiplied(E \cup T)
  <1> DEFINE f(t) == IF t.tile[1] = v THEN [t EXCEPT !.gram = v] ELSE t
             m(t) == [tile |-> t, ownGate |-> TRUE, gram |-> t[1]]
             p(t) == [tile |-> t, ownGate |-> TRUE, gram |-> NoGram]
  <1>1. \A t \in E : f(m(t)) = m(t)
    OBVIOUS
  <1>2. \A t \in T : f(p(t)) = m(t)
    <2> TAKE t \in T
    <2>1. p(t).tile = t /\ t[1] = v
      OBVIOUS
    <2>2. [p(t) EXCEPT !.gram = v] = m(t)
      <3> DEFINE own == TRUE
      <3> HIDE DEF own
      <3>1. [[tile |-> t, ownGate |-> own, gram |-> NoGram] EXCEPT !.gram = v]
              = [tile |-> t, ownGate |-> own, gram |-> v]
        OBVIOUS
      <3>2. [p(t) EXCEPT !.gram = v] = [tile |-> t, ownGate |-> TRUE, gram |-> v]
        BY <3>1, Zenon DEF own
      <3> QED BY <2>1, <3>2
    <2> QED BY <2>1, <2>2
  <1>3. /\ Multiplied(E) = {m(t) : t \in E} /\ Prepared(T) = {p(t) : t \in T}
        /\ Multiplied(E \cup T) = {m(t) : t \in E \cup T}
    BY DEF Multiplied, Prepared
  <1> HIDE DEF f, m, p
  <1>4. {f(t) : t \in {m(e) : e \in E} \cup {p(e) : e \in T}} = {m(t) : t \in E \cup T}
    BY <1>1, <1>2
  <1>5. {f(t) : t \in Multiplied(E) \cup Prepared(T)} = Multiplied(E \cup T)
    BY <1>3, <1>4
  <1> QED BY <1>5 DEF f

\* The tiles of an output are those of the batch that completes it and, in a
\* pair, of the half before.
LEMMA Halved ==
  ASSUME IInv, vRound \in Working, vBatch \in Batches
  PROVE  /\ \A t \in EarlierHalf : t[1] # vRound
         /\ vRound \in Closing =>
              Destination(vRound, vBatch) = EarlierHalf \cup ({vRound} \X Batch(vBatch))
  <1>1. vRound \in Nat
    BY Progresses
  <1>2. vRound - 1 # vRound
    BY <1>1
  <1> QED BY <1>1, <1>2 DEF EarlierHalf, Destination

LEMMA NextOutContent ==
  ASSUME IInv, [Next]_vars
  PROVE  OutContent'
  <1>1. OutContent /\ GateContent /\ KktContent
    BY DEF IInv, Contents
  <1>2. /\ Closing' = Closing /\ Batches' = Batches
        /\ \A r : (SecondHalf(r)' <=> SecondHalf(r)) /\ Batch(r)' = Batch(r)
        /\ \A r, b : OutputIndex(r, b)' = OutputIndex(r, b) /\ Destination(r, b)' = Destination(r, b)
    BY WorkUnchanged, WorkIsFixed
  <1>3. produced \in Nat /\ copied \in Nat /\ vRound \in Nat /\ vBatch \in Nat
    BY Progresses
  <1>4. out \in [{0, 1} -> SUBSET TileState]
    BY Alternate DEF IInv, TypeOK, MemoryType
  <1>5. \A r \in Closing, b \in Batches : OutputIndex(r, b) \in Nat
    <2> TAKE r \in Closing, b \in Batches
    <2>1. r \in Nat /\ b \in Nat
      BY Sizes DEF IInv, Closing, Working
    <2> QED BY <2>1, IndexStep DEF IInv
  <1>6. BufferOf(produced) \in {0, 1}
    BY <1>3, Alternate
  \* The outputs before the one in progress.
  <1>7. ASSUME vPc \in {"preparing", "multiplying"}, NEW r \in Closing, NEW b \in Batches,
               copied <= OutputIndex(r, b), OutputIndex(r, b) < produced
        PROVE  /\ out[BufferOf(OutputIndex(r, b))] = Multiplied(Destination(r, b))
               /\ BufferOf(OutputIndex(r, b)) \in {0, 1}
               /\ BufferOf(OutputIndex(r, b)) # BufferOf(produced)
    <2>1. OutputIndex(r, b) \in Nat
      BY <1>5
    <2>2. produced <= copied + 1
      BY <1>7, Preparing
    <2>3. OutputIndex(r, b) <= produced /\ produced <= OutputIndex(r, b) + 1 /\ OutputIndex(r, b) # produced
      BY <1>3, <1>7, <2>1, <2>2
    <2>4. BufferOf(OutputIndex(r, b)) # BufferOf(produced)
      BY <1>3, <2>1, <2>3, Apart
    <2> QED BY <1>1, <1>7, <2>1, <2>4, Alternate DEF OutContent
  <1>8. CASE FinishPrepare
    <2> DEFINE tiles == {[tile |-> t, ownGate |-> t \in gate[BufferOf(used)], gram |-> NoGram] :
                           t \in {vRound} \X Batch(vBatch)}
    <2>1. /\ vPc = "preparing" /\ vPc' = "mul"
          /\ UNCHANGED <<vRound, vBatch, produced, copied>>
          /\ out' = [out EXCEPT ![BufferOf(produced)] = IF SecondHalf(vRound) THEN @ \cup tiles ELSE tiles]
      BY <1>8 DEF FinishPrepare, VectorOnly, copied
    <2>2. tiles = Prepared({vRound} \X Batch(vBatch))
      <3>1. /\ vRound \in Working /\ vBatch \in Batches /\ used = BatchIndex(vRound, vBatch)
            /\ used < loaded /\ used <= used
        BY <2>1, Preparing
      <3>2. gate[BufferOf(used)] = {vRound} \X Batch(vBatch)
        BY <1>1, <3>1 DEF GateContent
      <3> DEFINE own == {vRound} \X Batch(vBatch)
      <3>3. \A t \in own : (t \in own) = TRUE
        OBVIOUS
      <3> HIDE DEF own
      <3>4. {[tile |-> t, ownGate |-> t \in own, gram |-> NoGram] : t \in own} = Prepared(own)
        BY <3>3 DEF Prepared
      <3> QED BY <3>2, <3>4 DEF own
    <2> HIDE DEF tiles
    <2>3. SecondHalf(vRound) => out[BufferOf(produced)] = Multiplied(EarlierHalf)
      BY <1>1, <2>1 DEF OutContent
    <2>4. ~SecondHalf(vRound) => Multiplied(EarlierHalf) = {}
      BY DEF EarlierHalf, Multiplied
    <2>5. out'[BufferOf(produced)] = Multiplied(EarlierHalf) \cup Prepared({vRound} \X Batch(vBatch))
      BY <1>4, <1>6, <2>1, <2>2, <2>3, <2>4
    <2>6. \A r \in Closing, b \in Batches :
            copied <= OutputIndex(r, b) /\ OutputIndex(r, b) < produced =>
              out'[BufferOf(OutputIndex(r, b))] = Multiplied(Destination(r, b))
      BY <1>4, <1>7, <2>1
    <2>7. EarlierHalf' = EarlierHalf
      BY <1>2, <2>1 DEF EarlierHalf
    <2> QED BY <1>2, <2>1, <2>5, <2>6, <2>7 DEF OutContent, Multiplied, Prepared
  <1>9. CASE FinishMul
    <2> DEFINE own == {vRound} \X Batch(vBatch)
    <2>1. /\ vPc = "multiplying" /\ vPc' \in {"top", "gate"} /\ copied' = copied
          /\ produced' = IF FirstHalf(vRound) THEN produced ELSE produced + 1
          /\ vRound' = IF LastBatch(vBatch) THEN vRound + 1 ELSE vRound
          /\ vBatch' = IF LastBatch(vBatch) THEN 0 ELSE vBatch + 1
          /\ out' = [out EXCEPT ![BufferOf(produced)] =
                       {IF t.tile[1] = vRound THEN [t EXCEPT !.gram = kkt] ELSE t : t \in @}]
      BY <1>9 DEF FinishMul, VectorOnly, copied
    <2>2. /\ vRound \in Working /\ vBatch \in Batches /\ produced = OutputIndex(vRound, vBatch)
          /\ copied <= produced /\ produced <= copied + 1
      BY <2>1, Preparing
    <2>3. kkt = vRound
      <3>1. Arrived(vRound)
        <4>1. Consumed(vRound)
          BY <2>1 DEF Consumed
        <4> QED BY <2>2, <4>1, KktOrder
      <3> QED BY <1>1, <2>2, <3>1 DEF KktContent
    <2>4. out[BufferOf(produced)] = Multiplied(EarlierHalf) \cup Prepared(own)
      BY <1>1, <2>1 DEF OutContent
    <2>5. out'[BufferOf(produced)] = Multiplied(EarlierHalf \cup own)
      <3>1. (\A t \in EarlierHalf : t[1] # vRound) /\ (\A t \in own : t[1] = vRound)
        BY <2>2, Halved
      <3> HIDE DEF own
      <3>2. out'[BufferOf(produced)] =
              {IF t.tile[1] = vRound THEN [t EXCEPT !.gram = vRound] ELSE t :
                 t \in Multiplied(EarlierHalf) \cup Prepared(own)}
        BY <1>4, <1>6, <2>1, <2>3, <2>4
      <3>3. {IF t.tile[1] = vRound THEN [t EXCEPT !.gram = vRound] ELSE t :
               t \in Multiplied(EarlierHalf) \cup Prepared(own)} = Multiplied(EarlierHalf \cup own)
        BY <3>1, Multiply
      <3> QED BY <3>2, <3>3
    <2>6. \A r \in Closing, b \in Batches :
            copied <= OutputIndex(r, b) /\ OutputIndex(r, b) < produced =>
              out'[BufferOf(OutputIndex(r, b))] = Multiplied(Destination(r, b))
      BY <1>4, <1>7, <2>1
    <2>7. /\ FirstHalf(vRound) => /\ BatchCount = 1 /\ ~SecondHalf(vRound) /\ SecondHalf(vRound + 1)
                                  /\ vRound \notin Closing
          /\ SecondHalf(vRound) => BatchCount = 1
          /\ SecondHalf(vRound + 1) => FirstHalf(vRound)
          /\ ~FirstHalf(vRound) => vRound \in Closing
      BY <1>3, <2>2, Halves DEF IInv
    <2>8. Batches = 0 .. BatchCount - 1 /\ BatchCount \in Nat
      BY Sizes DEF IInv
    <2>9. BatchCount = 1 => LastBatch(vBatch) /\ vBatch = 0
      BY <2>2, <2>8 DEF LastBatch
    <2>10. CASE FirstHalf(vRound)
      <3>1. vRound' = vRound + 1 /\ vBatch' = 0 /\ vBatch = 0 /\ produced' = produced
        BY <2>1, <2>7, <2>9, <2>10
      <3>2. EarlierHalf = {} /\ EarlierHalf' = own
        <4>1. SecondHalf(vRound') /\ vRound' - 1 = vRound /\ Batch(vBatch') = Batch(vBatch)
          BY <1>3, <2>7, <2>10, <3>1
        <4>2. EarlierHalf' = IF SecondHalf(vRound') THEN {vRound' - 1} \X Batch(vBatch') ELSE {}
          BY <1>2 DEF EarlierHalf
        <4> QED BY <2>7, <2>10, <4>1, <4>2 DEF EarlierHalf
      <3>3. out'[BufferOf(produced)] = Multiplied(EarlierHalf')
        BY <2>5, <3>2
      <3> QED BY <1>2, <2>1, <2>6, <3>1, <3>3 DEF OutContent, Multiplied
    <2>11. CASE ~FirstHalf(vRound)
      <3>1. produced' = produced + 1 /\ vRound \in Closing
        BY <2>1, <2>7, <2>11
      <3>2. ~SecondHalf(vRound)'
        <4>1. CASE LastBatch(vBatch)
          BY <1>2, <2>1, <2>7, <2>11, <4>1
        <4>2. CASE ~LastBatch(vBatch)
          BY <1>2, <2>1, <2>7, <2>9, <4>2
        <4> QED BY <4>1, <4>2
      <3>3. out'[BufferOf(produced)] = Multiplied(Destination(vRound, vBatch))
        BY <2>2, <2>5, <3>1, Halved
      <3>4. ASSUME NEW r \in Closing, NEW b \in Batches,
                   copied <= OutputIndex(r, b), OutputIndex(r, b) < produced + 1
            PROVE  out'[BufferOf(OutputIndex(r, b))] = Multiplied(Destination(r, b))
        <4>1. CASE OutputIndex(r, b) < produced
          BY <2>6, <3>4, <4>1
        <4>2. CASE ~(OutputIndex(r, b) < produced)
          <5>1. OutputIndex(r, b) = produced
            BY <1>3, <1>5, <3>4, <4>2
          <5>2. r = vRound /\ b = vBatch
            <6>1. /\ OutputIndex(r, b) = OutputIndex(vRound, vBatch) /\ Given
                  /\ r \in Working /\ vRound \in Closing
              BY <2>2, <3>1, <5>1 DEF IInv, Closing
            <6> QED BY <2>2, <6>1, IndexUnique
          <5> QED BY <3>3, <5>1, <5>2
        <4> QED BY <4>1, <4>2
      <3> QED BY <1>2, <2>1, <3>1, <3>2, <3>4 DEF OutContent, Multiplied
    <2> QED BY <2>10, <2>11
  <1>10. CASE PassRound
    <2>1. UNCHANGED <<out, produced, copied>> /\ vRound' = vRound + 1 /\ vPc' = "top"
      BY <1>10 DEF PassRound, VectorOnly, copied
    <2>2. ~SecondHalf(vRound)'
      <3>1. vRound \notin Working
        BY <1>10 DEF PassRound, Working
      <3>2. ~SecondHalf(vRound + 1)
        BY <1>3, <3>1, Halves DEF IInv
      <3> QED BY <1>2, <2>1, <3>2
    <2> QED BY <1>1, <1>2, <2>1, <2>2 DEF OutContent, Multiplied
  <1>11. CASE StartZeroKkt \/ HandOverKkt \/ TakeGate \/ FinishZeroTail \/ StartPrepare \/ StartMul
    <2>1. /\ UNCHANGED <<out, produced, copied, vRound, vBatch>>
          /\ vPc \in {"mul", "multiplying"} <=> vPc' \in {"mul", "multiplying"}
      BY <1>11 DEF StartZeroKkt, HandOverKkt, TakeGate, FinishZeroTail, StartPrepare, StartMul,
                   VectorOnly, copied
    <2>2. EarlierHalf' = EarlierHalf
      BY <1>2, <2>1 DEF EarlierHalf
    <2> QED BY <1>1, <1>2, <2>1, <2>2 DEF OutContent, Multiplied, Prepared
  <1>12. CASE UNCHANGED <<out, produced, vRound, vBatch, vPc>> /\ (copied' = copied \/ copied' = copied + 1)
    <2>1. \A n \in Nat : copied' <= n => copied <= n
      BY <1>3, <1>12
    <2>2. \A r \in Closing, b \in Batches :
            copied' <= OutputIndex(r, b) /\ OutputIndex(r, b) < produced =>
              out[BufferOf(OutputIndex(r, b))] = Multiplied(Destination(r, b))
      BY <1>1, <1>5, <2>1 DEF OutContent
    <2>3. EarlierHalf' = EarlierHalf
      BY <1>2, <1>12 DEF EarlierHalf
    <2> QED BY <1>1, <1>2, <1>12, <2>2, <2>3 DEF OutContent, Multiplied, Prepared
  <1>13. AicRound \/ Scalar \/ Mte2 \/ UNCHANGED vars =>
           UNCHANGED <<out, produced, vRound, vBatch, vPc, copied>>
    BY Frames DEF vars, memory, vpipe, copied
  <1>14. Mte3 => UNCHANGED <<out, produced, vRound, vBatch, vPc>>
    BY Frames DEF vpipe
  <1>15. Mte3 => copied' = copied \/ copied' = copied + 1
    BY DEF Mte3, StartCopyOut, FinishCopyOut, IInv, TypeOK, MemoryType, copied
  <1> QED BY <1>8, <1>9, <1>10, <1>11, <1>12, <1>13, <1>14, <1>15 DEF Next, VectorPipe, Finished

\* The oldest of the outstanding copies.
LEMMA OldestCopy ==
  ASSUME IInv, copies # << >>
  PROVE  /\ Head(copies) \in [buffer : {0, 1}, slot : {0, 1}, dest : SUBSET OwnTiles]
         /\ Head(copies).buffer = BufferOf(copied) /\ Head(copies).slot = BufferOf(copied)
         /\ Names(Head(copies).dest, copied)
  <1>1. copies \in Seq([buffer : {0, 1}, slot : {0, 1}, dest : SUBSET OwnTiles])
    BY Alternate DEF IInv, TypeOK, OutputType
  <1>2. 1 \in DOMAIN copies /\ Head(copies) = copies[1]
    BY <1>1
  <1>3. copied + 1 - 1 = copied
    BY Progresses
  <1>4. /\ copies[1].buffer = BufferOf(copied + 1 - 1) /\ copies[1].slot = copies[1].buffer
        /\ Names(copies[1].dest, copied + 1 - 1)
    BY <1>2 DEF IInv, Copies
  <1>5. copies[1] \in [buffer : {0, 1}, slot : {0, 1}, dest : SUBSET OwnTiles]
    <2> DEFINE Copy == [buffer : {0, 1}, slot : {0, 1}, dest : SUBSET OwnTiles]
    <2>1. copies \in Seq(Copy) /\ 1 \in DOMAIN copies
      BY <1>1, <1>2
    <2> HIDE DEF Copy
    <2>2. copies[1] \in Copy
      BY <2>1
    <2> QED BY <2>2 DEF Copy
  <1>6. copies[1].buffer = BufferOf(copied) /\ Names(copies[1].dest, copied)
    BY <1>3, <1>4
  <1> QED BY <1>2, <1>4, <1>5, <1>6

LEMMA NextGmContent ==
  ASSUME IInv, [Next]_vars
  PROVE  GmContent'
  <1>1. GmContent /\ OutContent
    BY DEF IInv, Contents
  <1>2. \A d, n : Names(d, n)' <=> Names(d, n)
    BY WorkUnchanged, WorkIsFixed
  <1>3. gm \in Seq([dest : SUBSET OwnTiles, tiles : SUBSET TileState])
    BY DEF IInv, TypeOK, MemoryType
  <1>4. CASE FinishCopyOut
    <2> DEFINE c == Head(copies)
               e == [dest |-> c.dest, tiles |-> out[c.buffer]]
    <2>1. gm' = Append(gm, e) /\ copying
      BY <1>4 DEF FinishCopyOut
    <2>2. c.buffer = BufferOf(copied) /\ Names(c.dest, copied)
      BY <2>1, OldestCopy DEF IInv, Copies
    <2>3. copied < produced
      <3>1. copyBegun = copied + 1
        BY <2>1 DEF copyBegun, One
      <3>2. copyBegun <= produced
        BY DEF IInv, Order
      <3>3. copied \in Nat /\ produced \in Nat
        BY Progresses
      <3> QED BY <3>1, <3>2, <3>3
    <2>4. out[c.buffer] = Multiplied(c.dest)
      <3>1. PICK r \in Closing, b \in Batches : OutputIndex(r, b) = copied /\ c.dest = Destination(r, b)
        BY <2>2 DEF Names
      <3>2. copied <= copied
        BY Progresses
      <3> QED BY <1>1, <2>2, <2>3, <3>1, <3>2 DEF OutContent
    <2>5. e.dest = c.dest /\ e.tiles = Multiplied(e.dest) /\ Names(e.dest, copied)
      BY <2>2, <2>4
    <2> HIDE DEF c, e
    <2>6. SUFFICES ASSUME NEW i \in DOMAIN gm'
                   PROVE  Names(gm'[i].dest, i - 1) /\ gm'[i].tiles = Multiplied(gm'[i].dest)
      BY <1>2 DEF GmContent, Multiplied
    <2>7. DOMAIN gm = 1 .. copied /\ i \in 1 .. copied + 1 /\ copied \in Nat
      BY <1>3, <2>1 DEF copied
    <2>8. CASE i \in DOMAIN gm
      <3>1. gm'[i] = gm[i]
        BY <1>3, <2>1, <2>8
      <3> QED BY <1>1, <2>8, <3>1 DEF GmContent
    <2>9. CASE i \notin DOMAIN gm
      <3>1. i = copied + 1 /\ i - 1 = copied
        BY <2>7, <2>9
      <3>2. gm'[i] = e
        BY <1>3, <2>1, <3>1 DEF copied
      <3> QED BY <2>5, <3>1, <3>2
    <2> QED BY <2>8, <2>9
  <1>5. CASE UNCHANGED gm
    BY <1>1, <1>2, <1>5 DEF GmContent, Multiplied
  <1>6. AicRound \/ Scalar \/ Mte2 \/ VectorPipe \/ StartCopyOut \/ UNCHANGED vars => UNCHANGED gm
    BY Frames DEF vars, memory, StartCopyOut
  <1> QED BY <1>4, <1>5, <1>6 DEF Next, Mte3, Finished

-----------------------------------------------------------------------------
(* The types *)

\* The tiles of a batch, and those of the output it completes, are the lane's.
LEMMA Destinations ==
  ASSUME Given, NEW r \in Working, NEW b \in Batches
  PROVE  /\ {r} \X Batch(b) \in SUBSET OwnTiles
         /\ Destination(r, b) \in SUBSET OwnTiles
  <1>1. /\ r \in Nat /\ \A q : q \in Working <=> q \in Rounds /\ Works(q)
        /\ b \in 0 .. BatchCount - 1 /\ BatchCount \in Nat /\ BatchCount > 0
    BY Sizes DEF Working
  <1>2. Batch(b) \subseteq LaneRepeats(repeat, lane)
    <2>1. /\ FirstRepeat(repeat, lane) \in Nat /\ TotalHeads \in Nat
          /\ RepeatEnd(repeat, lane) = FirstRepeat(repeat, lane) + TotalHeads
          /\ LaneRepeats(repeat, lane) = FirstRepeat(repeat, lane) .. RepeatEnd(repeat, lane) - 1
      BY Sizes DEF LaneRepeats
    <2> QED BY <1>1, <2>1 DEF Batch, GATE_HEAD_BATCH, MinI32
  <1>3. \A q \in Working : {q} \X Batch(b) \in SUBSET OwnTiles
    BY <1>1, <1>2 DEF OwnTiles
  <1>4. SecondHalf(r) => r - 1 \in Working
    BY <1>1, Halves
  <1>5. SecondHalf(r) => {r - 1, r} \X Batch(b) = ({r - 1} \X Batch(b)) \cup ({r} \X Batch(b))
    OBVIOUS
  <1> QED BY <1>3, <1>4, <1>5 DEF Destination

LEMMA NextProgressType ==
  ASSUME IInv, [Next]_vars
  PROVE  ProgressType'
  <1>1. /\ aicRound \in Nat /\ localRound \in Nat
        /\ taken \in Nat /\ released \in Nat /\ batch \in Nat
        /\ fetched \in Nat /\ dequeued \in Nat /\ computed \in Nat /\ loaded \in Nat /\ used \in Nat
        /\ acquired \in Nat /\ enqueued \in Nat /\ launched \in Nat /\ produced \in Nat
        /\ pc \in {"top", "fetch", "ready", "batch", "acquire", "prepare", "drain0", "drain1", "done"}
        /\ mtePc \in {"gate", "loadingGate", "kkt", "loadingKkt", "free"}
        /\ vPc \in {"top", "zeroing", "gate", "clearing", "prepare", "preparing", "mul", "multiplying"}
    BY Progresses
  <1>2. /\ TaskCount \in Nat /\ Progress = 0 .. TaskCount /\ Progress' = Progress
        /\ \A r : r \in Working => r \in 0 .. TaskCount - 1
    <2>1. /\ TaskCount \in Nat /\ Progress = 0 .. TaskCount /\ Rounds = 0 .. TaskCount - 1
          /\ \A r : r \in Working => r \in Rounds
      BY Sizes DEF IInv
    <2>2. Progress' = Progress
      BY WorkUnchanged, WorkIsFixed
    <2> QED BY <2>1, <2>2
  <1>3. /\ localRound' \in Progress /\ mteRound' \in Progress /\ vRound' \in Progress
        /\ batch' \in Nat /\ mteBatch' \in Nat /\ vBatch' \in Nat
    BY <1>2, NextScalarOrder, NextMte2Order, NextVectorOrder DEF ScalarOrder, Mte2Order, VectorOrder, Place
  <1>4. aicRound' \in Progress
    <2>1. CASE AicRound
      BY <1>1, <1>2, <2>1 DEF AicRound
    <2>2. CASE UNCHANGED aicRound
      BY <1>2, <2>2 DEF IInv, TypeOK, ProgressType
    <2> QED BY <2>1, <2>2, Frames DEF Next, Finished, vars
  <1>5. taken' \in Progress /\ released' \in Progress
    <2>1. ScalarOrder /\ taken \in Progress /\ released \in Progress
      BY DEF IInv, TypeOK, ProgressType
    <2>2. CASE WaitReady
      BY <1>1, <1>2, <2>1, <2>2 DEF WaitReady, ScalarOrder, Place, One
    <2>3. CASE ProcessBatch
      BY <1>1, <1>2, <2>1, <2>3 DEF ProcessBatch, ScalarOrder, Place, One
    <2>4. CASE UNCHANGED <<taken, released>>
      BY <2>1, <2>4
    <2>5. Scalar => WaitReady \/ ProcessBatch \/ UNCHANGED <<taken, released>>
      BY DEF Scalar, PrefetchFirstBatch, BeginBatch, AcquireOutputSlot, Epilogue, DrainOutputSlot
    <2>6. UNCHANGED scalar \/ UNCHANGED vars => UNCHANGED <<taken, released>>
      BY DEF vars, scalar
    <2> QED BY <2>2, <2>3, <2>4, <2>5, <2>6, Frames DEF Next, Finished
  <1>6. Scalar \/ UNCHANGED scalar
    BY Frames DEF Next, Finished, vars
  <1>7. fetched' \in Nat /\ dequeued' \in Nat /\ computed' \in Nat
    BY <1>6, ScalarGrows
  <1>8. acquired' \in Nat /\ enqueued' \in Nat /\ launched' \in Nat
    <2>1. /\ acquired' = acquired \/ acquired' = acquired + 1
          /\ enqueued' = enqueued \/ enqueued' = enqueued + 1
          /\ launched' = launched \/ launched' = launched + 1
      BY <1>6
         DEF Scalar, PrefetchFirstBatch, WaitReady, BeginBatch, AcquireOutputSlot, ProcessBatch,
             Epilogue, DrainOutputSlot, LaunchReadyOutput, launch, outVar, scalar
    <2> QED BY <1>1, <2>1
  <1>9. pc' \in {"top", "fetch", "ready", "batch", "acquire", "prepare", "drain0", "drain1", "done"}
    BY <1>1, <1>6
       DEF Scalar, PrefetchFirstBatch, WaitReady, BeginBatch, AcquireOutputSlot, ProcessBatch,
           Epilogue, DrainOutputSlot, Go, scalar, place
  <1>10. loaded' \in Nat /\ mtePc' \in {"gate", "loadingGate", "kkt", "loadingKkt", "free"}
    <2>1. Mte2 \/ UNCHANGED <<loaded, mtePc>>
      BY Frames DEF Next, Finished, vars, mte2
    <2> QED BY <1>1, <2>1
            DEF Mte2, StartLoadGate, FinishLoadGate, StartLoadKkt, FinishLoadKkt, ReleaseSlot, NextLoad
  <1>11. used' \in Nat /\ produced' \in Nat
    <2>1. VectorPipe \/ UNCHANGED <<used, produced>>
      BY Frames DEF Next, Finished, vars, vpipe
    <2> QED BY <1>1, <2>1
            DEF VectorPipe, StartZeroKkt, HandOverKkt, PassRound, TakeGate, FinishZeroTail,
                StartPrepare, FinishPrepare, StartMul, FinishMul
  <1>12. vPc' \in {"top", "zeroing", "gate", "clearing", "prepare", "preparing", "mul", "multiplying"}
    <2>1. VectorPipe \/ UNCHANGED vPc
      BY Frames DEF Next, Finished, vars, vpipe
    <2> QED BY <1>1, <2>1
            DEF VectorPipe, StartZeroKkt, HandOverKkt, PassRound, TakeGate, FinishZeroTail,
                StartPrepare, FinishPrepare, StartMul, FinishMul
  <1>13. Progress' = Progress
    BY <1>2
  <1> QED BY <1>3, <1>4, <1>5, <1>7, <1>8, <1>9, <1>10, <1>11, <1>12, <1>13 DEF ProgressType

LEMMA NextOutputType ==
  ASSUME IInv, [Next]_vars
  PROVE  OutputType'
  <1>1. /\ outFree \in SUBSET {0, 1} /\ outSlot \in {0, 1} /\ nextOutputSlot \in {0, 1}
        /\ slotBusy \in [{0, 1} -> BOOLEAN] /\ slotBuffer \in [{0, 1} -> {0, 1}]
        /\ readyOutput \in {NoOutput} \cup [slot : {0, 1}, dest : SUBSET OwnTiles]
        /\ copies \in Seq([buffer : {0, 1}, slot : {0, 1}, dest : SUBSET OwnTiles])
        /\ copying \in BOOLEAN
        /\ Buffer = {0, 1} /\ Slot = {0, 1}
    BY Alternate DEF IInv, TypeOK, OutputType
  <1>2. OwnTiles' = OwnTiles
    BY WorkUnchanged, WorkIsFixed
  <1>3. BufferOf(acquired) \in {0, 1} /\ BufferOf(launched) \in {0, 1}
    <2>1. acquired \in Int /\ launched \in Int
      BY Progresses
    <2> QED BY <2>1, Alternate
  <1>4. pc = "prepare" => Destination(localRound, batch) \in SUBSET OwnTiles
    <2>1. ScalarOrder /\ Given
      BY DEF IInv
    <2>2. Batches = 0 .. BatchCount - 1 /\ BatchCount \in Nat /\ BatchCount > 0
      BY Sizes DEF IInv
    <2>3. pc = "prepare" => localRound \in Working /\ batch \in Batches
      BY <2>1, <2>2 DEF ScalarOrder, Place
    <2> QED BY <2>1, <2>3, Destinations
  <1>5. readyOutput # NoOutput => readyOutput.slot \in {0, 1} /\ readyOutput.dest \in SUBSET OwnTiles
    BY <1>1
  <1>6. Scalar \/ UNCHANGED scalar
    BY Frames DEF Next, Finished, vars
  <1>7. outFree' \in SUBSET {0, 1}
    <2>1. \A s \in {0, 1} : Returned(s) \in SUBSET {0, 1}
      BY <1>1 DEF Returned
    <2>2. CASE AcquireOutputSlot
      BY <1>1, <2>1, <2>2 DEF AcquireOutputSlot
    <2>3. CASE DrainOutputSlot
      BY <2>1, <2>3 DEF DrainOutputSlot
    <2>4. CASE UNCHANGED outFree
      BY <1>1, <2>4
    <2> QED BY <1>6, <2>2, <2>3, <2>4
            DEF Scalar, PrefetchFirstBatch, WaitReady, BeginBatch, ProcessBatch, Epilogue, outVar, scalar
  <1>8. outSlot' \in {0, 1} /\ nextOutputSlot' \in {0, 1}
    BY <1>1, <1>6
       DEF Scalar, PrefetchFirstBatch, WaitReady, BeginBatch, AcquireOutputSlot, ProcessBatch,
           Epilogue, DrainOutputSlot, OtherSlot, outVar, scalar
  <1>9. LaunchReadyOutput => /\ slotBusy' \in [{0, 1} -> BOOLEAN] /\ slotBuffer' \in [{0, 1} -> {0, 1}]
                             /\ copies' \in Seq([buffer : {0, 1}, slot : {0, 1}, dest : SUBSET OwnTiles])
    <2>1. CASE readyOutput = NoOutput
      BY <1>1, <2>1 DEF LaunchReadyOutput, launch
    <2>2. ASSUME readyOutput # NoOutput, LaunchReadyOutput
          PROVE  slotBusy' \in [{0, 1} -> BOOLEAN] /\ slotBuffer' \in [{0, 1} -> {0, 1}]
      <3>1. /\ slotBuffer' = [slotBuffer EXCEPT ![readyOutput.slot] = BufferOf(launched)]
            /\ slotBusy' = [slotBusy EXCEPT ![readyOutput.slot] = TRUE]
        BY <2>2 DEF LaunchReadyOutput
      <3>2. slotBuffer' \in [{0, 1} -> {0, 1}]
        BY <1>1, <1>3, <3>1
      <3>3. slotBusy' \in [{0, 1} -> BOOLEAN]
        BY <1>1, <3>1
      <3> QED BY <3>2, <3>3
    <2>3. ASSUME readyOutput # NoOutput, LaunchReadyOutput
          PROVE  copies' \in Seq([buffer : {0, 1}, slot : {0, 1}, dest : SUBSET OwnTiles])
      <3> DEFINE c == [buffer |-> BufferOf(launched), slot |-> readyOutput.slot, dest |-> readyOutput.dest]
                 Copy == [buffer : {0, 1}, slot : {0, 1}, dest : SUBSET OwnTiles]
      <3>1. c \in Copy
        BY <1>3, <1>5, <2>3
      <3>2. copies' = Append(copies, c) /\ copies \in Seq(Copy)
        BY <1>1, <2>3 DEF LaunchReadyOutput
      <3> HIDE DEF c, Copy
      <3>3. copies' \in Seq(Copy)
        BY <3>1, <3>2
      <3> QED BY <3>3 DEF Copy
    <2> QED BY <2>1, <2>2, <2>3
  <1>10. slotBusy' \in [{0, 1} -> BOOLEAN] /\ slotBuffer' \in [{0, 1} -> {0, 1}]
    <2>1. CASE ProcessBatch \/ Epilogue
      BY <1>9, <2>1 DEF ProcessBatch, Epilogue
    <2>2. CASE AcquireOutputSlot
      BY <1>1, <2>2 DEF AcquireOutputSlot, Retire
    <2>3. CASE DrainOutputSlot
      BY <1>1, <2>3 DEF DrainOutputSlot, Retire
    <2>4. CASE UNCHANGED <<slotBusy, slotBuffer>>
      BY <1>1, <2>4
    <2> QED BY <1>6, <2>1, <2>2, <2>3, <2>4
            DEF Scalar, PrefetchFirstBatch, WaitReady, BeginBatch, launch, scalar
  <1>11. copies' \in Seq([buffer : {0, 1}, slot : {0, 1}, dest : SUBSET OwnTiles])
    <2>1. CASE ProcessBatch \/ Epilogue
      BY <1>9, <2>1 DEF ProcessBatch, Epilogue
    <2>2. CASE FinishCopyOut
      <3> DEFINE Copy == [buffer : {0, 1}, slot : {0, 1}, dest : SUBSET OwnTiles]
      <3>1. copies' = Tail(copies) /\ copies # << >> /\ copies \in Seq(Copy)
        BY <1>1, <2>2 DEF FinishCopyOut, IInv, Copies
      <3> HIDE DEF Copy
      <3>2. copies' \in Seq(Copy)
        BY <3>1
      <3> QED BY <3>2 DEF Copy
    <2>3. CASE UNCHANGED copies
      BY <1>1, <2>3
    <2>4. Scalar => ProcessBatch \/ Epilogue \/ UNCHANGED copies
      BY DEF Scalar, PrefetchFirstBatch, WaitReady, BeginBatch, AcquireOutputSlot, DrainOutputSlot, launch
    <2>5. AicRound \/ Mte2 \/ VectorPipe \/ UNCHANGED vars => UNCHANGED copies
      BY Frames DEF vars
    <2>6. Mte3 => FinishCopyOut \/ UNCHANGED copies
      BY DEF Mte3, StartCopyOut
    <2> QED BY <2>1, <2>2, <2>3, <2>4, <2>5, <2>6 DEF Next, Finished
  <1>12. copying' \in BOOLEAN
    <2>1. Mte3 \/ UNCHANGED copying
      BY Frames DEF Next, Finished, vars
    <2> QED BY <1>1, <2>1 DEF Mte3, StartCopyOut, FinishCopyOut
  <1>13. readyOutput' \in {NoOutput} \cup [slot : {0, 1}, dest : SUBSET OwnTiles]
    <2>1. CASE ProcessBatch
      BY <1>1, <1>4, <2>1 DEF ProcessBatch
    <2>2. CASE readyOutput' = NoOutput
      BY <2>2
    <2>3. CASE UNCHANGED readyOutput
      BY <1>1, <2>3
    <2>4. Scalar => ProcessBatch \/ readyOutput' = NoOutput \/ UNCHANGED readyOutput
      BY DEF Scalar, PrefetchFirstBatch, WaitReady, BeginBatch, AcquireOutputSlot, Epilogue,
             DrainOutputSlot, outVar
    <2>5. UNCHANGED scalar => UNCHANGED readyOutput
      BY DEF scalar, outVar
    <2> QED BY <1>6, <2>1, <2>2, <2>3, <2>4, <2>5
  <1>14. OutputType' <=>
           /\ outFree' \in SUBSET Buffer /\ outSlot' \in Slot /\ nextOutputSlot' \in Slot
           /\ slotBusy' \in [Slot -> BOOLEAN] /\ slotBuffer' \in [Slot -> Buffer]
           /\ readyOutput' \in {NoOutput} \cup [slot : Slot, dest : SUBSET OwnTiles]
           /\ copies' \in Seq([buffer : Buffer, slot : Slot, dest : SUBSET OwnTiles])
           /\ copying' \in BOOLEAN
    BY <1>2 DEF OutputType
  <1> QED BY <1>1, <1>7, <1>8, <1>10, <1>11, <1>12, <1>13, <1>14

LEMMA NextEventType ==
  ASSUME IInv, [Next]_vars
  PROVE  EventType'
  <1>1. /\ gateFull \in [{0, 1} -> 0 .. 1] /\ gateFree \in [{0, 1} -> 0 .. 1]
        /\ outFull \in [{0, 1} -> 0 .. 1] /\ outCopied \in [{0, 1} -> 0 .. 2]
        /\ ready \in [{0, 1} -> 0 .. 1] /\ free \in [{0, 1} -> 0 .. 1]
        /\ Buffer = {0, 1} /\ Slot = {0, 1}
    BY Alternate DEF IInv, TypeOK, EventType
  <1>2. /\ \A x \in {0, 1} : gateFull'[x] \in 0 .. 1 /\ gateFree'[x] \in 0 .. 1
        /\ \A x \in {0, 1} : outFull'[x] \in 0 .. 1
        /\ \A x \in {0, 1} : ready'[x] \in 0 .. 1 /\ free'[x] \in 0 .. 1
    <2>1. \A x \in {0, 1} : gateFull'[x] \in 0 .. 1 /\ gateFree'[x] \in 0 .. 1
      BY <1>1, NextGateEvents DEF GateEvents, One
    <2>2. \A x \in {0, 1} : outFull'[x] \in 0 .. 1
      BY <1>1, NextOutEvents DEF OutEvents, One
    <2>3. \A x \in {0, 1} : ready'[x] \in 0 .. 1
      BY <1>1, NextReadyCount DEF ReadyCount, One
    <2>4. \A x \in {0, 1} : free'[x] \in 0 .. 1
      BY <1>1, NextFreeCount DEF FreeCount, One
    <2> QED BY <2>1, <2>2, <2>3, <2>4
  <1>3. kktEmpty' \in 0 .. 1 /\ kktFull' \in 0 .. 1
    BY NextKktTile DEF KktTile, One
  <1>4. \E g : gateFull' = [x \in {0, 1} |-> g[x]]
    <2>1. gateFull' = gateFull \/ \E x, n : gateFull' = [gateFull EXCEPT ![x] = n]
      <3>1. Mte2 => gateFull' = gateFull \/ \E x, n : gateFull' = [gateFull EXCEPT ![x] = n]
        BY DEF Mte2, StartLoadGate, FinishLoadGate, StartLoadKkt, FinishLoadKkt, ReleaseSlot, gateEv
      <3>2. VectorPipe => gateFull' = gateFull \/ \E x, n : gateFull' = [gateFull EXCEPT ![x] = n]
        BY DEF VectorPipe, StartZeroKkt, HandOverKkt, PassRound, TakeGate, FinishZeroTail,
               StartPrepare, FinishPrepare, StartMul, FinishMul, gateEv
      <3> QED BY <3>1, <3>2, Frames DEF Next, Finished, vars, gateEv
    <2> QED BY <1>1, <2>1
  <1>5. \E g : gateFree' = [x \in {0, 1} |-> g[x]]
    <2>1. gateFree' = gateFree \/ \E x, n : gateFree' = [gateFree EXCEPT ![x] = n]
      <3>1. Mte2 => gateFree' = gateFree \/ \E x, n : gateFree' = [gateFree EXCEPT ![x] = n]
        BY DEF Mte2, StartLoadGate, FinishLoadGate, StartLoadKkt, FinishLoadKkt, ReleaseSlot, gateEv
      <3>2. VectorPipe => gateFree' = gateFree \/ \E x, n : gateFree' = [gateFree EXCEPT ![x] = n]
        BY DEF VectorPipe, StartZeroKkt, HandOverKkt, PassRound, TakeGate, FinishZeroTail,
               StartPrepare, FinishPrepare, StartMul, FinishMul, gateEv
      <3> QED BY <3>1, <3>2, Frames DEF Next, Finished, vars, gateEv
    <2> QED BY <1>1, <2>1
  <1>6. \E g : outFull' = [x \in {0, 1} |-> g[x]]
    <2>1. outFull' = outFull \/ \E x, n : outFull' = [outFull EXCEPT ![x] = n]
      <3>1. Mte3 => outFull' = outFull \/ \E x, n : outFull' = [outFull EXCEPT ![x] = n]
        BY DEF Mte3, StartCopyOut, FinishCopyOut
      <3>2. VectorPipe => outFull' = outFull \/ \E x, n : outFull' = [outFull EXCEPT ![x] = n]
        BY DEF VectorPipe, StartZeroKkt, HandOverKkt, PassRound, TakeGate, FinishZeroTail,
               StartPrepare, FinishPrepare, StartMul, FinishMul
      <3> QED BY <3>1, <3>2, Frames DEF Next, Finished, vars
    <2> QED BY <1>1, <2>1
  <1>7. \E g : ready' = [x \in {0, 1} |-> g[x]]
    <2>1. ready' = ready \/ \E x, n : ready' = [ready EXCEPT ![x] = n]
      <3>1. Scalar => ready' = ready \/ \E x, n : ready' = [ready EXCEPT ![x] = n]
        BY DEF Scalar, PrefetchFirstBatch, WaitReady, BeginBatch, AcquireOutputSlot, ProcessBatch,
               Epilogue, DrainOutputSlot
      <3>2. AicRound => \E x, n : ready' = [ready EXCEPT ![x] = n]
        BY DEF AicRound
      <3> QED BY <3>1, <3>2, Frames DEF Next, Finished, vars
    <2> QED BY <1>1, <2>1
  <1>8. \E g : free' = [x \in {0, 1} |-> g[x]]
    <2>1. free' = free \/ \E x, n : free' = [free EXCEPT ![x] = n]
      <3>1. Mte2 => free' = free \/ \E x, n : free' = [free EXCEPT ![x] = n]
        BY DEF Mte2, StartLoadGate, FinishLoadGate, StartLoadKkt, FinishLoadKkt, ReleaseSlot
      <3>2. AicRound => free' = free \/ \E x, n : free' = [free EXCEPT ![x] = n]
        BY DEF AicRound
      <3> QED BY <3>1, <3>2, Frames DEF Next, Finished, vars
    <2> QED BY <1>1, <2>1
  <1>9. outCopied' \in [{0, 1} -> 0 .. 2]
    <2>1. \A s \in {0, 1} : SlotEvent(s) \in {0, 1}
      BY DEF SlotEvent
    <2>2. \A s \in {0, 1} : Retire(s) => outCopied' \in [{0, 1} -> 0 .. 2]
      BY <1>1, <2>1 DEF Retire
    <2>3. CASE Scalar
      <3>1. AcquireOutputSlot => outCopied' \in [{0, 1} -> 0 .. 2]
        <4>1. nextOutputSlot \in {0, 1}
          BY <1>1 DEF IInv, TypeOK, OutputType
        <4> QED BY <2>2, <4>1 DEF AcquireOutputSlot
      <3>2. DrainOutputSlot => outCopied' \in [{0, 1} -> 0 .. 2]
        BY <2>2 DEF DrainOutputSlot
      <3> QED BY <1>1, <2>3, <3>1, <3>2
              DEF Scalar, PrefetchFirstBatch, WaitReady, BeginBatch, ProcessBatch, Epilogue
    <2>4. CASE FinishCopyOut
      <3>1. copying /\ copies # << >> /\ Copies
        BY <2>4 DEF FinishCopyOut, IInv, Copies
      <3>2. Head(copies).slot \in {0, 1} /\ Head(copies).slot = BufferOf(copied)
        BY <3>1, OldestCopy
      <3>3. outCopied[SlotEvent(Head(copies).slot)] \in 0 .. 1
        <4>1. CASE sharedEvent
          <5>1. Len(copies) \in Nat /\ Len(copies) > 0
            BY <3>1 DEF IInv, TypeOK, OutputType
          <5>2. busy \in 0 .. 2
            BY DEF busy, One
          <5>3. outCopied[0] = busy - Len(copies) /\ outCopied[0] \in 0 .. 2
            BY <1>1, <3>1, <4>1 DEF Copies
          <5>4. outCopied[0] \in 0 .. 1
            BY <5>1, <5>2, <5>3
          <5> QED BY <4>1, <5>4 DEF SlotEvent
        <4>2. CASE ~sharedEvent
          BY <1>1, <3>1, <3>2, <4>2 DEF Copies, SlotEvent, One
        <4> QED BY <4>1, <4>2
      <3>4. SlotEvent(Head(copies).slot) \in {0, 1}
        BY <2>1, <3>2
      <3>5. outCopied' = [outCopied EXCEPT ![SlotEvent(Head(copies).slot)] = @ + 1]
        BY <2>4 DEF FinishCopyOut
      <3> QED BY <1>1, <3>3, <3>4, <3>5
    <2>5. CASE UNCHANGED outCopied
      BY <1>1, <2>5
    <2> QED BY <2>3, <2>4, <2>5, Frames DEF Next, Mte3, StartCopyOut, Finished, vars
  <1>10. /\ gateFull' \in [{0, 1} -> 0 .. 1] /\ gateFree' \in [{0, 1} -> 0 .. 1]
         /\ outFull' \in [{0, 1} -> 0 .. 1]
         /\ ready' \in [{0, 1} -> 0 .. 1] /\ free' \in [{0, 1} -> 0 .. 1]
    <2>1. gateFull' \in [{0, 1} -> 0 .. 1]
      BY <1>2, <1>4
    <2>2. gateFree' \in [{0, 1} -> 0 .. 1]
      BY <1>2, <1>5
    <2>3. outFull' \in [{0, 1} -> 0 .. 1]
      BY <1>2, <1>6
    <2>4. ready' \in [{0, 1} -> 0 .. 1]
      BY <1>2, <1>7
    <2>5. free' \in [{0, 1} -> 0 .. 1]
      BY <1>2, <1>8
    <2> QED BY <2>1, <2>2, <2>3, <2>4, <2>5
  <1> QED BY <1>1, <1>3, <1>9, <1>10 DEF EventType

LEMMA NextMemoryType ==
  ASSUME IInv, [Next]_vars
  PROVE  MemoryType'
  <1>1. /\ gate \in [{0, 1} -> SUBSET OwnTiles] /\ kkt \in Rounds \cup {NoGram}
        /\ out \in [{0, 1} -> SUBSET TileState]
        /\ gm \in Seq([dest : SUBSET OwnTiles, tiles : SUBSET TileState])
        /\ Buffer = {0, 1}
    BY Alternate DEF IInv, TypeOK, MemoryType
  <1>2. OwnTiles' = OwnTiles /\ TileState' = TileState /\ Rounds' = Rounds
    BY WorkUnchanged, WorkIsFixed
  <1>3. BufferOf(loaded) \in {0, 1} /\ BufferOf(produced) \in {0, 1}
    <2>1. loaded \in Int /\ produced \in Int
      BY Progresses
    <2> QED BY <2>1, Alternate
  <1>4. Batches = 0 .. BatchCount - 1 /\ BatchCount \in Nat /\ BatchCount > 0 /\ Given
    BY Sizes DEF IInv
  <1>5. gate' \in [{0, 1} -> SUBSET OwnTiles]
    <2>1. CASE FinishLoadGate
      <3>1. mteRound \in Working /\ mteBatch \in Batches
        <4>1. mtePc = "loadingGate" /\ Place(mteRound, mteBatch) /\ (mtePc # "gate" => mteRound \in Working)
          BY <2>1 DEF FinishLoadGate, IInv, Mte2Order
        <4> QED BY <1>4, <4>1 DEF Place
      <3>2. {mteRound} \X Batch(mteBatch) \in SUBSET OwnTiles
        BY <1>4, <3>1, Destinations
      <3> QED BY <1>1, <1>3, <2>1, <3>2 DEF FinishLoadGate, PrefetchedHeads
    <2>2. CASE UNCHANGED gate
      BY <1>1, <2>2
    <2>3. Mte2 => FinishLoadGate \/ UNCHANGED gate
      BY DEF Mte2, StartLoadGate, StartLoadKkt, FinishLoadKkt, ReleaseSlot
    <2> QED BY <2>1, <2>2, <2>3, Frames DEF Next, Finished, vars, memory
  <1>6. kkt' \in Rounds \cup {NoGram}
    <2>1. CASE FinishLoadKkt
      <3>1. mteRound \in Working /\ kkt' = mteRound
        BY <2>1 DEF FinishLoadKkt, IInv, Mte2Order
      <3> QED BY <3>1 DEF Working
    <2>2. Mte2 => FinishLoadKkt \/ UNCHANGED kkt
      BY DEF Mte2, StartLoadGate, FinishLoadGate, StartLoadKkt, ReleaseSlot
    <2>3. VectorPipe => kkt' = NoGram \/ UNCHANGED kkt
      BY DEF VectorPipe, StartZeroKkt, HandOverKkt, PassRound, TakeGate, FinishZeroTail,
             StartPrepare, FinishPrepare, StartMul, FinishMul
    <2> QED BY <1>1, <2>1, <2>2, <2>3, Frames DEF Next, Finished, vars, memory
  <1>7. out' \in [{0, 1} -> SUBSET TileState]
    <2>1. CASE FinishPrepare
      <3> DEFINE own == {vRound} \X Batch(vBatch)
                 read == gate[BufferOf(used)]
                 tiles == {[tile |-> t, ownGate |-> t \in read, gram |-> NoGram] : t \in own}
      <3>1. vPc = "preparing" /\ out' = [out EXCEPT ![BufferOf(produced)] = IF SecondHalf(vRound) THEN @ \cup tiles ELSE tiles]
        BY <2>1 DEF FinishPrepare
      <3>2. own \in SUBSET OwnTiles
        BY <1>4, <3>1, Preparing, Destinations
      <3> HIDE DEF own, read
      <3>3. \A t \in own : [tile |-> t, ownGate |-> t \in read, gram |-> NoGram] \in TileState
        <4> TAKE t \in own
        <4>1. (t \in read) \in BOOLEAN /\ NoGram \in Rounds \cup {NoGram} /\ t \in OwnTiles
          BY <3>2
        <4> DEFINE kept == t \in read
        <4> HIDE DEF kept
        <4>2. kept \in BOOLEAN => [tile |-> t, ownGate |-> kept, gram |-> NoGram] \in TileState
          BY <4>1 DEF TileState
        <4> QED BY <4>1, <4>2, Zenon DEF kept
      <3>4. tiles \in SUBSET TileState
        BY <3>3
      <3> HIDE DEF tiles
      <3> QED BY <1>1, <1>3, <3>1, <3>4
    <2>2. CASE FinishMul
      <3> DEFINE f(t) == IF t.tile[1] = vRound THEN [t EXCEPT !.gram = kkt] ELSE t
      <3>1. out' = [out EXCEPT ![BufferOf(produced)] = {f(t) : t \in @}]
        BY <2>2 DEF FinishMul
      <3>2. \A t \in TileState : f(t) \in TileState
        BY <1>1 DEF TileState
      <3> HIDE DEF f
      <3> QED BY <1>1, <1>3, <3>1, <3>2
    <2>3. CASE UNCHANGED out
      BY <1>1, <2>3
    <2>4. VectorPipe => FinishPrepare \/ FinishMul \/ UNCHANGED out
      BY DEF VectorPipe, StartZeroKkt, HandOverKkt, PassRound, TakeGate, FinishZeroTail,
             StartPrepare, StartMul
    <2> QED BY <2>1, <2>2, <2>3, <2>4, Frames DEF Next, Finished, vars, memory
  <1>8. gm' \in Seq([dest : SUBSET OwnTiles, tiles : SUBSET TileState])
    <2>1. CASE FinishCopyOut
      <3> DEFINE e == [dest |-> Head(copies).dest, tiles |-> out[Head(copies).buffer]]
                 Entry == [dest : SUBSET OwnTiles, tiles : SUBSET TileState]
      <3>1. copies # << >> /\ gm' = Append(gm, e)
        BY <2>1 DEF FinishCopyOut, IInv, Copies
      <3>2. Head(copies) \in [buffer : {0, 1}, slot : {0, 1}, dest : SUBSET OwnTiles]
        BY <3>1, OldestCopy
      <3>3. e \in Entry
        BY <1>1, <3>2
      <3>4. gm \in Seq(Entry)
        BY <1>1
      <3> HIDE DEF e, Entry
      <3>5. gm' \in Seq(Entry)
        BY <3>1, <3>3, <3>4
      <3> QED BY <3>5 DEF Entry
    <2>2. CASE UNCHANGED gm
      BY <1>1, <2>2
    <2>3. Mte3 => FinishCopyOut \/ UNCHANGED gm
      BY DEF Mte3, StartCopyOut
    <2> QED BY <2>1, <2>2, <2>3, Frames DEF Next, Finished, vars, memory
  <1> QED BY <1>1, <1>2, <1>5, <1>6, <1>7, <1>8 DEF MemoryType

-----------------------------------------------------------------------------
(* The invariant *)

LEMMA NextIInv ==
  ASSUME IInv, [Next]_vars
  PROVE  IInv'
  <1>1. Given'
    BY WorkUnchanged, WorkIsFixed DEF IInv
  <1>2. TypeOK'
    BY NextProgressType, NextOutputType, NextEventType, NextMemoryType DEF TypeOK
  <1>3. Contents'
    BY NextGateContent, NextKktContent, NextOutContent, NextGmContent DEF Contents
  <1>4. ScalarOrder' /\ Window' /\ Copies' /\ Mte2Order' /\ VectorOrder' /\ Order'
    BY NextScalarOrder, NextWindow, NextCopies, NextMte2Order, NextVectorOrder, NextOrder
  <1>5. GateEvents' /\ OutEvents' /\ ReadyCount' /\ FreeCount' /\ KktTile'
    BY NextGateEvents, NextOutEvents, NextReadyCount, NextFreeCount, NextKktTile
  <1> QED BY <1>1, <1>2, <1>3, <1>4, <1>5 DEF IInv

LEMMA InitIInv ==
  ASSUME Init
  PROVE  IInv
  <1> USE DEF One
  <1>1. Given
    BY DEF Init, Given
  <1>2. /\ TaskCount \in Nat /\ Progress = 0 .. TaskCount /\ Rounds = 0 .. TaskCount - 1
        /\ BatchCount \in Nat /\ BatchCount > 0 /\ Buffer = {0, 1} /\ Slot = {0, 1}
        /\ \A r \in Working : r \in Nat
    BY <1>1, Sizes, Alternate DEF Working
  <1>3. ~SecondHalf(0)
    BY <1>1, <1>2, Halves
  <1>4. BatchIndex(0, 0) = 0 /\ OutputIndex(0, 0) = 0 /\ Place(0, 0)
    <2>1. Working \subseteq 0 .. TaskCount - 1 /\ Closing \subseteq 0 .. TaskCount - 1
      BY <1>2 DEF Working, Closing
    <2>2. Before(Working, 0) = 0 /\ Before(Closing, 0) = 0
      BY <1>2, <2>1, BeforeStep
    <2> QED BY <1>2, <2>2 DEF BatchIndex, OutputIndex, Place
  <1>5. ProgressType
    BY <1>2 DEF Init, ProgressType
  <1>6. OutputType
    <2>1. /\ outFree \in SUBSET {0, 1} /\ outSlot \in {0, 1} /\ nextOutputSlot \in {0, 1}
          /\ slotBusy \in [{0, 1} -> BOOLEAN] /\ slotBuffer \in [{0, 1} -> {0, 1}]
      BY <1>2 DEF Init
    <2>2. readyOutput = NoOutput /\ copies = << >> /\ copying \in BOOLEAN
      BY DEF Init
    <2> QED BY <1>2, <2>1, <2>2 DEF OutputType
  <1>7. EventType
    BY <1>2 DEF Init, EventType
  <1>8. MemoryType
    BY <1>2 DEF Init, MemoryType
  <1>9. ScalarOrder
    BY <1>2, <1>4 DEF Init, ScalarOrder, Ahead
  <1>10. Window
    <2>1. ~Holding /\ BufferOf(0) = 0 /\ ~Draining
      BY <1>3 DEF Init, Holding, Draining, BufferOf, BUFFER_NUM
    <2>2. LastOutput(0) = -2 /\ LastOutput(1) = -1 /\ ~Drained(0) /\ ~Drained(1)
      BY <2>1 DEF Init, LastOutput, Drained
    <2>3. \A s \in {0, 1} : slotBuffer[s] = s /\ slotBusy[s] = FALSE /\ s \in outFree
      BY <1>2 DEF Init
    <2>4. \A s \in Slot : /\ slotBuffer[s] = s
                          /\ slotBusy[s] <=> ~Drained(s) /\ 0 <= LastOutput(s) /\ LastOutput(s) < launched
                          /\ s \in outFree <=> Drained(s) \/ LastOutput(s) < 0
      BY <1>2, <2>2, <2>3
    <2>5. /\ enqueued = 0 /\ acquired = 0 /\ launched = 0 /\ readyOutput = NoOutput
          /\ nextOutputSlot = 0 /\ localRound = 0 /\ batch = 0
      BY DEF Init
    <2> QED BY <1>4, <2>1, <2>4, <2>5 DEF Window
  <1>11. Copies
    <2>1. /\ copied = 0 /\ Len(copies) = 0 /\ copies = << >> /\ launched = 0 /\ acquired = 0
          /\ copying = FALSE /\ outCopied = [e \in {0, 1} |-> 0] /\ slotBusy = [s \in {0, 1} |-> FALSE]
          /\ pc = "top"
      BY <1>2 DEF Init, copied
    <2>2. busy = 0 /\ ~Drained(0) /\ ~Drained(1)
      BY <2>1 DEF busy, Drained
    <2> QED BY <1>2, <2>1, <2>2 DEF Copies
  <1>12. Mte2Order
    BY <1>2, <1>4 DEF Init, Mte2Order
  <1>13. VectorOrder
    BY <1>2, <1>4 DEF Init, VectorOrder
  <1>14. Order
    BY <1>2 DEF Init, Order, useBegun, loadBegun, copyBegun, copied, freed, BUFFER_NUM, SLOT_COUNT
  <1>15. \A x : ~Counted(0, 0, x)
    BY DEF Counted
  <1>16. GateEvents /\ OutEvents /\ ReadyCount
    <2>1. /\ useBegun = 0 /\ loaded = 0 /\ used = 0 /\ loadBegun = 0 /\ copyBegun = 0 /\ produced = 0
          /\ taken = 0 /\ aicRound = 0
      BY DEF Init, useBegun, loadBegun, copyBegun, copied
    <2>2. /\ gateFull = [x \in {0, 1} |-> 0] /\ gateFree = [x \in {0, 1} |-> 1]
          /\ outFull = [x \in {0, 1} |-> 0] /\ ready = [x \in {0, 1} |-> 0]
      BY <1>2 DEF Init
    <2> QED BY <1>2, <1>15, <2>1, <2>2 DEF GateEvents, OutEvents, ReadyCount
  <1>17. FreeCount
    BY <1>2 DEF Init, FreeCount
  <1>18. KktTile
    <2>1. /\ vRound = 0 /\ mteRound = 0 /\ vPc = "top" /\ mtePc = "gate" /\ vBatch = 0 /\ mteBatch = 0
          /\ kktEmpty = 0 /\ kktFull = 0
      BY DEF Init
    <2>2. \A r \in Nat : ~Handed(r) /\ ~Copying(r) /\ ~Arrived(r) /\ ~Consumed(r)
      BY <2>1 DEF Handed, Copying, Arrived, Consumed
    <2> QED BY <1>2, <2>1, <2>2 DEF KktTile
  <1>19. Contents
    <2>1. /\ loaded = 0 /\ produced = 0 /\ vRound = 0 /\ mteRound = 0 /\ mteBatch = 0 /\ vPc = "top"
          /\ mtePc = "gate" /\ gm = << >>
      BY DEF Init
    <2>2. \A r \in Working, b \in Batches : BatchIndex(r, b) \in Nat /\ OutputIndex(r, b) \in Nat
      <3> SUFFICES ASSUME NEW r \in Working, NEW b \in Batches
                   PROVE  BatchIndex(r, b) \in Nat /\ OutputIndex(r, b) \in Nat
        OBVIOUS
      <3>1. r \in Nat /\ b \in Nat
        BY <1>2 DEF Batches
      <3> QED BY <1>1, <3>1, IndexStep
    <2>3. GateContent
      BY <2>1, <2>2 DEF GateContent
    <2>4. KktContent
      BY <1>2, <2>1 DEF KktContent, Arrived
    <2>5. OutContent
      <3>1. \A r \in Closing : r \in Working
        BY DEF Closing
      <3> QED BY <1>3, <2>1, <2>2, <3>1 DEF OutContent
    <2>6. GmContent
      BY <2>1 DEF GmContent
    <2> QED BY <2>3, <2>4, <2>5, <2>6 DEF Contents
  <1> QED BY <1>1, <1>5, <1>6, <1>7, <1>8, <1>9, <1>10, <1>11, <1>12, <1>13, <1>14, <1>16, <1>17,
             <1>18, <1>19 DEF IInv, TypeOK

\* The invariant holds of every lane, whatever its walk: see the head of this
\* module.
THEOREM VectorInvariant == SafeSpec => []IInv
  <1>1. Init => IInv
    BY InitIInv
  <1>2. IInv /\ [Next]_vars => IInv'
    BY NextIInv
  <1> QED BY <1>1, <1>2, PTL DEF SafeSpec

\* The three pipes never meet in a buffer: MTE2 loads at most one g/beta batch
\* ahead of the one PIPE_V reads, and not before the last reader is done; it
\* copies the KKT tile between its zeroing and its use; PIPE_MTE3 copies the
\* output before the one PIPE_V writes.
LEMMA IInvNoBufferRace ==
  ASSUME IInv
  PROVE  NoBufferRace
  <1> USE DEF One
  <1>1. loaded \in Nat /\ used \in Nat /\ produced \in Nat /\ copied \in Nat
    BY Progresses
  <1>2. ASSUME mtePc = "loadingGate", vPc \in {"clearing", "preparing"}
        PROVE  BufferOf(loaded) # BufferOf(used)
    <2>1. useBegun <= loaded /\ loadBegun <= used + 2
      BY Bounds
    <2>2. useBegun = used + 1 /\ loadBegun = loaded + 1
      BY <1>2 DEF useBegun, loadBegun
    <2>3. loaded = used + 1
      BY <1>1, <2>1, <2>2
    <2> QED BY <1>1, <2>3, Alternate
  <1>3. ASSUME mtePc = "loadingKkt"
        PROVE  vPc \notin {"zeroing", "multiplying"}
    <2>1. Handed(vRound) /\ ~Consumed(vRound) /\ vRound \in Nat
      BY <1>3, KktCopyOfRound, Progresses
    <2> QED BY <2>1 DEF Handed, Consumed
  <1>4. ASSUME copying, vPc \in {"preparing", "multiplying"}
        PROVE  Head(copies).buffer # BufferOf(produced)
    <2>1. copies # << >>
      BY <1>4 DEF IInv, Copies
    <2>2. Head(copies).buffer = BufferOf(copied)
      BY <2>1, OldestCopy
    <2>3. copyBegun = copied + 1
      BY <1>4 DEF copyBegun
    <2>4. copyBegun <= produced
      BY Bounds
    <2>5. produced <= copied + 1
      BY <1>4, Preparing
    <2>6. produced = copied + 1
      BY <1>1, <2>3, <2>4, <2>5
    <2> QED BY <1>1, <2>2, <2>6, Alternate
  <1> QED BY <1>2, <1>3, <1>4 DEF NoBufferRace

\* Every copy carries the tiles its destination names, gated and multiplied.
LEMMA IInvOutputsRight ==
  ASSUME IInv
  PROVE  OutputsRight
  <1>1. SUFFICES ASSUME NEW i \in DOMAIN gm
                 PROVE  /\ {t.tile : t \in gm[i].tiles} = gm[i].dest
                        /\ \A t \in gm[i].tiles : t.ownGate /\ t.gram = t.tile[1]
    BY DEF OutputsRight
  <1>2. gm[i].tiles = Multiplied(gm[i].dest)
    BY <1>1 DEF IInv, Contents, GmContent
  <1> DEFINE m(t) == [tile |-> t, ownGate |-> TRUE, gram |-> t[1]]
  <1>3. \A t : m(t).tile = t /\ m(t).ownGate /\ m(t).gram = m(t).tile[1]
    OBVIOUS
  <1>4. gm[i].tiles = {m(t) : t \in gm[i].dest}
    BY <1>2 DEF Multiplied
  <1> HIDE DEF m
  <1>5. {t.tile : t \in gm[i].tiles} = gm[i].dest
    <2>1. \A t \in gm[i].tiles : t.tile \in gm[i].dest
      BY <1>3, <1>4
    <2>2. \A t \in gm[i].dest : m(t) \in gm[i].tiles /\ m(t).tile = t
      BY <1>3, <1>4
    <2> QED BY <2>1, <2>2
  <1>6. \A t \in gm[i].tiles : t.ownGate /\ t.gram = t.tile[1]
    BY <1>3, <1>4
  <1> QED BY <1>5, <1>6

\* The scalar unit acquires the slot after that of the output it delayed; it
\* has launched all but one and acquired at most one more than it enqueued.
LEMMA IInvBufferProtocol ==
  ASSUME IInv
  PROVE  BufferProtocol
  <1> USE DEF One
  <1>1. enqueued \in Nat /\ acquired \in Nat /\ launched \in Nat /\ localRound \in Nat
    BY Progresses
  <1>2. Window /\ TypeOK
    BY DEF IInv
  <1>3. QueueDepth
    <2>1. fetched <= dequeued + 1
      BY ScalarBounds
    <2>2. enqueued <= launched + 1
      BY <1>1, <1>2 DEF Window
    <2> QED BY <2>1, <2>2 DEF QueueDepth
  <1>4. DelayedSlotIsOther
    <2>1. SUFFICES ASSUME Acquiring, readyOutput # NoOutput
                   PROVE  readyOutput.slot # nextOutputSlot
      BY DEF DelayedSlotIsOther
    <2>2. ~Holding
      <3>1. CASE pc = "acquire"
        BY <3>1 DEF IInv, ScalarOrder, Holding
      <3>2. CASE pc = "top" /\ FirstHalf(localRound)
        <4>1. ~SecondHalf(localRound)
          BY <1>1, <3>2, Halves DEF IInv
        <4> QED BY <3>2, <4>1 DEF Holding
      <3> QED BY <2>1, <3>1, <3>2 DEF Acquiring
    <2>3. /\ launched = enqueued - 1 /\ acquired = enqueued
          /\ readyOutput.slot = BufferOf(launched) /\ nextOutputSlot = BufferOf(acquired)
      BY <1>1, <1>2, <2>1, <2>2 DEF Window
    <2>4. BufferOf(launched) = 1 - BufferOf(acquired) /\ BufferOf(acquired) \in {0, 1}
      <3>1. acquired \in Int /\ launched = acquired - 1
        BY <1>1, <2>3
      <3> QED BY <3>1, Alternate
    <2> QED BY <2>3, <2>4
  <1>5. OneCopyOutstanding
    <2>1. SUFFICES ASSUME ~Draining, slotBusy[0], slotBusy[1]
                   PROVE  FALSE
      BY DEF OneCopyOutstanding, Draining
    <2>2. \A s \in {0, 1} : 0 <= LastOutput(s) /\ LastOutput(s) < launched
      BY <1>2, <2>1, Alternate DEF Window
    <2>3. \E s \in {0, 1} : LastOutput(s) = acquired - 1
      BY <1>1 DEF LastOutput, BufferOf, BUFFER_NUM
    <2>4. acquired - 1 < launched /\ 0 <= acquired - 1
      BY <2>2, <2>3
    <2>5. /\ launched = enqueued - One(readyOutput # NoOutput)
          /\ acquired = enqueued + One(Holding)
          /\ readyOutput # NoOutput <=> enqueued > 0 /\ ~Draining /\ ~SecondHalf(localRound)
      BY <1>2 DEF Window
    <2>6. ~Holding /\ readyOutput = NoOutput /\ enqueued > 0
      BY <1>1, <2>4, <2>5
    <2>7. SecondHalf(localRound)
      BY <2>1, <2>5, <2>6
    <2> QED BY <2>6, <2>7 DEF Holding
  <1> QED BY <1>2, <1>3, <1>4, <1>5 DEF BufferProtocol

\* The batches of a round partition the lane's heads.
LEMMA BatchesPartition ==
  ASSUME Given
  PROVE  /\ \A h \in LaneRepeats(repeat, lane) : \E b \in Batches : h \in Batch(b)
         /\ \A h : \A b, d \in Batches : h \in Batch(b) /\ h \in Batch(d) => b = d
  <1>1. /\ FirstRepeat(repeat, lane) \in Nat /\ TotalHeads \in Nat /\ BatchCount \in Nat
        /\ RepeatEnd(repeat, lane) = FirstRepeat(repeat, lane) + TotalHeads
        /\ TotalHeads <= 2 * BatchCount /\ Batches = 0 .. BatchCount - 1
    BY Sizes
  <1> DEFINE first == FirstRepeat(repeat, lane)
             end   == RepeatEnd(repeat, lane)
  <1>2. \A b \in Batches : \A h : h \in Batch(b) <=>
          h \in Nat /\ first + 2 * b <= h /\ h <= first + 2 * b + 1 /\ h < end
    BY <1>1 DEF Batch, GATE_HEAD_BATCH, MinI32
  <1>3. LaneRepeats(repeat, lane) = first .. end - 1
    BY DEF LaneRepeats
  <1> HIDE DEF first, end
  <1>4. first \in Nat /\ end = first + TotalHeads
    BY <1>1 DEF first, end
  <1>5. ASSUME NEW h \in LaneRepeats(repeat, lane)
        PROVE  \E b \in Batches : h \in Batch(b)
    <2> DEFINE b == (h - first) \div 2
    <2>1. h \in Nat /\ first <= h /\ h < end
      BY <1>1, <1>3, <1>4, <1>5
    <2>2. b \in Nat /\ 2 * b <= h - first /\ h - first <= 2 * b + 1
      BY <1>4, <2>1
    <2> HIDE DEF b
    <2>3. b \in Batches
      BY <1>1, <1>4, <2>1, <2>2
    <2>4. h \in Batch(b)
      BY <1>2, <1>4, <2>1, <2>2, <2>3
    <2> QED BY <2>3, <2>4
  <1>6. ASSUME NEW b \in Batches, NEW d \in Batches, NEW h, h \in Batch(b), h \in Batch(d)
        PROVE  b = d
    <2>1. b \in Nat /\ d \in Nat
      BY <1>1
    <2>2. h \in Nat /\ first + 2 * b <= h /\ h <= first + 2 * b + 1
      BY <1>2, <1>6
    <2>3. first + 2 * d <= h /\ h <= first + 2 * d + 1
      BY <1>2, <1>6
    <2> QED BY <1>4, <2>1, <2>2, <2>3
  <1> QED BY <1>5, <1>6

\* Two outputs have no tile in common.
LEMMA DestinationsApart ==
  ASSUME Given, NEW r \in Closing, NEW q \in Closing, NEW b \in Batches, NEW d \in Batches,
         NEW t, t \in Destination(r, b), t \in Destination(q, d)
  PROVE  r = q /\ b = d
  <1>1. r \in Nat /\ q \in Nat
    BY Sizes DEF Closing, Working
  <1>2. /\ t[1] = r \/ (SecondHalf(r) /\ t[1] = r - 1)
        /\ t[1] = q \/ (SecondHalf(q) /\ t[1] = q - 1)
    BY DEF Destination
  <1>3. t[2] \in Batch(b) /\ t[2] \in Batch(d)
    BY DEF Destination
  <1>4. b = d
    BY <1>3, BatchesPartition
  <1>5. /\ SecondHalf(r) => r - 1 \notin Closing
        /\ SecondHalf(q) => q - 1 \notin Closing
    BY <1>1, Halves DEF Closing
  <1> QED BY <1>1, <1>2, <1>4, <1>5

\* Where everything is when the lane is done.
LEMMA AtTheEnd ==
  ASSUME IInv, Done
  PROVE  /\ copied = OutputIndex(TaskCount, 0) /\ copyBegun = copied /\ produced = copied
         /\ useBegun = loaded /\ loadBegun = used /\ loaded = used
         /\ taken = TaskCount /\ aicRound = TaskCount /\ vRound = TaskCount /\ TaskCount \notin Working
         /\ vPc = "top" /\ copies = << >> /\ copying = FALSE
         /\ \A s \in {0, 1} : Drained(s) /\ slotBusy[s] = FALSE /\ s \in outFree
         /\ used \in Nat /\ copied \in Nat
  <1> USE DEF One
  <1>1. /\ pc = "done" /\ mteRound = TaskCount /\ vRound = TaskCount /\ copies = << >>
        /\ ScalarOrder /\ Window /\ Copies /\ Mte2Order /\ VectorOrder
    BY DEF Done, IInv
  <1>2. TaskCount \in Nat /\ TaskCount \notin Working /\ Slot = {0, 1}
    <2>1. TaskCount \in Nat /\ Rounds = 0 .. TaskCount - 1 /\ \A r \in Working : r \in Rounds
      BY Sizes DEF IInv, Working
    <2> QED BY <2>1, Alternate
  <1>3. localRound = TaskCount /\ batch = 0 /\ taken = TaskCount
    BY <1>1, <1>2 DEF ScalarOrder
  <1>4. mteBatch = 0 /\ mtePc = "gate" /\ vBatch = 0 /\ vPc = "top"
    BY <1>1, <1>2 DEF Mte2Order, VectorOrder, Place
  <1>5. loaded = BatchIndex(TaskCount, 0) /\ used = BatchIndex(TaskCount, 0)
        /\ produced = OutputIndex(TaskCount, 0)
    <2>1. BatchIndex(TaskCount, 0) \in Nat
      BY <1>2, IndexStep DEF IInv
    <2> QED BY <1>1, <1>4, <2>1 DEF Mte2Order, VectorOrder
  <1>6. copying = FALSE
    BY <1>1 DEF IInv, Copies, TypeOK, OutputType
  <1>7. used \in Nat /\ loaded \in Nat /\ copied \in Nat /\ enqueued \in Nat /\ launched \in Nat
    BY Progresses
  <1>8. copied = OutputIndex(TaskCount, 0)
    <2>1. Draining /\ readyOutput = NoOutput
      BY <1>1 DEF Window, Draining
    <2>2. launched = enqueued /\ enqueued = OutputIndex(TaskCount, 0)
      BY <1>1, <1>3, <1>7, <2>1 DEF Window
    <2>3. launched = copied + 0
      BY <1>1 DEF Copies
    <2> QED BY <1>7, <2>2, <2>3
  <1>9. useBegun = used /\ loadBegun = loaded /\ copyBegun = copied
    BY <1>4, <1>6, <1>7 DEF useBegun, loadBegun, copyBegun
  <1>10. aicRound = TaskCount
    <2>1. aicRound \in Progress /\ Progress = 0 .. TaskCount
      BY Sizes DEF IInv, TypeOK, ProgressType
    <2>2. taken <= aicRound
      BY Bounds
    <2> QED BY <1>2, <1>3, <2>1, <2>2
  <1>11. \A s \in {0, 1} : Drained(s) /\ slotBusy[s] = FALSE /\ s \in outFree
    <2>1. slotBusy \in [{0, 1} -> BOOLEAN]
      BY <1>2 DEF IInv, TypeOK, OutputType
    <2> QED BY <1>1, <1>2, <2>1 DEF Drained, Window
  <1> QED BY <1>1, <1>2, <1>3, <1>4, <1>5, <1>6, <1>7, <1>8, <1>9, <1>10, <1>11

LEMMA IInvEventsBalanced ==
  ASSUME IInv
  PROVE  EventsBalanced
  <1> USE DEF One
  <1>1. SUFFICES ASSUME Done
                 PROVE  /\ \A x \in {0, 1} : gateFull[x] = 0 /\ gateFree[x] = 1 /\ outFull[x] = 0
                        /\ \A s \in {0, 1} : outCopied[s] = 0 /\ ready[s] = 0 /\ free[s] = 0
                        /\ kktEmpty = 0 /\ kktFull = 0
                        /\ outFree = {0, 1}
    BY Alternate DEF EventsBalanced
  <1>2. /\ copyBegun = copied /\ produced = copied /\ copied \in Nat
        /\ useBegun = loaded /\ loadBegun = used /\ loaded = used /\ used \in Nat
        /\ taken = TaskCount /\ aicRound = TaskCount /\ vRound = TaskCount /\ TaskCount \notin Working
        /\ vPc = "top" /\ copies = << >>
        /\ \A s \in {0, 1} : Drained(s) /\ slotBusy[s] = FALSE /\ s \in outFree
    BY <1>1, AtTheEnd
  <1>3. TaskCount \in Nat /\ Buffer = {0, 1} /\ Slot = {0, 1}
    BY Sizes, Alternate DEF IInv
  <1>4. \A n \in Nat : \A x : ~Counted(n, n, x)
    BY DEF Counted
  <1>5. \A x \in {0, 1} : gateFull[x] = 0 /\ gateFree[x] = 1
    BY <1>2, <1>3, <1>4 DEF IInv, GateEvents
  <1>6. \A x \in {0, 1} : outFull[x] = 0
    BY <1>2, <1>3, <1>4 DEF IInv, OutEvents
  <1>7. \A s \in {0, 1} : ready[s] = 0
    BY <1>2, <1>3, <1>4 DEF IInv, ReadyCount
  <1>8. \A s \in {0, 1} : free[s] = 0
    <2>1. \A r \in {TaskCount - 1, TaskCount - 2} : ~WillReuseSlot(r)
      BY <1>3 DEF WillReuseSlot, SLOT_COUNT
    <2> QED BY <1>2, <1>3, <2>1 DEF IInv, FreeCount
  <1>9. \A s \in {0, 1} : outCopied[s] = 0
    <2>1. CASE sharedEvent
      <3>1. busy = 0 /\ Len(copies) = 0
        BY <1>2 DEF busy
      <3>2. outCopied[0] = busy - Len(copies) /\ outCopied[1] = 0
        BY <2>1 DEF IInv, Copies
      <3> QED BY <3>1, <3>2
    <2>2. CASE ~sharedEvent
      BY <1>2, <1>3, <2>2 DEF IInv, Copies
    <2> QED BY <2>1, <2>2
  <1>10. kktEmpty = 0 /\ kktFull = 0
    <2>1. ~Handed(vRound)
      BY <1>2, <1>3 DEF Handed
    <2> QED BY <1>2, <2>1 DEF IInv, KktTile
  <1>11. outFree = {0, 1}
    <2>1. outFree \in SUBSET {0, 1}
      BY <1>3 DEF IInv, TypeOK, OutputType
    <2> QED BY <1>2, <2>1
  <1> QED BY <1>5, <1>6, <1>7, <1>8, <1>9, <1>10, <1>11

LEMMA IInvOutputsExactlyOnce ==
  ASSUME IInv
  PROVE  OutputsExactlyOnce
  <1>1. SUFFICES ASSUME Done
                 PROVE  /\ UNION {gm[i].dest : i \in DOMAIN gm} = OwnTiles
                        /\ \A i, j \in DOMAIN gm : i # j => gm[i].dest \cap gm[j].dest = {}
    BY DEF OutputsExactlyOnce
  <1>2. /\ TaskCount \in Nat /\ Rounds = 0 .. TaskCount - 1 /\ Given
        /\ BatchCount \in Nat /\ BatchCount > 0 /\ Batches = 0 .. BatchCount - 1
        /\ \A r : r \in Working <=> r \in Rounds /\ Works(r)
        /\ Progress = 0 .. TaskCount
    BY Sizes DEF IInv
  <1>3. DOMAIN gm = 1 .. copied /\ copied \in Nat /\ copied = OutputIndex(TaskCount, 0)
    <2>1. gm \in Seq([dest : SUBSET OwnTiles, tiles : SUBSET TileState])
      BY DEF IInv, TypeOK, MemoryType
    <2>2. copied = OutputIndex(TaskCount, 0)
      BY <1>1, AtTheEnd
    <2> QED BY <2>1, <2>2 DEF copied
  <1>4. \A i \in DOMAIN gm : Names(gm[i].dest, i - 1)
    BY DEF IInv, Contents, GmContent
  <1>5. \A i \in DOMAIN gm : gm[i].dest \subseteq OwnTiles
    <2> SUFFICES ASSUME NEW i \in DOMAIN gm
                 PROVE  gm[i].dest \subseteq OwnTiles
      OBVIOUS
    <2>1. PICK r \in Closing, b \in Batches : gm[i].dest = Destination(r, b)
      BY <1>4 DEF Names
    <2>2. r \in Working
      BY DEF Closing
    <2> QED BY <1>2, <2>1, <2>2, Destinations
  \* The copy of output (r, b).
  <1>6. ASSUME NEW r \in Closing, NEW b \in Batches
        PROVE  \E i \in DOMAIN gm : gm[i].dest = Destination(r, b)
    <2>1. r \in Working /\ r \in Nat /\ b \in Nat /\ r < TaskCount
      BY <1>2 DEF Closing
    <2>2. OutputIndex(r, b) \in Nat
      BY <1>2, <2>1, IndexStep
    <2>3. OutputIndex(r, b) < OutputIndex(TaskCount, 0)
      <3>1. Place(TaskCount, 0) /\ Place(r, b)
        BY <1>2, <2>1, IndexUnique DEF Place
      <3> QED BY <1>2, <2>1, <3>1, IndexOrder
    <2> DEFINE i == OutputIndex(r, b) + 1
    <2>4. i \in DOMAIN gm /\ i - 1 = OutputIndex(r, b)
      BY <1>3, <2>2, <2>3
    <2> HIDE DEF i
    <2>5. PICK q \in Closing, d \in Batches :
            OutputIndex(q, d) = i - 1 /\ gm[i].dest = Destination(q, d)
      BY <1>4, <2>4 DEF Names
    <2>6. q \in Working /\ OutputIndex(q, d) = OutputIndex(r, b)
      BY <2>4, <2>5 DEF Closing
    <2>7. q = r /\ d = b
      BY <1>2, <2>1, <2>6, IndexUnique
    <2> QED BY <2>4, <2>5, <2>7
  <1>7. ASSUME NEW t \in OwnTiles
        PROVE  \E i \in DOMAIN gm : t \in gm[i].dest
    <2>1. /\ t \in Rounds \X LaneRepeats(repeat, lane) /\ t[1] \in Working /\ t[1] \in Nat
      BY <1>2, <1>7 DEF OwnTiles
    <2>2. PICK b \in Batches : t[2] \in Batch(b)
      BY <1>2, <2>1, BatchesPartition
    <2>3. t = <<t[1], t[2]>>
      BY <2>1
    <2>4. CASE t[1] \in Closing
      <3>1. t \in Destination(t[1], b)
        BY <2>2, <2>3 DEF Destination
      <3> QED BY <1>6, <2>4, <3>1
    <2>5. CASE t[1] \notin Closing
      <3>1. FirstHalf(t[1])
        BY <2>1, <2>5 DEF Closing
      <3>2. SecondHalf(t[1] + 1) /\ t[1] + 1 \in Nat
        <4>1. t[1] + 1 \in Nat
          BY <2>1
        <4>2. SecondHalf(t[1] + 1)
          BY <1>2, <2>1, <3>1, Halves
        <4> QED BY <4>1, <4>2
      <3>3. t[1] + 1 \in Closing
        BY <1>2, <3>2, Halves
      <3>4. (t[1] + 1) - 1 = t[1]
        BY <2>1
      <3>5. t \in Destination(t[1] + 1, b)
        BY <2>2, <2>3, <3>2, <3>4 DEF Destination
      <3> QED BY <1>6, <3>3, <3>5
    <2> QED BY <2>4, <2>5
  <1>8. ASSUME NEW i \in DOMAIN gm, NEW j \in DOMAIN gm, i # j
        PROVE  gm[i].dest \cap gm[j].dest = {}
    <2>1. PICK r \in Closing, b \in Batches :
            OutputIndex(r, b) = i - 1 /\ gm[i].dest = Destination(r, b)
      BY <1>4 DEF Names
    <2>2. PICK q \in Closing, d \in Batches :
            OutputIndex(q, d) = j - 1 /\ gm[j].dest = Destination(q, d)
      BY <1>4 DEF Names
    <2>3. i - 1 # j - 1
      BY <1>3, <1>8
    <2>4. ~(r = q /\ b = d)
      BY <2>1, <2>2, <2>3
    <2>5. \A t : ~(t \in Destination(r, b) /\ t \in Destination(q, d))
      BY <1>2, <2>4, DestinationsApart
    <2> QED BY <2>1, <2>2, <2>5
  <1>9. UNION {gm[i].dest : i \in DOMAIN gm} = OwnTiles
    BY <1>5, <1>7
  <1> QED BY <1>8, <1>9

-----------------------------------------------------------------------------
(* The theorems *)

\* No buffer of the lane is read by one pipe while another one writes it:
\* gQueue_ and betaQueue_, kktBuf_, and the buffers of outputQueue_, whose
\* reuse only MTE3_S orders.
THEOREM VectorNoBufferRace == SafeSpec => []NoBufferRace
  BY VectorInvariant, IInvNoBufferRace, PTL

\* Every copy to GM carries exactly the tiles its destination names, each with
\* the gates of its own round and heads and the Gram of its own round.
THEOREM VectorOutputsRight == SafeSpec => []OutputsRight
  BY VectorInvariant, IInvOutputsRight, PTL

\* A lane that is done has written each of its tiles once, the delayed last
\* batch included, and leaves every event, flag and buffer as it found it.
THEOREM VectorCompleteAndBalanced == SafeSpec => []CompleteAndBalanced
  <1>1. IInv => CompleteAndBalanced
    BY IInvOutputsExactlyOnce, IInvEventsBalanced DEF CompleteAndBalanced
  <1> QED BY <1>1, VectorInvariant, PTL

\* What the scalar unit takes for granted: no queue of depth 1 overflows, the
\* slot it acquires is not that of the delayed output, and before the
\* epilogue one copy at most is outstanding, so that one MTE3_S id would do.
THEOREM VectorBufferProtocol == SafeSpec => []BufferProtocol
  BY VectorInvariant, IInvBufferProtocol, PTL
=============================================================================
