------------------------------ MODULE KktCubeProofs ------------------------------
(***************************************************************************)
(* Safety of the Cube stage, for every number of rounds, every pattern of  *)
(* chunk lengths and both variants.                                        *)
(*                                                                         *)
(* L1 and CO1 are each one tile that a producer fills and a consumer takes *)
(* over, by an event that says "full" and one that says "empty"; OneTile   *)
(* is the discipline of such a tile, and its lemmas serve both.  The L0    *)
(* stages are ordered by counting: how many parts PIPE_MTE1 is ahead of    *)
(* PIPE_M in the round both work on.                                       *)
(***************************************************************************)
EXTENDS KktCube, TLAPS

\* Neighbouring rounds use different slots, rounds two apart the same slot.
LEMMA SlotAlternates ==
  \A r \in Int : /\ SlotOf(r) \in Slot
                 /\ SlotOf(r + 1) # SlotOf(r)
                 /\ SlotOf(r - 1) # SlotOf(r)
                 /\ SlotOf(r + 2) = SlotOf(r)
                 /\ SlotOf(r - 2) = SlotOf(r)
  BY DEF SlotOf, Slot, SLOT_COUNT

\* The rounds that compute, and those that take the tile: these, and behind
\* the last one the drain of the epilogue.
Computed == {r \in Rounds : Valid(r)}
Turns == Computed \cup {TaskCount}

\* How far each pipe has begun and ended its use of L1 and CO1, in rounds.
copyBegun   == mte2Round + (IF mte2Pc = "idle" THEN 0 ELSE 1)
loadBegun   == mte1Round + (IF mte1Pc = "A" /\ mte1Part = 0 THEN 0 ELSE 1)
loaded      == mte1Round + (IF mte1Pc = "drain" THEN 1 ELSE 0)
mulBegun    == mRound + (IF mPc \in {"running", "drained"} \/ mPart > 0 THEN 1 ELSE 0)
commitBegun == fixRound + (IF fixPc = "idle" THEN 0 ELSE 1)
announced   == fixRound + (IF fixPc = "announced" THEN 1 ELSE 0)

\* A tile is filled in its turns (begun and done before filling and filled)
\* and used by the rounds that compute (before using and used): none is used
\* before it is full, nor filled before the last one is used up.
OneTile(computed, turns, filling, filled, using, used, full, empty) ==
  /\ \A r \in computed : r < using => r < filled
  /\ \A q \in computed, r \in turns : q < r /\ r < filling => q < used
  /\ full = IF \E r \in computed : using <= r /\ r < filled THEN 1 ELSE 0
  /\ empty = IF \E r \in turns : used <= r /\ r < filling THEN 0 ELSE 1

L1Tile  == OneTile(Computed, Turns, copyBegun, mte2Round, loadBegun, loaded, l1Loaded, l1Free)
Co1Tile == OneTile(Computed, Turns, mulBegun, mRound, commitBegun, fixRound, co1Done, co1Free)

\* A pipe works only on what has been issued to it.
PcOrder ==
  /\ issued <= started /\ started <= issued + 1
  /\ finished => issued = TaskCount
  /\ mte2Round <= started /\ mte1Round <= started /\ mRound <= started /\ fixRound <= issued
  /\ mte2Pc \in {"clearing", "cleared", "copying"} => mte2Round < started /\ Valid(mte2Round)
  /\ mte2Pc \in {"clearing", "cleared"} => NeedsClear(mte2Round)
  /\ mte2Pc = "drained" => mte2Round = TaskCount
  /\ mte1Pc # "A" \/ mte1Part > 0 => mte1Round < started /\ Valid(mte1Round)
  /\ mte1Pc = "drain" => mte1Part = 0
  /\ mPc \in {"mmad", "running"} => mRound < started /\ Valid(mRound)
  /\ mPc \in {"init", "drained"} => mPart = 0
  /\ mPc = "drained" => mRound = TaskCount
  /\ fixPc # "idle" => fixRound < issued /\ Valid(fixRound)

\* The AIC's scalar is at most SLOT_COUNT rounds ahead of the AIVs.
AivOrder ==
  /\ released <= taken /\ taken <= announced
  /\ issued <= released + SLOT_COUNT

ReadyCount == \A s \in Slot :
  ready[s] = IF \E r \in {taken, taken + 1} : r < announced /\ SlotOf(r) = s THEN 1 ELSE 0

FreeCount == \A s \in Slot :
  free[s] = IF \E r \in {issued - 1, issued - 2} :
                 r >= 0 /\ r < released /\ WillReuseSlot(r) /\ SlotOf(r) = s
            THEN 1 ELSE 0

\* Parts of its round PIPE_MTE1 has loaded, and those of it PIPE_M has begun.
Loads == IF mte1Pc = "drain" THEN K_PARTS ELSE mte1Part
Begun ==
  IF mRound < mte1Round THEN 0
  ELSE IF mRound > mte1Round THEN Loads
  ELSE mPart + (IF mPc = "running" THEN 1 ELSE 0)

\* The two pipes at the L0 stages: PIPE_MTE1 leaves no round before PIPE_M
\* has, and PIPE_M uses no part before it is loaded.
StageOrder ==
  /\ \A r \in Computed : r < mte1Round => r < mRound
  /\ \A r \in Computed : r < mRound => r < loaded
  /\ Begun <= Loads
  /\ mRound > mte1Round => mPart = 0 /\ mPc # "running"
  /\ stageLoaded = Loads - Begun

LoadABegun(p) == mte1Pc = "drain" \/ mte1Part > p \/ (mte1Part = p /\ mte1Pc # "A")
LoadBBegun(p) == mte1Pc = "drain" \/ mte1Part > p \/ (mte1Part = p /\ mte1Pc = "loadingB")
LoadADone(p)  == mte1Pc = "drain" \/ mte1Part > p \/ (mte1Part = p /\ mte1Pc \in {"B", "loadingB"})
LoadBDone(p)  == mte1Pc = "drain" \/ mte1Part > p
MulDone(p)    == mRound > mte1Round \/ (mRound = mte1Round /\ mPart > p)

\* Rounds whose tokens PIPE_M has set (K128).
inits == mRound + (IF mPc \in {"mmad", "running"} THEN 1 ELSE 0)

\* A stage's token is with PIPE_MTE1 from the load to the product; what
\* PIPE_M has set and PIPE_MTE1 has not drained is signalled.
StageTokens ==
  IF PerStage
  THEN /\ mte1Round <= issued /\ l0Drain = 0
       /\ \A p \in Part :
            /\ aFree[p] = inits - mte1Round - (IF LoadABegun(p) /\ ~MulDone(p) THEN 1 ELSE 0)
            /\ bFree[p] = inits - mte1Round - (IF LoadBBegun(p) /\ ~MulDone(p) THEN 1 ELSE 0)
  ELSE /\ l0Drain = IF mte1Round \in Computed /\ mRound > mte1Round THEN 1 ELSE 0
       /\ \A p \in Part : aFree[p] = 0 /\ bFree[p] = 0

L1Content ==
  /\ mte2Pc = "cleared" => l1 = {}
  /\ mte2Pc = "copying" /\ NeedsClear(mte2Round) => l1 = {}
  /\ \A r \in Computed : loaded <= r /\ r < mte2Round => l1 = {r}

L0Content == \A p \in Part :
  /\ LoadADone(p) => l0a[p] = {mte1Round}
  /\ LoadBDone(p) => l0b[p] = {mte1Round}

\* The first n parts of the product of round r.
Partial(r, n) == {<<p, {r}, {r}>> : p \in 0 .. n - 1}

Co1Content ==
  /\ mPart > 0 => co1 = Partial(mRound, mPart)
  /\ \A r \in Computed : fixRound <= r /\ r < mRound => co1 = Gram(r)

\* Rounds whose Gram is complete in their slot.
committed == fixRound + (IF fixPc \in {"committed", "announced"} THEN 1 ELSE 0)

SlotContent ==
  \A r \in Computed : released <= r /\ r < committed => slot[SlotOf(r)] = Gram(r)

Contents == L1Content /\ L0Content /\ Co1Content /\ SlotContent

Given == kDim \in KDims /\ chunkLen \in Walks

IInv ==
  /\ Given /\ TypeOK /\ PcOrder /\ AivOrder /\ ReadyCount /\ FreeCount
  /\ L1Tile /\ Co1Tile /\ StageOrder /\ StageTokens /\ Contents

-----------------------------------------------------------------------------
(* A tile of one buffer *)

\* What the two parties know of the rounds and of their own progress.
Tile(computed, turns, filling, filled, using, used) ==
  /\ computed \subseteq turns /\ turns \subseteq Int
  /\ filling \in Int /\ filled \in Int /\ using \in Int /\ used \in Int
  /\ filled <= filling /\ filling <= filled + 1
  /\ used <= using /\ using <= used + 1

LEMMA BeginFilling ==
  ASSUME NEW computed, NEW turns, NEW filled, NEW using, NEW used, NEW full, NEW empty,
         Tile(computed, turns, filled, filled, using, used),
         OneTile(computed, turns, filled, filled, using, used, full, empty),
         filled \in turns, filled \in computed \/ used <= filled, empty > 0
  PROVE  OneTile(computed, turns, filled + 1, filled, using, used, full, empty - 1)
  <1>1. \A q \in turns : q < filled => q < used
    BY DEF Tile, OneTile
  <1>2. used <= filled
    BY DEF Tile, OneTile
  <1>3. empty = 1
    BY DEF OneTile
  <1>4. \E r \in turns : used <= r /\ r < filled + 1
    BY <1>2 DEF Tile
  <1>5. \A q \in computed, r \in turns : q < r /\ r < filled + 1 => q < used
    BY <1>1 DEF Tile
  <1> QED BY <1>3, <1>4, <1>5 DEF OneTile

LEMMA EndFilling ==
  ASSUME NEW computed, NEW turns, NEW filled, NEW using, NEW used, NEW full, NEW empty,
         Tile(computed, turns, filled + 1, filled, using, used),
         OneTile(computed, turns, filled + 1, filled, using, used, full, empty),
         filled \in computed
  PROVE  OneTile(computed, turns, filled + 1, filled + 1, using, used, full + 1, empty)
  <1>1. \A q \in computed : q < filled => q < using
    BY DEF Tile, OneTile
  <1>2. using <= filled
    BY DEF Tile, OneTile
  <1>3. full = 0
    BY <1>1 DEF Tile, OneTile
  <1>4. \E r \in computed : using <= r /\ r < filled + 1
    BY <1>2 DEF Tile
  <1>5. \A r \in computed : r < using => r < filled + 1
    BY DEF Tile, OneTile
  <1> QED BY <1>3, <1>4, <1>5 DEF OneTile

LEMMA PassFilling ==
  ASSUME NEW computed, NEW turns, NEW filled, NEW using, NEW used, NEW full, NEW empty,
         Tile(computed, turns, filled, filled, using, used),
         OneTile(computed, turns, filled, filled, using, used, full, empty),
         filled \notin turns
  PROVE  OneTile(computed, turns, filled + 1, filled + 1, using, used, full, empty)
  <1>1. \A r \in turns : r < filled <=> r < filled + 1
    BY DEF Tile
  <1> QED BY <1>1 DEF Tile, OneTile

LEMMA BeginUsing ==
  ASSUME NEW computed, NEW turns, NEW filling, NEW filled, NEW used, NEW full, NEW empty,
         Tile(computed, turns, filling, filled, used, used),
         OneTile(computed, turns, filling, filled, used, used, full, empty),
         used \in computed, full > 0
  PROVE  OneTile(computed, turns, filling, filled, used + 1, used, full - 1, empty)
  <1>1. full = 1 /\ used < filled
    BY DEF Tile, OneTile
  <1>2. ~\E r \in computed : used + 1 <= r /\ r < filled
    BY DEF Tile, OneTile
  <1>3. \A r \in computed : r < used + 1 => r < filled
    BY <1>1 DEF Tile, OneTile
  <1> QED BY <1>1, <1>2, <1>3 DEF OneTile

LEMMA EndUsing ==
  ASSUME NEW computed, NEW turns, NEW filling, NEW filled, NEW used, NEW full, NEW empty,
         Tile(computed, turns, filling, filled, used + 1, used),
         OneTile(computed, turns, filling, filled, used + 1, used, full, empty),
         used \in computed
  PROVE  OneTile(computed, turns, filling, filled, used + 1, used + 1, full, empty + 1)
  <1>1. used < filling
    BY DEF Tile, OneTile
  <1>2. empty = 0
    BY <1>1 DEF Tile, OneTile
  <1>3. ~\E r \in turns : used + 1 <= r /\ r < filling
    BY DEF Tile, OneTile
  <1>4. \A q \in computed, r \in turns : q < r /\ r < filling => q < used + 1
    BY DEF Tile, OneTile
  <1> QED BY <1>2, <1>3, <1>4 DEF OneTile

LEMMA PassUsing ==
  ASSUME NEW computed, NEW turns, NEW filling, NEW filled, NEW used, NEW full, NEW empty,
         Tile(computed, turns, filling, filled, used, used),
         OneTile(computed, turns, filling, filled, used, used, full, empty),
         used \notin turns
  PROVE  OneTile(computed, turns, filling, filled, used + 1, used + 1, full, empty)
  <1>1. \A r \in turns : (r < used <=> r < used + 1) /\ (used <= r <=> used + 1 <= r)
    BY DEF Tile
  <1>2. \A r \in computed : (r < used <=> r < used + 1) /\ (used <= r <=> used + 1 <= r)
    BY <1>1 DEF Tile
  <1> QED BY <1>1, <1>2 DEF Tile, OneTile

-----------------------------------------------------------------------------
(* Sizes and rounds *)

LEMMA Sizes ==
  ASSUME Given
  PROVE  /\ K_PARTS \in {2, 4} /\ Part = 0 .. K_PARTS - 1
         /\ TaskCount \in Nat /\ Rounds = 0 .. TaskCount - 1
         /\ \A r \in Rounds : LenOf(r) \in Int
         /\ \A r : r \in Computed <=> r \in Rounds /\ Valid(r)
         /\ \A r \in Rounds : Valid(r) => LenOf(r) <= BT
         /\ \A r : r \in Turns <=> r \in Computed \/ r = TaskCount
         /\ Computed \subseteq Turns /\ Turns \subseteq Int
  <1>1. K_PARTS \in {2, 4} /\ Part = 0 .. K_PARTS - 1
    BY CubeAssumption DEF Given, K_PARTS, K_STEP, Part
  <1>2. chunkLen \in Seq(Int)
    BY CubeAssumption DEF Given
  <1>3. TaskCount \in Nat /\ Rounds = 0 .. TaskCount - 1
    BY <1>2 DEF TaskCount, Rounds
  <1>4. \A r \in Rounds : LenOf(r) \in Int
    BY <1>2 DEF TaskCount, Rounds, LenOf
  <1>5. \A r : r \in Computed <=> r \in Rounds /\ Valid(r)
    BY DEF Computed
  <1>6. \A r \in Rounds : Valid(r) => LenOf(r) <= BT
    BY <1>4 DEF Valid, ValidChunk, BT
  <1>7. \A r : r \in Turns <=> r \in Computed \/ r = TaskCount
    BY DEF Turns
  <1>8. Computed \subseteq Turns /\ Turns \subseteq Int
    BY <1>3, <1>5, <1>7
  <1> QED BY <1>1, <1>3, <1>4, <1>5, <1>6, <1>7, <1>8

\* The rounds and the variant never change.
LEMMA WorkIsFixed ==
  ASSUME UNCHANGED work
  PROVE  /\ K_PARTS' = K_PARTS /\ Part' = Part
         /\ TaskCount' = TaskCount /\ Rounds' = Rounds
         /\ Computed' = Computed /\ Turns' = Turns
         /\ (PerStage' <=> PerStage) /\ (Given' <=> Given)
         /\ \A r : /\ Valid(r)' <=> Valid(r)
                   /\ LenOf(r)' = LenOf(r)
                   /\ NeedsClear(r)' <=> NeedsClear(r)
                   /\ WillReuseSlot(r)' <=> WillReuseSlot(r)
                   /\ Gram(r)' = Gram(r)
  <1>1. K_PARTS' = K_PARTS /\ Part' = Part /\ TaskCount' = TaskCount /\ Rounds' = Rounds
    BY DEF work, K_PARTS, Part, TaskCount, Rounds
  <1>2. (PerStage' <=> PerStage) /\ (Given' <=> Given)
    BY DEF work, PerStage, Given
  <1>3. \A r : LenOf(r)' = LenOf(r)
    BY DEF work, LenOf
  <1>4. \A r : Valid(r)' <=> Valid(r)
    BY <1>3 DEF Valid
  <1>5. \A r : NeedsClear(r)' <=> NeedsClear(r)
    BY <1>3 DEF NeedsClear
  <1>6. \A r : WillReuseSlot(r)' <=> WillReuseSlot(r)
    BY <1>1 DEF WillReuseSlot
  <1>7. \A r : Gram(r)' = Gram(r)
    BY <1>1 DEF Gram
  <1>8. Computed' = Computed
    BY <1>1, <1>4 DEF Computed
  <1>9. Turns' = Turns
    BY <1>1, <1>8 DEF Turns
  <1> QED BY <1>1, <1>2, <1>3, <1>4, <1>5, <1>6, <1>7, <1>8, <1>9

-----------------------------------------------------------------------------
(* The initial states *)

LEMMA InitIInv ==
  ASSUME Init
  PROVE  IInv
  <1>1. Given
    BY DEF Init, Given
  <1>s. K_PARTS \in {2, 4} /\ Part = 0 .. K_PARTS - 1 /\ TaskCount \in Nat
        /\ (\A r : r \in Computed <=> r \in Rounds /\ Valid(r))
        /\ (\A r : r \in Turns <=> r \in Computed \/ r = TaskCount)
        /\ Rounds = 0 .. TaskCount - 1
    BY <1>1, Sizes
  <1>2. TypeOK
    <2>1. ProgressType
      <3>1. finished \in BOOLEAN
        BY DEF Init
      <3>2. started = 0 /\ issued = 0 /\ taken = 0 /\ released = 0
        BY DEF Init
      <3>3. mte2Round = 0 /\ mte1Round = 0 /\ mRound = 0 /\ fixRound = 0
            /\ mte1Part = 0 /\ mPart = 0
        BY DEF Init
      <3>4. mte2Pc = "idle" /\ mte1Pc = "A" /\ mPc = "init" /\ fixPc = "idle"
        BY DEF Init
      <3> QED BY <1>s, <3>1, <3>2, <3>3, <3>4 DEF ProgressType
    <2>2. EventType
      BY DEF Init, EventType
    <2>3. MemoryType
      BY DEF Init, MemoryType
    <2> QED BY <2>1, <2>2, <2>3 DEF TypeOK
  <1>3. PcOrder
    BY <1>s DEF Init, PcOrder
  <1>4. AivOrder /\ ReadyCount
    BY <1>s DEF Init, AivOrder, ReadyCount, announced, SLOT_COUNT, Slot
  <1>5. FreeCount
    BY <1>s DEF Init, FreeCount, Slot, SLOT_COUNT
  <1>6. L1Tile
    BY <1>s DEF Init, L1Tile, OneTile, copyBegun, loadBegun, loaded
  <1>7. Co1Tile
    BY <1>s DEF Init, Co1Tile, OneTile, mulBegun, commitBegun
  <1>8. StageOrder
    BY <1>s DEF Init, StageOrder, Loads, Begun, loaded
  <1>9. StageTokens
    BY <1>s DEF Init, StageTokens, inits, LoadABegun, LoadBBegun, Slot
  <1>10. Contents
    BY <1>s DEF Init, Contents, L1Content, L0Content, Co1Content, SlotContent, committed,
              loaded, LoadADone, LoadBDone
  <1> QED BY <1>1, <1>2, <1>3, <1>4, <1>5, <1>6, <1>7, <1>8, <1>9, <1>10 DEF IInv

-----------------------------------------------------------------------------
(* The steps *)

\* Every action leaves the rounds alone.
LEMMA WorkUnchanged ==
  ASSUME [Next]_vars
  PROVE  UNCHANGED work
  BY DEF Next, vars, Scalar, Mte2, Mte1, Cube, Fix, Aiv, Finished,
         StartRound, FinishRound, DrainPersistentEvents,
         StartClearL1, FinishClearL1, StartCopyK, FinishCopyK, PassMte2, DrainL1, Mte2Only,
         StartLoadA, FinishLoadA, StartLoadB, FinishLoadB, TaskDrain, DrainL0Events,
         NextMte1Round, Mte1Only, InitL0Events, StartMmad, FinishMmad, DrainCo1, MOnly,
         StartCommit, FinishCommit, SetReady, ReturnCo1, FixOnly, TakeReady, ReleaseSlot

\* Every pipe stays behind what has been issued to it.
LEMMA NextProgress ==
  ASSUME IInv, [Next]_vars
  PROVE  ProgressType' /\ PcOrder'
  <1> USE DEF work, scalar, mte2, mte1, m, fix, l1Ev, l0Ev, co1Ev, cross, memory, aiv
  <1>1. /\ K_PARTS \in {2, 4} /\ Part = 0 .. K_PARTS - 1
        /\ TaskCount \in Nat
    BY Sizes DEF IInv
  <1>2. /\ K_PARTS' = K_PARTS /\ Part' = Part /\ TaskCount' = TaskCount
        /\ \A r : (Valid(r)' <=> Valid(r)) /\ (NeedsClear(r)' <=> NeedsClear(r))
    BY WorkUnchanged, WorkIsFixed
  <1>3. ProgressType /\ PcOrder
    BY DEF IInv, TypeOK
  <1>4. CASE StartRound
    BY <1>1, <1>2, <1>3, <1>4 DEF ProgressType, PcOrder, StartRound
  <1>5. CASE FinishRound
    BY <1>1, <1>2, <1>3, <1>5 DEF ProgressType, PcOrder, FinishRound
  <1>6. CASE DrainPersistentEvents
    BY <1>1, <1>2, <1>3, <1>6 DEF ProgressType, PcOrder, DrainPersistentEvents
  <1>7. CASE StartClearL1
    BY <1>1, <1>2, <1>3, <1>7 DEF ProgressType, PcOrder, StartClearL1, TakeL1, Mte2Only
  <1>8. CASE FinishClearL1
    BY <1>1, <1>2, <1>3, <1>8 DEF ProgressType, PcOrder, FinishClearL1, Mte2Only
  <1>9. CASE StartCopyK
    BY <1>1, <1>2, <1>3, <1>9 DEF ProgressType, PcOrder, StartCopyK, TakeL1, Mte2Only
  <1>10. CASE FinishCopyK
    BY <1>1, <1>2, <1>3, <1>10 DEF ProgressType, PcOrder, FinishCopyK, Mte2Only
  <1>11. CASE PassMte2
    BY <1>1, <1>2, <1>3, <1>11 DEF ProgressType, PcOrder, PassMte2, Mte2Only
  <1>12. CASE DrainL1
    BY <1>1, <1>2, <1>3, <1>12 DEF ProgressType, PcOrder, DrainL1, TakeL1, Mte2Only
  <1>13. CASE StartLoadA
    BY <1>1, <1>2, <1>3, <1>13 DEF ProgressType, PcOrder, StartLoadA, Mte1Only
  <1>14. CASE FinishLoadA
    BY <1>1, <1>2, <1>3, <1>14 DEF ProgressType, PcOrder, FinishLoadA, Mte1Only
  <1>15. CASE StartLoadB
    BY <1>1, <1>2, <1>3, <1>15 DEF ProgressType, PcOrder, StartLoadB, Mte1Only
  <1>16. CASE FinishLoadB
    BY <1>1, <1>2, <1>3, <1>16 DEF ProgressType, PcOrder, FinishLoadB, Last, Mte1Only
  <1>17. CASE TaskDrain
    BY <1>1, <1>2, <1>3, <1>17 DEF ProgressType, PcOrder, TaskDrain, Loaded, NextMte1Round, Mte1Only
  <1>18. CASE DrainL0Events
    BY <1>1, <1>2, <1>3, <1>18 DEF ProgressType, PcOrder, DrainL0Events, Loaded, NextMte1Round, Mte1Only
  <1>19. CASE InitL0Events
    BY <1>1, <1>2, <1>3, <1>19 DEF ProgressType, PcOrder, InitL0Events, MOnly
  <1>20. CASE StartMmad
    BY <1>1, <1>2, <1>3, <1>20 DEF ProgressType, PcOrder, StartMmad, MOnly
  <1>21. CASE FinishMmad
    BY <1>1, <1>2, <1>3, <1>21 DEF ProgressType, PcOrder, FinishMmad, Last, MOnly
  <1>22. CASE DrainCo1
    BY <1>1, <1>2, <1>3, <1>22 DEF ProgressType, PcOrder, DrainCo1, MOnly
  <1>23. CASE StartCommit
    BY <1>1, <1>2, <1>3, <1>23 DEF ProgressType, PcOrder, StartCommit, FixOnly
  <1>24. CASE FinishCommit
    BY <1>1, <1>2, <1>3, <1>24 DEF ProgressType, PcOrder, FinishCommit, FixOnly
  <1>25. CASE SetReady
    BY <1>1, <1>2, <1>3, <1>25 DEF ProgressType, PcOrder, SetReady, FixOnly
  <1>26. CASE ReturnCo1
    BY <1>1, <1>2, <1>3, <1>26 DEF ProgressType, PcOrder, ReturnCo1, FixOnly
  <1>27. CASE TakeReady
    BY <1>1, <1>2, <1>3, <1>27 DEF ProgressType, PcOrder, TakeReady
  <1>28. CASE ReleaseSlot
    BY <1>1, <1>2, <1>3, <1>28 DEF ProgressType, PcOrder, ReleaseSlot
  <1>29. CASE UNCHANGED vars
    BY <1>1, <1>2, <1>3, <1>29 DEF ProgressType, PcOrder, vars
  <1> QED BY <1>4, <1>5, <1>6, <1>7, <1>8, <1>9, <1>10, <1>11, <1>12, <1>13, <1>14, <1>15, <1>16, <1>17, <1>18, <1>19, <1>20, <1>21, <1>22, <1>23, <1>24, <1>25, <1>26, <1>27, <1>28, <1>29 DEF Next, Scalar, Mte2, Mte1, Cube, Fix, Aiv, Finished

\* The facts every step starts from.
LEMMA StepFacts ==
  ASSUME IInv, [Next]_vars
  PROVE  /\ K_PARTS \in {2, 4} /\ Part = 0 .. K_PARTS - 1
         /\ TaskCount \in Nat /\ Rounds = 0 .. TaskCount - 1
         /\ \A r : r \in Computed <=> r \in Rounds /\ Valid(r)
         /\ \A r : r \in Turns <=> r \in Computed \/ r = TaskCount
         /\ Computed \subseteq Turns /\ Turns \subseteq Int
         /\ K_PARTS' = K_PARTS /\ Part' = Part /\ TaskCount' = TaskCount
         /\ Rounds' = Rounds /\ Computed' = Computed /\ Turns' = Turns
         /\ (PerStage' <=> PerStage) /\ (Given' <=> Given)
         /\ \A r : Valid(r)' <=> Valid(r)
         /\ ProgressType /\ EventType /\ MemoryType /\ PcOrder
         /\ ProgressType' /\ PcOrder'
  <1>1. Given /\ ProgressType /\ EventType /\ MemoryType /\ PcOrder
    BY DEF IInv, TypeOK
  <1>2. UNCHANGED work
    BY WorkUnchanged
  <1> QED BY <1>1, <1>2, Sizes, WorkIsFixed, NextProgress

\* The progress of the two parties of each tile.
LEMMA L1Parties ==
  ASSUME IInv
  PROVE  Tile(Computed, Turns, copyBegun, mte2Round, loadBegun, loaded)
  BY Sizes DEF IInv, TypeOK, ProgressType, PcOrder, Tile, copyBegun, loadBegun, loaded

LEMMA Co1Parties ==
  ASSUME IInv
  PROVE  Tile(Computed, Turns, mulBegun, mRound, commitBegun, fixRound)
  BY Sizes DEF IInv, TypeOK, ProgressType, PcOrder, Tile, mulBegun, commitBegun

LEMMA NextL1Tile ==
  ASSUME IInv, [Next]_vars
  PROVE  L1Tile'
  <1> USE DEF work, scalar, mte2, mte1, m, fix, l1Ev, l0Ev, co1Ev, cross, memory, aiv
  <1>1. /\ K_PARTS \in {2, 4} /\ Part = 0 .. K_PARTS - 1
        /\ TaskCount \in Nat /\ Rounds = 0 .. TaskCount - 1
        /\ \A r : r \in Computed <=> r \in Rounds /\ Valid(r)
        /\ \A r : r \in Turns <=> r \in Computed \/ r = TaskCount
        /\ Computed \subseteq Turns
        /\ Computed' = Computed /\ Turns' = Turns
        /\ ProgressType /\ EventType /\ PcOrder
    BY StepFacts
  <1>2. Tile(Computed, Turns, copyBegun, mte2Round, loadBegun, loaded)
    BY L1Parties
  <1>3. OneTile(Computed, Turns, copyBegun, mte2Round, loadBegun, loaded, l1Loaded, l1Free)
    BY DEF IInv, L1Tile
  <1>4. CASE (StartClearL1 \/ StartCopyK \/ DrainL1) /\ mte2Pc = "idle"
    <2>1. /\ copyBegun = mte2Round /\ copyBegun' = mte2Round + 1
          /\ UNCHANGED <<mte2Round, loadBegun, loaded, l1Loaded>>
          /\ l1Free > 0 /\ l1Free' = l1Free - 1
      BY <1>1, <1>4 DEF StartClearL1, StartCopyK, DrainL1, TakeL1, Mte2Only, ProgressType,
                        copyBegun, loadBegun, loaded
    <2>2. mte2Round \in Turns
      BY <1>1, <1>4 DEF StartClearL1, StartCopyK, DrainL1, ProgressType
    <2>3. mte2Round \in Computed \/ loaded <= mte2Round
      BY <1>1, <2>2 DEF ProgressType, PcOrder, loaded
    <2>4. OneTile(Computed, Turns, mte2Round + 1, mte2Round, loadBegun, loaded, l1Loaded, l1Free - 1)
      BY <1>2, <1>3, <2>1, <2>2, <2>3, BeginFilling
    <2> QED BY <1>1, <2>1, <2>4 DEF L1Tile
  <1>5. CASE FinishCopyK
    <2>1. /\ copyBegun = mte2Round + 1 /\ copyBegun' = mte2Round + 1 /\ mte2Round' = mte2Round + 1
          /\ UNCHANGED <<loadBegun, loaded, l1Free>>
          /\ l1Loaded' = l1Loaded + 1
      BY <1>1, <1>5 DEF FinishCopyK, Mte2Only, ProgressType, copyBegun, loadBegun, loaded
    <2>2. mte2Round \in Computed
      BY <1>1, <1>5 DEF FinishCopyK, ProgressType, PcOrder
    <2>3. OneTile(Computed, Turns, mte2Round + 1, mte2Round + 1, loadBegun, loaded, l1Loaded + 1, l1Free)
      BY <1>2, <1>3, <2>1, <2>2, EndFilling
    <2> QED BY <1>1, <2>1, <2>3 DEF L1Tile
  <1>6. CASE PassMte2
    <2>1. /\ copyBegun = mte2Round /\ copyBegun' = mte2Round + 1 /\ mte2Round' = mte2Round + 1
          /\ UNCHANGED <<loadBegun, loaded, l1Loaded, l1Free>>
      BY <1>1, <1>6 DEF PassMte2, Mte2Only, ProgressType, copyBegun, loadBegun, loaded
    <2>2. mte2Round \notin Turns
      BY <1>1, <1>6 DEF PassMte2, ProgressType, PcOrder
    <2>3. OneTile(Computed, Turns, mte2Round + 1, mte2Round + 1, loadBegun, loaded, l1Loaded, l1Free)
      BY <1>2, <1>3, <2>1, <2>2, PassFilling
    <2> QED BY <1>1, <2>1, <2>3 DEF L1Tile
  <1>7. CASE StartLoadA /\ mte1Part = 0
    <2>1. /\ loadBegun = mte1Round /\ loaded = mte1Round /\ loadBegun' = mte1Round + 1
          /\ UNCHANGED <<copyBegun, mte2Round, loaded, l1Free>>
          /\ l1Loaded > 0 /\ l1Loaded' = l1Loaded - 1
      BY <1>1, <1>7 DEF StartLoadA, Mte1Only, ProgressType, copyBegun, loadBegun, loaded
    <2>2. mte1Round \in Computed
      BY <1>1, <1>7 DEF StartLoadA, ProgressType, PcOrder
    <2>3. OneTile(Computed, Turns, copyBegun, mte2Round, mte1Round + 1, mte1Round, l1Loaded - 1, l1Free)
      BY <1>2, <1>3, <2>1, <2>2, BeginUsing
    <2> QED BY <1>1, <2>1, <2>3 DEF L1Tile
  <1>8. CASE FinishLoadB /\ Last(mte1Part)
    <2>1. /\ loadBegun = mte1Round + 1 /\ loaded = mte1Round /\ loadBegun' = mte1Round + 1
          /\ loaded' = mte1Round + 1
          /\ UNCHANGED <<copyBegun, mte2Round, l1Loaded>>
          /\ l1Free' = l1Free + 1
      BY <1>1, <1>8 DEF FinishLoadB, Mte1Only, ProgressType, copyBegun, loadBegun, loaded
    <2>2. mte1Round \in Computed
      BY <1>1, <1>8 DEF FinishLoadB, ProgressType, PcOrder
    <2>3. OneTile(Computed, Turns, copyBegun, mte2Round, mte1Round + 1, mte1Round + 1, l1Loaded, l1Free + 1)
      BY <1>2, <1>3, <2>1, <2>2, EndUsing
    <2> QED BY <1>1, <2>1, <2>3 DEF L1Tile
  <1>9. CASE (TaskDrain \/ DrainL0Events) /\ mte1Pc # "drain"
    <2>1. /\ loadBegun = mte1Round /\ loaded = mte1Round
          /\ loadBegun' = mte1Round + 1 /\ loaded' = mte1Round + 1
          /\ UNCHANGED <<copyBegun, mte2Round, l1Loaded, l1Free>>
      BY <1>1, <1>9 DEF TaskDrain, DrainL0Events, Loaded, NextMte1Round, Mte1Only, ProgressType,
                        PcOrder, copyBegun, loadBegun, loaded
    <2>2. mte1Round \notin Turns
      BY <1>1, <1>9 DEF TaskDrain, DrainL0Events, Loaded, ProgressType, PcOrder
    <2>3. OneTile(Computed, Turns, copyBegun, mte2Round, mte1Round + 1, mte1Round + 1, l1Loaded, l1Free)
      BY <1>2, <1>3, <2>1, <2>2, PassUsing
    <2> QED BY <1>1, <2>1, <2>3 DEF L1Tile
  <1>10. CASE UNCHANGED <<copyBegun, mte2Round, loadBegun, loaded, l1Loaded, l1Free>>
    BY <1>1, <1>3, <1>10 DEF L1Tile
  <1>11. CASE Mte2
    <2>1. mte2Pc # "idle" /\ (StartClearL1 \/ FinishClearL1 \/ StartCopyK \/ DrainL1)
          => UNCHANGED <<copyBegun, mte2Round, loadBegun, loaded, l1Loaded, l1Free>>
      BY DEF StartClearL1, FinishClearL1, StartCopyK, DrainL1, Mte2Only,
             copyBegun, loadBegun, loaded
    <2>2. FinishClearL1 => mte2Pc # "idle"
      BY DEF FinishClearL1
    <2> QED BY <1>4, <1>5, <1>6, <1>10, <1>11, <2>1, <2>2 DEF Mte2
  <1>12. CASE Mte1
    <2>1. FinishLoadA \/ StartLoadB \/ (StartLoadA /\ mte1Part # 0)
            \/ (FinishLoadB /\ ~Last(mte1Part))
            \/ ((TaskDrain \/ DrainL0Events) /\ mte1Pc = "drain")
          => UNCHANGED <<copyBegun, mte2Round, loadBegun, loaded, l1Loaded, l1Free>>
      BY <1>1 DEF StartLoadA, FinishLoadA, StartLoadB, FinishLoadB, TaskDrain, DrainL0Events,
                  NextMte1Round, Mte1Only, ProgressType, PcOrder, copyBegun, loadBegun, loaded
    <2> QED BY <1>7, <1>8, <1>9, <1>10, <1>12, <2>1 DEF Mte1
  <1>13. CASE Scalar \/ Cube \/ Fix \/ Aiv \/ UNCHANGED vars
    <2>1. UNCHANGED <<copyBegun, mte2Round, loadBegun, loaded, l1Loaded, l1Free>>
      BY <1>13 DEF Scalar, StartRound, FinishRound, DrainPersistentEvents,
         Cube, InitL0Events, StartMmad, FinishMmad, DrainCo1, MOnly,
         Fix, StartCommit, FinishCommit, SetReady, ReturnCo1, FixOnly,
         Aiv, TakeReady, ReleaseSlot, vars, copyBegun, loadBegun, loaded
    <2> QED BY <1>10, <2>1
  <1> QED BY <1>11, <1>12, <1>13 DEF Next, Finished

LEMMA NextCo1Tile ==
  ASSUME IInv, [Next]_vars
  PROVE  Co1Tile'
  <1> USE DEF work, scalar, mte2, mte1, m, fix, l1Ev, l0Ev, co1Ev, cross, memory, aiv
  <1>1. /\ K_PARTS \in {2, 4} /\ Part = 0 .. K_PARTS - 1
        /\ TaskCount \in Nat /\ Rounds = 0 .. TaskCount - 1
        /\ \A r : r \in Computed <=> r \in Rounds /\ Valid(r)
        /\ \A r : r \in Turns <=> r \in Computed \/ r = TaskCount
        /\ Computed \subseteq Turns
        /\ Computed' = Computed /\ Turns' = Turns
        /\ ProgressType /\ EventType /\ PcOrder
    BY StepFacts
  <1>2. Tile(Computed, Turns, mulBegun, mRound, commitBegun, fixRound)
    BY Co1Parties
  <1>3. OneTile(Computed, Turns, mulBegun, mRound, commitBegun, fixRound, co1Done, co1Free)
    BY DEF IInv, Co1Tile
  <1>4. CASE (StartMmad /\ mPart = 0) \/ DrainCo1
    <2>1. /\ mulBegun = mRound /\ mulBegun' = mRound + 1
          /\ UNCHANGED <<mRound, commitBegun, fixRound, co1Done>>
          /\ co1Free > 0 /\ co1Free' = co1Free - 1
      BY <1>1, <1>4 DEF StartMmad, TakesCo1, DrainCo1, MOnly, ProgressType, PcOrder,
                        mulBegun, commitBegun
    <2>2. mRound \in Turns
      BY <1>1, <1>4 DEF StartMmad, DrainCo1, ProgressType, PcOrder
    <2>3. mRound \in Computed \/ fixRound <= mRound
      BY <1>1, <2>2 DEF ProgressType
    <2>4. OneTile(Computed, Turns, mRound + 1, mRound, commitBegun, fixRound, co1Done, co1Free - 1)
      BY <1>2, <1>3, <2>1, <2>2, <2>3, BeginFilling
    <2> QED BY <1>1, <2>1, <2>4 DEF Co1Tile
  <1>5. CASE FinishMmad /\ Last(mPart)
    <2>1. /\ mulBegun = mRound + 1 /\ mulBegun' = mRound + 1 /\ mRound' = mRound + 1
          /\ UNCHANGED <<commitBegun, fixRound, co1Free>>
          /\ co1Done' = co1Done + 1
      BY <1>1, <1>5 DEF FinishMmad, MOnly, ProgressType, mulBegun, commitBegun
    <2>2. mRound \in Computed
      BY <1>1, <1>5 DEF FinishMmad, ProgressType, PcOrder
    <2>3. OneTile(Computed, Turns, mRound + 1, mRound + 1, commitBegun, fixRound, co1Done + 1, co1Free)
      BY <1>2, <1>3, <2>1, <2>2, EndFilling
    <2> QED BY <1>1, <2>1, <2>3 DEF Co1Tile
  <1>6. CASE InitL0Events /\ ~Valid(mRound)
    <2>1. /\ mulBegun = mRound /\ mulBegun' = mRound + 1 /\ mRound' = mRound + 1
          /\ UNCHANGED <<commitBegun, fixRound, co1Done, co1Free>>
      BY <1>1, <1>6 DEF InitL0Events, MOnly, ProgressType, PcOrder, mulBegun, commitBegun
    <2>2. mRound \notin Turns
      BY <1>1, <1>6 DEF InitL0Events, ProgressType, PcOrder
    <2>3. OneTile(Computed, Turns, mRound + 1, mRound + 1, commitBegun, fixRound, co1Done, co1Free)
      BY <1>2, <1>3, <2>1, <2>2, PassFilling
    <2> QED BY <1>1, <2>1, <2>3 DEF Co1Tile
  <1>7. CASE StartCommit
    <2>1. /\ commitBegun = fixRound /\ commitBegun' = fixRound + 1
          /\ UNCHANGED <<mulBegun, mRound, fixRound, co1Free>>
          /\ co1Done > 0 /\ co1Done' = co1Done - 1
      BY <1>1, <1>7 DEF StartCommit, FixOnly, ProgressType, mulBegun, commitBegun
    <2>2. fixRound \in Computed
      BY <1>1, <1>7 DEF StartCommit, ProgressType, PcOrder
    <2>3. OneTile(Computed, Turns, mulBegun, mRound, fixRound + 1, fixRound, co1Done - 1, co1Free)
      BY <1>2, <1>3, <2>1, <2>2, BeginUsing
    <2> QED BY <1>1, <2>1, <2>3 DEF Co1Tile
  <1>8. CASE ReturnCo1
    <2>1. /\ commitBegun = fixRound + 1 /\ commitBegun' = fixRound + 1 /\ fixRound' = fixRound + 1
          /\ UNCHANGED <<mulBegun, mRound, co1Done>>
          /\ co1Free' = co1Free + 1
      BY <1>1, <1>8 DEF ReturnCo1, FixOnly, ProgressType, mulBegun, commitBegun
    <2>2. fixRound \in Computed
      BY <1>1, <1>8 DEF ReturnCo1, ProgressType, PcOrder
    <2>3. OneTile(Computed, Turns, mulBegun, mRound, fixRound + 1, fixRound + 1, co1Done, co1Free + 1)
      BY <1>2, <1>3, <2>1, <2>2, EndUsing
    <2> QED BY <1>1, <2>1, <2>3 DEF Co1Tile
  <1>9. CASE SetReady /\ ~Valid(fixRound)
    <2>1. /\ commitBegun = fixRound /\ commitBegun' = fixRound + 1 /\ fixRound' = fixRound + 1
          /\ UNCHANGED <<mulBegun, mRound, co1Done, co1Free>>
      BY <1>1, <1>9 DEF SetReady, FixOnly, ProgressType, mulBegun, commitBegun
    <2>2. fixRound \notin Turns
      BY <1>1, <1>9 DEF SetReady, ProgressType, PcOrder
    <2>3. OneTile(Computed, Turns, mulBegun, mRound, fixRound + 1, fixRound + 1, co1Done, co1Free)
      BY <1>2, <1>3, <2>1, <2>2, PassUsing
    <2> QED BY <1>1, <2>1, <2>3 DEF Co1Tile
  <1>10. CASE UNCHANGED <<mulBegun, mRound, commitBegun, fixRound, co1Done, co1Free>>
    BY <1>1, <1>3, <1>10 DEF Co1Tile
  <1>11. CASE Cube
    <2>1. (InitL0Events /\ Valid(mRound)) \/ (StartMmad /\ mPart # 0)
            \/ (FinishMmad /\ ~Last(mPart))
          => UNCHANGED <<mulBegun, mRound, commitBegun, fixRound, co1Done, co1Free>>
      BY <1>1 DEF InitL0Events, StartMmad, TakesCo1, FinishMmad, MOnly, ProgressType, PcOrder,
                  mulBegun, commitBegun
    <2> QED BY <1>4, <1>5, <1>6, <1>10, <1>11, <2>1 DEF Cube
  <1>12. CASE Fix
    <2>1. FinishCommit \/ (SetReady /\ Valid(fixRound))
          => UNCHANGED <<mulBegun, mRound, commitBegun, fixRound, co1Done, co1Free>>
      BY DEF FinishCommit, SetReady, FixOnly, mulBegun, commitBegun
    <2> QED BY <1>7, <1>8, <1>9, <1>10, <1>12, <2>1 DEF Fix
  <1>13. CASE Scalar \/ Mte2 \/ Mte1 \/ Aiv \/ UNCHANGED vars
    <2>1. UNCHANGED <<mulBegun, mRound, commitBegun, fixRound, co1Done, co1Free>>
      BY <1>13 DEF Scalar, StartRound, FinishRound, DrainPersistentEvents,
         Mte2, StartClearL1, FinishClearL1, StartCopyK, FinishCopyK, PassMte2, DrainL1, Mte2Only,
         Mte1, StartLoadA, FinishLoadA, StartLoadB, FinishLoadB, TaskDrain, DrainL0Events,
         NextMte1Round, Mte1Only, Aiv, TakeReady, ReleaseSlot, vars, mulBegun, commitBegun
    <2> QED BY <1>10, <2>1
  <1> QED BY <1>11, <1>12, <1>13 DEF Next, Finished

\* The workspace slots, as in KktPipeline: a round is issued only when the
\* AIVs have left its slot.
LEMMA NextAivOrder ==
  ASSUME IInv, [Next]_vars
  PROVE  AivOrder'
  <1> USE DEF work, scalar, mte2, mte1, m, fix, l1Ev, l0Ev, co1Ev, cross, memory, aiv
  <1>1. ProgressType /\ PcOrder /\ EventType /\ AivOrder /\ ReadyCount /\ FreeCount
    BY DEF IInv, TypeOK
  <1>2. TaskCount \in Nat
    BY StepFacts
  <1>3. CASE FinishRound
    <2>1. CASE MustWaitFree(issued)
      <3>1. SlotOf(issued) \in Slot /\ SlotOf(issued - 1) # SlotOf(issued)
        BY <1>1, <1>2, SlotAlternates DEF ProgressType
      <3>2. free[SlotOf(issued)] > 0
        BY <1>3, <2>1 DEF FinishRound
      <3>3. issued - 2 < released
        BY <1>1, <1>2, <3>1, <3>2 DEF FreeCount, ProgressType
      <3> QED BY <1>1, <1>2, <1>3, <3>3 DEF FinishRound, AivOrder, announced, ProgressType, SLOT_COUNT
    <2>2. CASE ~MustWaitFree(issued)
      BY <1>1, <1>2, <1>3, <2>2 DEF FinishRound, MustWaitFree, AivOrder, announced, ProgressType, SLOT_COUNT
    <2> QED BY <2>1, <2>2
  <1>4. CASE TakeReady
    <2>1. SlotOf(taken) \in Slot /\ SlotOf(taken + 1) # SlotOf(taken)
      BY <1>1, <1>2, SlotAlternates DEF ProgressType
    <2>2. taken < announced
      BY <1>1, <1>4, <2>1 DEF TakeReady, ReadyCount
    <2> QED BY <1>1, <1>2, <1>4, <2>2 DEF TakeReady, AivOrder, announced, ProgressType, SLOT_COUNT
  <1>5. CASE ReleaseSlot
    BY <1>1, <1>2, <1>5 DEF ReleaseSlot, AivOrder, announced, ProgressType, SLOT_COUNT
  <1>6. CASE Fix
    BY <1>1, <1>2, <1>6 DEF Fix, StartCommit, FinishCommit, SetReady, ReturnCo1, FixOnly,
                            AivOrder, announced, ProgressType, SLOT_COUNT
  <1>7. CASE StartRound \/ DrainPersistentEvents \/ Mte2 \/ Mte1 \/ Cube \/ UNCHANGED vars
    <2>1. UNCHANGED <<released, taken, issued, fixRound, fixPc>>
      BY <1>7 DEF StartRound, DrainPersistentEvents,
         Mte2, StartClearL1, FinishClearL1, StartCopyK, FinishCopyK, PassMte2, DrainL1, Mte2Only,
         Mte1, StartLoadA, FinishLoadA, StartLoadB, FinishLoadB, TaskDrain, DrainL0Events,
         NextMte1Round, Mte1Only, Cube, InitL0Events, StartMmad, FinishMmad, DrainCo1, MOnly, vars
    <2> QED BY <1>1, <2>1 DEF AivOrder, announced
  <1> QED BY <1>3, <1>4, <1>5, <1>6, <1>7 DEF Next, Scalar, Aiv, Finished

LEMMA NextReadyCount ==
  ASSUME IInv, [Next]_vars
  PROVE  ReadyCount'
  <1> USE DEF work, scalar, mte2, mte1, m, fix, l1Ev, l0Ev, co1Ev, cross, memory, aiv
  <1>1. ProgressType /\ PcOrder /\ EventType /\ AivOrder /\ ReadyCount
    BY DEF IInv, TypeOK
  <1>2. TaskCount \in Nat
    BY StepFacts
  <1>3. CASE TakeReady
    <2>1. SlotOf(taken) \in Slot /\ SlotOf(taken + 1) # SlotOf(taken)
      BY <1>1, <1>2, SlotAlternates DEF ProgressType
    <2>2. taken < announced /\ announced <= taken + 2
      BY <1>1, <1>2, <1>3, <2>1 DEF TakeReady, ReadyCount, AivOrder, PcOrder, announced,
                                    ProgressType, SLOT_COUNT
    <2>3. UNCHANGED announced /\ taken' = taken + 1
          /\ ready' = [ready EXCEPT ![SlotOf(taken)] = @ - 1]
      BY <1>3 DEF TakeReady, announced
    <2>4. announced \in Int
      BY <1>1, <1>2 DEF announced, ProgressType
    <2> QED BY <1>1, <1>2, <2>1, <2>2, <2>3, <2>4 DEF ReadyCount, ProgressType, EventType
  <1>4. CASE SetReady
    <2>1. SlotOf(fixRound) \in Slot /\ SlotOf(fixRound - 1) # SlotOf(fixRound)
      BY <1>1, <1>2, SlotAlternates DEF ProgressType
    <2>2. announced = fixRound /\ announced' = fixRound + 1
      BY <1>1, <1>2, <1>4 DEF SetReady, PcOrder, announced, ProgressType
    <2>3. taken <= fixRound /\ fixRound <= taken + 1
      BY <1>1, <1>2, <1>4, <2>2 DEF SetReady, AivOrder, ProgressType, SLOT_COUNT
    <2>4. ready' = [ready EXCEPT ![SlotOf(fixRound)] = @ + 1] /\ UNCHANGED taken
      BY <1>4 DEF SetReady, FixOnly
    <2> QED BY <1>1, <1>2, <2>1, <2>2, <2>3, <2>4 DEF ReadyCount, ProgressType, EventType
  <1>5. CASE UNCHANGED <<ready, taken, announced>>
    BY <1>1, <1>5 DEF ReadyCount
  <1>6. StartCommit \/ FinishCommit \/ ReturnCo1 => UNCHANGED <<ready, taken, announced>>
    BY <1>1, <1>2 DEF StartCommit, FinishCommit, ReturnCo1, FixOnly, announced, ProgressType
  <1>7. Scalar \/ Mte2 \/ Mte1 \/ Cube \/ ReleaseSlot \/ UNCHANGED vars
        => UNCHANGED <<ready, taken, announced>>
    BY DEF Scalar, StartRound, FinishRound, DrainPersistentEvents,
         Mte2, StartClearL1, FinishClearL1, StartCopyK, FinishCopyK, PassMte2, DrainL1, Mte2Only,
         Mte1, StartLoadA, FinishLoadA, StartLoadB, FinishLoadB, TaskDrain, DrainL0Events,
         NextMte1Round, Mte1Only, Cube, InitL0Events, StartMmad, FinishMmad, DrainCo1, MOnly,
         ReleaseSlot, vars, announced
  <1> QED BY <1>3, <1>4, <1>5, <1>6, <1>7 DEF Next, Fix, Aiv, Finished

LEMMA NextFreeCount ==
  ASSUME IInv, [Next]_vars
  PROVE  FreeCount'
  <1> USE DEF work, scalar, mte2, mte1, m, fix, l1Ev, l0Ev, co1Ev, cross, memory, aiv
  <1>1. ProgressType /\ PcOrder /\ EventType /\ AivOrder /\ FreeCount
    BY DEF IInv, TypeOK
  <1>2. TaskCount \in Nat /\ TaskCount' = TaskCount
    BY StepFacts
  <1>3. released <= issued
    BY <1>1, <1>2 DEF AivOrder, PcOrder, announced, ProgressType
  <1>4. CASE FinishRound
    <2>1. /\ SlotOf(issued) \in Slot /\ SlotOf(issued - 1) # SlotOf(issued)
          /\ SlotOf(issued - 2) = SlotOf(issued)
      BY <1>1, <1>2, SlotAlternates DEF ProgressType
    <2>2. issued' = issued + 1 /\ UNCHANGED released
      BY <1>4 DEF FinishRound
    <2>3. CASE MustWaitFree(issued)
      <3>1. free' = [free EXCEPT ![SlotOf(issued)] = @ - 1] /\ free[SlotOf(issued)] > 0
        BY <1>4, <2>3 DEF FinishRound
      <3> QED BY <1>1, <1>2, <1>3, <2>1, <2>2, <3>1 DEF FreeCount, WillReuseSlot, ProgressType, EventType
    <2>4. CASE ~MustWaitFree(issued)
      <3>1. UNCHANGED free /\ issued < 2
        BY <1>1, <1>2, <1>4, <2>4 DEF FinishRound, MustWaitFree, SLOT_COUNT, ProgressType
      <3> QED BY <1>1, <1>2, <1>3, <2>1, <2>2, <3>1 DEF FreeCount, WillReuseSlot, ProgressType, EventType
    <2> QED BY <2>3, <2>4
  <1>5. CASE ReleaseSlot
    <2>1. /\ SlotOf(released) \in Slot /\ SlotOf(released - 1) # SlotOf(released)
          /\ SlotOf(released + 1) # SlotOf(released)
      BY <1>1, <1>2, SlotAlternates DEF ProgressType
    <2>2. issued = released + 1 \/ issued = released + 2
      BY <1>1, <1>2, <1>5 DEF ReleaseSlot, AivOrder, PcOrder, announced, ProgressType, SLOT_COUNT
    <2>3. released' = released + 1 /\ UNCHANGED issued
          /\ free' = IF WillReuseSlot(released) THEN [free EXCEPT ![SlotOf(released)] = @ + 1] ELSE free
      BY <1>5 DEF ReleaseSlot
    <2> QED BY <1>1, <1>2, <2>1, <2>2, <2>3 DEF FreeCount, WillReuseSlot, ProgressType, EventType
  <1>6. CASE UNCHANGED <<free, issued, released>>
    BY <1>1, <1>2, <1>6 DEF FreeCount, WillReuseSlot
  <1>7. StartRound \/ DrainPersistentEvents \/ Mte2 \/ Mte1 \/ Cube \/ Fix \/ TakeReady \/ UNCHANGED vars
        => UNCHANGED <<free, issued, released>>
    BY DEF StartRound, DrainPersistentEvents,
         Mte2, StartClearL1, FinishClearL1, StartCopyK, FinishCopyK, PassMte2, DrainL1, Mte2Only,
         Mte1, StartLoadA, FinishLoadA, StartLoadB, FinishLoadB, TaskDrain, DrainL0Events,
         NextMte1Round, Mte1Only, Cube, InitL0Events, StartMmad, FinishMmad, DrainCo1, MOnly,
         Fix, StartCommit, FinishCommit, SetReady, ReturnCo1, FixOnly, TakeReady, vars
  <1> QED BY <1>4, <1>5, <1>6, <1>7 DEF Next, Scalar, Aiv, Finished

-----------------------------------------------------------------------------
(* The L0 stages *)

\* A product in progress has its parts loaded in the round PIPE_MTE1 is in,
\* and PIPE_M has not left a round that is still being loaded.
LEMMA StageRounds ==
  ASSUME IInv
  PROVE  /\ Loads \in 0 .. K_PARTS /\ Begun \in 0 .. K_PARTS
         /\ mPc = "running" => mRound = mte1Round /\ mPart < Loads
         /\ mPc = "mmad" => mte1Round <= mRound
         /\ mPc = "mmad" /\ stageLoaded > 0 => mRound = mte1Round
         /\ mte1Round \in Computed /\ mte1Pc # "drain" => mRound <= mte1Round
  <1>1. /\ K_PARTS \in {2, 4} /\ Part = 0 .. K_PARTS - 1
        /\ TaskCount \in Nat /\ Rounds = 0 .. TaskCount - 1
        /\ \A r : r \in Computed <=> r \in Rounds /\ Valid(r)
    BY Sizes DEF IInv
  <1>2. ProgressType /\ PcOrder /\ StageOrder
    BY DEF IInv, TypeOK
  <1>3. Loads \in 0 .. K_PARTS
    BY <1>1, <1>2 DEF Loads, ProgressType
  <1>4. Begun \in 0 .. K_PARTS
    BY <1>1, <1>2, <1>3 DEF Begun, ProgressType
  <1>5. mPc \in {"mmad", "running"} => mRound \in Computed
    BY <1>1, <1>2 DEF PcOrder, ProgressType
  <1>6. mPc \in {"mmad", "running"} => mte1Round <= mRound
    BY <1>1, <1>2, <1>5 DEF StageOrder, ProgressType
  <1>7. mPc = "running" => mRound = mte1Round /\ mPart < Loads
    BY <1>1, <1>2, <1>3, <1>6 DEF StageOrder, ProgressType, Begun
  <1>8. mPc = "mmad" /\ stageLoaded > 0 => mRound = mte1Round
    BY <1>1, <1>2, <1>3, <1>6 DEF StageOrder, ProgressType, Begun
  <1>9. mte1Round \in Computed /\ mte1Pc # "drain" => mRound <= mte1Round
    BY <1>1, <1>2 DEF StageOrder, ProgressType, loaded
  <1> QED BY <1>3, <1>4, <1>6, <1>7, <1>8, <1>9

\* PIPE_MTE1 leaves a round it has loaded only behind its last product: the
\* drain token of K256, all the tokens of K128.
LEMMA DrainIsLast ==
  ASSUME IInv, TaskDrain \/ DrainL0Events, mte1Pc = "drain"
  PROVE  mte1Round < mRound
  <1>1. /\ K_PARTS \in {2, 4} /\ Part = 0 .. K_PARTS - 1
        /\ TaskCount \in Nat /\ Rounds = 0 .. TaskCount - 1
        /\ \A r : r \in Computed <=> r \in Rounds /\ Valid(r)
    BY Sizes DEF IInv
  <1>2. ProgressType /\ EventType /\ PcOrder /\ StageTokens
    BY DEF IInv, TypeOK
  <1>3. CASE TaskDrain
    <2>1. Valid(mte1Round) /\ ~PerStage
      BY <1>1, <1>2, <1>3 DEF TaskDrain, PcOrder
    <2>2. l0Drain > 0
      BY <1>3, <2>1 DEF TaskDrain, TakesDrain
    <2> QED BY <1>1, <1>2, <2>1, <2>2 DEF StageTokens, ProgressType
  <1>4. CASE DrainL0Events
    <2> DEFINE p == K_PARTS - 1
    <2>1. PerStage /\ p \in Part /\ aFree[p] > 0
      BY <1>1, <1>4 DEF DrainL0Events
    <2>2. aFree[p] = inits - mte1Round - (IF LoadABegun(p) /\ ~MulDone(p) THEN 1 ELSE 0)
      BY <1>2, <2>1 DEF StageTokens
    <2>3. LoadABegun(p)
      BY DEF LoadABegun
    <2>4. ASSUME mRound <= mte1Round PROVE FALSE
      <3>1. ~MulDone(p)
        BY <1>1, <1>2, <2>4 DEF MulDone, ProgressType
      <3>2. inits <= mRound + 1 /\ inits \in Int
        BY <1>1, <1>2 DEF inits, ProgressType
      <3> QED BY <1>1, <1>2, <2>1, <2>2, <2>3, <2>4, <3>1, <3>2 DEF ProgressType
    <2> QED BY <1>1, <1>2, <2>4 DEF ProgressType
  <1> QED BY <1>3, <1>4

LEMMA NextStageOrder ==
  ASSUME IInv, [Next]_vars
  PROVE  StageOrder'
  <1> USE DEF work, scalar, mte2, mte1, m, fix, l1Ev, l0Ev, co1Ev, cross, memory, aiv
  <1>1. /\ K_PARTS \in {2, 4} /\ Part = 0 .. K_PARTS - 1
        /\ TaskCount \in Nat /\ Rounds = 0 .. TaskCount - 1
        /\ \A r : r \in Computed <=> r \in Rounds /\ Valid(r)
        /\ Computed' = Computed /\ K_PARTS' = K_PARTS
        /\ ProgressType /\ EventType /\ PcOrder
    BY StepFacts
  <1>2. StageOrder
    BY DEF IInv
  <1>3. /\ Loads \in 0 .. K_PARTS /\ Begun \in 0 .. K_PARTS
        /\ mPc = "running" => mRound = mte1Round /\ mPart < Loads
        /\ mPc = "mmad" /\ stageLoaded > 0 => mRound = mte1Round
        /\ mte1Round \in Computed /\ mte1Pc # "drain" => mRound <= mte1Round
    BY StageRounds
  <1>4. CASE FinishLoadB
    <2>1. mte1Round \in Computed /\ mte1Pc = "loadingB"
      BY <1>1, <1>4 DEF FinishLoadB, PcOrder, ProgressType
    <2>2. Loads' = Loads + 1 /\ stageLoaded' = stageLoaded + 1 /\ loaded <= loaded'
      BY <1>1, <1>4, <2>1 DEF FinishLoadB, Last, Loads, ProgressType, loaded
    <2>3. mRound <= mte1Round
      BY <1>3, <2>1
    <2>4. Begun' = Begun
      BY <1>1, <1>4, <2>3 DEF FinishLoadB, Mte1Only, Begun, ProgressType
    <2>5. UNCHANGED <<mte1Round, mRound, mPart, mPc>>
      BY <1>4 DEF FinishLoadB, Mte1Only
    <2>6. loaded \in Int /\ loaded' \in Int
      BY <1>1, <1>4 DEF FinishLoadB, loaded, ProgressType
    <2> QED BY <1>1, <1>2, <1>3, <2>2, <2>4, <2>5, <2>6 DEF StageOrder, ProgressType
  <1>5. CASE TaskDrain \/ DrainL0Events
    <2>1. /\ mte1Round' = mte1Round + 1 /\ mte1Pc' = "A" /\ mte1Part' = mte1Part
          /\ mte1Part = 0 /\ UNCHANGED <<mRound, mPart, mPc, stageLoaded>>
      BY <1>1, <1>5 DEF TaskDrain, DrainL0Events, Loaded, NextMte1Round, Mte1Only, PcOrder,
                        ProgressType
    <2>2. Loads' = 0 /\ loaded' = mte1Round + 1
      BY <2>1 DEF Loads, loaded
    <2>3. stageLoaded = 0
      <3>1. CASE mte1Pc = "drain"
        BY <1>1, <1>2, <1>3, <1>5, <3>1, DrainIsLast DEF StageOrder, Begun, ProgressType
      <3>2. CASE mte1Pc # "drain"
        BY <1>1, <1>2, <1>3, <2>1, <3>2 DEF StageOrder, Loads, EventType
      <3> QED BY <3>1, <3>2
    <2>4. \A r \in Computed : r < mte1Round + 1 => r < mRound
      <3>1. CASE mte1Pc = "drain"
        BY <1>1, <1>5, <3>1, DrainIsLast DEF ProgressType
      <3>2. CASE mte1Pc # "drain"
        <4>1. mte1Round \notin Computed
          BY <1>1, <1>5, <3>2 DEF TaskDrain, DrainL0Events, Loaded
        <4> QED BY <1>1, <1>2, <4>1 DEF StageOrder, ProgressType
      <3> QED BY <3>1, <3>2
    <2>5. mRound > mte1Round => mPart = 0 /\ mPc # "running"
      BY <1>2 DEF StageOrder
    <2>6. Begun' = 0
      BY <1>1, <2>1, <2>2, <2>5 DEF Begun, ProgressType
    <2>7. \A r \in Computed : r < mRound => r < mte1Round + 1
      BY <1>1, <1>2 DEF StageOrder, ProgressType, loaded
    <2>8. mRound > mte1Round + 1 => mPart = 0 /\ mPc # "running"
      BY <1>1, <2>5 DEF ProgressType
    <2> QED BY <1>1, <2>1, <2>2, <2>3, <2>4, <2>6, <2>7, <2>8 DEF StageOrder
  <1>6. CASE InitL0Events
    <2>1. UNCHANGED <<mte1Round, mte1Part, mte1Pc, stageLoaded, mPart>> /\ mPart = 0
          /\ mPc = "init" /\ mPc' # "running"
      BY <1>1, <1>6 DEF InitL0Events, MOnly, PcOrder
    <2>2. Loads' = Loads /\ loaded' = loaded
      BY <1>1, <2>1 DEF Loads, loaded
    <2>3. CASE Valid(mRound)
      <3>1. UNCHANGED mRound
        BY <1>6, <2>3 DEF InitL0Events
      <3>2. Begun' = Begun
        BY <1>1, <2>1, <2>2, <3>1 DEF Begun, ProgressType
      <3> QED BY <1>1, <1>2, <2>1, <2>2, <3>1, <3>2 DEF StageOrder
    <2>4. CASE ~Valid(mRound)
      <3>1. mRound' = mRound + 1 /\ mRound \notin Computed
        BY <1>1, <1>6, <2>4 DEF InitL0Events
      <3>2. mRound = mte1Round => Loads = 0
        BY <1>1, <2>4 DEF Loads, PcOrder, ProgressType
      <3>3. Begun' = Begun
        BY <1>1, <1>3, <2>1, <2>2, <3>1, <3>2 DEF Begun, ProgressType
      <3>4. \A r \in Computed : r < mRound + 1 => r < mRound
        BY <1>1, <3>1 DEF ProgressType
      <3>5. \A r \in Computed : r < mRound => r < mRound + 1
        BY <1>1 DEF ProgressType
      <3> QED BY <1>1, <1>2, <2>1, <2>2, <3>1, <3>3, <3>4, <3>5 DEF StageOrder
    <2> QED BY <2>3, <2>4
  <1>7. CASE StartMmad
    <2>1. mRound = mte1Round /\ mPc = "mmad" /\ stageLoaded > 0
      BY <1>3, <1>7 DEF StartMmad
    <2>2. UNCHANGED <<mte1Round, mte1Part, mte1Pc, mRound, mPart>> /\ mPc' = "running"
          /\ stageLoaded' = stageLoaded - 1
      BY <1>7 DEF StartMmad, MOnly
    <2>3. Loads' = Loads /\ loaded' = loaded
      BY <1>1, <2>2 DEF Loads, loaded
    <2>4. Begun' = Begun + 1
      BY <1>1, <2>1, <2>2 DEF Begun, ProgressType
    <2> QED BY <1>1, <1>2, <1>3, <2>1, <2>2, <2>3, <2>4 DEF StageOrder, ProgressType, EventType
  <1>8. CASE FinishMmad
    <2>1. mRound = mte1Round /\ mPc = "running" /\ mPart < Loads
      BY <1>3, <1>8 DEF FinishMmad
    <2>2. UNCHANGED <<mte1Round, mte1Part, mte1Pc, stageLoaded>>
      BY <1>8 DEF FinishMmad, MOnly
    <2>3. Loads' = Loads /\ loaded' = loaded
      BY <1>1, <2>2 DEF Loads, loaded
    <2>4. CASE ~Last(mPart)
      <3>1. mRound' = mRound /\ mPart' = mPart + 1 /\ mPc' = "mmad"
        BY <1>8, <2>4 DEF FinishMmad
      <3>2. Begun' = Begun
        BY <1>1, <2>1, <2>2, <3>1 DEF Begun, ProgressType
      <3> QED BY <1>1, <1>2, <2>1, <2>2, <2>3, <3>1, <3>2 DEF StageOrder, ProgressType
    <2>5. CASE Last(mPart)
      <3>1. mRound' = mRound + 1 /\ mPart' = 0 /\ mPc' = "init"
        BY <1>8, <2>5 DEF FinishMmad
      <3>2. Loads = K_PARTS
        BY <1>1, <1>3, <2>1, <2>5 DEF Last, ProgressType
      <3>3. mte1Pc = "drain" /\ loaded = mRound + 1
        BY <1>1, <2>1, <3>2 DEF Loads, loaded, ProgressType
      <3>4. Begun = Loads /\ Begun' = Loads
        BY <1>1, <2>1, <2>2, <2>3, <2>5, <3>1, <3>2 DEF Begun, Last, ProgressType
      <3>5. \A r \in Computed : r < mRound + 1 => r < loaded
        BY <1>1, <3>3
      <3>6. \A r \in Computed : r < mte1Round => r < mRound + 1
        BY <1>1, <2>1 DEF ProgressType
      <3> QED BY <1>1, <1>2, <2>2, <2>3, <3>1, <3>4, <3>5, <3>6 DEF StageOrder, ProgressType
    <2> QED BY <2>4, <2>5
  <1>9. CASE UNCHANGED <<mte1Round, mRound, mPart, stageLoaded, Loads, loaded, Begun>>
             /\ (mPc' = "running" => mPc = "running")
    BY <1>1, <1>2, <1>9 DEF StageOrder
  <1>10. StartLoadA \/ FinishLoadA \/ StartLoadB \/ DrainCo1
         => UNCHANGED <<mte1Round, mRound, mPart, stageLoaded, Loads, loaded, Begun>>
            /\ (mPc' = "running" => mPc = "running")
    BY <1>1 DEF StartLoadA, FinishLoadA, StartLoadB, Mte1Only, DrainCo1, MOnly,
                Loads, loaded, Begun, ProgressType
  <1>11. Scalar \/ Mte2 \/ Fix \/ Aiv \/ UNCHANGED vars
         => UNCHANGED <<mte1Round, mRound, mPart, stageLoaded, Loads, loaded, Begun>>
            /\ (mPc' = "running" => mPc = "running")
    BY <1>1 DEF Scalar, StartRound, FinishRound, DrainPersistentEvents,
         Mte2, StartClearL1, FinishClearL1, StartCopyK, FinishCopyK, PassMte2, DrainL1, Mte2Only,
         Fix, StartCommit, FinishCommit, SetReady, ReturnCo1, FixOnly,
         Aiv, TakeReady, ReleaseSlot, vars, Loads, loaded, Begun
  <1> QED BY <1>4, <1>5, <1>6, <1>7, <1>8, <1>9, <1>10, <1>11 DEF Next, Mte1, Cube, Finished

LEMMA NextStageTokens ==
  ASSUME IInv, [Next]_vars
  PROVE  StageTokens'
  <1> USE DEF work, scalar, mte2, mte1, m, fix, l1Ev, l0Ev, co1Ev, cross, memory, aiv
  <1>1. /\ K_PARTS \in {2, 4} /\ Part = 0 .. K_PARTS - 1
        /\ TaskCount \in Nat /\ Rounds = 0 .. TaskCount - 1
        /\ \A r : r \in Computed <=> r \in Rounds /\ Valid(r)
        /\ Computed' = Computed /\ Part' = Part
        /\ PerStage' <=> PerStage
        /\ ProgressType /\ EventType /\ PcOrder
    BY StepFacts
  <1>2. StageTokens /\ StageOrder
    BY DEF IInv
  <1>3. /\ Loads \in 0 .. K_PARTS
        /\ mPc = "running" => mRound = mte1Round /\ mPart < Loads
        /\ mte1Round \in Computed /\ mte1Pc # "drain" => mRound <= mte1Round
    BY StageRounds
  <1>4. inits \in Int
    BY <1>1 DEF inits, ProgressType
  <1>5. CASE StartLoadA \/ StartLoadB
    <2>1. mte1Round \in Computed /\ mte1Pc \in {"A", "B"} /\ mRound <= mte1Round
      BY <1>1, <1>3, <1>5 DEF StartLoadA, StartLoadB, PcOrder, ProgressType
    <2>2. ~MulDone(mte1Part)
      BY <1>1, <1>2, <1>3, <2>1 DEF StageOrder, Begun, Loads, MulDone, ProgressType
    <2>3. UNCHANGED <<mte1Round, mte1Part, mRound, mPart, mPc, l0Drain, issued>>
      BY <1>5 DEF StartLoadA, StartLoadB, Mte1Only
    <2>4. inits' = inits /\ \A p : MulDone(p)' <=> MulDone(p)
      BY <2>3 DEF inits, MulDone
    <2>5. CASE ~PerStage
      <3>1. UNCHANGED <<aFree, bFree>>
        BY <1>5, <2>5 DEF StartLoadA, StartLoadB
      <3> QED BY <1>1, <1>2, <2>3, <2>5, <3>1 DEF StageTokens
    <2>6. CASE PerStage /\ StartLoadA
      <3>1. aFree' = [aFree EXCEPT ![mte1Part] = @ - 1] /\ UNCHANGED bFree
            /\ mte1Pc = "A" /\ mte1Pc' = "loadingA"
        BY <2>6 DEF StartLoadA
      <3>2. \A p \in Part : (LoadABegun(p)' <=> LoadABegun(p) \/ p = mte1Part)
                            /\ (LoadBBegun(p)' <=> LoadBBegun(p))
        BY <2>3, <3>1 DEF LoadABegun, LoadBBegun
      <3>3. ~LoadABegun(mte1Part)
        BY <1>1, <3>1 DEF LoadABegun, ProgressType
      <3>4. \A p \in Part : aFree'[p] = inits - mte1Round
                               - (IF LoadABegun(p)' /\ ~MulDone(p)' THEN 1 ELSE 0)
        <4> TAKE p \in Part
        <4>1. aFree[p] = inits - mte1Round - (IF LoadABegun(p) /\ ~MulDone(p) THEN 1 ELSE 0)
          BY <1>2, <2>6 DEF StageTokens
        <4>2. aFree'[p] = IF p = mte1Part THEN aFree[p] - 1 ELSE aFree[p]
          BY <1>1, <3>1 DEF EventType
        <4>3. inits - mte1Round \in Int
          BY <1>1, <1>4 DEF ProgressType
        <4>4. CASE p = mte1Part
          BY <2>2, <2>4, <3>2, <3>3, <4>1, <4>2, <4>3, <4>4
        <4>5. CASE p # mte1Part
          BY <2>4, <3>2, <4>1, <4>2, <4>5
        <4> QED BY <4>4, <4>5
      <3> QED BY <1>1, <1>2, <2>3, <2>4, <2>6, <3>1, <3>2, <3>4 DEF StageTokens
    <2>7. CASE PerStage /\ StartLoadB
      <3>1. bFree' = [bFree EXCEPT ![mte1Part] = @ - 1] /\ UNCHANGED aFree
            /\ mte1Pc = "B" /\ mte1Pc' = "loadingB"
        BY <2>7 DEF StartLoadB
      <3>2. \A p \in Part : (LoadBBegun(p)' <=> LoadBBegun(p) \/ p = mte1Part)
                            /\ (LoadABegun(p)' <=> LoadABegun(p))
        BY <2>3, <3>1 DEF LoadABegun, LoadBBegun
      <3>3. ~LoadBBegun(mte1Part)
        BY <1>1, <3>1 DEF LoadBBegun, ProgressType
      <3>4. \A p \in Part : bFree'[p] = inits - mte1Round
                               - (IF LoadBBegun(p)' /\ ~MulDone(p)' THEN 1 ELSE 0)
        <4> TAKE p \in Part
        <4>1. bFree[p] = inits - mte1Round - (IF LoadBBegun(p) /\ ~MulDone(p) THEN 1 ELSE 0)
          BY <1>2, <2>7 DEF StageTokens
        <4>2. bFree'[p] = IF p = mte1Part THEN bFree[p] - 1 ELSE bFree[p]
          BY <1>1, <3>1 DEF EventType
        <4>3. inits - mte1Round \in Int
          BY <1>1, <1>4 DEF ProgressType
        <4>4. CASE p = mte1Part
          BY <2>2, <2>4, <3>2, <3>3, <4>1, <4>2, <4>3, <4>4
        <4>5. CASE p # mte1Part
          BY <2>4, <3>2, <4>1, <4>2, <4>5
        <4> QED BY <4>4, <4>5
      <3> QED BY <1>1, <1>2, <2>3, <2>4, <2>7, <3>1, <3>2, <3>4 DEF StageTokens
    <2> QED BY <1>5, <2>5, <2>6, <2>7
  <1>6. CASE FinishLoadA \/ FinishLoadB
    <2>1. UNCHANGED <<mte1Round, mRound, mPart, mPc, aFree, bFree, l0Drain, issued>>
      BY <1>6 DEF FinishLoadA, FinishLoadB, Mte1Only
    <2>2. inits' = inits /\ \A p : MulDone(p)' <=> MulDone(p)
      BY <2>1 DEF inits, MulDone
    <2>3. \A p \in Part : (LoadABegun(p)' <=> LoadABegun(p)) /\ (LoadBBegun(p)' <=> LoadBBegun(p))
      BY <1>1, <1>6 DEF FinishLoadA, FinishLoadB, Last, LoadABegun, LoadBBegun, ProgressType
    <2> QED BY <1>1, <1>2, <2>1, <2>2, <2>3 DEF StageTokens
  <1>7. CASE TaskDrain \/ DrainL0Events
    <2>1. /\ mte1Round' = mte1Round + 1 /\ mte1Pc' = "A" /\ mte1Part' = 0
          /\ mte1Part = 0 /\ UNCHANGED <<mRound, mPart, mPc, issued>>
      BY <1>1, <1>7 DEF TaskDrain, DrainL0Events, Loaded, NextMte1Round, Mte1Only, PcOrder,
                        ProgressType
    <2>2. inits' = inits
      BY <2>1 DEF inits
    <2>3. \A p \in Part : ~LoadABegun(p)' /\ ~LoadBBegun(p)'
      BY <1>1, <2>1 DEF LoadABegun, LoadBBegun
    <2>4. \A p \in Part : (~LoadABegun(p) \/ MulDone(p)) /\ (~LoadBBegun(p) \/ MulDone(p))
      <3>1. CASE mte1Pc = "drain"
        BY <1>7, <3>1, DrainIsLast DEF MulDone
      <3>2. CASE mte1Pc # "drain"
        BY <1>1, <1>7, <2>1, <3>2 DEF TaskDrain, DrainL0Events, Loaded, LoadABegun, LoadBBegun
      <3> QED BY <3>1, <3>2
    <2>5. CASE PerStage
      <3>1. /\ mte1Round < issued /\ UNCHANGED l0Drain
            /\ aFree' = [p \in Part |-> aFree[p] - 1]
            /\ bFree' = [p \in Part |-> bFree[p] - 1]
        BY <1>7, <2>5 DEF TaskDrain, DrainL0Events
      <3>2. inits \in Int /\ mte1Round \in Int
        BY <1>1, <1>4 DEF ProgressType
      <3>3. \A p \in Part : aFree'[p] = inits - (mte1Round + 1) /\ bFree'[p] = inits - (mte1Round + 1)
        BY <1>2, <2>4, <2>5, <3>1, <3>2 DEF StageTokens
      <3>4. mte1Round' <= issued' /\ l0Drain' = 0
        BY <1>1, <1>2, <2>1, <2>5, <3>1 DEF StageTokens, ProgressType
      <3>5. \A p \in Part :
              /\ aFree'[p] = inits' - mte1Round' - (IF LoadABegun(p)' /\ ~MulDone(p)' THEN 1 ELSE 0)
              /\ bFree'[p] = inits' - mte1Round' - (IF LoadBBegun(p)' /\ ~MulDone(p)' THEN 1 ELSE 0)
        BY <2>1, <2>2, <2>3, <3>2, <3>3
      <3> QED BY <1>1, <2>5, <3>4, <3>5 DEF StageTokens
    <2>6. CASE ~PerStage
      <3>1. /\ UNCHANGED <<aFree, bFree>> /\ mte1Round < started
            /\ l0Drain' = IF Valid(mte1Round) THEN l0Drain - 1 ELSE l0Drain
            /\ Valid(mte1Round) => l0Drain > 0
            /\ mte1Pc = "drain" \/ ~Valid(mte1Round)
        BY <1>7, <2>6 DEF TaskDrain, DrainL0Events, TakesDrain, Loaded
      <3>2. mte1Round \in Computed <=> Valid(mte1Round)
        BY <1>1, <3>1 DEF ProgressType
      <3>3. ~(mte1Round + 1 \in Computed /\ mRound > mte1Round + 1)
        BY <1>1, <1>2 DEF StageOrder, loaded, ProgressType
      <3>4. l0Drain' = 0
        BY <1>2, <2>6, <3>1, <3>2 DEF StageTokens
      <3> QED BY <1>1, <1>2, <2>1, <2>6, <3>1, <3>3, <3>4 DEF StageTokens
    <2> QED BY <2>5, <2>6
  <1>8. CASE InitL0Events
    <2>1. /\ UNCHANGED <<mte1Round, mte1Part, mte1Pc, mPart, l0Drain, issued>>
          /\ mPart = 0 /\ mPc = "init" /\ mRound < started
          /\ IF Valid(mRound) THEN mPc' = "mmad" /\ mRound' = mRound
                              ELSE mPc' = "init" /\ mRound' = mRound + 1
      BY <1>1, <1>8 DEF InitL0Events, MOnly, PcOrder
    <2>2. inits' = inits + 1
      BY <1>1, <2>1 DEF inits, ProgressType
    <2>3. \A p \in Part : (LoadABegun(p)' <=> LoadABegun(p)) /\ (LoadBBegun(p)' <=> LoadBBegun(p))
      BY <2>1 DEF LoadABegun, LoadBBegun
    <2>4. \A p \in Part : LoadABegun(p) \/ LoadBBegun(p) => (MulDone(p)' <=> MulDone(p))
      <3>1. CASE mRound # mte1Round \/ Valid(mRound)
        BY <1>1, <2>1, <3>1 DEF MulDone, ProgressType
      <3>2. CASE mRound = mte1Round /\ ~Valid(mRound)
        <4>1. mte1Pc = "A" /\ mte1Part = 0
          BY <1>1, <3>2 DEF PcOrder, ProgressType
        <4> QED BY <1>1, <4>1 DEF LoadABegun, LoadBBegun
      <3> QED BY <3>1, <3>2
    <2>5. CASE PerStage
      <3>1. /\ aFree' = [p \in Part |-> aFree[p] + 1]
            /\ bFree' = [p \in Part |-> bFree[p] + 1]
        BY <1>8, <2>5 DEF InitL0Events
      <3>2. inits \in Int /\ mte1Round \in Int
        BY <1>1, <1>4 DEF ProgressType
      <3>3. \A p \in Part :
              /\ aFree'[p] = inits' - mte1Round' - (IF LoadABegun(p)' /\ ~MulDone(p)' THEN 1 ELSE 0)
              /\ bFree'[p] = inits' - mte1Round' - (IF LoadBBegun(p)' /\ ~MulDone(p)' THEN 1 ELSE 0)
        <4> TAKE p \in Part
        <4>1. /\ aFree[p] = inits - mte1Round - (IF LoadABegun(p) /\ ~MulDone(p) THEN 1 ELSE 0)
              /\ bFree[p] = inits - mte1Round - (IF LoadBBegun(p) /\ ~MulDone(p) THEN 1 ELSE 0)
          BY <1>2, <2>5 DEF StageTokens
        <4>2. aFree'[p] = aFree[p] + 1 /\ bFree'[p] = bFree[p] + 1
          BY <3>1
        <4>3. /\ LoadABegun(p)' /\ ~MulDone(p)' <=> LoadABegun(p) /\ ~MulDone(p)
              /\ LoadBBegun(p)' /\ ~MulDone(p)' <=> LoadBBegun(p) /\ ~MulDone(p)
          BY <2>3, <2>4
        <4> QED BY <2>1, <2>2, <3>2, <4>1, <4>2, <4>3
      <3>4. mte1Round' <= issued' /\ l0Drain' = 0
        BY <1>2, <2>1, <2>5 DEF StageTokens
      <3> QED BY <1>1, <2>5, <3>3, <3>4 DEF StageTokens
    <2>6. CASE ~PerStage
      <3>1. UNCHANGED <<aFree, bFree>>
        BY <1>8, <2>6 DEF InitL0Events
      <3>2. mte1Round \in Computed => (mRound' > mte1Round <=> mRound > mte1Round)
        BY <1>1, <2>1 DEF ProgressType
      <3> QED BY <1>1, <1>2, <2>1, <2>6, <3>1, <3>2 DEF StageTokens
    <2> QED BY <2>5, <2>6
  <1>9. CASE FinishMmad
    <2>1. /\ mRound = mte1Round /\ mPc = "running" /\ mPart < Loads
          /\ UNCHANGED <<mte1Round, mte1Part, mte1Pc, issued>>
      BY <1>3, <1>9 DEF FinishMmad, MOnly
    <2>2. /\ Last(mPart) => mRound' = mRound + 1 /\ mPart' = 0 /\ mPc' = "init"
          /\ ~Last(mPart) => mRound' = mRound /\ mPart' = mPart + 1 /\ mPc' = "mmad"
      BY <1>9 DEF FinishMmad
    <2>3. inits' = inits
      BY <1>1, <2>1, <2>2 DEF inits, ProgressType
    <2>4. \A p \in Part : (LoadABegun(p)' <=> LoadABegun(p)) /\ (LoadBBegun(p)' <=> LoadBBegun(p))
      BY <2>1 DEF LoadABegun, LoadBBegun
    <2>5. LoadABegun(mPart) /\ LoadBBegun(mPart) /\ ~MulDone(mPart)
      BY <1>1, <2>1 DEF Loads, LoadABegun, LoadBBegun, MulDone, ProgressType
    <2>6. \A p \in Part : MulDone(p)' <=> MulDone(p) \/ p = mPart
      BY <1>1, <2>1, <2>2 DEF Last, MulDone, ProgressType
    <2>7. CASE PerStage
      <3>1. /\ aFree' = [aFree EXCEPT ![mPart] = @ + 1]
            /\ bFree' = [bFree EXCEPT ![mPart] = @ + 1] /\ UNCHANGED l0Drain
        BY <1>9, <2>7 DEF FinishMmad
      <3>2. inits \in Int /\ mte1Round \in Int
        BY <1>1, <1>4 DEF ProgressType
      <3>3. \A p \in Part :
              /\ aFree'[p] = inits' - mte1Round' - (IF LoadABegun(p)' /\ ~MulDone(p)' THEN 1 ELSE 0)
              /\ bFree'[p] = inits' - mte1Round' - (IF LoadBBegun(p)' /\ ~MulDone(p)' THEN 1 ELSE 0)
        <4> TAKE p \in Part
        <4>1. /\ aFree[p] = inits - mte1Round - (IF LoadABegun(p) /\ ~MulDone(p) THEN 1 ELSE 0)
              /\ bFree[p] = inits - mte1Round - (IF LoadBBegun(p) /\ ~MulDone(p) THEN 1 ELSE 0)
          BY <1>2, <2>7 DEF StageTokens
        <4>2. CASE p = mPart
          <5>1. aFree'[p] = aFree[p] + 1 /\ bFree'[p] = bFree[p] + 1
            BY <1>1, <3>1, <4>2 DEF EventType
          <5> QED BY <2>1, <2>3, <2>4, <2>5, <2>6, <3>2, <4>1, <4>2, <5>1
        <4>3. CASE p # mPart
          <5>1. aFree'[p] = aFree[p] /\ bFree'[p] = bFree[p]
            BY <1>1, <3>1, <4>3 DEF EventType
          <5>2. MulDone(p)' <=> MulDone(p)
            BY <2>6, <4>3
          <5> QED BY <2>1, <2>3, <2>4, <4>1, <5>1, <5>2
        <4> QED BY <4>2, <4>3
      <3>4. mte1Round' <= issued' /\ l0Drain' = 0
        BY <1>2, <2>1, <2>7, <3>1 DEF StageTokens
      <3> QED BY <1>1, <2>7, <3>3, <3>4 DEF StageTokens
    <2>8. CASE ~PerStage
      <3>1. UNCHANGED <<aFree, bFree>>
            /\ l0Drain' = IF Last(mPart) THEN l0Drain + 1 ELSE l0Drain
        BY <1>9, <2>8 DEF FinishMmad
      <3>2. mte1Round \in Computed
        BY <1>1, <2>1 DEF PcOrder, ProgressType
      <3> QED BY <1>1, <1>2, <2>1, <2>2, <2>8, <3>1, <3>2 DEF StageTokens, ProgressType
    <2> QED BY <2>7, <2>8
  <1>10. CASE UNCHANGED <<mte1, mRound, mPart, inits, aFree, bFree, l0Drain>> /\ issued <= issued'
    <2>1. \A p : /\ LoadABegun(p)' <=> LoadABegun(p)
                 /\ LoadBBegun(p)' <=> LoadBBegun(p)
                 /\ MulDone(p)' <=> MulDone(p)
      BY <1>10 DEF LoadABegun, LoadBBegun, MulDone
    <2>2. issued \in Int /\ issued' \in Int /\ mte1Round \in Int
      BY StepFacts DEF ProgressType
    <2> QED BY <1>1, <1>2, <1>10, <2>1, <2>2 DEF StageTokens
  <1>11. StartMmad \/ DrainCo1
         => UNCHANGED <<mte1, mRound, mPart, inits, aFree, bFree, l0Drain>> /\ issued <= issued'
    BY <1>1 DEF StartMmad, DrainCo1, MOnly, inits, ProgressType
  <1>12. Scalar \/ Mte2 \/ Fix \/ Aiv \/ UNCHANGED vars
         => UNCHANGED <<mte1, mRound, mPart, inits, aFree, bFree, l0Drain>> /\ issued <= issued'
    BY <1>1 DEF Scalar, StartRound, FinishRound, DrainPersistentEvents,
         Mte2, StartClearL1, FinishClearL1, StartCopyK, FinishCopyK, PassMte2, DrainL1, Mte2Only,
         Fix, StartCommit, FinishCommit, SetReady, ReturnCo1, FixOnly,
         Aiv, TakeReady, ReleaseSlot, vars, inits, ProgressType
  <1> QED BY <1>5, <1>6, <1>7, <1>8, <1>9, <1>10, <1>11, <1>12 DEF Next, Mte1, Cube, Finished

-----------------------------------------------------------------------------
(* Types *)

\* No wait takes a signal that is not there.
LEMMA NextEventType ==
  ASSUME IInv, [Next]_vars
  PROVE  EventType'
  <1> USE DEF work, scalar, mte2, mte1, m, fix, l1Ev, l0Ev, co1Ev, cross, memory, aiv
  <1>1. Part' = Part /\ ProgressType /\ EventType
    BY StepFacts
  <1>s. /\ SlotOf(issued) \in Slot /\ SlotOf(fixRound) \in Slot
        /\ SlotOf(taken) \in Slot /\ SlotOf(released) \in Slot
    <2>1. TaskCount \in Nat
      BY StepFacts
    <2> QED BY <1>1, <2>1, SlotAlternates DEF ProgressType
  <1>2. CASE UNCHANGED <<l1Ev, l0Ev, co1Ev, cross>>
    BY <1>1, <1>2 DEF EventType
  <1>3. CASE FinishRound
    BY <1>1, <1>s, <1>3 DEF EventType, FinishRound
  <1>4. CASE StartClearL1
    BY <1>1, <1>4 DEF EventType, ProgressType, StartClearL1, TakeL1, Mte2Only
  <1>5. CASE StartCopyK
    BY <1>1, <1>5 DEF EventType, ProgressType, StartCopyK, TakeL1, Mte2Only
  <1>6. CASE FinishCopyK
    BY <1>1, <1>6 DEF EventType, ProgressType, FinishCopyK, Mte2Only
  <1>7. CASE DrainL1
    BY <1>1, <1>7 DEF EventType, ProgressType, DrainL1, TakeL1, Mte2Only
  <1>8. CASE StartLoadA
    BY <1>1, <1>8 DEF EventType, ProgressType, StartLoadA, Mte1Only
  <1>9. CASE StartLoadB
    BY <1>1, <1>9 DEF EventType, ProgressType, StartLoadB, Mte1Only
  <1>10. CASE FinishLoadB
    BY <1>1, <1>10 DEF EventType, ProgressType, FinishLoadB, Last, Mte1Only
  <1>11. CASE TaskDrain
    BY <1>1, <1>11 DEF EventType, ProgressType, TaskDrain, Loaded, NextMte1Round, Mte1Only, TakesDrain
  <1>12. CASE DrainL0Events
    BY <1>1, <1>12 DEF EventType, ProgressType, DrainL0Events, Loaded, NextMte1Round, Mte1Only
  <1>13. CASE InitL0Events
    BY <1>1, <1>13 DEF EventType, ProgressType, InitL0Events, MOnly
  <1>14. CASE StartMmad
    BY <1>1, <1>14 DEF EventType, ProgressType, StartMmad, MOnly, TakesCo1
  <1>15. CASE FinishMmad
    BY <1>1, <1>15 DEF EventType, ProgressType, FinishMmad, Last, MOnly
  <1>16. CASE DrainCo1
    BY <1>1, <1>16 DEF EventType, ProgressType, DrainCo1, MOnly
  <1>17. CASE StartCommit
    BY <1>1, <1>17 DEF EventType, ProgressType, StartCommit, FixOnly
  <1>18. CASE SetReady
    BY <1>1, <1>s, <1>18 DEF EventType, SetReady, FixOnly
  <1>19. CASE ReturnCo1
    BY <1>1, <1>19 DEF EventType, ProgressType, ReturnCo1, FixOnly
  <1>20. CASE TakeReady
    BY <1>1, <1>s, <1>20 DEF EventType, TakeReady
  <1>21. CASE ReleaseSlot
    BY <1>1, <1>s, <1>21 DEF EventType, ReleaseSlot
  <1>22. StartRound \/ DrainPersistentEvents \/ FinishClearL1 \/ PassMte2
       \/ FinishLoadA \/ FinishCommit \/ UNCHANGED vars
       => UNCHANGED <<l1Ev, l0Ev, co1Ev, cross>>
    BY DEF StartRound, DrainPersistentEvents, FinishClearL1, Mte2Only, PassMte2, Mte2Only, FinishLoadA, Mte1Only, FinishCommit, FixOnly, vars
  <1> QED BY <1>2, <1>3, <1>4, <1>5, <1>6, <1>7, <1>8, <1>9, <1>10, <1>11, <1>12, <1>13, <1>14, <1>15, <1>16, <1>17, <1>18, <1>19, <1>20, <1>21, <1>22
          DEF Next, Scalar, Mte2, Mte1, Cube, Fix, Aiv, Finished

LEMMA NextMemoryType ==
  ASSUME IInv, [Next]_vars
  PROVE  MemoryType'
  <1> USE DEF work, scalar, mte2, mte1, m, fix, l1Ev, l0Ev, co1Ev, cross, memory, aiv
  <1>1. /\ TaskCount \in Nat /\ Rounds = 0 .. TaskCount - 1
        /\ Part' = Part /\ Rounds' = Rounds
        /\ ProgressType /\ MemoryType /\ PcOrder
    BY StepFacts
  <1>2. Products' = Products
    BY <1>1 DEF Products
  <1>3. CASE UNCHANGED memory
    BY <1>1, <1>2, <1>3 DEF MemoryType
  <1>4. CASE FinishClearL1
    BY <1>1, <1>2, <1>4 DEF MemoryType, FinishClearL1, Mte2Only
  <1>5. CASE FinishCopyK
    <2>1. mte2Round \in Rounds
      BY <1>1, <1>5 DEF FinishCopyK, PcOrder, ProgressType
    <2>2. l1' \in SUBSET Rounds
      BY <1>1, <1>5, <2>1 DEF MemoryType, FinishCopyK
    <2> QED BY <1>1, <1>2, <1>5, <2>2 DEF MemoryType, FinishCopyK, Mte2Only
  <1>6. CASE FinishLoadA
    BY <1>1, <1>2, <1>6 DEF MemoryType, ProgressType, FinishLoadA, Mte1Only
  <1>7. CASE FinishLoadB
    BY <1>1, <1>2, <1>7 DEF MemoryType, ProgressType, FinishLoadB, Mte1Only
  <1>8. CASE FinishMmad
    <2>1. <<mPart, l0a[mPart], l0b[mPart]>> \in Products
      BY <1>1 DEF MemoryType, ProgressType, Products
    <2>2. co1' \in SUBSET Products
      BY <1>1, <1>8, <2>1 DEF MemoryType, FinishMmad
    <2> QED BY <1>1, <1>2, <1>8, <2>2 DEF MemoryType, FinishMmad, MOnly
  <1>9. CASE FinishCommit
    BY <1>1, <1>2, <1>9 DEF MemoryType, FinishCommit, FixOnly
  <1>10. Scalar \/ StartClearL1 \/ StartCopyK \/ PassMte2 \/ DrainL1
           \/ StartLoadA \/ StartLoadB \/ TaskDrain \/ DrainL0Events
           \/ InitL0Events \/ StartMmad \/ DrainCo1
           \/ StartCommit \/ SetReady \/ ReturnCo1 \/ Aiv \/ UNCHANGED vars
         => UNCHANGED memory
    BY DEF Scalar, StartRound, FinishRound, DrainPersistentEvents,
         StartClearL1, StartCopyK, PassMte2, DrainL1, Mte2Only,
         StartLoadA, StartLoadB, TaskDrain, DrainL0Events, NextMte1Round, Mte1Only,
         InitL0Events, StartMmad, DrainCo1, MOnly, StartCommit, SetReady, ReturnCo1, FixOnly,
         Aiv, TakeReady, ReleaseSlot, vars
  <1> QED BY <1>3, <1>4, <1>5, <1>6, <1>7, <1>8, <1>9, <1>10
          DEF Next, Mte2, Mte1, Cube, Fix, Finished

-----------------------------------------------------------------------------
(* Contents *)

\* What PIPE_MTE2 overwrites has been loaded, and what PIPE_MTE1 loads is
\* there: the tile between two copies holds the rows of one round.
LEMMA NextL1Content ==
  ASSUME IInv, [Next]_vars
  PROVE  L1Content'
  <1> USE DEF work, scalar, mte2, mte1, m, fix, l1Ev, l0Ev, co1Ev, cross, memory, aiv
  <1>1. /\ TaskCount \in Nat /\ Rounds = 0 .. TaskCount - 1
        /\ \A r : r \in Computed <=> r \in Rounds /\ Valid(r)
        /\ Computed' = Computed
        /\ ProgressType /\ PcOrder
    BY StepFacts
  <1>2. L1Content
    BY DEF IInv, Contents
  <1>3. UNCHANGED work
    BY WorkUnchanged
  <1>4. \A r : NeedsClear(r)' <=> NeedsClear(r)
    BY <1>3, WorkIsFixed
  <1>5. \A r \in Computed : r \in Int
    BY <1>1
  <1>6. mte2Pc \in {"clearing", "copying"} =>
          mte2Round \in Computed /\ ~\E r \in Computed : loaded <= r /\ r < mte2Round
    <2>1. CASE mte2Pc \in {"clearing", "copying"}
      <3>1. mte2Round \in Computed /\ mte2Round < copyBegun
        BY <1>1, <2>1 DEF ProgressType, PcOrder, copyBegun
      <3>2. mte2Round \in Turns
        BY <3>1 DEF Turns
      <3>3. \A q \in Computed : q < mte2Round => q < loaded
        BY <3>1, <3>2 DEF IInv, L1Tile, OneTile
      <3> QED BY <1>1, <1>5, <3>1, <3>3 DEF ProgressType, loaded
    <2> QED BY <2>1
  <1>7. CASE FinishClearL1
    BY <1>1, <1>2, <1>6, <1>7 DEF FinishClearL1, Mte2Only, L1Content, loaded
  <1>8. CASE FinishCopyK
    <2>1. l1' = {mte2Round}
      <3>1. LenOf(mte2Round) \in Int /\ LenOf(mte2Round) <= BT
        BY <1>6, <1>8, Sizes DEF FinishCopyK, IInv
      <3>2. LenOf(mte2Round) # BT => l1 = {}
        BY <1>2, <1>8, <3>1 DEF FinishCopyK, L1Content, NeedsClear, BT
      <3> QED BY <1>8, <3>2 DEF FinishCopyK
    <2>2. mte2Pc' = "idle" /\ mte2Round' = mte2Round + 1 /\ UNCHANGED loaded
      BY <1>8 DEF FinishCopyK, Mte2Only, loaded
    <2>3. \A r \in Computed : loaded <= r /\ r < mte2Round + 1 => r = mte2Round
      BY <1>1, <1>5, <1>6, <1>8 DEF FinishCopyK, ProgressType
    <2> QED BY <1>1, <2>1, <2>2, <2>3 DEF L1Content
  <1>9. CASE StartClearL1 \/ StartCopyK \/ DrainL1
    <2>1. UNCHANGED <<mte2Round, l1, loaded>>
      BY <1>9 DEF StartClearL1, StartCopyK, DrainL1, Mte2Only, loaded
    <2>2. /\ mte2Pc' # "cleared"
          /\ mte2Pc' = "copying" => mte2Pc = "cleared" \/ ~NeedsClear(mte2Round)
      BY <1>9 DEF StartClearL1, StartCopyK, DrainL1
    <2> QED BY <1>1, <1>2, <1>4, <2>1, <2>2 DEF L1Content
  <1>10. CASE PassMte2
    <2>1. mte2Round' = mte2Round + 1 /\ mte2Pc' = "idle" /\ UNCHANGED <<l1, loaded>>
          /\ mte2Round \notin Computed
      BY <1>1, <1>10 DEF PassMte2, Mte2Only, loaded
    <2>2. \A r \in Computed : r < mte2Round + 1 => r < mte2Round
      BY <1>1, <1>5, <2>1 DEF ProgressType
    <2> QED BY <1>1, <1>2, <2>1, <2>2 DEF L1Content
  <1>11. CASE UNCHANGED <<mte2Round, mte2Pc, l1>> /\ loaded <= loaded'
              /\ loaded \in Int /\ loaded' \in Int
    BY <1>1, <1>2, <1>4, <1>5, <1>11 DEF L1Content
  <1>12. Mte1 => UNCHANGED <<mte2Round, mte2Pc, l1>> /\ loaded <= loaded'
                 /\ loaded \in Int /\ loaded' \in Int
    BY <1>1 DEF Mte1, StartLoadA, FinishLoadA, StartLoadB, FinishLoadB, TaskDrain, DrainL0Events,
                Loaded, NextMte1Round, Mte1Only, loaded, ProgressType
  <1>13. Scalar \/ Cube \/ Fix \/ Aiv \/ UNCHANGED vars
         => UNCHANGED <<mte2Round, mte2Pc, l1>> /\ loaded <= loaded'
            /\ loaded \in Int /\ loaded' \in Int
    BY <1>1 DEF Scalar, StartRound, FinishRound, DrainPersistentEvents,
         Cube, InitL0Events, StartMmad, FinishMmad, DrainCo1, MOnly,
         Fix, StartCommit, FinishCommit, SetReady, ReturnCo1, FixOnly,
         Aiv, TakeReady, ReleaseSlot, vars, loaded, ProgressType
  <1> QED BY <1>7, <1>8, <1>9, <1>10, <1>11, <1>12, <1>13 DEF Next, Mte2, Finished

LEMMA NextL0Content ==
  ASSUME IInv, [Next]_vars
  PROVE  L0Content'
  <1> USE DEF work, scalar, mte2, mte1, m, fix, l1Ev, l0Ev, co1Ev, cross, memory, aiv
  <1>1. /\ K_PARTS \in {2, 4} /\ Part = 0 .. K_PARTS - 1
        /\ TaskCount \in Nat /\ Rounds = 0 .. TaskCount - 1
        /\ \A r : r \in Computed <=> r \in Rounds /\ Valid(r)
        /\ Part' = Part
        /\ ProgressType /\ MemoryType /\ PcOrder
    BY StepFacts
  <1>2. L0Content
    BY DEF IInv, Contents
  <1>3. mte1Pc \in {"loadingA", "loadingB"} => l1 = {mte1Round}
    <2>1. CASE mte1Pc \in {"loadingA", "loadingB"}
      <3>1. mte1Round \in Computed /\ mte1Round < loadBegun /\ loaded = mte1Round
        BY <1>1, <2>1 DEF ProgressType, PcOrder, loadBegun, loaded
      <3>2. mte1Round < mte2Round
        BY <3>1 DEF IInv, L1Tile, OneTile
      <3> QED BY <1>1, <3>1, <3>2 DEF IInv, Contents, L1Content, ProgressType
    <2> QED BY <2>1
  <1>4. CASE FinishLoadA
    BY <1>1, <1>2, <1>3, <1>4 DEF FinishLoadA, Mte1Only, L0Content, LoadADone, LoadBDone,
                                  ProgressType, MemoryType
  <1>5. CASE FinishLoadB
    <2>1. mte1Pc = "loadingB" /\ l0b' = [l0b EXCEPT ![mte1Part] = {mte1Round}]
          /\ UNCHANGED <<l0a, mte1Round>>
      BY <1>3, <1>5 DEF FinishLoadB, Mte1Only
    <2>2. \A p \in Part : LoadADone(p)' => LoadADone(p)
      BY <1>1, <1>5, <2>1 DEF FinishLoadB, Last, LoadADone, ProgressType
    <2>3. \A p \in Part : LoadBDone(p)' => LoadBDone(p) \/ p = mte1Part
      BY <1>1, <1>5, <2>1 DEF FinishLoadB, Last, LoadBDone, ProgressType
    <2> QED BY <1>1, <1>2, <2>1, <2>2, <2>3 DEF L0Content, MemoryType
  <1>6. CASE TaskDrain \/ DrainL0Events
    BY <1>1, <1>6 DEF TaskDrain, DrainL0Events, Loaded, NextMte1Round, L0Content,
                      LoadADone, LoadBDone, PcOrder, ProgressType
  <1>7. CASE UNCHANGED <<mte1Round, l0a, l0b>>
             /\ \A p \in Part : (LoadADone(p)' => LoadADone(p)) /\ (LoadBDone(p)' => LoadBDone(p))
    BY <1>1, <1>2, <1>7 DEF L0Content
  <1>8. StartLoadA \/ StartLoadB \/ Scalar \/ Mte2 \/ Cube \/ Fix \/ Aiv \/ UNCHANGED vars
        => UNCHANGED <<mte1Round, l0a, l0b>>
           /\ \A p \in Part : (LoadADone(p)' => LoadADone(p)) /\ (LoadBDone(p)' => LoadBDone(p))
    BY DEF StartLoadA, StartLoadB, Mte1Only, Scalar, StartRound, FinishRound, DrainPersistentEvents,
         Mte2, StartClearL1, FinishClearL1, StartCopyK, FinishCopyK, PassMte2, DrainL1, Mte2Only,
         Cube, InitL0Events, StartMmad, FinishMmad, DrainCo1, MOnly,
         Fix, StartCommit, FinishCommit, SetReady, ReturnCo1, FixOnly,
         Aiv, TakeReady, ReleaseSlot, vars, LoadADone, LoadBDone
  <1> QED BY <1>4, <1>5, <1>6, <1>7, <1>8 DEF Next, Mte1, Finished

\* One part more of a product; all the parts are the Gram.
LEMMA MorePartial ==
  ASSUME NEW r, NEW n \in Nat
  PROVE  Partial(r, n + 1) = Partial(r, n) \cup {<<n, {r}, {r}>>}
  <1>1. 0 .. (n + 1) - 1 = (0 .. n - 1) \cup {n}
    OBVIOUS
  <1> QED BY <1>1 DEF Partial

LEMMA NextCo1Content ==
  ASSUME IInv, [Next]_vars
  PROVE  Co1Content'
  <1> USE DEF work, scalar, mte2, mte1, m, fix, l1Ev, l0Ev, co1Ev, cross, memory, aiv
  <1>1. /\ K_PARTS \in {2, 4} /\ Part = 0 .. K_PARTS - 1
        /\ TaskCount \in Nat /\ Rounds = 0 .. TaskCount - 1
        /\ \A r : r \in Computed <=> r \in Rounds /\ Valid(r)
        /\ Computed' = Computed
        /\ ProgressType /\ PcOrder
    BY StepFacts
  <1>2. Co1Content /\ L0Content
    BY DEF IInv, Contents
  <1>3. UNCHANGED work
    BY WorkUnchanged
  <1>4. \A r : Gram(r)' = Gram(r)
    BY <1>3, WorkIsFixed
  <1>5. \A r \in Computed : r \in Int
    BY <1>1
  <1>6. CASE FinishMmad
    <2>1. /\ mRound = mte1Round /\ mPart < Loads /\ mPc = "running"
      BY <1>6, StageRounds DEF FinishMmad
    <2>2. l0a[mPart] = {mRound} /\ l0b[mPart] = {mRound}
      BY <1>1, <1>2, <2>1 DEF L0Content, LoadADone, LoadBDone, Loads, ProgressType
    <2>3. co1' = Partial(mRound, mPart + 1)
      <3>1. CASE mPart = 0
        <4>1. Partial(mRound, 0) = {}
          BY DEF Partial
        <4>2. co1' = {<<0, {mRound}, {mRound}>>}
          BY <1>6, <2>2, <3>1 DEF FinishMmad, Initialises
        <4> QED BY <3>1, <4>1, <4>2, MorePartial
      <3>2. CASE mPart > 0
        <4>1. co1' = co1 \cup {<<mPart, {mRound}, {mRound}>>}
          BY <1>1, <1>6, <2>2, <3>2 DEF FinishMmad, Initialises, ProgressType
        <4>2. co1 = Partial(mRound, mPart)
          BY <1>2, <3>2 DEF Co1Content
        <4>3. mPart \in Nat
          BY <1>1 DEF ProgressType
        <4> QED BY <4>1, <4>2, <4>3, MorePartial
      <3> QED BY <1>1, <3>1, <3>2 DEF ProgressType
    <2>4. ~\E r \in Computed : fixRound <= r /\ r < mRound
      <3>1. mRound < mulBegun
        BY <1>1, <2>1 DEF mulBegun, ProgressType
      <3>2. mRound \in Turns
        BY <1>1, <2>1 DEF PcOrder, ProgressType, Turns
      <3>3. \A q \in Computed : q < mRound => q < fixRound
        BY <3>1, <3>2 DEF IInv, Co1Tile, OneTile
      <3> QED BY <1>1, <1>5, <3>3 DEF ProgressType
    <2>5. UNCHANGED fixRound
      BY <1>6 DEF FinishMmad, MOnly
    <2>6. CASE ~Last(mPart)
      <3>1. mRound' = mRound /\ mPart' = mPart + 1
        BY <1>6, <2>6 DEF FinishMmad
      <3> QED BY <1>1, <2>3, <2>4, <2>5, <3>1 DEF Co1Content
    <2>7. CASE Last(mPart)
      <3>1. mRound' = mRound + 1 /\ mPart' = 0
        BY <1>6, <2>7 DEF FinishMmad
      <3>2. co1' = Gram(mRound)
        BY <1>1, <2>3, <2>7 DEF Last, Partial, Gram
      <3>3. \A r \in Computed : fixRound <= r /\ r < mRound + 1 => r = mRound
        BY <1>1, <1>5, <2>4 DEF ProgressType
      <3> QED BY <1>1, <1>4, <2>5, <3>1, <3>2, <3>3 DEF Co1Content
    <2> QED BY <2>6, <2>7
  <1>7. CASE InitL0Events
    <2>1. UNCHANGED <<co1, fixRound, mPart>> /\ mPart = 0
      BY <1>1, <1>7 DEF InitL0Events, MOnly, PcOrder
    <2>2. \A r \in Computed : r < mRound' => r < mRound
      BY <1>1, <1>5, <1>7 DEF InitL0Events, ProgressType
    <2> QED BY <1>1, <1>2, <1>4, <2>1, <2>2 DEF Co1Content
  <1>8. CASE UNCHANGED <<co1, mRound, mPart>> /\ fixRound <= fixRound'
             /\ fixRound \in Int /\ fixRound' \in Int
    <2>1. \A r : Partial(r, mPart)' = Partial(r, mPart)
      BY <1>8 DEF Partial
    <2>2. Partial(mRound, mPart)' = Partial(mRound, mPart)
      BY <1>8 DEF Partial
    <2> QED BY <1>1, <1>2, <1>4, <1>5, <1>8, <2>2 DEF Co1Content
  <1>9. StartMmad \/ DrainCo1 \/ Scalar \/ Mte2 \/ Mte1 \/ Fix \/ Aiv \/ UNCHANGED vars
        => UNCHANGED <<co1, mRound, mPart>> /\ fixRound <= fixRound'
           /\ fixRound \in Int /\ fixRound' \in Int
    BY <1>1 DEF StartMmad, DrainCo1, MOnly, Scalar, StartRound, FinishRound, DrainPersistentEvents,
         Mte2, StartClearL1, FinishClearL1, StartCopyK, FinishCopyK, PassMte2, DrainL1, Mte2Only,
         Mte1, StartLoadA, FinishLoadA, StartLoadB, FinishLoadB, TaskDrain, DrainL0Events,
         NextMte1Round, Mte1Only,
         Fix, StartCommit, FinishCommit, SetReady, ReturnCo1, FixOnly,
         Aiv, TakeReady, ReleaseSlot, vars, ProgressType
  <1> QED BY <1>6, <1>7, <1>8, <1>9 DEF Next, Cube, Finished

LEMMA NextSlotContent ==
  ASSUME IInv, [Next]_vars
  PROVE  SlotContent'
  <1> USE DEF work, scalar, mte2, mte1, m, fix, l1Ev, l0Ev, co1Ev, cross, memory, aiv
  <1>1. /\ TaskCount \in Nat /\ Rounds = 0 .. TaskCount - 1
        /\ \A r : r \in Computed <=> r \in Rounds /\ Valid(r)
        /\ Computed' = Computed
        /\ ProgressType /\ MemoryType /\ PcOrder
    BY StepFacts
  <1>2. SlotContent /\ Co1Content /\ AivOrder
    BY DEF IInv, Contents
  <1>3. UNCHANGED work
    BY WorkUnchanged
  <1>4. \A r : Gram(r)' = Gram(r)
    BY <1>3, WorkIsFixed
  <1>5. \A r \in Computed : r \in Int
    BY <1>1
  <1>6. CASE FinishCommit
    <2>1. /\ committed = fixRound /\ committed' = fixRound + 1 /\ UNCHANGED released
          /\ slot' = [slot EXCEPT ![SlotOf(fixRound)] = co1] /\ fixRound < issued
          /\ fixPc = "committing"
      BY <1>1, <1>6 DEF FinishCommit, FixOnly, committed, PcOrder, ProgressType
    <2>2. co1 = Gram(fixRound)
      <3>1. fixRound \in Computed /\ fixRound < commitBegun
        BY <1>1, <2>1 DEF PcOrder, ProgressType, commitBegun
      <3>2. fixRound < mRound
        BY <3>1 DEF IInv, Co1Tile, OneTile
      <3> QED BY <1>1, <1>2, <3>1, <3>2 DEF Co1Content, ProgressType
    <2>3. \A r \in Computed : released <= r /\ r < fixRound => r = fixRound - 1
      BY <1>1, <1>2, <1>5, <2>1 DEF AivOrder, ProgressType, SLOT_COUNT
    <2>4. SlotOf(fixRound) \in Slot /\ SlotOf(fixRound - 1) # SlotOf(fixRound)
      <3>1. fixRound \in Int
        BY <1>1 DEF ProgressType
      <3> QED BY <3>1, SlotAlternates
    <2>5. SUFFICES ASSUME NEW r \in Computed, released <= r, r < fixRound + 1
                   PROVE  slot'[SlotOf(r)] = Gram(r)
      BY <1>1, <1>4, <2>1 DEF SlotContent
    <2>6. CASE r = fixRound
      <3>1. slot'[SlotOf(r)] = Gram(fixRound)
        BY <1>1, <2>1, <2>2, <2>4, <2>6 DEF MemoryType
      <3> QED BY <2>6, <3>1
    <2>7. CASE r # fixRound
      <3>1. r = fixRound - 1 /\ r < committed
        BY <1>1, <1>5, <2>1, <2>3, <2>5, <2>7 DEF ProgressType
      <3>2. slot[SlotOf(r)] = Gram(r)
        BY <1>2, <2>5, <3>1 DEF SlotContent
      <3>3. slot'[SlotOf(r)] = slot[SlotOf(r)]
        BY <1>1, <2>1, <2>4, <3>1 DEF MemoryType
      <3> QED BY <3>2, <3>3
    <2> QED BY <2>6, <2>7
  <1>7. CASE /\ UNCHANGED slot /\ released <= released'
             /\ released \in Int /\ released' \in Int
             /\ \A r \in Computed : r < committed' => r < committed
    BY <1>1, <1>2, <1>4, <1>5, <1>7 DEF SlotContent
  <1>8. SetReady \/ ReturnCo1 \/ StartCommit
        => /\ UNCHANGED slot /\ released <= released'
           /\ released \in Int /\ released' \in Int
           /\ \A r \in Computed : r < committed' => r < committed
    BY <1>1, <1>5 DEF SetReady, ReturnCo1, StartCommit, FixOnly, committed, PcOrder, ProgressType
  <1>9. Scalar \/ Mte2 \/ Mte1 \/ Cube \/ Aiv \/ UNCHANGED vars
        => UNCHANGED <<slot, fixRound, fixPc>> /\ released <= released'
           /\ released \in Int /\ released' \in Int
    BY <1>1 DEF Scalar, StartRound, FinishRound, DrainPersistentEvents,
         Mte2, StartClearL1, FinishClearL1, StartCopyK, FinishCopyK, PassMte2, DrainL1, Mte2Only,
         Mte1, StartLoadA, FinishLoadA, StartLoadB, FinishLoadB, TaskDrain, DrainL0Events,
         NextMte1Round, Mte1Only, Cube, InitL0Events, StartMmad, FinishMmad, DrainCo1, MOnly,
         Aiv, TakeReady, ReleaseSlot, vars, ProgressType
  <1>10. UNCHANGED <<fixRound, fixPc>> => \A r \in Computed : r < committed' => r < committed
    BY DEF committed
  <1> QED BY <1>6, <1>7, <1>8, <1>9, <1>10 DEF Next, Fix, Finished

LEMMA NextIInv ==
  ASSUME IInv, [Next]_vars
  PROVE  IInv'
  <1>1. Given' /\ ProgressType' /\ PcOrder'
    BY StepFacts DEF IInv
  <1>2. TypeOK'
    BY <1>1, NextEventType, NextMemoryType DEF TypeOK
  <1>3. Contents'
    BY NextL1Content, NextL0Content, NextCo1Content, NextSlotContent DEF Contents
  <1> QED BY <1>1, <1>2, <1>3, NextAivOrder, NextReadyCount, NextFreeCount, NextL1Tile,
             NextCo1Tile, NextStageOrder, NextStageTokens DEF IInv

\* The Cube stage keeps its inductive invariant, in every walk and variant.
THEOREM CubeInvariant == SafeSpec => []IInv
  <1>1. Init => IInv
    BY InitIInv
  <1>2. IInv /\ [Next]_vars => IInv'
    BY NextIInv
  <1> QED BY <1>1, <1>2, PTL DEF SafeSpec

-----------------------------------------------------------------------------
(* What the runs check *)

LEMMA IInvNoBufferRace ==
  ASSUME IInv
  PROVE  NoBufferRace
  <1>1. /\ TaskCount \in Nat /\ Rounds = 0 .. TaskCount - 1
        /\ \A r : r \in Computed <=> r \in Rounds /\ Valid(r)
        /\ \A r : r \in Turns <=> r \in Computed \/ r = TaskCount
    BY Sizes DEF IInv
  <1>2. ProgressType /\ PcOrder /\ AivOrder
    BY DEF IInv, TypeOK
  <1>3. ASSUME mte2Pc \in {"clearing", "copying"}, mte1Pc \in {"loadingA", "loadingB"}
        PROVE  FALSE
    <2>1. mte1Round \in Computed /\ mte1Round < loadBegun /\ loaded = mte1Round
      BY <1>1, <1>2, <1>3 DEF ProgressType, PcOrder, loadBegun, loaded
    <2>2. mte2Round \in Turns /\ mte2Round < copyBegun
      BY <1>1, <1>2, <1>3 DEF ProgressType, PcOrder, copyBegun
    <2>3. mte1Round < mte2Round
      BY <2>1 DEF IInv, L1Tile, OneTile
    <2>4. mte1Round < mte1Round
      BY <2>1, <2>2, <2>3 DEF IInv, L1Tile, OneTile
    <2> QED BY <1>1, <1>2, <2>4 DEF ProgressType
  <1>4. ASSUME mPc = "running", mPart = mte1Part, mte1Pc \in {"loadingA", "loadingB"}
        PROVE  FALSE
    BY <1>1, <1>2, <1>4, StageRounds, Sizes DEF Loads, ProgressType, IInv
  <1>5. ASSUME mPc = "running", fixPc = "committing" PROVE FALSE
    <2>1. fixRound \in Computed /\ fixRound < commitBegun
      BY <1>1, <1>2, <1>5 DEF ProgressType, PcOrder, commitBegun
    <2>2. mRound \in Turns /\ mRound < mulBegun
      BY <1>1, <1>2, <1>5 DEF ProgressType, PcOrder, mulBegun
    <2>3. fixRound < mRound
      BY <2>1 DEF IInv, Co1Tile, OneTile
    <2>4. fixRound < fixRound
      BY <2>1, <2>2, <2>3 DEF IInv, Co1Tile, OneTile
    <2> QED BY <1>1, <1>2, <2>4 DEF ProgressType
  <1>6. ASSUME fixPc = "committing", NEW r \in released .. taken - 1
        PROVE  SlotOf(r) # SlotOf(fixRound)
    <2>1. r = fixRound - 1 /\ fixRound \in Int
      BY <1>1, <1>2, <1>6 DEF ProgressType, PcOrder, AivOrder, announced, SLOT_COUNT
    <2> QED BY <2>1, SlotAlternates
  <1> QED BY <1>3, <1>4, <1>5, <1>6 DEF NoBufferRace

LEMMA IInvAnnouncedGram ==
  ASSUME IInv
  PROVE  AnnouncedGram
  <1>1. /\ TaskCount \in Nat /\ Rounds = 0 .. TaskCount - 1
        /\ \A r : r \in Computed <=> r \in Rounds /\ Valid(r)
    BY Sizes DEF IInv
  <1>2. ProgressType /\ PcOrder /\ AivOrder /\ ReadyCount /\ SlotContent
    BY DEF IInv, TypeOK, Contents
  <1>3. /\ taken \in Int /\ announced \in Int
        /\ taken <= announced /\ announced <= taken + 2
        /\ announced <= committed /\ committed <= TaskCount /\ committed \in Int
    BY <1>1, <1>2 DEF ProgressType, PcOrder, AivOrder, announced, committed, SLOT_COUNT
  <1>4. taken + ready[0] + ready[1] = announced
    <2>1. /\ SlotOf(taken) \in {0, 1} /\ SlotOf(taken + 1) \in {0, 1}
          /\ SlotOf(taken + 1) # SlotOf(taken)
      BY <1>3, SlotAlternates DEF Slot, SLOT_COUNT
    <2>2. \A s \in {0, 1} :
            ready[s] = IF \E r \in {taken, taken + 1} : r < announced /\ SlotOf(r) = s THEN 1 ELSE 0
      BY <1>2 DEF ReadyCount, Slot, SLOT_COUNT
    <2>3. /\ ready[SlotOf(taken)] = IF taken < announced THEN 1 ELSE 0
          /\ ready[SlotOf(taken + 1)] = IF taken + 1 < announced THEN 1 ELSE 0
      BY <2>1, <2>2
    <2>4. ready[0] + ready[1] = ready[SlotOf(taken)] + ready[SlotOf(taken + 1)]
      BY <2>1, <2>3
    <2> QED BY <1>3, <2>2, <2>3, <2>4
  <1>5. ASSUME NEW r \in released .. announced - 1, Valid(r)
        PROVE  slot[SlotOf(r)] = Gram(r)
    <2>1. r \in Computed /\ released <= r /\ r < committed
      BY <1>1, <1>2, <1>3, <1>5 DEF ProgressType
    <2> QED BY <1>2, <2>1 DEF SlotContent
  <1> QED BY <1>4, <1>5 DEF AnnouncedGram

LEMMA IInvEventRange ==
  ASSUME IInv
  PROVE  EventRange
  <1>1. /\ K_PARTS \in {2, 4} /\ Part = 0 .. K_PARTS - 1
        /\ TaskCount \in Nat /\ Rounds = 0 .. TaskCount - 1
        /\ \A r : r \in Computed <=> r \in Rounds /\ Valid(r)
    BY Sizes DEF IInv
  <1>2. TypeOK /\ ProgressType /\ PcOrder /\ StageOrder /\ StageTokens
    BY DEF IInv, TypeOK
  <1>3. l1Free <= 1 /\ l1Loaded <= 1 /\ co1Free <= 1 /\ co1Done <= 1
    BY DEF IInv, L1Tile, Co1Tile, OneTile
  <1>4. l0Drain <= 1
    BY <1>2 DEF StageTokens
  <1>5. stageLoaded <= K_PARTS
    BY <1>1, <1>2, StageRounds DEF StageOrder
  <1>6. \A s \in Slot : ready[s] <= 1 /\ free[s] <= 1
    BY DEF IInv, ReadyCount, FreeCount
  <1>7. inits \in Int /\ mte1Round \in Nat /\ inits <= TaskCount
    BY <1>1, <1>2 DEF inits, ProgressType, PcOrder
  <1>8. ASSUME \A r \in Rounds : Valid(r) PROVE inits - mte1Round <= 2
    <2>1. mRound > 0 => mRound - 1 < loaded
      BY <1>1, <1>2, <1>8 DEF StageOrder, ProgressType
    <2>2. loaded <= mte1Round + 1 /\ loaded \in Int
      BY <1>1, <1>2 DEF loaded, ProgressType
    <2> QED BY <1>1, <1>2, <2>1, <2>2 DEF inits, ProgressType
  <1>9. ASSUME NEW p \in Part
        PROVE  LET most == IF \A r \in Rounds : Valid(r) THEN 2 ELSE TaskCount
               IN  aFree[p] <= most /\ bFree[p] <= most
    <2>1. CASE PerStage
      <3>1. aFree[p] <= inits - mte1Round /\ bFree[p] <= inits - mte1Round
        BY <1>2, <1>7, <2>1 DEF StageTokens
      <3>2. aFree[p] \in Nat /\ bFree[p] \in Nat
        BY <1>2 DEF TypeOK, EventType
      <3> QED BY <1>1, <1>7, <1>8, <3>1, <3>2
    <2>2. CASE ~PerStage
      BY <1>1, <1>2, <2>2 DEF StageTokens
    <2> QED BY <2>1, <2>2
  <1> QED BY <1>2, <1>3, <1>4, <1>5, <1>6, <1>9 DEF EventRange

LEMMA IInvEventsBalanced ==
  ASSUME IInv
  PROVE  EventsBalanced
  <1> SUFFICES ASSUME Done
               PROVE  /\ l1Free = 0 /\ l1Loaded = 0 /\ stageLoaded = 0 /\ l0Drain = 0
                      /\ co1Free = 0 /\ co1Done = 0
                      /\ \A p \in Part : aFree[p] = 0 /\ bFree[p] = 0
                      /\ \A s \in Slot : ready[s] = 0 /\ free[s] = 0
    BY DEF EventsBalanced
  <1>1. /\ K_PARTS \in {2, 4} /\ Part = 0 .. K_PARTS - 1
        /\ TaskCount \in Nat /\ Rounds = 0 .. TaskCount - 1
        /\ \A r : r \in Computed <=> r \in Rounds /\ Valid(r)
        /\ \A r : r \in Turns <=> r \in Computed \/ r = TaskCount
    BY Sizes DEF IInv
  <1>2. TypeOK /\ ProgressType /\ PcOrder /\ AivOrder /\ StageOrder /\ StageTokens
    BY DEF IInv, TypeOK
  <1>3. /\ mte1Round = TaskCount /\ mte1Pc = "A" /\ mte1Part = 0
        /\ fixRound = TaskCount /\ fixPc = "idle" /\ released = TaskCount /\ issued = TaskCount
        /\ mRound = TaskCount /\ mPc = "drained" /\ mPart = 0
        /\ mte2Round = TaskCount /\ mte2Pc = "drained"
    BY <1>1, <1>2 DEF Done, ProgressType, PcOrder
  <1>4. TaskCount \in Turns /\ \A r \in Computed : r < TaskCount
    BY <1>1 DEF Turns
  <1>5. l1Free = 0 /\ l1Loaded = 0
    <2>1. copyBegun = TaskCount + 1 /\ loadBegun = TaskCount /\ loaded = TaskCount
      BY <1>1, <1>3 DEF copyBegun, loadBegun, loaded
    <2>2. \E r \in Turns : loaded <= r /\ r < copyBegun
      BY <1>1, <1>4, <2>1
    <2> QED BY <1>1, <1>3, <1>4, <2>1, <2>2 DEF IInv, L1Tile, OneTile
  <1>6. co1Free = 0 /\ co1Done = 0
    <2>1. mulBegun = TaskCount + 1 /\ commitBegun = TaskCount
      BY <1>1, <1>3 DEF mulBegun, commitBegun
    <2>2. \E r \in Turns : fixRound <= r /\ r < mulBegun
      BY <1>1, <1>3, <1>4, <2>1
    <2> QED BY <1>1, <1>3, <1>4, <2>1, <2>2 DEF IInv, Co1Tile, OneTile
  <1>7. stageLoaded = 0
    BY <1>1, <1>2, <1>3 DEF StageOrder, Loads, Begun
  <1>8. l0Drain = 0 /\ \A p \in Part : aFree[p] = 0 /\ bFree[p] = 0
    <2>1. inits = TaskCount /\ \A p \in Part : ~LoadABegun(p) /\ ~LoadBBegun(p)
      BY <1>1, <1>3 DEF inits, LoadABegun, LoadBBegun
    <2> QED BY <1>1, <1>2, <1>3, <1>4, <2>1 DEF StageTokens
  <1>9. \A s \in Slot : ready[s] = 0
    BY <1>1, <1>2, <1>3 DEF IInv, ReadyCount, AivOrder, announced, ProgressType
  <1>10. \A s \in Slot : free[s] = 0
    BY <1>1, <1>3 DEF IInv, FreeCount, WillReuseSlot, SLOT_COUNT
  <1> QED BY <1>5, <1>6, <1>7, <1>8, <1>9, <1>10

\* No pipe ever touches an L1 tile, an L0 stage, CO1 or a slot that another
\* one, or an AIV, is using.
THEOREM CubeRaceFree == SafeSpec => []NoBufferRace
  <1>1. IInv => NoBufferRace
    BY IInvNoBufferRace
  <1> QED BY <1>1, CubeInvariant, PTL

\* Whatever the lengths of the chunks, stale rows of a longer chunk never
\* reach an announced Gram, and no part of it is missing or from another round.
THEOREM GramIsComplete == SafeSpec => []AnnouncedGram
  <1>1. IInv => AnnouncedGram
    BY IInvAnnouncedGram
  <1> QED BY <1>1, CubeInvariant, PTL

\* The events stay within the range of the hardware's counters.
THEOREM CubeEventRange == SafeSpec => []EventRange
  <1>1. IInv => EventRange
    BY IInvEventRange
  <1> QED BY <1>1, CubeInvariant, PTL

\* A finished AIC leaves every event and flag as it found it.
THEOREM CubeEventsBalanced == SafeSpec => []EventsBalanced
  <1>1. IInv => EventsBalanced
    BY IInvEventsBalanced
  <1> QED BY <1>1, CubeInvariant, PTL
=============================================================================
