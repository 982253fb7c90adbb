--------------------------- MODULE KktPipelineProofs ---------------------------
(***************************************************************************)
(* Safety of the cross-core slot protocol, for every number of rounds,     *)
(* every pattern of chunk lengths and every head ratio.                    *)
(***************************************************************************)
EXTENDS KktPipeline, TLAPS

\* Neighbouring rounds use different slots, rounds two apart the same slot.
LEMMA SlotAlternates ==
  \A r \in Int : /\ SlotOf(r) \in Slot
                 /\ SlotOf(r + 1) # SlotOf(r)
                 /\ SlotOf(r - 1) # SlotOf(r)
                 /\ SlotOf(r + 2) = SlotOf(r)
                 /\ SlotOf(r - 2) = SlotOf(r)
  BY DEF SlotOf, Slot, SLOT_COUNT

\* Lane 0 has a row and a head of every chunk the kernel computes.
LEMMA FirstLaneWorks ==
  ASSUME NEW n \in Nat \ {0}, NEW len \in Int, len > 0, len <= BT
  PROVE  HasWork(n, 0, len)
  <1>1. 0 \in LaneRows(n, 0, len)
    BY DEF LaneRows, MinI32, FALLBACK_ROWS_PER_AIV, AIVS_PER_AIC, BT
  <1>2. 0 \in LaneRepeats(n, 0)
    BY DEF LaneRepeats, FirstRepeat, RepeatEnd, AIVS_PER_AIC
  <1> QED BY <1>1, <1>2 DEF HasWork

\* The order of the actors of a group, as plain arithmetic.
LEMMA LaneOrder ==
  ASSUME IInv, NEW l \in Lane
  PROVE  /\ count \in Nat /\ issued \in Nat /\ fixRound \in Nat
         /\ taken[l] \in Nat /\ mteRound[l] \in Nat
         /\ mteRound[l] <= taken[l]
         /\ taken[l] <= fixRound
         /\ fixRound <= issued
         /\ issued <= mteRound[l] + 2
         /\ issued <= count
         /\ fixPc # "idle" => fixRound < issued
         /\ mtePc[l] # "idle" => mteRound[l] < taken[l]
  BY PipelineAssumption DEF IInv, TypeOK, ActorOrder, SLOT_COUNT

\* The invariant holds when a group starts (Init of Process()).
LEMMA InitIInv == Init => IInv
  <1> SUFFICES ASSUME Init PROVE IInv
    OBVIOUS
  <1>1. TypeOK
    BY PipelineAssumption DEF Init, TypeOK, Rounds, Slot, Lane, SLOT_COUNT, AIVS_PER_AIC
  <1>2. ActorOrder
    BY PipelineAssumption DEF Init, ActorOrder, SLOT_COUNT
  <1>3. ReadyCount /\ FreeCount
    BY DEF Init, ReadyCount, FreeCount, Slot, Lane
  <1>4. SlotContent /\ TileContent
    BY DEF Init, SlotContent, TileContent, Rounds
  <1> QED BY <1>1, <1>2, <1>3, <1>4 DEF IInv

-----------------------------------------------------------------------------
(* One lemma per action. *)

\* The AIC's round loop: a FREE it has consumed came from both lanes, so the
\* scalar never gets more than SLOT_COUNT rounds ahead of a slower copy.
LEMMA IssueRoundIInv == IInv /\ IssueRound => IInv'
  <1> SUFFICES ASSUME IInv, IssueRound PROVE IInv'
    OBVIOUS
  <1> USE DEF IInv, task, aiv
  <1>s. /\ issued \in Nat /\ count \in Nat
        /\ SlotOf(issued) \in Slot
        /\ SlotOf(issued - 2) = SlotOf(issued)
        /\ SlotOf(issued - 1) # SlotOf(issued)
    BY SlotAlternates DEF TypeOK
  <1>1. TypeOK'
    <2>1. free' \in [Slot -> [Lane -> Nat]]
      <3>1. CASE ~MustWaitFree(issued)
        BY <3>1 DEF IssueRound, TypeOK
      <3>2. CASE MustWaitFree(issued)
        <4>1. \A l \in Lane : free[SlotOf(issued)][l] - 1 \in Nat
          BY <3>2, <1>s DEF IssueRound, TypeOK, FreeArrived
        <4>2. free' = [free EXCEPT ![SlotOf(issued)] =
                         [l \in Lane |-> free[SlotOf(issued)][l] - 1]]
          BY <3>2 DEF IssueRound
        <4> QED BY <4>1, <4>2, <1>s DEF TypeOK
      <3> QED BY <3>1, <3>2
    <2>2. UNCHANGED <<count, chunkLen, repeat, fixRound, fixPc, slot, ready,
                      taken, mteRound, mtePc, source, tile>>
      BY DEF IssueRound
    <2>3. issued' \in Nat
      BY <1>s DEF IssueRound
    <2> QED BY <2>1, <2>2, <2>3 DEF TypeOK, Rounds
  <1>2. ActorOrder'
    <2>1. ASSUME NEW l \in Lane PROVE issued + 1 <= mteRound[l] + SLOT_COUNT
      <3>1. mteRound[l] \in Nat
        BY DEF TypeOK
      <3>2. CASE ~MustWaitFree(issued)
        BY <3>1, <3>2, <1>s DEF MustWaitFree, SLOT_COUNT
      <3>3. CASE MustWaitFree(issued)
        <4>1. free[SlotOf(issued)][l] # 0
          BY <3>3, <1>s DEF IssueRound, FreeArrived, TypeOK
        <4>2. issued - 2 < mteRound[l]
          BY <4>1, <1>s DEF FreeCount
        <4> QED BY <4>2, <3>1, <1>s DEF SLOT_COUNT
      <3> QED BY <3>2, <3>3
    <2> QED BY <2>1, <1>s DEF IssueRound, ActorOrder, TypeOK, Computed, Works
  <1>3. ReadyCount'
    BY DEF IssueRound, ReadyCount
  <1>4. FreeCount'
    <2> SUFFICES ASSUME NEW s \in Slot, NEW l \in Lane
                 PROVE  free'[s][l] = IF \E r \in {issued, issued - 1} :
                          r >= 0 /\ r < mteRound[l] /\ WillReuseSlot(r) /\ SlotOf(r) = s
                        THEN 1 ELSE 0
      BY <1>s DEF FreeCount, IssueRound, WillReuseSlot
    <2>1. /\ mteRound[l] \in Nat
          /\ mteRound[l] <= issued
          /\ ~WillReuseSlot(issued) \/ mteRound[l] <= issued
      BY DEF ActorOrder, TypeOK
    <2>2. free[s][l] = IF \E r \in {issued - 1, issued - 2} :
                            r >= 0 /\ r < mteRound[l] /\ WillReuseSlot(r) /\ SlotOf(r) = s
                       THEN 1 ELSE 0
      BY DEF FreeCount
    <2>3. CASE ~MustWaitFree(issued)
      BY <1>s, <2>1, <2>2, <2>3 DEF IssueRound, MustWaitFree, SLOT_COUNT
    <2>4. CASE MustWaitFree(issued)
      <3>1. free[SlotOf(issued)][l] > 0
        BY <2>4 DEF IssueRound, FreeArrived
      <3>2. CASE s = SlotOf(issued)
        BY <1>s, <2>1, <2>2, <2>4, <3>1, <3>2 DEF IssueRound, TypeOK
      <3>3. CASE s # SlotOf(issued)
        BY <1>s, <2>1, <2>2, <2>4, <3>3 DEF IssueRound, TypeOK
      <3> QED BY <3>2, <3>3
    <2> QED BY <2>3, <2>4
  <1>5. SlotContent' /\ TileContent'
    BY DEF IssueRound, SlotContent, TileContent, Rounds, Computed
  <1> QED BY <1>1, <1>2, <1>3, <1>4, <1>5

\* Fixpipe starts: the slot it tears is not one a lane still has to read.
LEMMA StartCommitIInv == IInv /\ StartCommit => IInv'
  <1> SUFFICES ASSUME IInv, StartCommit PROVE IInv'
    OBVIOUS
  <1> USE DEF IInv, task, aiv
  <1>s. /\ fixRound \in Nat
        /\ SlotOf(fixRound) \in Slot
        /\ SlotOf(fixRound - 1) # SlotOf(fixRound)
    BY SlotAlternates DEF TypeOK
  <1>1. TypeOK'
    BY <1>s DEF StartCommit, TypeOK, Rounds
  <1>2. ActorOrder'
    BY DEF StartCommit, ActorOrder, Computed, Works
  <1>3. ReadyCount' /\ FreeCount'
    BY DEF StartCommit, ReadyCount, FreeCount, WillReuseSlot
  <1>4. SlotContent'
    <2>1. ASSUME NEW l \in Lane, NEW r \in Rounds,
                 mteRound[l] <= r, r < fixRound, Computed(r)
          PROVE  slot'[SlotOf(r)] = r
      <3>1. r = fixRound - 1
        BY <2>1, <1>s DEF StartCommit, ActorOrder, TypeOK, Rounds, SLOT_COUNT
      <3>2. slot[SlotOf(r)] = r
        BY <2>1 DEF SlotContent
      <3> QED BY <3>1, <3>2, <1>s DEF StartCommit, TypeOK
    <2> QED BY <2>1 DEF StartCommit, SlotContent, Rounds, Computed
  <1>5. TileContent'
    BY DEF StartCommit, TileContent
  <1> QED BY <1>1, <1>2, <1>3, <1>4, <1>5

\* Fixpipe ends: the slot holds the Gram of the round of PIPE_FIX.
LEMMA FinishCommitIInv == IInv /\ FinishCommit => IInv'
  <1> SUFFICES ASSUME IInv, FinishCommit PROVE IInv'
    OBVIOUS
  <1> USE DEF IInv, task, aiv
  <1>s. /\ fixRound \in Rounds
        /\ SlotOf(fixRound) \in Slot
        /\ SlotOf(fixRound - 1) # SlotOf(fixRound)
    BY SlotAlternates DEF TypeOK, ActorOrder, FinishCommit, Rounds
  <1>1. TypeOK'
    BY <1>s DEF FinishCommit, TypeOK, Rounds
  <1>2. ActorOrder'
    BY DEF FinishCommit, ActorOrder, Computed, Works
  <1>3. ReadyCount' /\ FreeCount'
    BY DEF FinishCommit, ReadyCount, FreeCount, WillReuseSlot
  <1>4. SlotContent'
    <2>1. ASSUME NEW l \in Lane, NEW r \in Rounds,
                 mteRound[l] <= r, r < fixRound, Computed(r)
          PROVE  slot'[SlotOf(r)] = r
      <3>1. r = fixRound - 1
        BY <2>1, <1>s DEF FinishCommit, ActorOrder, TypeOK, Rounds, SLOT_COUNT
      <3>2. slot[SlotOf(r)] = r
        BY <2>1 DEF SlotContent
      <3> QED BY <3>1, <3>2, <1>s DEF FinishCommit, TypeOK
    <2>2. slot'[SlotOf(fixRound)] = fixRound
      BY <1>s DEF FinishCommit, TypeOK
    <2> QED BY <2>1, <2>2 DEF FinishCommit, SlotContent, Rounds, Computed
  <1>5. TileContent'
    BY DEF FinishCommit, TileContent
  <1> QED BY <1>1, <1>2, <1>3, <1>4, <1>5

\* CrossCoreSetFlag of READY on PIPE_FIX: one count for each lane.
LEMMA SetReadyIInv == IInv /\ SetReady => IInv'
  <1> SUFFICES ASSUME IInv, SetReady PROVE IInv'
    OBVIOUS
  <1> USE DEF IInv, task, aiv
  <1>s. /\ fixRound \in Nat /\ fixRound \in Rounds
        /\ SlotOf(fixRound) \in Slot
        /\ SlotOf(fixRound - 1) # SlotOf(fixRound)
    BY SlotAlternates DEF TypeOK, ActorOrder, SetReady, Rounds
  <1>1. TypeOK'
    BY <1>s DEF SetReady, TypeOK, Rounds
  <1>2. ActorOrder'
    BY DEF SetReady, ActorOrder, Computed, Works, TypeOK
  <1>3. ReadyCount'
    <2> SUFFICES ASSUME NEW s \in Slot, NEW l \in Lane
                 PROVE  ready'[s][l] = IF \E r \in {taken[l], taken[l] + 1} :
                                            r < fixRound + 1 /\ SlotOf(r) = s
                                       THEN 1 ELSE 0
      BY DEF ReadyCount, SetReady
    <2>1. /\ taken[l] \in Nat
          /\ taken[l] <= fixRound
          /\ fixRound <= taken[l] + 1
      BY <1>s DEF TypeOK, ActorOrder, SetReady, SLOT_COUNT
    <2>2. ready'[s][l] = IF s = SlotOf(fixRound) THEN ready[s][l] + 1 ELSE ready[s][l]
      BY <1>s DEF SetReady, TypeOK
    <2>3. ready[s][l] = IF taken[l] = fixRound - 1 /\ SlotOf(fixRound - 1) = s
                        THEN 1 ELSE 0
      BY <2>1, <1>s DEF ReadyCount
    <2>4. CASE taken[l] = fixRound
      BY <2>2, <2>3, <2>4, <1>s
    <2>5. CASE taken[l] = fixRound - 1
      BY <2>2, <2>3, <2>5, <1>s
    <2> QED BY <2>1, <2>4, <2>5, <1>s
  <1>4. FreeCount'
    BY DEF SetReady, FreeCount, WillReuseSlot
  <1>5. SlotContent'
    BY <1>s DEF SetReady, CommitDone, SlotContent, Rounds, Computed, TypeOK
  <1>6. TileContent'
    BY DEF SetReady, TileContent
  <1> QED BY <1>1, <1>2, <1>3, <1>4, <1>5, <1>6

\* CrossCoreWaitFlag of READY in a lane.
LEMMA TakeReadyIInv == ASSUME NEW k \in Lane PROVE IInv /\ TakeReady(k) => IInv'
  <1> SUFFICES ASSUME IInv, TakeReady(k) PROVE IInv'
    OBVIOUS
  <1> USE DEF IInv, task, aic
  <1>s. /\ taken[k] \in Nat
        /\ SlotOf(taken[k]) \in Slot
        /\ SlotOf(taken[k] + 1) # SlotOf(taken[k])
        /\ SlotOf(taken[k] + 2) = SlotOf(taken[k])
    BY SlotAlternates DEF TypeOK
  <1>1. TypeOK'
    <2>1. /\ ready' \in [Slot -> [Lane -> Nat]]
          /\ taken' \in [Lane -> Nat]
      BY <1>s DEF TakeReady, TypeOK
    <2> QED BY <2>1 DEF TakeReady, TypeOK, Rounds
  <1>2. taken[k] < fixRound
    BY <1>s DEF TakeReady, ReadyCount
  <1>3. ActorOrder'
    BY <1>2 DEF TakeReady, ActorOrder, Computed, Works, TypeOK
  <1>4. ReadyCount'
    <2> SUFFICES ASSUME NEW s \in Slot, NEW l \in Lane
                 PROVE  ready'[s][l] = IF \E r \in {taken'[l], taken'[l] + 1} :
                                            r < fixRound /\ SlotOf(r) = s
                                       THEN 1 ELSE 0
      BY DEF ReadyCount, TakeReady
    <2>1. ready[s][l] = IF \E r \in {taken[l], taken[l] + 1} :
                             r < fixRound /\ SlotOf(r) = s
                        THEN 1 ELSE 0
      BY DEF ReadyCount
    <2>2. CASE l # k
      BY <2>1, <2>2, <1>s DEF TakeReady, TypeOK
    <2>3. CASE l = k
      <3>1. fixRound <= taken[k] + 2 /\ fixRound \in Nat
        BY DEF ActorOrder, TypeOK, SLOT_COUNT
      <3>2. taken'[k] = taken[k] + 1
        BY <1>s DEF TakeReady, TypeOK
      <3>3. ready'[s][k] = IF s = SlotOf(taken[k]) THEN ready[s][k] - 1 ELSE ready[s][k]
        BY <1>s DEF TakeReady, TypeOK
      <3> QED BY <2>1, <2>3, <3>1, <3>2, <3>3, <1>2, <1>s
    <2> QED BY <2>2, <2>3
  <1>5. FreeCount' /\ SlotContent' /\ TileContent'
    BY DEF TakeReady, FreeCount, WillReuseSlot, SlotContent, TileContent, Rounds, Computed
  <1> QED BY <1>1, <1>3, <1>4, <1>5

\* The KKT copy of a lane starts from a slot that holds its own round.
LEMMA StartLoadIInv == ASSUME NEW k \in Lane PROVE IInv /\ StartLoad(k) => IInv'
  <1> SUFFICES ASSUME IInv, StartLoad(k) PROVE IInv'
    OBVIOUS
  <1> USE DEF IInv, task, aic
  <1>s. /\ mteRound[k] \in Rounds
        /\ mteRound[k] < fixRound
        /\ SlotOf(mteRound[k]) \in Slot
    BY SlotAlternates, LaneOrder DEF StartLoad, Rounds
  <1>1. TypeOK'
    BY <1>s DEF StartLoad, TypeOK, Rounds
  <1>2. ActorOrder'
    BY DEF StartLoad, ActorOrder, Computed, Works, TypeOK
  <1>3. ReadyCount' /\ FreeCount' /\ SlotContent'
    BY DEF StartLoad, ReadyCount, FreeCount, WillReuseSlot, SlotContent, Rounds, Computed
  <1>4. TileContent'
    <2>1. Computed(mteRound[k])
      BY DEF StartLoad, Works, HasWork, Computed
    <2>2. slot[SlotOf(mteRound[k])] = mteRound[k]
      BY <1>s, <2>1 DEF SlotContent, TypeOK
    <2> QED BY <2>2 DEF StartLoad, TileContent, TypeOK
  <1> QED BY <1>1, <1>2, <1>3, <1>4

\* The KKT copy of a lane ends; the slot has not changed under it.
LEMMA FinishLoadIInv == ASSUME NEW k \in Lane PROVE IInv /\ FinishLoad(k) => IInv'
  <1> SUFFICES ASSUME IInv, FinishLoad(k) PROVE IInv'
    OBVIOUS
  <1> USE DEF IInv, task, aic
  <1>s. /\ mteRound[k] \in Rounds
        /\ mteRound[k] < fixRound
        /\ Computed(mteRound[k])
    <2>1. Works(k, mteRound[k])
      BY DEF ActorOrder, FinishLoad
    <2>2. Computed(mteRound[k])
      BY <2>1 DEF Works, HasWork, Computed
    <2>3. mtePc[k] # "idle"
      BY DEF FinishLoad
    <2> QED BY <2>2, <2>3, LaneOrder DEF Rounds
  <1>1. TypeOK'
    BY DEF FinishLoad, TypeOK, Rounds
  <1>2. ActorOrder'
    BY DEF FinishLoad, ActorOrder, Computed, Works, TypeOK
  <1>3. ReadyCount' /\ FreeCount' /\ SlotContent'
    BY DEF FinishLoad, ReadyCount, FreeCount, WillReuseSlot, SlotContent, Rounds, Computed
  <1>4. TileContent'
    <2>1. slot[SlotOf(mteRound[k])] = mteRound[k]
      BY <1>s DEF SlotContent, TypeOK
    <2> QED BY <2>1 DEF FinishLoad, TileContent, TypeOK
  <1> QED BY <1>1, <1>2, <1>3, <1>4

\* CrossCoreSetFlag of FREE on PIPE_MTE2 behind the copy of the round.
LEMMA ReleaseSlotIInv == ASSUME NEW k \in Lane PROVE IInv /\ ReleaseSlot(k) => IInv'
  <1> SUFFICES ASSUME IInv, ReleaseSlot(k) PROVE IInv'
    OBVIOUS
  <1> USE DEF IInv, task, aic
  <1>s. /\ mteRound[k] \in Nat
        /\ SlotOf(mteRound[k]) \in Slot
        /\ SlotOf(mteRound[k] + 1) # SlotOf(mteRound[k])
        /\ SlotOf(mteRound[k] - 1) # SlotOf(mteRound[k])
    BY SlotAlternates DEF TypeOK
  <1>1. TypeOK'
    BY <1>s DEF ReleaseSlot, TypeOK, Rounds
  <1>2. ActorOrder'
    <2>1. ASSUME NEW l \in Lane
          PROVE  /\ mteRound'[l] <= taken[l]
                 /\ issued <= mteRound'[l] + SLOT_COUNT
                 /\ mtePc'[l] # "idle" => mteRound'[l] < taken[l] /\ Works(l, mteRound'[l])
      BY LaneOrder DEF ReleaseSlot, ActorOrder, TypeOK, SLOT_COUNT
    <2> QED BY <2>1 DEF ReleaseSlot, ActorOrder, Computed, Works
  <1>3. ReadyCount'
    BY DEF ReleaseSlot, ReadyCount
  <1>4. FreeCount'
    <2> SUFFICES ASSUME NEW s \in Slot, NEW l \in Lane
                 PROVE  free'[s][l] = IF \E r \in {issued - 1, issued - 2} :
                          r >= 0 /\ r < mteRound'[l] /\ WillReuseSlot(r) /\ SlotOf(r) = s
                        THEN 1 ELSE 0
      BY DEF FreeCount, ReleaseSlot, WillReuseSlot
    <2>1. free[s][l] = IF \E r \in {issued - 1, issued - 2} :
                            r >= 0 /\ r < mteRound[l] /\ WillReuseSlot(r) /\ SlotOf(r) = s
                       THEN 1 ELSE 0
      BY DEF FreeCount
    <2>2. CASE l # k
      BY <2>1, <2>2, <1>s DEF ReleaseSlot, TypeOK
    <2>3. CASE l = k
      <3>1. mteRound'[k] = mteRound[k] + 1
        BY <1>s DEF ReleaseSlot, TypeOK
      <3>2. /\ issued \in Nat
            /\ mteRound[k] = issued - 1 \/ mteRound[k] = issued - 2
        BY <1>s, LaneOrder DEF ReleaseSlot
      <3>3. free'[s][k] = IF WillReuseSlot(mteRound[k]) /\ s = SlotOf(mteRound[k])
                          THEN free[s][k] + 1 ELSE free[s][k]
        BY <1>s DEF ReleaseSlot, TypeOK
      <3>4. CASE mteRound[k] = issued - 1
        BY <2>1, <2>3, <3>1, <3>2, <3>3, <3>4, <1>s
      <3>5. CASE mteRound[k] = issued - 2
        BY <2>1, <2>3, <3>1, <3>2, <3>3, <3>5, <1>s
      <3> QED BY <3>2, <3>4, <3>5
    <2> QED BY <2>2, <2>3
  <1>5. SlotContent'
    BY DEF ReleaseSlot, SlotContent, Rounds, Computed, TypeOK
  <1>6. TileContent'
    BY DEF ReleaseSlot, TileContent, TypeOK
  <1> QED BY <1>1, <1>2, <1>3, <1>4, <1>5, <1>6

\* Every step of a group, the end of all three slices included, keeps the
\* invariant.
LEMMA NextIInv == IInv /\ [Next]_vars => IInv'
  <1> SUFFICES ASSUME IInv, [Next]_vars PROVE IInv'
    OBVIOUS
  <1>1. CASE IssueRound
    BY <1>1, IssueRoundIInv
  <1>2. CASE Fix
    BY <1>2, StartCommitIInv, FinishCommitIInv, SetReadyIInv DEF Fix
  <1>3. ASSUME NEW l \in Lane, TakeReady(l) PROVE IInv'
    BY <1>3, TakeReadyIInv
  <1>4. ASSUME NEW l \in Lane, Mte2(l) PROVE IInv'
    BY <1>4, StartLoadIInv, FinishLoadIInv, ReleaseSlotIInv DEF Mte2
  <1>5. CASE UNCHANGED vars
    BY <1>5 DEF vars, IInv, TypeOK, ActorOrder, ReadyCount, FreeCount, SlotContent,
                TileContent, Rounds, Computed, Works, WillReuseSlot
  <1> QED BY <1>1, <1>2, <1>3, <1>4, <1>5 DEF Next, Finished

-----------------------------------------------------------------------------

\* The actors of a group keep their order and the flag counters follow their
\* distances (CrossCoreSetFlag / CrossCoreWaitFlag of both stages).
THEOREM InductiveInvariant == SafeSpec => []IInv
  <1>1. Init => IInv
    BY InitIInv
  <1>2. IInv /\ [Next]_vars => IInv'
    BY NextIInv
  <1> QED BY <1>1, <1>2, PTL DEF SafeSpec

\* All variables keep their types: no flag counter ever goes below zero.
THEOREM TypeCorrect == SafeSpec => []TypeOK
  <1>1. IInv => TypeOK
    BY DEF IInv
  <1> QED BY <1>1, InductiveInvariant, PTL

\* CommitWorkspace() never writes a slot while a KKT copy of
\* BeginLoadKktSlot() reads it, however many rounds a group runs.
THEOREM NoRace == SafeSpec => []NoSlotRace
  <1>1. IInv => NoSlotRace
    <2> SUFFICES ASSUME IInv, fixPc = "writing", NEW l \in Lane, mtePc[l] = "loading"
                 PROVE  SlotOf(mteRound[l]) # SlotOf(fixRound)
      BY DEF NoSlotRace
    <2>1. /\ mteRound[l] \in Nat /\ fixRound \in Nat
          /\ mteRound[l] = fixRound - 1
      BY LaneOrder
    <2> QED BY <2>1, SlotAlternates
  <1> QED BY <1>1, InductiveInvariant, PTL

\* Every lane computes with the Gram of its own round.
THEOREM GramIsOwn == SafeSpec => []OwnGram
  <1>1. IInv => OwnGram
    BY DEF IInv, TileContent, OwnGram
  <1> QED BY <1>1, InductiveInvariant, PTL

\* No CrossCore counter is set twice before it is consumed.
THEOREM FlagsAreBinary == SafeSpec => []FlagsBinary
  <1>1. IInv => FlagsBinary
    BY DEF IInv, ReadyCount, FreeCount, FlagsBinary
  <1> QED BY <1>1, InductiveInvariant, PTL

\* A group that has finished leaves no flag set.
THEOREM FlagsAreBalanced == SafeSpec => []FlagsBalanced
  <1>1. IInv => FlagsBalanced
    <2> SUFFICES ASSUME IInv, Done, NEW s \in Slot, NEW l \in Lane
                 PROVE  ready[s][l] = 0 /\ free[s][l] = 0
      BY DEF FlagsBalanced
    <2>1. count \in Nat
      BY PipelineAssumption DEF IInv, TypeOK
    <2>2. ready[s][l] = 0
      BY <2>1 DEF IInv, Done, ReadyCount
    <2>3. ~WillReuseSlot(issued - 1) /\ ~WillReuseSlot(issued - 2)
      BY <2>1 DEF Done, WillReuseSlot, SLOT_COUNT
    <2> QED BY <2>2, <2>3 DEF IInv, FreeCount
  <1> QED BY <1>1, InductiveInvariant, PTL

-----------------------------------------------------------------------------
(* The protocol implements KktHandoff. *)

\* Both modules mean the same by lanes and slots.
LEMMA SameTask ==
  /\ Handoff!Lane = Lane
  /\ Handoff!SLOT_COUNT = SLOT_COUNT
  /\ Handoff!NoGram = NoGram
  BY DEF Handoff!Lane, Lane, Handoff!AIVS_PER_AIC, AIVS_PER_AIC, Handoff!SLOT_COUNT,
         SLOT_COUNT, Handoff!NoGram, NoGram

\* The lanes that copy the Gram of round r.
Users(r) == {l \in Lane : Works(l, r)}

\* A Gram that is computed is copied by a lane, and no other is.
LEMMA UsedIsComputed ==
  ASSUME IInv, NEW r \in Rounds
  PROVE  Users(r) # {} <=> Computed(r)
  <1>1. chunkLen[r] \in Int /\ repeat \in Nat \ {0}
    BY PipelineAssumption DEF IInv, TypeOK
  <1>2. ASSUME Computed(r) PROVE 0 \in Users(r)
    BY <1>1, <1>2, FirstLaneWorks DEF Computed, Works, Users, Lane, AIVS_PER_AIC
  <1>3. ASSUME NEW l \in Users(r) PROVE Computed(r)
    BY <1>3 DEF Users, Works, HasWork, Computed
  <1> QED BY <1>2, <1>3

\* The rounds of a group and their chunks are given when it starts.
LEMMA GivenKept == [Next]_vars => UNCHANGED <<count, chunkLen, repeat, Handoff!given>>
  <1> SUFFICES ASSUME [Next]_vars PROVE UNCHANGED <<count, chunkLen, repeat, Handoff!given>>
    OBVIOUS
  <1>1. UNCHANGED <<count, chunkLen, repeat>>
    BY DEF Next, vars, IssueRound, Fix, StartCommit, FinishCommit, SetReady, TakeReady,
           Mte2, StartLoad, FinishLoad, ReleaseSlot, Finished, task
  <1>2. UNCHANGED [r \in Rounds |-> {l \in Lane : Works(l, r)}]
    BY <1>1 DEF Rounds, Works
  <1> QED BY <1>1, <1>2 DEF Handoff!given

\* One step of the flag protocol is one step of the abstract hand-off, or
\* leaves it unchanged.
LEMMA HandoffStep == IInv /\ [Next]_vars => [Handoff!Next]_(Handoff!vars)
  <1> SUFFICES ASSUME IInv, [Next]_vars PROVE [Handoff!Next]_(Handoff!vars)
    OBVIOUS
  <1> USE GivenKept DEF task, aic, aiv
  <1>a. /\ UNCHANGED Handoff!given
        /\ \A r \in Rounds : {l \in Lane : Works(l, r)} # {} <=> Computed(r)
    BY UsedIsComputed DEF Users
  <1>1. CASE IssueRound
    BY <1>1, <1>a DEF IssueRound, Handoff!vars
  <1>2. CASE StartCommit
    <2>1. \A l \in Lane : fixRound < (IF mtePc[l] = "loaded" THEN mteRound[l] + 1
                                                              ELSE mteRound[l]) + SLOT_COUNT
      BY <1>2, LaneOrder DEF StartCommit, SLOT_COUNT
    <2>2. Handoff!Room
      BY <1>2, <2>1, SameTask DEF StartCommit, Handoff!Room
    <2>3. fixRound < count
      BY <1>2, PipelineAssumption DEF StartCommit, IInv, ActorOrder, TypeOK
    <2>4. fixRound \in Rounds
      BY <2>3 DEF Rounds, IInv, TypeOK
    <2>5. [r \in Rounds |-> {l \in Lane : Works(l, r)}][fixRound] # {}
      BY <1>2, <1>a, <2>4 DEF StartCommit
    <2>6. Handoff!Claim
      BY <1>2, <1>a, <2>2, <2>3, <2>5, SameTask DEF StartCommit, Handoff!Claim
    <2> QED BY <2>6 DEF Handoff!Next
  <1>3. CASE FinishCommit
    BY <1>3, <1>a DEF FinishCommit, Handoff!vars
  <1>4. CASE SetReady
    <2>1. CASE Computed(fixRound)
      <3>1. Handoff!Produce
        BY <1>4, <1>a, <2>1 DEF SetReady, CommitDone, Handoff!Produce, IInv, TypeOK
      <3> QED BY <3>1 DEF Handoff!Next
    <2>2. CASE ~Computed(fixRound)
      <3>1. \A l \in Lane : fixRound < (IF mtePc[l] = "loaded" THEN mteRound[l] + 1
                                                                ELSE mteRound[l]) + SLOT_COUNT
        BY <1>4, LaneOrder DEF SetReady, SLOT_COUNT
      <3>2. Handoff!Room
        BY <1>4, <2>2, <3>1, SameTask DEF SetReady, CommitDone, Handoff!Room
      <3>3. fixRound < count
        BY <1>4, PipelineAssumption DEF SetReady, IInv, ActorOrder, TypeOK
      <3>4. fixRound \in Rounds
        BY <3>3 DEF Rounds, IInv, TypeOK
      <3>5. [r \in Rounds |-> {l \in Lane : Works(l, r)}][fixRound] = {}
        BY <1>a, <2>2, <3>4
      <3>6. Handoff!Skip
        BY <1>4, <1>a, <2>2, <3>2, <3>3, <3>5, SameTask DEF SetReady, CommitDone, Handoff!Skip
      <3> QED BY <3>6 DEF Handoff!Next
    <2> QED BY <2>1, <2>2
  <1>5. ASSUME NEW l \in Lane, TakeReady(l) PROVE UNCHANGED Handoff!vars
    BY <1>5, <1>a DEF TakeReady, Handoff!vars
  <1>6. ASSUME NEW l \in Lane, StartLoad(l) PROVE UNCHANGED Handoff!vars
    BY <1>6, <1>a DEF StartLoad, Handoff!vars, IInv, TypeOK
  <1>7. ASSUME NEW l \in Lane, FinishLoad(l) PROVE Handoff!Receive(l)
    <2>1. /\ mteRound[l] < fixRound
          /\ Works(l, mteRound[l])
      BY <1>7, LaneOrder DEF FinishLoad, IInv, ActorOrder
    <2>2. tile' = [tile EXCEPT ![l] = mteRound[l]]
      <3>1. IInv'
        BY <1>7, FinishLoadIInv
      <3>2. tile'[l] = mteRound[l]
        BY <1>7, <3>1 DEF FinishLoad, IInv, TileContent, TypeOK
      <3> QED BY <1>7, <3>2 DEF FinishLoad, IInv, TypeOK
    <2>3. mteRound[l] \in Rounds
      BY <1>7, LaneOrder DEF FinishLoad, Rounds
    <2>4. l \in [r \in Rounds |-> {k \in Lane : Works(k, r)}][mteRound[l]]
      BY <2>1, <2>3
    <2> QED
      BY <1>7, <1>a, <2>1, <2>2, <2>4, SameTask DEF FinishLoad, Handoff!Receive, IInv, TypeOK
  <1>8. ASSUME NEW l \in Lane, ReleaseSlot(l)
        PROVE  UNCHANGED Handoff!vars \/ Handoff!Receive(l)
    <2>1. CASE Works(l, mteRound[l])
      BY <1>8, <1>a, <2>1 DEF ReleaseSlot, LoadDone, Handoff!vars, IInv, TypeOK
    <2>2. CASE ~Works(l, mteRound[l])
      <3>1. mteRound[l] < fixRound
        BY <1>8, LaneOrder DEF ReleaseSlot
      <3>2. mteRound[l] \in Rounds
        BY <1>8, LaneOrder DEF ReleaseSlot, Rounds
      <3>3. l \notin [r \in Rounds |-> {k \in Lane : Works(k, r)}][mteRound[l]]
        BY <2>2, <3>2
      <3> QED
        BY <1>8, <1>a, <2>2, <3>1, <3>3, SameTask
        DEF ReleaseSlot, LoadDone, Handoff!Receive, IInv, TypeOK
    <2> QED BY <2>1, <2>2
  <1>9. CASE UNCHANGED vars
    BY <1>9, <1>a DEF vars, Handoff!vars
  <1> QED
    BY <1>1, <1>2, <1>3, <1>4, <1>5, <1>6, <1>7, <1>8, <1>9, SameTask
    DEF Next, Fix, Mte2, Finished, Handoff!Next

\* Every step of the flag protocol is a step of the abstract hand-off or
\* leaves it unchanged (the safety half of HandoffSpec).
THEOREM ImplementsHandoff ==
  SafeSpec => Handoff!Init /\ [][Handoff!Next]_(Handoff!vars)
  <1>1. Init => Handoff!Init
    <2> SUFFICES ASSUME Init PROVE Handoff!Init
      OBVIOUS
    <2>1. count \in Nat /\ Rounds = 0 .. count - 1
      BY PipelineAssumption DEF Init, Rounds
    <2>2. [r \in Rounds |-> {l \in Lane : Works(l, r)}] \in [0 .. count - 1 -> SUBSET Lane]
      BY <2>1
    <2> QED BY <2>1, <2>2, SameTask DEF Init, Handoff!Init
  <1>2. IInv /\ [Next]_vars => [Handoff!Next]_(Handoff!vars)
    BY HandoffStep
  <1> QED BY <1>1, <1>2, InductiveInvariant, PTL DEF SafeSpec
=============================================================================
