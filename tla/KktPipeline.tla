------------------------------ MODULE KktPipeline ------------------------------
(***************************************************************************)
(* The cross-core protocol of one MIX group: one AIC (Cube stage) and two  *)
(* AIVs (Vector stage) share two workspace slots in global memory.         *)
(*                                                                         *)
(* Every core has a scalar unit that issues work to in-order asynchronous  *)
(* pipes and runs ahead of them, so each core is two actors here:          *)
(*                                                                         *)
(*   AIC scalar   the round loop of Process(): waits for the FREE flag of  *)
(*                the slot from round SLOT_COUNT on, then issues Fixpipe   *)
(*                (CommitWorkspace) and the READY flag to PIPE_FIX;        *)
(*   PIPE_FIX     writes the Gram into the slot, then sets READY;          *)
(*   AIV scalar   ProcessPipelineTask() / ProcessAdjacentFullChunkR34():   *)
(*                waits for READY, then issues the KKT copy and, when the  *)
(*                slot will be reused, the FREE flag to PIPE_MTE2;         *)
(*   PIPE_MTE2    copies the slot to UB, then sets FREE.                   *)
(*                                                                         *)
(* The Fixpipe and the copy take time: each has a start and an end, and    *)
(* anything may happen in between.  A workspace slot being written holds   *)
(* Torn.  CrossCoreSetFlag<2, PIPE> is an operation of PIPE: it happens    *)
(* when everything issued to PIPE before it has completed.  In mode 2 the  *)
(* AIC's READY reaches both lanes, and the AIC passes a FREE wait when     *)
(* both lanes have set it; a flag is a counter per slot and lane.          *)
(*                                                                         *)
(* The intra-core part of the Cube stage is in KktCube, that of the Vector *)
(* stage in KktVector.  Which rounds a group has is KktSchedule's matter:  *)
(* here count and the chunk lengths are arbitrary and the same for AIC and *)
(* AIVs, which is what KktSchedule shows of the walks of both.             *)
(***************************************************************************)
EXTENDS KktTask

CONSTANTS Counts,     \* numbers of rounds a group may have
          ChunkLens,  \* chunk lengths (end - start) a round may have
          Repeats     \* values of H / Hg

ASSUME PipelineAssumption ==
  /\ Counts \subseteq Nat
  /\ ChunkLens \subseteq Int
  /\ Repeats \subseteq Nat \ {0}

NoGram == -1   \* nothing written yet
Torn   == -2   \* bytes of more than one Gram

VARIABLES
  count,      \* localTaskCount
  chunkLen,   \* chunkLen[r]: end - start of the chunk of local round r
  repeat,     \* tiling->numRepeat
  issued,     \* rounds the AIC scalar has issued to PIPE_FIX
  fixRound,   \* rounds PIPE_FIX is through with
  fixPc,      \* PIPE_FIX in its current round: "idle", "writing", "written"
  slot,       \* slot[s]: the round whose Gram the workspace slot holds
  ready,      \* ready[s][l]: READY flag counter of slot s at lane l
  free,       \* free[s][l]: FREE flag counter of slot s set by lane l
  taken,      \* taken[l]: rounds whose READY lane l's scalar has consumed
  mteRound,   \* mteRound[l]: rounds lane l's PIPE_MTE2 is through with
  mtePc,      \* PIPE_MTE2 in its current round: "idle", "loading", "loaded"
  source,     \* source[l]: what the slot held when lane l's copy started
  tile        \* tile[l]: what the last completed KKT copy of lane l brought

vars == <<count, chunkLen, repeat, issued, fixRound, fixPc, slot, ready, free,
          taken, mteRound, mtePc, source, tile>>

task == <<count, chunkLen, repeat>>
aic  == <<issued, fixRound, fixPc>>
aiv  == <<taken, mteRound, mtePc, source, tile>>

Computed(r) == chunkLen[r] > 0 /\ chunkLen[r] <= BT
Works(l, r) == HasWork(repeat, l, chunkLen[r])

(***************************************************************************)
(* Seeded faults: slips one could make in the definitions below.  Each is  *)
(* put in the place of the definition it is named after to see that some   *)
(* property fails; the specification uses none of them.                    *)
(***************************************************************************)
MustWaitFreeLate(r) == r > SLOT_COUNT              \* off by one round
MustWaitFreeNever(r) == FALSE                      \* wait forgotten
WillReuseSlotAlways(r) == TRUE                     \* FREE also in the last rounds
WillReuseSlotShort(r) == r + SLOT_COUNT < count - 1 \* off by one round
FreeArrivedAny(s) == \E l \in Lane : free[s][l] > 0 \* one lane is enough
CommitDoneUnordered(r) == TRUE                     \* READY not ordered on PIPE_FIX

\* localRound >= SLOT_COUNT: the slot was used before, its FREE must arrive.
MustWaitFree(r) == r >= SLOT_COUNT

\* localRound + SLOT_COUNT < localTaskCount: the AIC will wait for this FREE.
WillReuseSlot(r) == r + SLOT_COUNT < count

Init ==
  /\ count \in Counts
  /\ chunkLen \in [0 .. count - 1 -> ChunkLens]
  /\ repeat \in Repeats
  /\ issued = 0
  /\ fixRound = 0
  /\ fixPc = "idle"
  /\ slot = [s \in Slot |-> NoGram]
  /\ ready = [s \in Slot |-> [l \in Lane |-> 0]]
  /\ free = [s \in Slot |-> [l \in Lane |-> 0]]
  /\ taken = [l \in Lane |-> 0]
  /\ mteRound = [l \in Lane |-> 0]
  /\ mtePc = [l \in Lane |-> "idle"]
  /\ source = [l \in Lane |-> NoGram]
  /\ tile = [l \in Lane |-> NoGram]

-----------------------------------------------------------------------------
(* AIC *)

FreeArrived(s) == \A l \in Lane : free[s][l] > 0

\* One iteration of the round loop of the AIC scalar.
IssueRound ==
  /\ issued < count
  /\ MustWaitFree(issued) => FreeArrived(SlotOf(issued))
  /\ free' = IF MustWaitFree(issued)
             THEN [free EXCEPT ![SlotOf(issued)] = [l \in Lane |-> @[l] - 1]]
             ELSE free
  /\ issued' = issued + 1
  /\ UNCHANGED <<task, fixRound, fixPc, slot, ready, aiv>>

\* Fixpipe of a computed Gram from CO1 to the workspace slot.
StartCommit ==
  /\ fixRound < issued
  /\ fixPc = "idle"
  /\ Computed(fixRound)
  /\ fixPc' = "writing"
  /\ slot' = [slot EXCEPT ![SlotOf(fixRound)] = Torn]
  /\ UNCHANGED <<task, issued, fixRound, ready, free, aiv>>

FinishCommit ==
  /\ fixPc = "writing"
  /\ fixPc' = "written"
  /\ slot' = [slot EXCEPT ![SlotOf(fixRound)] = fixRound]
  /\ UNCHANGED <<task, issued, fixRound, ready, free, aiv>>

\* What PIPE_FIX has to have done before the READY flag of round r is set.
CommitDone(r) == IF Computed(r) THEN fixPc = "written" ELSE fixPc = "idle"

SetReady ==
  /\ fixRound < issued
  /\ CommitDone(fixRound)
  /\ ready' = [ready EXCEPT ![SlotOf(fixRound)] = [l \in Lane |-> @[l] + 1]]
  /\ fixRound' = fixRound + 1
  /\ fixPc' = "idle"
  /\ UNCHANGED <<task, issued, slot, free, aiv>>

-----------------------------------------------------------------------------
(* AIV lane l *)

\* CrossCoreWaitFlag(READY): every lane consumes every READY, work or not.
TakeReady(l) ==
  /\ taken[l] < count
  /\ ready[SlotOf(taken[l])][l] > 0
  /\ ready' = [ready EXCEPT ![SlotOf(taken[l])][l] = @ - 1]
  /\ taken' = [taken EXCEPT ![l] = @ + 1]
  /\ UNCHANGED <<task, aic, slot, free, mteRound, mtePc, source, tile>>

\* The KKT copy of BeginLoadKktSlot().
StartLoad(l) ==
  /\ mteRound[l] < taken[l]
  /\ mtePc[l] = "idle"
  /\ Works(l, mteRound[l])
  /\ mtePc' = [mtePc EXCEPT ![l] = "loading"]
  /\ source' = [source EXCEPT ![l] = slot[SlotOf(mteRound[l])]]
  /\ UNCHANGED <<task, aic, slot, ready, free, taken, mteRound, tile>>

\* A slot rewritten while the copy ran leaves a mixture in UB.
FinishLoad(l) ==
  /\ mtePc[l] = "loading"
  /\ mtePc' = [mtePc EXCEPT ![l] = "loaded"]
  /\ tile' = [tile EXCEPT ![l] =
                IF slot[SlotOf(mteRound[l])] = source[l] THEN source[l] ELSE Torn]
  /\ UNCHANGED <<task, aic, slot, ready, free, taken, mteRound, source>>

\* What PIPE_MTE2 has to have done before the FREE flag of round r is set.
LoadDone(l, r) == IF Works(l, r) THEN mtePc[l] = "loaded" ELSE mtePc[l] = "idle"

\* CompleteKktLoadAndReleaseSlot(), and the release of a lane without work.
ReleaseSlot(l) ==
  /\ mteRound[l] < taken[l]
  /\ LoadDone(l, mteRound[l])
  /\ free' = IF WillReuseSlot(mteRound[l])
             THEN [free EXCEPT ![SlotOf(mteRound[l])][l] = @ + 1]
             ELSE free
  /\ mteRound' = [mteRound EXCEPT ![l] = @ + 1]
  /\ mtePc' = [mtePc EXCEPT ![l] = "idle"]
  /\ UNCHANGED <<task, aic, slot, ready, taken, source, tile>>

-----------------------------------------------------------------------------

Fix == StartCommit \/ FinishCommit \/ SetReady
Mte2(l) == StartLoad(l) \/ FinishLoad(l) \/ ReleaseSlot(l)

Done ==
  /\ issued = count
  /\ fixRound = count
  /\ \A l \in Lane : taken[l] = count /\ mteRound[l] = count

\* The group has finished: its three slices return.
Finished == Done /\ UNCHANGED vars

Next ==
  \/ IssueRound
  \/ Fix
  \/ \E l \in Lane : TakeReady(l) \/ Mte2(l)
  \/ Finished

(***************************************************************************)
(* Each scalar and each pipe makes progress whenever it can: the Host      *)
(* selects the batch schedule mode so that the three slices of a group are *)
(* resident together, and nothing preempts them.                           *)
(***************************************************************************)
Fairness ==
  /\ WF_vars(IssueRound)
  /\ WF_vars(Fix)
  /\ \A l \in Lane : WF_vars(TakeReady(l)) /\ WF_vars(Mte2(l))

SafeSpec == Init /\ [][Next]_vars
Spec == SafeSpec /\ Fairness

-----------------------------------------------------------------------------
(* Properties *)

Rounds == 0 .. count - 1

TypeOK ==
  /\ count \in Nat
  /\ chunkLen \in [Rounds -> Int]
  /\ repeat \in Nat \ {0}
  /\ issued \in Nat
  /\ fixRound \in Nat
  /\ fixPc \in {"idle", "writing", "written"}
  /\ slot \in [Slot -> Rounds \cup {NoGram, Torn}]
  /\ ready \in [Slot -> [Lane -> Nat]]
  /\ free \in [Slot -> [Lane -> Nat]]
  /\ taken \in [Lane -> Nat]
  /\ mteRound \in [Lane -> Nat]
  /\ mtePc \in [Lane -> {"idle", "loading", "loaded"}]
  /\ source \in [Lane -> Rounds \cup {NoGram, Torn}]
  /\ tile \in [Lane -> Rounds \cup {NoGram, Torn}]

\* The Fixpipe never writes a workspace slot while an AIV copies it to UB.
NoSlotRace ==
  fixPc = "writing" =>
    \A l \in Lane : mtePc[l] = "loading" =>
      SlotOf(mteRound[l]) # SlotOf(fixRound)

\* A completed KKT copy brought the Gram of the very round the lane is in:
\* not the one the slot held before, not a later one, not a mixture.
OwnGram == \A l \in Lane : mtePc[l] = "loaded" => tile[l] = mteRound[l]

\* No flag is set again before it was consumed ("avoids consecutive Set
\* operations on the same CrossCore counter", chunk_scaled_dot_kkt.h:41-42).
FlagsBinary == \A s \in Slot, l \in Lane : ready[s][l] <= 1 /\ free[s][l] <= 1

\* A finished group leaves every flag at zero for the next launch, malformed
\* chunks and lanes without rows included.
FlagsBalanced ==
  Done => \A s \in Slot, l \in Lane : ready[s][l] = 0 /\ free[s][l] = 0

\* Every group finishes: neither side waits for a flag nobody sets.
Termination == <>Done

\* The group hands every Gram over as KktHandoff specifies.
Handoff == INSTANCE KktHandoff WITH
  users    <- [r \in Rounds |-> {l \in Lane : Works(l, r)}],
  claimed  <- IF fixPc = "idle" THEN fixRound ELSE fixRound + 1,
  produced <- fixRound,
  received <- [l \in Lane |->
                IF mtePc[l] = "loaded" THEN mteRound[l] + 1 ELSE mteRound[l]]

HandoffSpec == Handoff!Spec

-----------------------------------------------------------------------------
(***************************************************************************)
(* The inductive invariant behind NoSlotRace, OwnGram, FlagsBinary and     *)
(* FlagsBalanced: the actors of a group stay in the order MTE2 <= AIV      *)
(* scalar <= FIX <= AIC scalar <= MTE2 + SLOT_COUNT, and each flag counter *)
(* is determined by the distance of the two actors it connects.            *)
(***************************************************************************)
ActorOrder ==
  /\ fixRound <= issued
  /\ issued <= count
  /\ fixPc # "idle" => fixRound < issued /\ Computed(fixRound)
  /\ \A l \in Lane :
       /\ mteRound[l] <= taken[l]
       /\ taken[l] <= fixRound
       /\ issued <= mteRound[l] + SLOT_COUNT
       /\ mtePc[l] # "idle" => mteRound[l] < taken[l] /\ Works(l, mteRound[l])

ReadyCount == \A s \in Slot, l \in Lane :
  ready[s][l] = IF \E r \in {taken[l], taken[l] + 1} : r < fixRound /\ SlotOf(r) = s
                THEN 1 ELSE 0

FreeCount == \A s \in Slot, l \in Lane :
  free[s][l] = IF \E r \in {issued - 1, issued - 2} :
                    r >= 0 /\ r < mteRound[l] /\ WillReuseSlot(r) /\ SlotOf(r) = s
               THEN 1 ELSE 0

SlotContent ==
  /\ fixPc = "written" => slot[SlotOf(fixRound)] = fixRound
  /\ \A l \in Lane, r \in Rounds :
       mteRound[l] <= r /\ r < fixRound /\ Computed(r) => slot[SlotOf(r)] = r

TileContent ==
  \A l \in Lane :
    /\ mtePc[l] # "idle" => source[l] = mteRound[l]
    /\ mtePc[l] = "loaded" => tile[l] = mteRound[l]

IInv == TypeOK /\ ActorOrder /\ ReadyCount /\ FreeCount /\ SlotContent /\ TileContent
=============================================================================
