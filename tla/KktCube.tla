-------------------------------- MODULE KktCube --------------------------------
(***************************************************************************)
(* The Cube stage: the AIC of one MIX group computing the Gram of K with   *)
(* itself for every round of the group, PackedGramMmadCubeStageK256 and    *)
(* PackedGramMmadCubeStageK128 of chunk_scaled_dot_kkt.h.                  *)
(*                                                                         *)
(* The scalar unit runs ahead: it issues a round up to the FREE wait, and  *)
(* the rest behind it.  Each pipe executes what has been issued to it in   *)
(* order and is ordered with the others by events only, which are counters *)
(* (a wait takes one signal).  PIPE_MTE2 brings the chunk's K into the one *)
(* L1 tile, PIPE_MTE1 loads it part by part into the L0A and L0B stages,   *)
(* PIPE_M multiplies and accumulates in CO1, PIPE_FIX writes CO1 to the    *)
(* workspace slot and announces it.  The variants differ in how the L0     *)
(* stages are handed back: K256 drains all four once per round, K128 keeps *)
(* an event per stage and operand, set before and drained after a round.   *)
(*                                                                         *)
(* Contents are tracked by origin: L1 and the stages hold the rounds whose *)
(* rows lie in them (a tail chunk overwrites only its own rows), CO1 and a *)
(* slot the parts accumulated, each with the rows of both operands.        *)
(*                                                                         *)
(* The two AIVs are reduced to one consumer that takes the rounds in order *)
(* and frees a slot when it will be reused, as KktPipeline details.        *)
(***************************************************************************)
EXTENDS KktTask, Sequences

CONSTANTS Walks,   \* chunk lengths of the rounds of a group: sequences
          KDims    \* head dimensions, tiling->kDim

ASSUME CubeAssumption ==
  /\ Walks \subseteq Seq(Int)
  /\ KDims \subseteq {128, 256}

K_STEP == 64

VARIABLES
  kDim, chunkLen,  \* the variant and the rounds, fixed from the start
  started,   \* rounds whose K copy and multiplications have been issued
  issued,    \* rounds whose commit and READY have been issued
  finished,  \* DrainPersistentEvents has been issued
  mte2Round, mte2Pc,             \* where each pipe is: its round, in it the part,
  mte1Round, mte1Part, mte1Pc,   \* and what it does or waits to do
  mRound, mPart, mPc,
  fixRound, fixPc,
  l1Free, l1Loaded,   \* MTE1_MTE2 and MTE2_MTE1 of SHARED_L1_EVENT
  stageLoaded,        \* MTE1_M
  aFree, bFree,       \* M_MTE1 of the L0A and L0B stages, K128
  l0Drain,            \* M_MTE1 of TASK_L0_DRAIN_EVENT, K256
  co1Free, co1Done,   \* FIX_M and M_FIX
  ready, free,        \* cross-core flags of each slot
  l1, l0a, l0b, co1, slot,   \* the buffers
  taken,     \* rounds whose READY the AIVs have consumed
  released   \* rounds the AIVs have finished copying

work   == <<kDim, chunkLen>>
scalar == <<started, issued, finished>>
mte2   == <<mte2Round, mte2Pc>>
mte1   == <<mte1Round, mte1Part, mte1Pc>>
m      == <<mRound, mPart, mPc>>
fix    == <<fixRound, fixPc>>
l1Ev   == <<l1Free, l1Loaded>>
l0Ev   == <<stageLoaded, aFree, bFree, l0Drain>>
co1Ev  == <<co1Free, co1Done>>
cross  == <<ready, free>>
memory == <<l1, l0a, l0b, co1, slot>>
aiv    == <<taken, released>>
vars   == <<work, scalar, mte2, mte1, m, fix, l1Ev, l0Ev, co1Ev, cross, memory, aiv>>

K_PARTS == kDim \div K_STEP
Part == 0 .. K_PARTS - 1   \* also the L0 stage the part is loaded into

TaskCount == Len(chunkLen)
Rounds == 0 .. TaskCount - 1
LenOf(r) == chunkLen[r + 1]
Valid(r) == ValidChunk(0, LenOf(r), BT)
WillReuseSlot(r) == r + SLOT_COUNT < TaskCount

PerStage == kDim = 128   \* the K128 protocol for the L0 stages

\* Seeded fault of MustWaitFree: off by one round.
MustWaitFreeEarly(r) == r >= SLOT_COUNT - 1

\* localRound >= SLOT_COUNT
MustWaitFree(r) == r >= SLOT_COUNT

-----------------------------------------------------------------------------
\* InitPersistentEvents() has signalled the ownership of L1 and of CO1.
Init ==
  /\ kDim \in KDims
  /\ chunkLen \in Walks
  /\ started = 0 /\ issued = 0 /\ finished = FALSE
  /\ mte2Round = 0 /\ mte2Pc = "idle"
  /\ mte1Round = 0 /\ mte1Part = 0 /\ mte1Pc = "A"
  /\ mRound = 0 /\ mPart = 0 /\ mPc = "init"
  /\ fixRound = 0 /\ fixPc = "idle"
  /\ l1Free = 1 /\ l1Loaded = 0
  /\ stageLoaded = 0 /\ l0Drain = 0
  /\ aFree = [p \in Part |-> 0] /\ bFree = [p \in Part |-> 0]
  /\ co1Free = 1 /\ co1Done = 0
  /\ ready = [s \in Slot |-> 0] /\ free = [s \in Slot |-> 0]
  /\ l1 = {} /\ co1 = {}
  /\ l0a = [p \in Part |-> {}] /\ l0b = [p \in Part |-> {}]
  /\ slot = [s \in Slot |-> {}]
  /\ taken = 0 /\ released = 0

-----------------------------------------------------------------------------
(* The scalar unit *)

\* The first half of a round, up to the FREE wait: InitL0Events,
\* CopyPackedKToSharedL1 and ComputeGram are issued.
StartRound ==
  /\ started = issued
  /\ started < TaskCount
  /\ started' = started + 1
  /\ UNCHANGED <<work, issued, finished, mte2, mte1, m, fix, l1Ev, l0Ev, co1Ev, cross,
                 memory, aiv>>

\* The second half: the FREE wait, then CommitWorkspace, READY, FIX_M and
\* DrainL0Events are issued.
FinishRound ==
  LET s == SlotOf(issued)
  IN  /\ issued < started
      /\ MustWaitFree(issued) => free[s] > 0
      /\ free' = IF MustWaitFree(issued) THEN [free EXCEPT ![s] = @ - 1] ELSE free
      /\ issued' = issued + 1
      /\ UNCHANGED <<work, started, finished, mte2, mte1, m, fix, l1Ev, l0Ev, co1Ev, ready,
                     memory, aiv>>

\* DrainPersistentEvents(): MTE2 and M are to take the two ownership tokens back.
DrainPersistentEvents ==
  /\ issued = TaskCount
  /\ ~finished
  /\ finished' = TRUE
  /\ UNCHANGED <<work, started, issued, mte2, mte1, m, fix, l1Ev, l0Ev, co1Ev, cross,
                 memory, aiv>>

Scalar == StartRound \/ FinishRound \/ DrainPersistentEvents

-----------------------------------------------------------------------------
(* PIPE_MTE2: CopyPackedKToSharedL1() *)

\* Seeded fault of NeedsClear: stale rows stay in the tile.
NeedsClearNever(r) == FALSE

\* A tail chunk clears the tile first.
NeedsClear(r) == LenOf(r) < BT

Mte2Only == UNCHANGED <<work, scalar, mte1, m, fix, l0Ev, co1Ev, cross, l0a, l0b, co1, slot, aiv>>

TakeL1 == l1Free > 0 /\ l1Free' = l1Free - 1

StartClearL1 ==
  /\ mte2Round < started
  /\ mte2Pc = "idle" /\ Valid(mte2Round) /\ NeedsClear(mte2Round)
  /\ TakeL1
  /\ mte2Pc' = "clearing"
  /\ UNCHANGED <<mte2Round, l1Loaded, l1>> /\ Mte2Only

FinishClearL1 ==
  /\ mte2Pc = "clearing"
  /\ mte2Pc' = "cleared"
  /\ l1' = {}
  /\ UNCHANGED <<mte2Round, l1Ev>> /\ Mte2Only

StartCopyK ==
  /\ mte2Round < started
  /\ \/ mte2Pc = "cleared" /\ UNCHANGED l1Free
     \/ mte2Pc = "idle" /\ Valid(mte2Round) /\ ~NeedsClear(mte2Round) /\ TakeL1
  /\ mte2Pc' = "copying"
  /\ UNCHANGED <<mte2Round, l1Loaded, l1>> /\ Mte2Only

\* A full chunk overwrites the tile, a tail chunk only its own rows.
FinishCopyK ==
  /\ mte2Pc = "copying"
  /\ mte2Pc' = "idle"
  /\ mte2Round' = mte2Round + 1
  /\ l1' = IF LenOf(mte2Round) = BT THEN {mte2Round} ELSE l1 \cup {mte2Round}
  /\ l1Loaded' = l1Loaded + 1
  /\ UNCHANGED l1Free /\ Mte2Only

\* A malformed round gives PIPE_MTE2 nothing to do.
PassMte2 ==
  /\ mte2Round < started
  /\ mte2Pc = "idle" /\ ~Valid(mte2Round)
  /\ mte2Round' = mte2Round + 1
  /\ UNCHANGED <<mte2Pc, l1Ev, l1>> /\ Mte2Only

DrainL1 ==
  /\ finished
  /\ mte2Round = TaskCount /\ mte2Pc = "idle"
  /\ TakeL1
  /\ mte2Pc' = "drained"
  /\ UNCHANGED <<mte2Round, l1Loaded, l1>> /\ Mte2Only

Mte2 == StartClearL1 \/ FinishClearL1 \/ StartCopyK \/ FinishCopyK \/ PassMte2 \/ DrainL1

-----------------------------------------------------------------------------
(* PIPE_MTE1: the loads of ComputePart() and ComputeOneKPart() *)

Last(p) == p = K_PARTS - 1

Mte1Only == UNCHANGED <<work, scalar, mte2, m, fix, co1Ev, cross, l1, co1, slot, aiv>>

\* LoadKPartToL0A(); the first part waits for the copy of K.
StartLoadA ==
  LET p == mte1Part
  IN  /\ mte1Round < started
      /\ mte1Pc = "A" /\ Valid(mte1Round)
      /\ p = 0 => l1Loaded > 0
      /\ PerStage => aFree[p] > 0
      /\ l1Loaded' = IF p = 0 THEN l1Loaded - 1 ELSE l1Loaded
      /\ aFree' = IF PerStage THEN [aFree EXCEPT ![p] = @ - 1] ELSE aFree
      /\ mte1Pc' = "loadingA"
      /\ UNCHANGED <<mte1Round, mte1Part, l1Free, stageLoaded, bFree, l0Drain, l0a, l0b>>
      /\ Mte1Only

FinishLoadA ==
  /\ mte1Pc = "loadingA"
  /\ mte1Pc' = "B"
  /\ l0a' = [l0a EXCEPT ![mte1Part] = l1]
  /\ UNCHANGED <<mte1Round, mte1Part, l1Ev, l0Ev, l0b>> /\ Mte1Only

\* LoadKPartToL0B().
StartLoadB ==
  LET p == mte1Part
  IN  /\ mte1Pc = "B"
      /\ PerStage => bFree[p] > 0
      /\ bFree' = IF PerStage THEN [bFree EXCEPT ![p] = @ - 1] ELSE bFree
      /\ mte1Pc' = "loadingB"
      /\ UNCHANGED <<mte1Round, mte1Part, l1Ev, stageLoaded, aFree, l0Drain, l0a, l0b>>
      /\ Mte1Only

\* The last load of a round hands L1 back.
FinishLoadB ==
  LET p == mte1Part
  IN  /\ mte1Pc = "loadingB"
      /\ mte1Pc' = IF Last(p) THEN "drain" ELSE "A"
      /\ mte1Part' = IF Last(p) THEN 0 ELSE p + 1
      /\ l0b' = [l0b EXCEPT ![p] = l1]
      /\ stageLoaded' = stageLoaded + 1
      /\ l1Free' = IF Last(p) THEN l1Free + 1 ELSE l1Free
      /\ UNCHANGED <<mte1Round, l1Loaded, aFree, bFree, l0Drain, l0a>>
      /\ Mte1Only

\* PIPE_MTE1 is through with the loads of its round, or has none.
Loaded == mte1Pc = "drain" \/ (mte1Pc = "A" /\ ~Valid(mte1Round))

NextMte1Round ==
  /\ mte1Round' = mte1Round + 1
  /\ mte1Pc' = "A"
  /\ UNCHANGED <<mte1Part, l1Ev, stageLoaded, l0a, l0b>>
  /\ Mte1Only

\* Seeded fault of TakesDrain: PIPE_MTE1 does not wait for the last Mmad.
TakesDrainNever(r) == FALSE
TakesDrain(r) == Valid(r)

\* K256: every stage is writable again before the next round loads.
TaskDrain ==
  /\ ~PerStage
  /\ mte1Round < started
  /\ Loaded
  /\ TakesDrain(mte1Round) => l0Drain > 0
  /\ l0Drain' = IF TakesDrain(mte1Round) THEN l0Drain - 1 ELSE l0Drain
  /\ UNCHANGED <<aFree, bFree>>
  /\ NextMte1Round

\* Seeded fault of DrainL0Events: only the A tokens are taken back.
DrainL0EventsA ==
  /\ PerStage
  /\ mte1Round < issued
  /\ Loaded
  /\ \A p \in Part : aFree[p] > 0
  /\ aFree' = [p \in Part |-> aFree[p] - 1]
  /\ UNCHANGED <<bFree, l0Drain>>
  /\ NextMte1Round

\* K128, issued behind the commit, in malformed rounds too.
DrainL0Events ==
  /\ PerStage
  /\ mte1Round < issued
  /\ Loaded
  /\ \A p \in Part : aFree[p] > 0 /\ bFree[p] > 0
  /\ aFree' = [p \in Part |-> aFree[p] - 1]
  /\ bFree' = [p \in Part |-> bFree[p] - 1]
  /\ UNCHANGED l0Drain
  /\ NextMte1Round

Mte1 == StartLoadA \/ FinishLoadA \/ StartLoadB \/ FinishLoadB \/ TaskDrain \/ DrainL0Events

-----------------------------------------------------------------------------
(* PIPE_M *)

MOnly == UNCHANGED <<work, scalar, mte2, mte1, fix, l1Ev, cross, l1, l0a, l0b, slot, aiv>>

\* InitL0Events() of K128; a malformed round has no more for PIPE_M.
InitL0Events ==
  /\ mRound < started
  /\ mPc = "init"
  /\ IF PerStage
     THEN /\ aFree' = [p \in Part |-> aFree[p] + 1]
          /\ bFree' = [p \in Part |-> bFree[p] + 1]
     ELSE UNCHANGED <<aFree, bFree>>
  /\ mPc' = IF Valid(mRound) THEN "mmad" ELSE "init"
  /\ mRound' = IF Valid(mRound) THEN mRound ELSE mRound + 1
  /\ UNCHANGED <<mPart, stageLoaded, l0Drain, co1Ev, co1>> /\ MOnly

\* Seeded fault of TakesCo1: the first Mmad does not wait for PIPE_FIX.
TakesCo1Never(p) == FALSE

\* The first Mmad of a round waits until PIPE_FIX has handed CO1 back.
TakesCo1(p) == p = 0

StartMmad ==
  /\ mPc = "mmad"
  /\ stageLoaded > 0
  /\ TakesCo1(mPart) => co1Free > 0
  /\ stageLoaded' = stageLoaded - 1
  /\ co1Free' = IF TakesCo1(mPart) THEN co1Free - 1 ELSE co1Free
  /\ mPc' = "running"
  /\ UNCHANGED <<mRound, mPart, aFree, bFree, l0Drain, co1Done, co1>> /\ MOnly

\* cmatrixInitVal: the first part starts a new accumulation.
Initialises(p) == p = 0

\* The stages go back to PIPE_MTE1 one by one or with the last Mmad, which
\* also hands CO1 to PIPE_FIX.
FinishMmad ==
  LET p == mPart
      product == {<<p, l0a[p], l0b[p]>>}
  IN  /\ mPc = "running"
      /\ co1' = IF Initialises(p) THEN product ELSE co1 \cup product
      /\ IF PerStage
         THEN /\ aFree' = [aFree EXCEPT ![p] = @ + 1]
              /\ bFree' = [bFree EXCEPT ![p] = @ + 1]
         ELSE UNCHANGED <<aFree, bFree>>
      /\ IF Last(p)
         THEN /\ mRound' = mRound + 1 /\ mPart' = 0 /\ mPc' = "init"
              /\ l0Drain' = IF PerStage THEN l0Drain ELSE l0Drain + 1
              /\ co1Done' = co1Done + 1
         ELSE /\ mPart' = p + 1 /\ mPc' = "mmad"
              /\ UNCHANGED <<mRound, l0Drain, co1Done>>
      /\ UNCHANGED <<stageLoaded, co1Free>> /\ MOnly

DrainCo1 ==
  /\ finished
  /\ mRound = TaskCount /\ mPc = "init"
  /\ co1Free > 0
  /\ co1Free' = co1Free - 1
  /\ mPc' = "drained"
  /\ UNCHANGED <<mRound, mPart, l0Ev, co1Done, co1>> /\ MOnly

Cube == InitL0Events \/ StartMmad \/ FinishMmad \/ DrainCo1

-----------------------------------------------------------------------------
(* PIPE_FIX *)

FixOnly == UNCHANGED <<work, scalar, mte2, mte1, m, l1Ev, l0Ev, free, l1, l0a, l0b, co1, aiv>>

\* CommitWorkspace(), behind the M_FIX wait that ends ComputeGram().
StartCommit ==
  /\ fixRound < issued
  /\ fixPc = "idle" /\ Valid(fixRound)
  /\ co1Done > 0
  /\ co1Done' = co1Done - 1
  /\ fixPc' = "committing"
  /\ UNCHANGED <<fixRound, co1Free, ready, slot>> /\ FixOnly

FinishCommit ==
  /\ fixPc = "committing"
  /\ fixPc' = "committed"
  /\ slot' = [slot EXCEPT ![SlotOf(fixRound)] = co1]
  /\ UNCHANGED <<fixRound, co1Ev, ready>> /\ FixOnly

SetReady ==
  /\ fixRound < issued
  /\ fixPc = IF Valid(fixRound) THEN "committed" ELSE "idle"
  /\ ready' = [ready EXCEPT ![SlotOf(fixRound)] = @ + 1]
  /\ fixPc' = IF Valid(fixRound) THEN "announced" ELSE "idle"
  /\ fixRound' = IF Valid(fixRound) THEN fixRound ELSE fixRound + 1
  /\ UNCHANGED <<co1Ev, slot>> /\ FixOnly

\* SetFlag<FIX_M>, of a valid round only.
ReturnCo1 ==
  /\ fixPc = "announced"
  /\ fixPc' = "idle"
  /\ fixRound' = fixRound + 1
  /\ co1Free' = co1Free + 1
  /\ UNCHANGED <<co1Done, ready, slot>> /\ FixOnly

Fix == StartCommit \/ FinishCommit \/ SetReady \/ ReturnCo1

-----------------------------------------------------------------------------
(* The AIVs, as the AIC sees them *)

TakeReady ==
  /\ taken < TaskCount
  /\ ready[SlotOf(taken)] > 0
  /\ ready' = [ready EXCEPT ![SlotOf(taken)] = @ - 1]
  /\ taken' = taken + 1
  /\ UNCHANGED <<work, scalar, mte2, mte1, m, fix, l1Ev, l0Ev, co1Ev, free, memory, released>>

ReleaseSlot ==
  /\ released < taken
  /\ free' = IF WillReuseSlot(released) THEN [free EXCEPT ![SlotOf(released)] = @ + 1] ELSE free
  /\ released' = released + 1
  /\ UNCHANGED <<work, scalar, mte2, mte1, m, fix, l1Ev, l0Ev, co1Ev, ready, memory, taken>>

Aiv == TakeReady \/ ReleaseSlot

-----------------------------------------------------------------------------

Done ==
  /\ finished /\ released = TaskCount
  /\ mte2Pc = "drained" /\ mPc = "drained"
  /\ mte1Round = TaskCount /\ fixRound = TaskCount

Finished == Done /\ UNCHANGED vars

Next == Scalar \/ Mte2 \/ Mte1 \/ Cube \/ Fix \/ Aiv \/ Finished

\* The scalar unit, each pipe and the AIVs never stop while they can go on.
Fairness ==
  /\ WF_vars(Scalar) /\ WF_vars(Mte2) /\ WF_vars(Mte1)
  /\ WF_vars(Cube) /\ WF_vars(Fix) /\ WF_vars(Aiv)

SafeSpec == Init /\ [][Next]_vars
Spec == SafeSpec /\ Fairness

-----------------------------------------------------------------------------
(* Properties *)

\* No pipe touches a buffer another one is writing: L1, the L0 stages, CO1,
\* and the slots the AIVs copy.
NoBufferRace ==
  /\ mte2Pc \in {"clearing", "copying"} => mte1Pc \notin {"loadingA", "loadingB"}
  /\ mPc = "running" /\ mPart = mte1Part => mte1Pc \notin {"loadingA", "loadingB"}
  /\ ~(mPc = "running" /\ fixPc = "committing")
  /\ fixPc = "committing" => \A r \in released .. taken - 1 : SlotOf(r) # SlotOf(fixRound)

\* The complete product of a round: every part once, no row of another chunk.
Gram(r) == {<<p, {r}, {r}>> : p \in Part}

\* From its READY until the AIVs have finished copying, the workspace slot of
\* a round holds that round's complete Gram: accumulation, L1 and L0 reuse
\* and the commit of later rounds never show through.
AnnouncedGram ==
  LET announced == taken + ready[0] + ready[1]
  IN  \A r \in released .. announced - 1 : Valid(r) => slot[SlotOf(r)] = Gram(r)

Products == Part \X (SUBSET Rounds) \X (SUBSET Rounds)

ProgressType ==
  /\ started \in 0 .. TaskCount /\ issued \in 0 .. TaskCount /\ finished \in BOOLEAN
  /\ mte2Round \in 0 .. TaskCount /\ mte1Round \in 0 .. TaskCount
  /\ mRound \in 0 .. TaskCount /\ fixRound \in 0 .. TaskCount
  /\ taken \in 0 .. TaskCount /\ released \in 0 .. TaskCount
  /\ mte1Part \in Part /\ mPart \in Part
  /\ mte2Pc \in {"idle", "clearing", "cleared", "copying", "drained"}
  /\ mte1Pc \in {"A", "loadingA", "B", "loadingB", "drain"}
  /\ mPc \in {"init", "mmad", "running", "drained"}
  /\ fixPc \in {"idle", "committing", "committed", "announced"}

EventType ==
  /\ l1Free \in Nat /\ l1Loaded \in Nat /\ stageLoaded \in Nat /\ l0Drain \in Nat
  /\ aFree \in [Part -> Nat] /\ bFree \in [Part -> Nat]
  /\ co1Free \in Nat /\ co1Done \in Nat
  /\ ready \in [Slot -> Nat] /\ free \in [Slot -> Nat]

MemoryType ==
  /\ l1 \in SUBSET Rounds
  /\ l0a \in [Part -> SUBSET Rounds] /\ l0b \in [Part -> SUBSET Rounds]
  /\ co1 \in SUBSET Products /\ slot \in [Slot -> SUBSET Products]

TypeOK == ProgressType /\ EventType /\ MemoryType

\* The events are counters of small range: PIPE_MTE1 runs ahead of PIPE_M by
\* at most the parts of a round, the ownership tokens are unique, and the K256
\* drain token never survives its round.  The K128 tokens are set and drained
\* in malformed rounds too, where nothing holds PIPE_M back, so there only
\* the number of rounds bounds them.
EventRange ==
  /\ TypeOK
  /\ l1Free <= 1 /\ l1Loaded <= 1 /\ co1Free <= 1 /\ co1Done <= 1 /\ l0Drain <= 1
  /\ stageLoaded <= K_PARTS
  /\ \A s \in Slot : ready[s] <= 1 /\ free[s] <= 1
  /\ \A p \in Part :
       LET most == IF \A r \in Rounds : Valid(r) THEN 2 ELSE TaskCount
       IN  aFree[p] <= most /\ bFree[p] <= most

\* A finished AIC leaves no event signalled for the kernel that runs next.
EventsBalanced ==
  Done =>
    /\ l1Free = 0 /\ l1Loaded = 0 /\ stageLoaded = 0 /\ l0Drain = 0
    /\ co1Free = 0 /\ co1Done = 0
    /\ \A p \in Part : aFree[p] = 0 /\ bFree[p] = 0
    /\ \A s \in Slot : ready[s] = 0 /\ free[s] = 0

\* The AIC never waits for a token nobody returns.
Termination == <>Done
=============================================================================
