---------------------------- MODULE KktHarnessProofs ----------------------------
(***************************************************************************)
(* The test program for any number of cases, warm-up and measured launches *)
(* and any call that fails: what is held is released once and in order,    *)
(* the time printed is that of the measured launches, and exit code 0      *)
(* means that every selected case has earned its OK.                       *)
(*                                                                         *)
(* The invariant says for every point of the program which handles are     *)
(* held, whose launches the stream may still have, and how far the device  *)
(* is in the entries of the case at hand.                                  *)
(***************************************************************************)
EXTENDS KktHarness, TLAPS

-----------------------------------------------------------------------------
(* Phases of the program *)

Creating == {"malloc", "copy", "create"}
Streaming == {"warmup", "warmupSync", "createEvents", "recordStart", "measure",
              "recordEnd", "measureSync", "elapsed", "verify"}
Equipped == {"setRepeatable"} \cup Streaming          \* executor and workspace held
Timed == {"recordStart", "measure", "recordEnd", "measureSync", "elapsed", "verify"}
Preparing == Creating \cup {"getWorkspaceSize", "mallocWorkspace", "setRepeatable"}
Running == Preparing \cup Streaming                   \* the case has not failed
Ending == {"release", "destructors"}
Between == {"options", "init", "setDevice", "createStream", "nextCase",
            "destroyStream", "resetDevice", "finalize", "exited"}
Before == {"options", "init", "setDevice", "createStream"}
PC == Between \cup Running \cup Ending

-----------------------------------------------------------------------------
(* The invariant *)

Held == {h \in Handles : live[h] = 1}
AddrOf(i) == Addr(TensorNames[i])
TensorOf(i) == Tensor(TensorNames[i])
FirstTensors(n) == {AddrOf(i) : i \in 1 .. n} \cup {TensorOf(i) : i \in 1 .. n}
Workspace == IF tc.workspace THEN {WORKSPACE} ELSE {}

\* What main() holds at each of its points, and during a case.
RuntimeHeld ==
  IF pc \in {"options", "init", "exited"} THEN {}
  ELSE IF pc \in {"setDevice", "finalize"} THEN {ACL}
  ELSE IF pc \in {"createStream", "resetDevice"} THEN {ACL, DEVICE}
  ELSE {ACL, DEVICE, STREAM}

\* What RunOneCase() holds before it has failed.
CaseHeld ==
  IF pc = "malloc" THEN FirstTensors(made)
  ELSE IF pc \in {"copy", "create"} THEN FirstTensors(made) \cup {AddrOf(made + 1)}
  ELSE IF pc = "getWorkspaceSize" THEN TensorHandles
  ELSE IF pc = "mallocWorkspace" THEN TensorHandles \cup {EXECUTOR}
  ELSE IF pc \in Timed THEN TensorHandles \cup {EXECUTOR, START, END} \cup Workspace
  ELSE TensorHandles \cup {EXECUTOR} \cup Workspace

LiveInv ==
  /\ live \in [Handles -> {0, 1}]
  /\ pc \in Between => Held = RuntimeHeld
  /\ pc \in Running => Held = RuntimeHeld \cup CaseHeld
  /\ pc = "mallocWorkspace" => tc.workspace
  /\ pc = "release" =>
       /\ RuntimeHeld \cup TensorHandles \cup {EXECUTOR} \cup Workspace \subseteq Held
       /\ WORKSPACE \in Held => tc.workspace
  /\ pc = "destructors" =>
       /\ RuntimeHeld \subseteq Held
       /\ EXECUTOR \notin Held /\ WORKSPACE \notin Held
       /\ \A i \in 1 .. 5 : TensorOf(i) \in Held => AddrOf(i) \in Held

TypeInv ==
  /\ pc \in PC
  /\ tc \in Cases
  /\ made \in Nat
  /\ pc \in Creating => made \in 0 .. 4
  /\ caseNo \in 0 .. Selected
  /\ failed \subseteq 1 .. caseNo
  /\ finished \in Nat /\ timed \in 0 .. finished
  /\ timing \in {"no", "running", "stopped"}
  /\ output \in {"poison", "right", "wrong"}

\* The verdicts: a case counts once it is over, and only if it is good.
VerdictInv ==
  /\ passed \in 0 .. caseNo /\ good = passed
  /\ pc \in Running \cup Ending => caseNo > 0
  /\ pc \in Running => caseNo \notin failed
  /\ pc \in Running \cup {"release"} => passed < caseNo
  /\ pc \in Before => caseNo = 0
  /\ pc \in {"destroyStream", "resetDevice", "finalize"} => caseNo = Selected
  /\ pc # "exited" => ret = 0
  /\ ret \in {0, 1, 2, ACL_ERROR}
  /\ pc = "exited" /\ caseNo > 0 => (ret = 0 <=> passed = Selected)

Entry == [op : {"launch", "start", "end"}, case : Nat]

\* Whatever is not of the case at hand is left over from failed ones.
QueueInv ==
  /\ queue \in Seq(Entry)
  /\ \A i \in 1 .. Len(queue) :
       \/ queue[i].case \in failed
       \/ queue[i].case = caseNo /\ pc \in Streaming
  /\ pc \in Preparing => finished = 0 /\ timed = 0 /\ timing = "no"
  /\ pc \in {"mallocWorkspace", "setRepeatable", "warmupSync", "createEvents", "recordStart", 
             "recordEnd", "measureSync"} => made = 0
  /\ pc \in {"createEvents", "recordStart", "elapsed", "verify"} => queue = << >>
  /\ pc \in Ending /\ Success => queue = << >>
  /\ pc = "release" /\ Success => Earned

\* Launches of the warm-up that were queued, and where they are.
WarmupInv ==
  LET launched == IF pc = "warmup" THEN made ELSE tc.warmup
      pending == launched - finished
  IN  pc \in {"warmup", "warmupSync", "createEvents", "recordStart"} =>
        /\ timing = "no" /\ timed = 0
        /\ launched <= tc.warmup
        /\ pending \in 0 .. Len(queue)
        /\ \A i \in 1 .. Len(queue) :
             IF i > Len(queue) - pending
             THEN queue[i] = [op |-> "launch", case |-> caseNo]
             ELSE queue[i].case # caseNo

\* The measurement as the stream is given it: start, launches, end.
Launched == IF pc = "measure" THEN made ELSE tc.repeat
MeasureLen == IF pc = "measureSync" THEN Launched + 2 ELSE Launched + 1
OpAt(i) == IF i = 1 THEN "start" ELSE IF i <= Launched + 1 THEN "launch" ELSE "end"

MeasureInv ==
  LET done == MeasureLen - Len(queue)
  IN  /\ pc \in {"measure", "recordEnd", "measureSync"} =>
           /\ Launched <= tc.repeat
           /\ done \in 0 .. MeasureLen
           /\ \A i \in 1 .. Len(queue) :
                queue[i] = [op |-> OpAt(done + i), case |-> caseNo]
           /\ timed = IF done = 0 THEN 0 ELSE IF done > Launched + 1 THEN Launched ELSE done - 1
           /\ timing = IF done = 0 THEN "no" ELSE IF done > Launched + 1 THEN "stopped" ELSE "running"
           /\ finished = tc.warmup + timed
      /\ pc \in {"elapsed", "verify"} =>
           timing = "stopped" /\ timed = tc.repeat /\ finished = tc.warmup + tc.repeat

IInv == TypeInv /\ LiveInv /\ VerdictInv /\ QueueInv /\ WarmupInv /\ MeasureInv

-----------------------------------------------------------------------------
(* Types and verdicts *)

LEMMA InitType == Init => TypeInv /\ VerdictInv
  BY HarnessAssumption DEF Init, TypeInv, VerdictInv, PC, Between, Running, Preparing,
    Creating, Streaming, Ending, Before

\* Only cases that were begun fail.
LEMMA FailedGrows ==
  ASSUME TypeInv, VerdictInv, UNCHANGED caseNo,
         UNCHANGED failed \/ (pc \in Running /\ failed' = failed \cup {caseNo})
  PROVE  failed' \subseteq 1 .. caseNo'
  <1>1. caseNo \in Nat /\ failed \subseteq 1 .. caseNo
    BY HarnessAssumption DEF TypeInv
  <1>2. pc \in Running => caseNo \in 1 .. caseNo
    BY <1>1 DEF VerdictInv
  <1>3. CASE UNCHANGED failed
    BY <1>1, <1>3
  <1>4. CASE pc \in Running /\ failed' = failed \cup {caseNo}
    BY <1>1, <1>2, <1>4
  <1> QED BY <1>3, <1>4

LEMMA TypeStep == TypeInv /\ VerdictInv /\ Next => TypeInv'
  <1> SUFFICES ASSUME TypeInv, VerdictInv, Next PROVE TypeInv'
    OBVIOUS
  <1>0. pc \in Running => caseNo > 0
    BY DEF VerdictInv
  <1> USE <1>0 DEF TypeInv, PC, Between, Running, Preparing, Creating, Streaming, Ending, Goto, Fail
  <1>1. CASE ParseOptions
    BY <1>1 DEF ParseOptions, deviceVars
  <1>2. CASE Open
    BY <1>2 DEF Open, AclInit, SetDevice, CreateStream, OpenUnwinding, deviceVars
  <1>3. CASE Close
    BY <1>3 DEF Close, deviceVars
  <1>4. CASE NextCase
    <2>1. CASE caseNo = Selected
      BY <1>4, <2>1 DEF NextCase, deviceVars
    <2>2. CASE caseNo # Selected
      <3>1. caseNo' \in 0 .. Selected /\ caseNo' = caseNo + 1 /\ caseNo' \in 1 .. caseNo'
        BY <1>4, <2>2, HarnessAssumption DEF NextCase
      <3>2. 1 .. caseNo \subseteq 1 .. caseNo'
        BY <3>1, HarnessAssumption
      <3>3. failed' = failed \/ failed' = failed \cup {caseNo'}
        BY <1>4, <2>2 DEF NextCase
      <3>4. failed' \subseteq 1 .. caseNo'
        BY <3>1, <3>2, <3>3
      <3> QED BY <1>4, <2>2, <3>1, <3>4 DEF NextCase
    <2> QED BY <2>1, <2>2
  <1>5. CASE Acquire
    <2>1. UNCHANGED <<tc, caseNo, finished, timed, timing, output>>
      BY <1>5 DEF Acquire, deviceVars
    <2>2. UNCHANGED failed \/ (pc \in Running /\ failed' = failed \cup {caseNo})
      BY <1>5 DEF Acquire, CreateTensor, GetWorkspaceSize, MallocWorkspace, SetRepeatable
    <2>3. pc' \in PC /\ made' \in Nat /\ (pc' \in Creating => made' \in 0 .. 4)
      BY <1>5 DEF Acquire, CreateTensor, GetWorkspaceSize, MallocWorkspace, SetRepeatable
    <2> QED BY <2>1, <2>2, <2>3, FailedGrows
  <1>6. CASE CreateEvents
    <2>1. UNCHANGED <<tc, caseNo, made, finished, timed, timing, output>>
      BY <1>6 DEF CreateEvents, deviceVars
    <2>2. UNCHANGED failed \/ (pc \in Running /\ failed' = failed \cup {caseNo})
      BY <1>6 DEF CreateEvents
    <2>3. pc' \in PC \ Creating
      BY <1>6 DEF CreateEvents
    <2> QED BY <2>1, <2>2, <2>3, FailedGrows
  <1>7. CASE Stream
    <2>1. UNCHANGED <<tc, caseNo, finished, timed, timing, output>>
      BY <1>7 DEF Stream
    <2>2. UNCHANGED failed \/ (pc \in Running /\ failed' = failed \cup {caseNo})
      BY <1>7 DEF Stream, Warmup, Measure, LaunchLoop, Record
    <2>3. pc' \in PC /\ made' \in Nat /\ (pc' \in Creating => made' \in 0 .. 4)
      BY <1>7 DEF Stream, Warmup, Measure, LaunchLoop, Record
    <2> QED BY <2>1, <2>2, <2>3, FailedGrows
  <1>8. CASE Judge
    BY <1>8 DEF Judge, Synchronize, AfterSync, Elapsed, Verify, deviceVars
  <1>9. CASE Dispose
    BY <1>9 DEF Dispose, Release, Destructors, deviceVars
  <1>10. CASE SynchronizeFails
    BY <1>10 DEF SynchronizeFails, AfterSync, deviceVars
  <1>11. CASE Device
    BY <1>11 DEF Device
  <1>12. CASE Exited
    BY <1>12 DEF Exited, vars
  <1> QED BY <1>1, <1>2, <1>3, <1>4, <1>5, <1>6, <1>7, <1>8, <1>9, <1>10, <1>11, <1>12
       DEF Next, Host

\* A case is counted at its release only, and only if it has not failed.
LEMMA VerdictStep == TypeInv /\ VerdictInv /\ QueueInv /\ Next => VerdictInv'
  <1> SUFFICES ASSUME TypeInv, VerdictInv, QueueInv, Next PROVE VerdictInv'
    OBVIOUS
  <1> USE HarnessAssumption
      DEF VerdictInv, TypeInv, PC, Between, Running, Preparing, Creating, Streaming, Ending,
        Before, Goto, Fail
  <1>1. CASE ParseOptions
    BY <1>1 DEF ParseOptions
  <1>2. CASE Open
    BY <1>2 DEF Open, AclInit, SetDevice, CreateStream, OpenUnwinding, ACL_ERROR
  <1>3. CASE Close
    BY <1>3 DEF Close
  <1>4. CASE NextCase
    BY <1>4 DEF NextCase
  <1>5. CASE Acquire
    <2>1. CASE CreateTensor
      BY <1>5, <2>1 DEF Acquire, CreateTensor
    <2>2. CASE GetWorkspaceSize \/ MallocWorkspace \/ SetRepeatable
      BY <1>5, <2>2 DEF Acquire, GetWorkspaceSize, MallocWorkspace, SetRepeatable
    <2> QED BY <1>5, <2>1, <2>2 DEF Acquire
  <1>6. CASE CreateEvents
    BY <1>6 DEF CreateEvents
  <1>7. CASE Stream
    BY <1>7 DEF Stream, Warmup, Measure, LaunchLoop, Record
  <1>8. CASE Judge
    BY <1>8 DEF Judge, Synchronize, AfterSync, Elapsed, Verify
  <1>9. CASE Dispose
    BY <1>9 DEF Dispose, Release, Destructors, QueueInv, Success
  <1>10. CASE SynchronizeFails
    BY <1>10 DEF SynchronizeFails, AfterSync
  <1>11. CASE Device
    BY <1>11 DEF Device
  <1>12. CASE Exited
    BY <1>12 DEF Exited, vars
  <1> QED BY <1>1, <1>2, <1>3, <1>4, <1>5, <1>6, <1>7, <1>8, <1>9, <1>10, <1>11, <1>12
       DEF Next, Host

-----------------------------------------------------------------------------
(* Handles *)

RuntimeHandles == {ACL, DEVICE, STREAM}
Events == {START, END}

\* The handles of different kinds and names differ.
LEMMA HandlesDiffer ==
  /\ ACL # DEVICE /\ ACL # STREAM /\ DEVICE # STREAM
  /\ EXECUTOR # WORKSPACE /\ START # END
  /\ \A h \in RuntimeHandles : h \notin TensorHandles \cup {EXECUTOR, WORKSPACE, START, END}
  /\ \A h \in {EXECUTOR, WORKSPACE} : h \notin TensorHandles \cup {START, END}
  /\ \A h \in {START, END} : h \notin TensorHandles
  BY DEF ACL, DEVICE, STREAM, EXECUTOR, WORKSPACE, START, END, RuntimeHandles,
    TensorHandles, Addr, Tensor

LEMMA TensorsDiffer ==
  /\ \A i, j \in 1 .. 5 : AddrOf(i) # TensorOf(j)
  /\ \A i, j \in 1 .. 5 : AddrOf(i) = AddrOf(j) => i = j
  /\ \A i, j \in 1 .. 5 : TensorOf(i) = TensorOf(j) => i = j
  BY DEF AddrOf, TensorOf, Addr, Tensor, TensorNames

\* The tensors are created one by one, five in all.
LEMMA FirstOnes ==
  /\ FirstTensors(0) = {}
  /\ FirstTensors(5) = TensorHandles
  /\ \A n \in 0 .. 4 : /\ FirstTensors(n) \subseteq TensorHandles
                       /\ AddrOf(n + 1) \notin FirstTensors(n)
                       /\ TensorOf(n + 1) \notin FirstTensors(n) \cup {AddrOf(n + 1)}
                       /\ AddrOf(n + 1) \in TensorHandles /\ TensorOf(n + 1) \in TensorHandles
                       /\ FirstTensors(n + 1)
                            = FirstTensors(n) \cup {AddrOf(n + 1), TensorOf(n + 1)}
  <1>1. FirstTensors(0) = {}
    BY DEF FirstTensors
  <1>2. FirstTensors(5) = TensorHandles
    BY DEF FirstTensors, TensorHandles, AddrOf, TensorOf
  <1>3. ASSUME NEW n \in 0 .. 4
        PROVE  /\ n + 1 \in 1 .. 5 /\ n + 1 \notin 1 .. n
               /\ 1 .. n \subseteq 1 .. 5 /\ 1 .. (n + 1) = (1 .. n) \cup {n + 1}
    OBVIOUS
  <1>4. ASSUME NEW n \in 0 .. 4
        PROVE  /\ FirstTensors(n) \subseteq TensorHandles
               /\ AddrOf(n + 1) \notin FirstTensors(n)
               /\ TensorOf(n + 1) \notin FirstTensors(n) \cup {AddrOf(n + 1)}
    BY <1>2, <1>3, TensorsDiffer DEF FirstTensors
  <1>5. ASSUME NEW n \in 0 .. 4
        PROVE  /\ AddrOf(n + 1) \in TensorHandles /\ TensorOf(n + 1) \in TensorHandles
    BY <1>2, <1>3 DEF FirstTensors
  <1>6. ASSUME NEW n \in 0 .. 4
        PROVE  FirstTensors(n + 1) = FirstTensors(n) \cup {AddrOf(n + 1), TensorOf(n + 1)}
    BY <1>3 DEF FirstTensors
  <1> QED BY <1>1, <1>2, <1>4, <1>5, <1>6

\* A step of the set of held handles.
LEMMA CreatedHeld ==
  ASSUME live \in [Handles -> {0, 1}], NEW S \in SUBSET Handles, S \cap Held = {},
         live' = Created(S)
  PROVE  live' \in [Handles -> {0, 1}] /\ Held' = Held \cup S
  BY DEF Held, Created

LEMMA ReleasedHeld ==
  ASSUME live \in [Handles -> {0, 1}], NEW S \in SUBSET Held, live' = Released(S)
  PROVE  live' \in [Handles -> {0, 1}] /\ Held' = Held \ S
  BY DEF Held, Released

LEMMA ExistingHeld ==
  ASSUME live \in [Handles -> {0, 1}], NEW S \in SUBSET Handles
  PROVE  Existing(S) = S \cap Held
  BY DEF Held, Existing, Holds

LEMMA HandlesKnown ==
  /\ Handles = RuntimeHandles \cup TensorHandles \cup {EXECUTOR, WORKSPACE, START, END}
  BY DEF Handles, CaseHandles, RuntimeHandles

-----------------------------------------------------------------------------
(* What is held at each point of the program *)

LEMMA InitLive == Init => LiveInv
  <1> SUFFICES ASSUME Init PROVE LiveInv
    OBVIOUS
  <1>1. live = [h \in Handles |-> 0] /\ pc = "options"
    BY DEF Init
  <1>2. live \in [Handles -> {0, 1}] /\ Held = {}
    BY <1>1 DEF Held
  <1> QED BY <1>1, <1>2 DEF LiveInv, RuntimeHeld, Running, Preparing, Creating, Streaming

LEMMA OpenLive == TypeInv /\ LiveInv /\ Open => LiveInv'
  <1> SUFFICES ASSUME TypeInv, LiveInv, Open PROVE LiveInv'
    OBVIOUS
  <1> USE DEF LiveInv, RuntimeHeld, Between, Running, Preparing, Creating, Streaming, Open,
        OpenUnwinding, Goto
  <1>1. CASE AclInit
    <2>1. Held = {} /\ {ACL} \in SUBSET Handles /\ {} \in SUBSET Held
      BY <1>1, HandlesKnown DEF AclInit, RuntimeHandles
    <2> QED BY <1>1, <2>1, CreatedHeld, ReleasedHeld DEF AclInit
  <1>2. CASE SetDevice
    <2>1. Held = {ACL} /\ {DEVICE} \in SUBSET Handles /\ {DEVICE} \cap Held = {}
      BY <1>2, HandlesKnown, HandlesDiffer DEF SetDevice, RuntimeHandles
    <2>2. live \in [Handles -> {0, 1}] /\ {ACL} \in SUBSET Held
      BY <2>1
    <2>3. CASE live' = Created({DEVICE})
      <3>1. live' \in [Handles -> {0, 1}] /\ Held' = Held \cup {DEVICE}
        BY <2>1, <2>2, <2>3, CreatedHeld
      <3>2. CASE pc' = "exited" /\ live' = Released({ACL})
        BY <2>1, <2>2, <3>2, ReleasedHeld
      <3> QED BY <1>2, <2>1, <3>1, <3>2 DEF SetDevice
    <2>4. CASE live' = Released({ACL}) /\ pc' = "exited"
      BY <2>1, <2>2, <2>4, ReleasedHeld
    <2> QED BY <1>2, <2>3, <2>4 DEF SetDevice
  <1>3. CASE CreateStream
    <2>1. Held = {ACL, DEVICE} /\ {STREAM} \in SUBSET Handles /\ {STREAM} \cap Held = {}
      BY <1>3, HandlesKnown, HandlesDiffer DEF CreateStream, RuntimeHandles
    <2>2. live \in [Handles -> {0, 1}] /\ {DEVICE, ACL} \in SUBSET Held
      BY <2>1
    <2>3. CASE live' = Created({STREAM})
      <3>1. live' \in [Handles -> {0, 1}] /\ Held' = Held \cup {STREAM}
        BY <2>1, <2>2, <2>3, CreatedHeld
      <3>2. CASE pc' = "exited" /\ live' = Released({DEVICE, ACL})
        BY <2>1, <2>2, <3>2, ReleasedHeld
      <3> QED BY <1>3, <2>1, <3>1, <3>2 DEF CreateStream
    <2>4. CASE live' = Released({DEVICE, ACL}) /\ pc' = "exited"
      BY <2>1, <2>2, <2>4, ReleasedHeld
    <2> QED BY <1>3, <2>3, <2>4 DEF CreateStream
  <1> QED BY <1>1, <1>2, <1>3

LEMMA CloseLive == TypeInv /\ LiveInv /\ Close => LiveInv'
  <1> SUFFICES ASSUME TypeInv, LiveInv, Close PROVE LiveInv'
    OBVIOUS
  <1> USE DEF LiveInv, RuntimeHeld, Between, Running, Preparing, Creating, Streaming, Close, Goto
  <1>1. CASE pc = "destroyStream"
    <2>1. Held = {ACL, DEVICE, STREAM} /\ Held \ {STREAM} = {ACL, DEVICE}
      BY <1>1, HandlesDiffer
    <2> QED BY <1>1, <2>1, ReleasedHeld
  <1>2. CASE pc = "resetDevice"
    <2>1. Held = {ACL, DEVICE} /\ Held \ {DEVICE} = {ACL}
      BY <1>2, HandlesDiffer
    <2> QED BY <1>2, <2>1, ReleasedHeld
  <1>3. CASE pc = "finalize"
    BY <1>3, ReleasedHeld
  <1> QED BY <1>1, <1>2, <1>3

LEMMA NextCaseLive == TypeInv /\ LiveInv /\ NextCase => LiveInv'
  <1> SUFFICES ASSUME TypeInv, LiveInv, NextCase PROVE LiveInv'
    OBVIOUS
  <1>1. Held' = Held /\ live' = live /\ live \in [Handles -> {0, 1}] /\ pc = "nextCase"
    BY DEF NextCase, Held, LiveInv
  <1>2. Held = {ACL, DEVICE, STREAM}
    BY <1>1 DEF LiveInv, RuntimeHeld, Between
  <1>3. CASE pc' = "malloc" /\ made' = 0
    BY <1>1, <1>2, <1>3, FirstOnes DEF LiveInv, RuntimeHeld, CaseHeld, Between, Running,
      Preparing, Creating, FirstTensors, AddrOf, TensorOf
  <1>4. CASE pc' \in {"nextCase", "destroyStream"}
    BY <1>1, <1>2, <1>4 DEF LiveInv, RuntimeHeld, Between, Running, Preparing, Creating, Streaming
  <1> QED BY <1>3, <1>4 DEF NextCase, Goto

\* A case that fails while it creates its tensors leaves only these.
LEMMA GivenUpLive ==
  ASSUME LiveInv, pc' = "destructors", {ACL, DEVICE, STREAM} \subseteq Held',
         live' \in [Handles -> {0, 1}], EXECUTOR \notin Held', WORKSPACE \notin Held',
         \A i \in 1 .. 5 : TensorOf(i) \in Held' => AddrOf(i) \in Held'
  PROVE  LiveInv'
  BY DEF LiveInv, RuntimeHeld, Between, Running, Preparing, Creating, Streaming, AddrOf, TensorOf

\* Unchanged handles at a point where the same ones are held.
LEMMA SameHeld ==
  ASSUME LiveInv, UNCHANGED live
  PROVE  Held' = Held /\ live' \in [Handles -> {0, 1}]
  BY DEF LiveInv, Held

LEMMA CreateTensorLive ==
  TypeInv /\ LiveInv /\ CreateTensor /\ UNCHANGED tc => LiveInv'
  <1> SUFFICES ASSUME TypeInv, LiveInv, CreateTensor, UNCHANGED tc PROVE LiveInv'
    OBVIOUS
  <1> DEFINE open == {ACL, DEVICE, STREAM}
             a == AddrOf(made + 1)
             t == TensorOf(made + 1)
  <1>1. pc \in Creating /\ made \in 0 .. 4 /\ RuntimeHeld = open
    BY DEF CreateTensor, TypeInv, Creating, RuntimeHeld
  <1>2. /\ FirstTensors(made) \subseteq TensorHandles
        /\ a \notin FirstTensors(made) /\ t \notin FirstTensors(made) \cup {a}
        /\ a \in TensorHandles /\ t \in TensorHandles
        /\ FirstTensors(made + 1) = FirstTensors(made) \cup {a, t}
    BY <1>1, FirstOnes
  <1>3. a \notin open /\ t \notin open /\ a \in Handles /\ t \in Handles
    BY <1>2, HandlesDiffer, HandlesKnown DEF RuntimeHandles
  <1>4. pc = "malloc" => Held = open \cup FirstTensors(made)
    BY <1>1 DEF LiveInv, CaseHeld, Running, Preparing, Creating
  <1>5. pc \in {"copy", "create"} => Held = open \cup FirstTensors(made) \cup {a}
    BY <1>1 DEF LiveInv, CaseHeld, Running, Preparing, Creating
  <1>6. live \in [Handles -> {0, 1}]
    BY DEF LiveInv
  <1>7. /\ EXECUTOR \notin Held /\ WORKSPACE \notin Held /\ open \subseteq Held
        /\ \A i \in 1 .. 5 : TensorOf(i) \in Held => AddrOf(i) \in Held
    <2>1. EXECUTOR \notin Held /\ WORKSPACE \notin Held /\ open \subseteq Held
      BY <1>1, <1>2, <1>4, <1>5, HandlesDiffer DEF Creating, RuntimeHandles
    <2>2. ASSUME NEW i \in 1 .. 5, TensorOf(i) \in Held PROVE AddrOf(i) \in Held
      <3>1. TensorOf(i) \in FirstTensors(made)
        <4>1. TensorOf(i) # a /\ TensorOf(i) \notin open
          BY <1>1, FirstOnes, TensorsDiffer, HandlesDiffer
            DEF FirstTensors, RuntimeHandles
        <4> QED BY <1>1, <1>4, <1>5, <2>2, <4>1 DEF Creating
      <3>2. i \in 1 .. made
        BY <1>1, <2>2, <3>1, TensorsDiffer DEF FirstTensors
      <3> QED BY <1>1, <1>4, <1>5, <3>2 DEF FirstTensors, Creating
    <2> QED BY <2>1, <2>2
  <1> DEFINE A == Addr(TensorNames[made + 1])
             T == Tensor(TensorNames[made + 1])
  <1>8. A = a /\ T = t
    BY DEF AddrOf, TensorOf
  <1>9. CASE pc' = "destructors" /\ UNCHANGED live
    BY <1>7, <1>9, SameHeld, GivenUpLive
  <1>10. CASE pc = "malloc" /\ live' = Created({a}) /\ pc' = "copy" /\ UNCHANGED made
    <2>1. Held' = open \cup FirstTensors(made) \cup {a} /\ live' \in [Handles -> {0, 1}]
      BY <1>2, <1>3, <1>4, <1>6, <1>10, CreatedHeld
    <2>2. (RuntimeHeld \cup CaseHeld)' = open \cup FirstTensors(made) \cup {a}
      BY <1>10 DEF RuntimeHeld, CaseHeld, FirstTensors, AddrOf, TensorOf
    <2> QED BY <1>10, <2>1, <2>2 DEF LiveInv, Between
  <1>11. CASE pc = "copy" /\ pc' = "create" /\ UNCHANGED <<live, made>>
    <2>1. Held' = open \cup FirstTensors(made) \cup {a} /\ live' \in [Handles -> {0, 1}]
      BY <1>5, <1>11, SameHeld
    <2>2. (RuntimeHeld \cup CaseHeld)' = open \cup FirstTensors(made) \cup {a}
      BY <1>11 DEF RuntimeHeld, CaseHeld, FirstTensors, AddrOf, TensorOf
    <2> QED BY <1>11, <2>1, <2>2 DEF LiveInv, Between
  <1>12. CASE /\ pc = "create" /\ live' = Created({t}) /\ made' = made + 1
              /\ pc' = IF made + 1 = 5 THEN "getWorkspaceSize" ELSE "malloc"
    <2>1. Held' = open \cup FirstTensors(made + 1) /\ live' \in [Handles -> {0, 1}]
      <3>1. Held' = Held \cup {t} /\ live' \in [Handles -> {0, 1}]
        BY <1>2, <1>3, <1>5, <1>6, <1>12, CreatedHeld
      <3> QED BY <1>2, <1>5, <1>12, <3>1
    <2>2. (RuntimeHeld \cup CaseHeld)' = open \cup FirstTensors(made + 1)
      <3>1. CASE made + 1 = 5
        <4>1. FirstTensors(made + 1) = TensorHandles
          BY <3>1, FirstOnes
        <4> QED BY <1>12, <3>1, <4>1 DEF RuntimeHeld, CaseHeld, TensorHandles
      <3>2. CASE made + 1 # 5
        BY <1>12, <3>2 DEF RuntimeHeld, CaseHeld, FirstTensors, AddrOf, TensorOf
      <3> QED BY <3>1, <3>2
    <2>3. pc' \in Running
      BY <1>12 DEF Running, Preparing, Creating
    <2> QED BY <1>12, <2>1, <2>2 DEF LiveInv, Between
  <1> HIDE DEF open, a, t
  <1> QED BY <1>8, <1>9, <1>10, <1>11, <1>12 DEF CreateTensor, Goto, Fail

\* With every tensor made, whatever else of the case is held can be told.
LEMMA FullHeld ==
  ASSUME TypeInv, LiveInv, pc \in (Running \ Creating) \cup {"release"}
  PROVE  /\ {ACL, DEVICE, STREAM} \cup TensorHandles \subseteq Held
         /\ live \in [Handles -> {0, 1}] /\ Held \subseteq Handles
         /\ pc \in Running => Held = {ACL, DEVICE, STREAM} \cup CaseHeld
  BY DEF LiveInv, RuntimeHeld, CaseHeld, Running, Preparing, Creating, Streaming, Held, Timed

LEMMA EquipLive ==
  /\ TypeInv /\ LiveInv /\ (GetWorkspaceSize \/ MallocWorkspace \/ SetRepeatable)
  /\ UNCHANGED tc
  => LiveInv'
  <1> SUFFICES ASSUME TypeInv, LiveInv, GetWorkspaceSize \/ MallocWorkspace \/ SetRepeatable,
                      UNCHANGED tc
               PROVE LiveInv'
    OBVIOUS
  <1> DEFINE open == {ACL, DEVICE, STREAM}
  <1>1. /\ pc \in {"getWorkspaceSize", "mallocWorkspace", "setRepeatable"}
        /\ open \cup TensorHandles \subseteq Held /\ live \in [Handles -> {0, 1}]
        /\ Held = open \cup CaseHeld
    <2>1. pc \in {"getWorkspaceSize", "mallocWorkspace", "setRepeatable"}
      BY DEF GetWorkspaceSize, MallocWorkspace, SetRepeatable
    <2> QED BY <2>1, FullHeld DEF Running, Preparing, Creating
  <1>2. CASE pc' = "destructors" /\ Held' = open \cup TensorHandles
             /\ live' \in [Handles -> {0, 1}]
    <2>1. \A i \in 1 .. 5 : AddrOf(i) \in TensorHandles
      BY DEF TensorHandles, AddrOf
    <2> QED BY <1>2, <2>1, HandlesDiffer, GivenUpLive DEF RuntimeHandles
  <1>3. EXECUTOR \notin open \cup TensorHandles /\ WORKSPACE \notin open \cup TensorHandles
        /\ EXECUTOR # WORKSPACE /\ EXECUTOR \in Handles /\ WORKSPACE \in Handles
    BY HandlesDiffer, HandlesKnown DEF RuntimeHandles
  <1>4. CASE GetWorkspaceSize
    <2>1. Held = open \cup TensorHandles
      BY <1>1, <1>4 DEF GetWorkspaceSize, CaseHeld
    <2>2. CASE UNCHANGED live /\ pc' = "destructors"
      BY <1>2, <2>1, <2>2, SameHeld
    <2>3. CASE live' = Created({EXECUTOR})
               /\ pc' = IF tc.workspace THEN "mallocWorkspace" ELSE "setRepeatable"
      <3>1. Held' = open \cup TensorHandles \cup {EXECUTOR} /\ live' \in [Handles -> {0, 1}]
        BY <1>1, <1>3, <2>1, <2>3, CreatedHeld
      <3>2. (RuntimeHeld \cup CaseHeld)' = open \cup TensorHandles \cup {EXECUTOR}
        <4>1. CASE tc.workspace
          BY <2>3, <4>1 DEF RuntimeHeld, CaseHeld, TensorHandles
        <4>2. CASE ~tc.workspace
          BY <2>3, <4>2 DEF RuntimeHeld, CaseHeld, TensorHandles, Workspace, Timed
        <4> QED BY <4>1, <4>2
      <3> QED BY <2>3, <3>1, <3>2 DEF LiveInv, Between
    <2> QED BY <1>4, <2>2, <2>3 DEF GetWorkspaceSize, Goto, Fail
  <1>5. CASE MallocWorkspace
    <2>1. Held = open \cup TensorHandles \cup {EXECUTOR}
      BY <1>1, <1>5 DEF MallocWorkspace, CaseHeld
    <2>2. CASE live' = Released({EXECUTOR}) /\ pc' = "destructors"
      <3>1. Held' = Held \ {EXECUTOR} /\ live' \in [Handles -> {0, 1}]
        BY <1>1, <2>1, <2>2, ReleasedHeld
      <3> QED BY <1>2, <1>3, <2>1, <2>2, <3>1
    <2>3. CASE live' = Created({WORKSPACE}) /\ pc' = "setRepeatable"
      <3>1. /\ Held' = open \cup TensorHandles \cup {EXECUTOR, WORKSPACE}
            /\ live' \in [Handles -> {0, 1}]
        <4>1. Held' = Held \cup {WORKSPACE} /\ live' \in [Handles -> {0, 1}]
          BY <1>1, <1>3, <2>1, <2>3, CreatedHeld
        <4> QED BY <2>1, <4>1
      <3>2. tc.workspace
        BY <1>5 DEF MallocWorkspace, LiveInv
      <3>3. (RuntimeHeld \cup CaseHeld)' = open \cup TensorHandles \cup {EXECUTOR, WORKSPACE}
        BY <2>3, <3>2 DEF RuntimeHeld, CaseHeld, TensorHandles, Workspace, Timed
      <3> QED BY <2>3, <3>1, <3>3 DEF LiveInv, Between
    <2> QED BY <1>5, <2>2, <2>3 DEF MallocWorkspace, Goto, Fail
  <1>6. CASE SetRepeatable
    <2>1. Held = open \cup TensorHandles \cup {EXECUTOR} \cup Workspace
      BY <1>1, <1>6 DEF SetRepeatable, CaseHeld, Timed
    <2>2. Workspace \subseteq {WORKSPACE}
      BY DEF Workspace
    <2>3. CASE UNCHANGED live /\ pc' = "warmup"
      <3>1. Held' = Held /\ live' \in [Handles -> {0, 1}]
        BY <2>3, SameHeld
      <3>2. (RuntimeHeld \cup CaseHeld)' = open \cup TensorHandles \cup {EXECUTOR} \cup Workspace
        BY <2>3 DEF RuntimeHeld, CaseHeld, TensorHandles, Workspace, Timed
      <3> QED BY <2>1, <2>3, <3>1, <3>2 DEF LiveInv, Between
    <2>4. CASE live' = Released(Existing({WORKSPACE}) \cup {EXECUTOR}) /\ pc' = "destructors"
      <3>1. Existing({WORKSPACE}) = {WORKSPACE} \cap Held
        BY <1>1, <1>3, ExistingHeld
      <3>2. Held' = Held \ {WORKSPACE, EXECUTOR} /\ live' \in [Handles -> {0, 1}]
        <4> DEFINE S == Existing({WORKSPACE}) \cup {EXECUTOR}
        <4>1. S \in SUBSET Held /\ Held \ S = Held \ {WORKSPACE, EXECUTOR}
          BY <2>1, <3>1
        <4> HIDE DEF S
        <4>2. Held' = Held \ S /\ live' \in [Handles -> {0, 1}]
          BY <1>1, <2>4, <4>1, ReleasedHeld DEF S
        <4> QED BY <4>1, <4>2
      <3>3. Held' = open \cup TensorHandles
        BY <1>3, <2>1, <2>2, <3>2
      <3> QED BY <1>2, <2>4, <3>2, <3>3
    <2> QED BY <1>6, <2>3, <2>4 DEF SetRepeatable, Goto, Fail
  <1> QED BY <1>4, <1>5, <1>6

\* The way to the release, with all of the case's resources or some events.
LEMMA GivenBackLive ==
  ASSUME TypeInv, LiveInv, pc \in Streaming, pc' = "release", UNCHANGED tc,
         live' \in [Handles -> {0, 1}], Held \subseteq Held', Held' \subseteq Held \cup Events
  PROVE  LiveInv'
  <1>1. Held = {ACL, DEVICE, STREAM} \cup CaseHeld
    BY FullHeld DEF Running, Preparing, Creating, Streaming
  <1>2. TensorHandles \cup {EXECUTOR} \cup Workspace \subseteq CaseHeld
    BY DEF Streaming, CaseHeld, Timed
  <1>3. WORKSPACE \in Held => tc.workspace
    BY <1>1, HandlesDiffer DEF CaseHeld, Workspace, Streaming, RuntimeHandles
  <1>4. WORKSPACE \in Held' => WORKSPACE \in Held
    BY HandlesDiffer DEF Events
  <1>5. Workspace' = Workspace /\ TensorHandles' = TensorHandles
    BY DEF Workspace, TensorHandles
  <1>6. RuntimeHeld' = {ACL, DEVICE, STREAM}
    BY DEF RuntimeHeld
  <1> QED BY <1>1, <1>2, <1>3, <1>4, <1>5, <1>6
       DEF LiveInv, Between, Running, Preparing, Creating, Streaming

LEMMA CreateEventsLive == TypeInv /\ LiveInv /\ CreateEvents => LiveInv'
  <1> SUFFICES ASSUME TypeInv, LiveInv, CreateEvents PROVE LiveInv'
    OBVIOUS
  <1> DEFINE open == {ACL, DEVICE, STREAM}
  <1>1. pc = "createEvents" /\ UNCHANGED tc
    BY DEF CreateEvents
  <1>2. /\ Held = open \cup TensorHandles \cup {EXECUTOR} \cup Workspace
        /\ live \in [Handles -> {0, 1}]
    BY <1>1, FullHeld DEF Running, Preparing, Creating, Streaming, CaseHeld, Timed
  <1>3. START \notin Held /\ END \notin Held /\ START \in Handles /\ END \in Handles
    BY <1>2, HandlesDiffer, HandlesKnown DEF RuntimeHandles, Workspace
  <1>4. CASE live' = Created({START, END}) /\ pc' = "recordStart"
    <2>1. Held' = Held \cup {START, END} /\ live' \in [Handles -> {0, 1}]
      BY <1>2, <1>3, <1>4, CreatedHeld
    <2>2. (RuntimeHeld \cup CaseHeld)'
            = open \cup TensorHandles \cup {EXECUTOR, START, END} \cup Workspace
      BY <1>1, <1>4 DEF RuntimeHeld, CaseHeld, TensorHandles, Workspace, Timed
    <2> QED BY <1>2, <1>4, <2>1, <2>2 DEF LiveInv, Between
  <1>5. CASE live' \in {live, Created({START})} /\ pc' = "release"
    <2>1. CASE live' = live
      BY <1>1, <1>5, <2>1, SameHeld, GivenBackLive DEF Streaming
    <2>2. CASE live' = Created({START})
      <3>1. Held' = Held \cup {START} /\ live' \in [Handles -> {0, 1}]
        BY <1>2, <1>3, <2>2, CreatedHeld
      <3> QED BY <1>1, <1>5, <3>1, GivenBackLive DEF Streaming, Events
    <2> QED BY <1>5, <2>1, <2>2
  <1> QED BY <1>4, <1>5 DEF CreateEvents, Goto, Fail

\* From one point of the measurement to the next nothing is created.
LEMMA StreamingLive ==
  ASSUME TypeInv, LiveInv, pc \in Streaming, pc' \in Streaming, UNCHANGED <<tc, live>>,
         pc \in Timed <=> pc' \in Timed
  PROVE  LiveInv'
  <1>1. Held = {ACL, DEVICE, STREAM} \cup CaseHeld /\ Held' = Held
        /\ live' \in [Handles -> {0, 1}]
    BY FullHeld, SameHeld DEF Running, Preparing, Creating, Streaming
  <1>2. CaseHeld' = CaseHeld
    BY DEF CaseHeld, Streaming, Timed, Workspace, TensorHandles
  <1>3. RuntimeHeld' = {ACL, DEVICE, STREAM}
    BY DEF RuntimeHeld, Streaming
  <1> QED BY <1>1, <1>2, <1>3 DEF LiveInv, Between, Running, Streaming

LEMMA StreamLive ==
  /\ TypeInv /\ LiveInv /\ UNCHANGED <<tc, live>>
  /\ \/ Warmup \/ Measure \/ Synchronize \/ Elapsed \/ Verify
     \/ Record("recordStart", "start", "measure")
     \/ Record("recordEnd", "end", "measureSync")
     \/ (pc \in DOMAIN AfterSync /\ Fail("release"))
  => LiveInv'
  <1> SUFFICES ASSUME TypeInv, LiveInv, UNCHANGED <<tc, live>>,
                      \/ Warmup \/ Measure \/ Synchronize \/ Elapsed \/ Verify
                      \/ Record("recordStart", "start", "measure")
                      \/ Record("recordEnd", "end", "measureSync")
                      \/ (pc \in DOMAIN AfterSync /\ Fail("release"))
               PROVE  LiveInv'
    OBVIOUS
  <1>1. /\ pc \in Streaming
        /\ \/ pc' = "release"
           \/ pc' \in Streaming /\ (pc \in Timed <=> pc' \in Timed)
    BY DEF Streaming, Timed, Warmup, Measure, LaunchLoop, Record, Synchronize, AfterSync,
      Elapsed, Verify, Fail, Goto
  <1>2. CASE pc' = "release"
    BY <1>1, <1>2, SameHeld, GivenBackLive
  <1> QED BY <1>1, <1>2, StreamingLive

LEMMA DisposeLive == TypeInv /\ LiveInv /\ Dispose => LiveInv'
  <1> SUFFICES ASSUME TypeInv, LiveInv, Dispose PROVE LiveInv'
    OBVIOUS
  <1> DEFINE open == {ACL, DEVICE, STREAM}
  <1>1. UNCHANGED tc /\ live \in [Handles -> {0, 1}] /\ Held \subseteq Handles
    BY DEF Dispose, LiveInv, Held
  <1>2. CASE Release
    <2>1. /\ open \cup TensorHandles \cup {EXECUTOR} \subseteq Held /\ pc = "release"
          /\ pc' = "destructors" /\ live' = Released(Existing({WORKSPACE}) \cup {EXECUTOR})
      BY <1>2 DEF Release, LiveInv, RuntimeHeld, Goto
    <2> DEFINE S == Existing({WORKSPACE}) \cup {EXECUTOR}
    <2>2. Existing({WORKSPACE}) = {WORKSPACE} \cap Held
      BY <1>1, HandlesKnown, ExistingHeld
    <2>3. S \in SUBSET Held /\ Held \ S = Held \ {WORKSPACE, EXECUTOR}
      BY <2>1, <2>2
    <2> HIDE DEF S
    <2>4. Held' = Held \ S /\ live' \in [Handles -> {0, 1}]
      BY <1>1, <2>1, <2>3, ReleasedHeld DEF S
    <2>5. open \cup TensorHandles \subseteq Held'
      BY <2>1, <2>3, <2>4, HandlesDiffer DEF RuntimeHandles
    <2>6. \A i \in 1 .. 5 : AddrOf(i) \in TensorHandles
      BY DEF TensorHandles, AddrOf
    <2> QED BY <2>1, <2>3, <2>4, <2>5, <2>6, GivenUpLive
  <1>3. CASE Destructors
    <2> DEFINE S == Existing({START, END} \cup TensorHandles)
    <2>1. /\ open \subseteq Held /\ EXECUTOR \notin Held /\ WORKSPACE \notin Held
          /\ pc = "destructors" /\ pc' = "nextCase" /\ live' = Released(S)
      BY <1>3 DEF Destructors, LiveInv, RuntimeHeld, Goto
    <2>2. S = ({START, END} \cup TensorHandles) \cap Held
      BY <1>1, HandlesKnown, ExistingHeld
    <2> HIDE DEF S
    <2>3. Held' = Held \ S /\ live' \in [Handles -> {0, 1}]
      BY <1>1, <2>1, <2>2, ReleasedHeld
    <2>4. Held' = open
      BY <1>1, <2>1, <2>2, <2>3, HandlesKnown, HandlesDiffer DEF RuntimeHandles
    <2> QED BY <2>1, <2>3, <2>4
         DEF LiveInv, RuntimeHeld, Between, Running, Preparing, Creating, Streaming
  <1> QED BY <1>2, <1>3 DEF Dispose

LEMMA LiveStep == TypeInv /\ LiveInv /\ Next => LiveInv'
  <1> SUFFICES ASSUME TypeInv, LiveInv, Next PROVE LiveInv'
    OBVIOUS
  <1>1. CASE ParseOptions
    <2>1. pc = "options" /\ pc' \in {"init", "exited"} /\ UNCHANGED live
      BY <1>1 DEF ParseOptions, Goto
    <2>2. Held' = Held /\ Held = {} /\ live' \in [Handles -> {0, 1}]
      BY <2>1, SameHeld DEF LiveInv, RuntimeHeld, Between
    <2> QED BY <2>1, <2>2
         DEF LiveInv, RuntimeHeld, Between, Running, Preparing, Creating, Streaming
  <1>2. CASE Open \/ Close \/ NextCase
    BY <1>2, OpenLive, CloseLive, NextCaseLive
  <1>3. CASE Acquire
    BY <1>3, CreateTensorLive, EquipLive DEF Acquire
  <1>4. CASE CreateEvents
    BY <1>4, CreateEventsLive
  <1>5. CASE Stream
    BY <1>5, StreamLive DEF Stream
  <1>6. CASE Judge
    BY <1>6, StreamLive DEF Judge
  <1>7. CASE Dispose
    BY <1>7, DisposeLive
  <1>8. CASE SynchronizeFails
    BY <1>8, StreamLive DEF SynchronizeFails
  <1>9. CASE Device \/ Exited
    <2>1. UNCHANGED <<pc, live, tc, made>>
      BY <1>9 DEF Device, Exited, vars
    <2> QED BY <2>1 DEF LiveInv, Held, RuntimeHeld, CaseHeld, FirstTensors, AddrOf, TensorOf,
          Workspace, TensorHandles, Timed
  <1> QED BY <1>1, <1>2, <1>3, <1>4, <1>5, <1>6, <1>7, <1>8, <1>9 DEF Next, Host

-----------------------------------------------------------------------------
(* The stream *)

Queued == queue \in Seq(Entry)

LEMMA Enqueued ==
  ASSUME Queued, NEW op \in {"launch", "start", "end"}, Enqueue(op), caseNo \in Nat
  PROVE  /\ Queued' /\ Len(queue') = Len(queue) + 1 /\ Len(queue) \in Nat
         /\ \A i \in 1 .. Len(queue) : queue'[i] = queue[i]
         /\ queue'[Len(queue) + 1] = [op |-> op, case |-> caseNo]
  BY DEF Queued, Enqueue, Entry

LEMMA Dequeued ==
  ASSUME Queued, queue # << >>, queue' = Tail(queue)
  PROVE  /\ Queued' /\ Len(queue) \in Nat \ {0} /\ Len(queue') = Len(queue) - 1
         /\ \A i \in 1 .. Len(queue') : i + 1 \in 1 .. Len(queue) /\ queue'[i] = queue[i + 1]
         /\ Head(queue) = queue[1] /\ queue[1] \in Entry
  BY DEF Queued

\* The device takes the first entry; only those of the case at hand count.
LEMMA DeviceCounts ==
  ASSUME Device
  PROVE  LET entry == Head(queue)
             mine == entry.case = caseNo
         IN  /\ queue # << >> /\ queue' = Tail(queue)
             /\ UNCHANGED <<pc, live, ret, caseNo, tc, made, failed, passed, good>>
             /\ ~(entry.op = "launch" /\ mine) => UNCHANGED <<finished, timed, output>>
             /\ entry.op = "launch" /\ mine =>
                  /\ finished' = finished + 1 /\ UNCHANGED timing
                  /\ timing = "running" => timed' = timed + 1
                  /\ timing # "running" => timed' = timed
             /\ entry.op = "start" /\ mine => timing' = "running"
             /\ entry.op = "end" /\ mine => timing' = "stopped"
             /\ ~mine => UNCHANGED timing
  BY DEF Device

\* Every step of the program that is not the stream's leaves the queue alone.
LEMMA QueueFrame ==
  ASSUME Next
  PROVE  \/ Device
         \/ Stream
         \/ UNCHANGED queue
  BY DEF Next, Host, ParseOptions, Open, Close, NextCase, Acquire, CreateEvents, Judge, Dispose,
    SynchronizeFails, Exited, vars, deviceVars

\* A case that fails or ends leaves its entries to the failed ones.
LEMMA EntriesStep ==
  ASSUME TypeInv, VerdictInv, QueueInv, Next
  PROVE  /\ Queued'
         /\ \A i \in 1 .. Len(queue') :
              \/ queue'[i].case \in failed'
              \/ queue'[i].case = caseNo' /\ pc' \in Streaming
  <1>1. Queued /\ caseNo \in Nat
    BY HarnessAssumption DEF QueueInv, Queued, TypeInv
  <1>2. \A i \in 1 .. Len(queue) : queue[i].case \in failed \/ (queue[i].case = caseNo /\ pc \in Streaming)
    BY DEF QueueInv
  <1>3. CASE Device
    <2>1. UNCHANGED <<failed, caseNo, pc>> /\ queue # << >> /\ queue' = Tail(queue)
      BY <1>3, DeviceCounts
    <2> QED BY <1>1, <1>2, <2>1, Dequeued
  <1>4. CASE Stream
    <2>1. /\ pc \in Streaming /\ UNCHANGED caseNo /\ failed \subseteq failed'
          /\ pc' \in Streaming \/ (pc' = "release" /\ failed' = failed \cup {caseNo})
      BY <1>4 DEF Stream, Warmup, Measure, LaunchLoop, Record, Fail, Goto, Streaming
    <2>2. \/ UNCHANGED queue
          \/ pc' \in Streaming /\ \E op \in {"launch", "start", "end"} : Enqueue(op)
      BY <1>4 DEF Stream, Warmup, Measure, LaunchLoop, Record, Fail, Goto, Streaming
    <2>3. CASE UNCHANGED queue
      BY <1>1, <1>2, <2>1, <2>3 DEF Queued
    <2>4. CASE pc' \in Streaming /\ \E op \in {"launch", "start", "end"} : Enqueue(op)
      <3>1. PICK op \in {"launch", "start", "end"} : Enqueue(op)
        BY <2>4
      <3>2. /\ Queued' /\ Len(queue') = Len(queue) + 1 /\ Len(queue) \in Nat
            /\ \A i \in 1 .. Len(queue) : queue'[i] = queue[i]
            /\ queue'[Len(queue) + 1] = [op |-> op, case |-> caseNo]
        BY <1>1, <3>1, Enqueued
      <3>3. ASSUME NEW i \in 1 .. Len(queue')
            PROVE  queue'[i].case \in failed' \/ queue'[i].case = caseNo
        <4>1. CASE i \in 1 .. Len(queue)
          BY <1>2, <2>1, <3>2, <4>1
        <4>2. CASE i = Len(queue) + 1
          BY <3>2, <4>2
        <4> QED BY <3>2, <4>1, <4>2
      <3> QED BY <2>1, <2>4, <3>2, <3>3
    <2> QED BY <2>2, <2>3, <2>4
  <1>5. CASE UNCHANGED queue /\ ~Device /\ ~Stream
    <2>1. Queued' /\ Len(queue') = Len(queue)
      BY <1>1, <1>5 DEF Queued
    <2>2. failed \subseteq failed'
      BY <1>5 DEF Next, Host, ParseOptions, Open, Close, NextCase, Acquire, CreateTensor,
        GetWorkspaceSize, MallocWorkspace, SetRepeatable, CreateEvents, Judge, Synchronize,
        Elapsed, Verify, Dispose, SynchronizeFails, Exited, vars, Fail, Goto
    <2>3. CASE pc \notin Streaming
      BY <1>2, <1>5, <2>1, <2>2, <2>3
    <2>4. CASE pc \in Streaming
      <3>1. CASE Exited
        BY <2>4, <3>1 DEF Exited, Streaming
      <3>2. CASE CreateEvents \/ Judge \/ SynchronizeFails
        <4>1. /\ UNCHANGED caseNo
              /\ \/ pc' \in Streaming
                 \/ pc' = "release" /\ (failed' = failed \cup {caseNo} \/ pc = "verify")
          BY <3>2 DEF CreateEvents, Judge, Synchronize, AfterSync, Elapsed, Verify,
            SynchronizeFails, Fail, Goto, Streaming
        <4>2. CASE pc = "verify"
          <5>1. queue = << >>
            BY <4>2 DEF QueueInv
          <5> QED BY <1>5, <2>1, <5>1
        <4> QED BY <1>2, <1>5, <2>1, <2>2, <4>1, <4>2
      <3>3. CASE ParseOptions \/ Open \/ Close \/ NextCase \/ Acquire \/ Dispose
        BY <2>4, <3>3 DEF Streaming, ParseOptions, Open, AclInit, SetDevice, CreateStream, Close,
          NextCase, Acquire, CreateTensor, GetWorkspaceSize, MallocWorkspace, SetRepeatable,
          Dispose, Release, Destructors
      <3> QED BY <1>5, <3>1, <3>2, <3>3 DEF Next, Host
    <2> QED BY <2>3, <2>4
  <1> QED BY <1>3, <1>4, <1>5, QueueFrame

\* In a case that has not failed the device finds nothing of it before the
\* warm-up, and nothing at all where the stream was waited for.
LEMMA DeviceIdle ==
  ASSUME TypeInv, VerdictInv, QueueInv, Device
  PROVE  /\ pc \in Preparing => UNCHANGED <<finished, timed, timing, output>>
         /\ pc \notin {"createEvents", "recordStart", "elapsed", "verify"}
         /\ pc \in Ending => ~Success
  <1>1. queue # << >>
    BY DeviceCounts
  <1>2. ASSUME pc \in Preparing PROVE UNCHANGED <<finished, timed, timing, output>>
    <2>1. Head(queue) = queue[1] /\ 1 \in 1 .. Len(queue)
      BY <1>1 DEF QueueInv
    <2>2. Head(queue).case \in failed
      BY <1>2, <2>1 DEF QueueInv, Streaming, Preparing, Creating
    <2>3. caseNo \notin failed
      BY <1>2 DEF VerdictInv, Running
    <2> QED BY <2>2, <2>3, DeviceCounts
  <1> QED BY <1>1, <1>2 DEF QueueInv

Pauses == {"mallocWorkspace", "setRepeatable", "warmupSync", "createEvents", "recordStart", 
           "recordEnd", "measureSync"}

LEMMA QueueStep == TypeInv /\ VerdictInv /\ QueueInv /\ MeasureInv /\ Next => QueueInv'
  <1> SUFFICES ASSUME TypeInv, VerdictInv, QueueInv, MeasureInv, Next PROVE QueueInv'
    OBVIOUS
  <1> DEFINE Idle == {"createEvents", "recordStart", "elapsed", "verify"}
  <1>1. /\ queue' \in Seq(Entry)
        /\ \A i \in 1 .. Len(queue') :
             queue'[i].case \in failed' \/ (queue'[i].case = caseNo' /\ pc' \in Streaming)
    BY EntriesStep DEF Queued
  <1>2. SUFFICES /\ pc' \in Preparing => finished' = 0 /\ timed' = 0 /\ timing' = "no"
                 /\ pc' \in Pauses => made' = 0
                 /\ pc' \in Idle => queue' = << >>
                 /\ pc' \in Ending /\ Success' => queue' = << >>
                 /\ pc' = "release" /\ Success' => Earned'
    BY <1>1 DEF QueueInv, Pauses
  <1>3. CASE ParseOptions \/ Open \/ Close
    BY <1>3 DEF ParseOptions, Open, AclInit, SetDevice, CreateStream, OpenUnwinding, Close, Goto,
      Preparing, Creating, Pauses, Ending
  <1>4. CASE NextCase
    BY <1>4 DEF NextCase, Goto, Preparing, Creating, Pauses, Ending
  <1>5. CASE Acquire
    <2>1. /\ UNCHANGED <<finished, timed, timing, caseNo>>
          /\ pc \in Preparing
      BY <1>5 DEF Acquire, CreateTensor, GetWorkspaceSize, MallocWorkspace, SetRepeatable,
        deviceVars, Preparing, Creating
    <2>2. pc' \in Preparing \cup {"warmup"} \/ (pc' = "destructors" /\ ~Success')
      BY <1>5 DEF Acquire, CreateTensor, GetWorkspaceSize, MallocWorkspace, SetRepeatable,
        Preparing, Creating, Goto, Fail, Success
    <2>3. pc' \in Pauses => made' = 0
      BY <1>5 DEF Acquire, CreateTensor, GetWorkspaceSize, MallocWorkspace, SetRepeatable,
        Pauses, Goto, Fail, QueueInv
    <2> QED BY <2>1, <2>2, <2>3 DEF QueueInv, Preparing, Creating, Ending
  <1>6. CASE CreateEvents
    <2>1. /\ pc = "createEvents" /\ UNCHANGED <<queue, made, caseNo>>
          /\ pc' = "recordStart" \/ (pc' = "release" /\ ~Success')
      BY <1>6 DEF CreateEvents, deviceVars, Goto, Fail, Success
    <2> QED BY <2>1 DEF QueueInv, Preparing, Creating, Ending
  <1>7. CASE Stream
    <2>1. \/ pc' \in {"warmup", "warmupSync", "measure", "recordEnd", "measureSync"}
             /\ (pc' \in Pauses => made' = 0)
          \/ pc' = "release" /\ ~Success'
      BY <1>7 DEF Stream, Warmup, Measure, LaunchLoop, Record, Goto, Fail, Success, Pauses, QueueInv
    <2> QED BY <2>1 DEF Preparing, Creating, Ending, Pauses
  <1>8. CASE Judge
    <2>1. CASE Synchronize /\ UNCHANGED failed
      <3>1. /\ queue = << >> /\ UNCHANGED <<queue, made>> /\ pc \in {"warmupSync", "measureSync"}
            /\ pc' \in {"createEvents", "elapsed"}
        BY <1>8, <2>1 DEF Judge, Synchronize, AfterSync, Goto, deviceVars
      <3> QED BY <3>1 DEF QueueInv, Preparing, Creating, Ending, Pauses
    <2>2. CASE Elapsed
      <3>1. /\ pc = "elapsed" /\ UNCHANGED <<queue, caseNo>>
            /\ pc' = "verify" \/ (pc' = "release" /\ ~Success')
        BY <1>8, <2>2 DEF Judge, Elapsed, Goto, Fail, Success, deviceVars
      <3> QED BY <3>1 DEF QueueInv, Preparing, Creating, Ending, Pauses
    <2>3. CASE Verify
      <3>1. /\ pc = "verify" /\ pc' = "release" /\ UNCHANGED <<queue, caseNo, tc, finished, output>>
        BY <1>8, <2>3 DEF Judge, Verify, Goto, Fail, deviceVars
      <3>2. queue = << >> /\ finished = tc.warmup + tc.repeat
        BY <3>1 DEF QueueInv, MeasureInv
      <3>3. Success' => /\ tc.mode = "full" => output = "right"
                        /\ tc.mode = "sampled" /\ tc.rows > 0 => output # "poison"
        <4>1. ASSUME Success'
              PROVE  CASE tc.mode = "full" -> output = "right"
                       [] tc.mode = "sampled" -> tc.rows = 0 \/ output # "poison"
                       [] OTHER -> TRUE
          BY <2>3, <3>1, <4>1 DEF Verify, Fail, Success
        <4> QED BY <4>1
      <3> QED BY <3>1, <3>2, <3>3 DEF Earned, Preparing, Creating, Pauses
    <2> QED BY <1>8, <2>1, <2>2, <2>3 DEF Judge
  <1>9. CASE Dispose
    <2>1. CASE Release
      <3>1. pc = "release" /\ pc' = "destructors" /\ UNCHANGED <<queue, caseNo, failed>>
        BY <1>9, <2>1 DEF Dispose, Release, Goto, deviceVars
      <3> QED BY <3>1 DEF QueueInv, Success, Ending, Preparing, Creating, Pauses
    <2>2. CASE Destructors
      BY <2>2 DEF Destructors, Goto, Ending, Preparing, Creating, Pauses
    <2> QED BY <1>9, <2>1, <2>2 DEF Dispose
  <1>10. CASE SynchronizeFails
    <2>1. pc' = "release" /\ ~Success'
      BY <1>10 DEF SynchronizeFails, Fail, Goto, Success
    <2> QED BY <2>1 DEF Preparing, Creating, Pauses
  <1>11. CASE Device
    <2>1. UNCHANGED <<pc, made, failed, caseNo>> /\ pc \notin Idle
          /\ (pc \in Ending => ~Success)
          /\ (pc \in Preparing => UNCHANGED <<finished, timed, timing>>)
      BY <1>11, DeviceCounts, DeviceIdle
    <2> QED BY <2>1 DEF QueueInv, Success, Pauses, Ending
  <1>12. CASE Exited
    BY <1>12 DEF Exited, vars, Preparing, Creating, Pauses, Ending
  <1> QED BY <1>3, <1>4, <1>5, <1>6, <1>7, <1>8, <1>9, <1>10, <1>11, <1>12 DEF Next, Host

-----------------------------------------------------------------------------
(* The warm-up: what was launched is queued or finished *)

WarmingUp == {"warmup", "warmupSync", "createEvents", "recordStart"}
WarmupLaunched == IF pc = "warmup" THEN made ELSE tc.warmup
Pending == WarmupLaunched - finished

LEMMA WarmupForm ==
  WarmupInv <=>
    (pc \in WarmingUp =>
       /\ timing = "no" /\ timed = 0
       /\ WarmupLaunched <= tc.warmup
       /\ Pending \in 0 .. Len(queue)
       /\ \A i \in 1 .. Len(queue) :
            IF i > Len(queue) - Pending
            THEN queue[i] = [op |-> "launch", case |-> caseNo]
            ELSE queue[i].case # caseNo)
  BY DEF WarmupInv, WarmingUp, WarmupLaunched, Pending

LEMMA CaseTyped ==
  ASSUME TypeInv PROVE tc.warmup \in Nat /\ tc.repeat \in Nat /\ caseNo \in Nat
  BY HarnessAssumption DEF TypeInv

LEMMA WarmupStep ==
  TypeInv /\ VerdictInv /\ QueueInv /\ WarmupInv /\ Next => WarmupInv'
  <1> SUFFICES ASSUME TypeInv, VerdictInv, QueueInv, WarmupInv, Next, pc' \in WarmingUp
               PROVE  WarmupInv'
    BY WarmupForm DEF WarmupInv, WarmingUp
  <1>1. Queued /\ Len(queue) \in Nat /\ tc.warmup \in Nat /\ caseNo \in Nat
        /\ finished \in Nat /\ made \in Nat
    BY CaseTyped DEF QueueInv, Queued, TypeInv
  <1>2. ASSUME UNCHANGED <<timing, timed, queue, caseNo, finished, WarmupLaunched, tc>>,
               pc \in WarmingUp
        PROVE  WarmupInv'
    BY <1>2, WarmupForm DEF WarmupInv, WarmingUp, WarmupLaunched, Pending
  <1>3. CASE SetRepeatable /\ Acquire
    <2>1. /\ pc = "setRepeatable" /\ pc' = "warmup" /\ UNCHANGED <<tc, made, queue, finished>>
          /\ UNCHANGED <<timing, timed, caseNo>>
      BY <1>3 DEF Acquire, SetRepeatable, deviceVars, Goto, Fail, WarmingUp
    <2>2. finished = 0 /\ timing = "no" /\ timed = 0 /\ made = 0
      BY <2>1 DEF QueueInv, Preparing
    <2>3. WarmupLaunched' = 0 /\ Pending' = 0
      BY <2>1, <2>2 DEF WarmupLaunched, Pending
    <2>4. \A i \in 1 .. Len(queue) : queue[i].case # caseNo
      BY <2>1 DEF QueueInv, VerdictInv, Running, Preparing, Streaming
    <2> QED BY <1>1, <2>1, <2>2, <2>3, <2>4 DEF WarmupInv, WarmupLaunched, Pending
  <1>4. CASE Warmup /\ Stream
    <2>1. /\ pc = "warmup" /\ UNCHANGED <<tc, caseNo, finished, timed, timing>>
      BY <1>4 DEF Stream, Warmup, LaunchLoop
    <2>2. CASE made = tc.warmup
      <3>1. pc' = "warmupSync" /\ UNCHANGED queue
        BY <1>4, <2>2 DEF Warmup, LaunchLoop, Goto
      <3> QED BY <1>2, <2>1, <2>2, <3>1 DEF WarmingUp, WarmupLaunched
    <2>3. CASE made # tc.warmup
      <3>1. /\ pc' = "warmup" /\ made' = made + 1 /\ Enqueue("launch")
        BY <1>4, <2>1, <2>3 DEF Warmup, LaunchLoop, Goto, Fail, WarmingUp
      <3>2. /\ Len(queue') = Len(queue) + 1
            /\ \A i \in 1 .. Len(queue) : queue'[i] = queue[i]
            /\ queue'[Len(queue) + 1] = [op |-> "launch", case |-> caseNo]
        BY <1>1, <3>1, Enqueued
      <3>3. /\ timing = "no" /\ timed = 0 /\ made <= tc.warmup /\ made - finished \in 0 .. Len(queue)
            /\ \A i \in 1 .. Len(queue) :
                 IF i > Len(queue) - (made - finished)
                 THEN queue[i] = [op |-> "launch", case |-> caseNo]
                 ELSE queue[i].case # caseNo
        BY <2>1 DEF WarmupInv
      <3>4. Pending' = (made - finished) + 1 /\ WarmupLaunched' = made + 1
        BY <1>1, <2>1, <3>1 DEF Pending, WarmupLaunched
      <3>5. \A i \in 1 .. Len(queue') :
              IF i > Len(queue') - Pending'
              THEN queue'[i] = [op |-> "launch", case |-> caseNo]
              ELSE queue'[i].case # caseNo
        BY <1>1, <3>2, <3>3, <3>4
      <3>6. Pending' \in 0 .. Len(queue') /\ WarmupLaunched' <= tc.warmup
        BY <1>1, <2>3, <3>2, <3>3, <3>4
      <3> QED BY <2>1, <3>3, <3>5, <3>6 DEF WarmupInv, WarmupLaunched, Pending
    <2> QED BY <2>2, <2>3
  <1>5. CASE Judge \/ CreateEvents
    <2>1. pc \in {"warmupSync", "createEvents"} /\ pc' \in {"createEvents", "recordStart"}
          /\ UNCHANGED <<timing, timed, queue, caseNo, finished, tc>>
      BY <1>5 DEF Judge, Synchronize, AfterSync, Elapsed, Verify, CreateEvents, deviceVars, Goto,
        Fail, WarmingUp
    <2> QED BY <1>2, <2>1 DEF WarmingUp, WarmupLaunched
  <1>6. CASE Device
    <2>1. /\ queue # << >> /\ queue' = Tail(queue) /\ UNCHANGED <<pc, caseNo, tc, made>>
      BY <1>6, DeviceCounts
    <2>2. /\ Len(queue) \in Nat \ {0} /\ Len(queue') = Len(queue) - 1
          /\ \A i \in 1 .. Len(queue') : i + 1 \in 1 .. Len(queue) /\ queue'[i] = queue[i + 1]
          /\ Head(queue) = queue[1]
      BY <1>1, <2>1, Dequeued
    <2>3. /\ timing = "no" /\ timed = 0 /\ WarmupLaunched <= tc.warmup
          /\ Pending \in 0 .. Len(queue)
          /\ \A i \in 1 .. Len(queue) :
               IF i > Len(queue) - Pending
               THEN queue[i] = [op |-> "launch", case |-> caseNo]
               ELSE queue[i].case # caseNo
      BY <2>1, WarmupForm
    <2>4. WarmupLaunched' = WarmupLaunched /\ WarmupLaunched \in Int
      BY <1>1, <2>1 DEF WarmupLaunched
    <2>5. CASE Pending = Len(queue)
      <3>1. queue[1] = [op |-> "launch", case |-> caseNo]
        BY <2>2, <2>3, <2>5
      <3>2. finished' = finished + 1 /\ UNCHANGED <<timing, timed>>
        BY <1>6, <2>2, <2>3, <3>1, DeviceCounts
      <3>3. Pending' = Pending - 1 /\ Pending' = Len(queue')
        BY <1>1, <2>2, <2>3, <2>4, <2>5, <3>2 DEF Pending
      <3>4. \A i \in 1 .. Len(queue') : queue'[i] = [op |-> "launch", case |-> caseNo]
        BY <2>2, <2>3, <2>5
      <3> QED BY <2>1, <2>2, <2>3, <2>4, <3>2, <3>3, <3>4
           DEF WarmupInv, WarmupLaunched, Pending
    <2>6. CASE Pending # Len(queue)
      <3>1. queue[1].case # caseNo
        BY <2>2, <2>3, <2>6
      <3>2. UNCHANGED <<finished, timing, timed>>
        BY <1>6, <2>2, <3>1, DeviceCounts
      <3>3. Pending' = Pending
        BY <2>4, <3>2 DEF Pending
      <3>4. \A i \in 1 .. Len(queue') :
              IF i > Len(queue') - Pending
              THEN queue'[i] = [op |-> "launch", case |-> caseNo]
              ELSE queue'[i].case # caseNo
        BY <2>2, <2>3, <2>6
      <3>5. Pending \in 0 .. Len(queue')
        BY <2>2, <2>3, <2>6
      <3> QED BY <2>1, <2>3, <2>4, <3>2, <3>3, <3>4, <3>5 DEF WarmupInv, WarmupLaunched, Pending
    <2> QED BY <2>5, <2>6
  <1>7. CASE Exited
    BY <1>7 DEF Exited, vars, WarmingUp
  <1>8. CASE \/ ParseOptions \/ Open \/ Close \/ NextCase \/ Dispose \/ SynchronizeFails
             \/ (Acquire /\ ~SetRepeatable) \/ (Stream /\ ~Warmup)
    <2>1. pc' \notin WarmingUp
      BY <1>8 DEF ParseOptions, Open, AclInit, SetDevice, CreateStream, OpenUnwinding, Close,
        NextCase, Dispose, Release, Destructors, SynchronizeFails, Acquire, CreateTensor,
        GetWorkspaceSize, MallocWorkspace, Stream, Measure, LaunchLoop, Record, Goto, Fail,
        WarmingUp
    <2> QED BY <2>1
  <1> QED BY <1>3, <1>4, <1>5, <1>6, <1>7, <1>8 DEF Next, Host

-----------------------------------------------------------------------------
(* The measurement: the device is at one place of start, launches, end *)

\* Entry i of the measurement of n launches, and what the device shows when
\* it has taken the first i of them.
OpOf(n, i) == IF i = 1 THEN "start" ELSE IF i <= n + 1 THEN "launch" ELSE "end"
TimedOf(n, i) == IF i = 0 THEN 0 ELSE IF i > n + 1 THEN n ELSE i - 1
TimingOf(n, i) == IF i = 0 THEN "no" ELSE IF i > n + 1 THEN "stopped" ELSE "running"

\* The queue q holds the last of the first len entries of case c.
Ahead(q, len, n, c, time, state) ==
  /\ len - Len(q) \in 0 .. len
  /\ \A i \in 1 .. Len(q) : q[i] = [op |-> OpOf(n, len - Len(q) + i), case |-> c]
  /\ time = TimedOf(n, len - Len(q))
  /\ state = TimingOf(n, len - Len(q))

Measuring == {"measure", "recordEnd", "measureSync"}

LEMMA MeasureForm ==
  MeasureInv <=>
    /\ pc \in Measuring =>
         /\ Launched <= tc.repeat
         /\ Ahead(queue, MeasureLen, Launched, caseNo, timed, timing)
         /\ finished = tc.warmup + timed
    /\ pc \in {"elapsed", "verify"} =>
         timing = "stopped" /\ timed = tc.repeat /\ finished = tc.warmup + tc.repeat
  BY DEF MeasureInv, Measuring, Ahead, OpOf, OpAt, TimedOf, TimingOf

\* Entries that are already queued do not change with the launches to come.
LEMMA SameOps ==
  ASSUME NEW n \in Nat, NEW m \in {n, n + 1}
  PROVE  /\ \A i \in 0 .. n + 1 : /\ OpOf(n, i) = OpOf(m, i)
                                  /\ TimedOf(n, i) = TimedOf(m, i)
                                  /\ TimingOf(n, i) = TimingOf(m, i)
         /\ OpOf(m, n + 2) = IF m = n THEN "end" ELSE "launch"
  BY DEF OpOf, TimedOf, TimingOf

\* A launch or the end event more: the device is where it was.
LEMMA AheadGrows ==
  ASSUME NEW q \in Seq(Entry), NEW n \in Nat, NEW m \in {n, n + 1}, NEW c \in Nat,
         NEW time, NEW state, Ahead(q, n + 1, n, c, time, state),
         NEW r, r = Append(q, [op |-> IF m = n THEN "end" ELSE "launch", case |-> c])
  PROVE  Ahead(r, n + 2, m, c, time, state)
  <1> DEFINE op == IF m = n THEN "end" ELSE "launch"
  <1>1. [op |-> op, case |-> c] \in Entry
    BY DEF Entry
  <1>2. /\ Len(q) \in Nat /\ Len(r) = Len(q) + 1
        /\ \A i \in 1 .. Len(q) : r[i] = q[i]
        /\ r[Len(q) + 1] = [op |-> op, case |-> c]
    BY <1>1
  <1> HIDE DEF op
  <1> DEFINE done == n + 1 - Len(q)
  <1>3. /\ done \in 0 .. n + 1 /\ n + 2 - Len(r) = done
        /\ \A i \in 1 .. Len(q) : q[i] = [op |-> OpOf(n, done + i), case |-> c]
        /\ time = TimedOf(n, done) /\ state = TimingOf(n, done)
    BY <1>2 DEF Ahead
  <1>4. /\ \A i \in 0 .. n + 1 : /\ OpOf(n, i) = OpOf(m, i)
                                 /\ TimedOf(n, i) = TimedOf(m, i)
                                 /\ TimingOf(n, i) = TimingOf(m, i)
        /\ OpOf(m, n + 2) = op
    BY SameOps DEF op
  <1>5. ASSUME NEW i \in 1 .. Len(r)
        PROVE  r[i] = [op |-> OpOf(m, done + i), case |-> c]
    <2>1. CASE i \in 1 .. Len(q)
      <3>1. done + i \in 0 .. n + 1
        BY <1>2, <1>3, <2>1
      <3> QED BY <1>2, <1>3, <1>4, <2>1, <3>1
    <2>2. CASE i = Len(q) + 1
      <3>1. done + i = n + 2
        BY <1>2, <2>2
      <3> QED BY <1>2, <1>4, <2>2, <3>1
    <2> QED BY <1>2, <2>1, <2>2
  <1>6. time = TimedOf(m, done) /\ state = TimingOf(m, done) /\ done \in 0 .. n + 2
    BY <1>3, <1>4
  <1> QED BY <1>3, <1>5, <1>6 DEF Ahead

\* The device takes the next one: what it is, and what is ahead then.
LEMMA AheadTaken ==
  ASSUME NEW q \in Seq(Entry), q # << >>, NEW n \in Nat, NEW len \in {n + 1, n + 2}, NEW c \in Nat,
         NEW time, NEW state, Ahead(q, len, n, c, time, state)
  PROVE  LET i == len - Len(q) + 1
         IN  /\ i \in 1 .. n + 2 /\ time = TimedOf(n, i - 1) /\ state = TimingOf(n, i - 1)
             /\ Head(q) = [op |-> OpOf(n, i), case |-> c]
             /\ Ahead(Tail(q), len, n, c, TimedOf(n, i), TimingOf(n, i))
  <1> DEFINE done == len - Len(q)
  <1>1. /\ Len(q) \in Nat \ {0} /\ Len(Tail(q)) = Len(q) - 1 /\ 1 \in 1 .. Len(q)
        /\ \A i \in 1 .. Len(q) - 1 : i + 1 \in 1 .. Len(q) /\ Tail(q)[i] = q[i + 1]
        /\ Head(q) = q[1]
    OBVIOUS
  <1>2. /\ done \in 0 .. len
        /\ \A i \in 1 .. Len(q) : q[i] = [op |-> OpOf(n, done + i), case |-> c]
        /\ time = TimedOf(n, done) /\ state = TimingOf(n, done)
    BY DEF Ahead
  <1>3. done + 1 \in 1 .. n + 2 /\ done + 1 - 1 = done /\ len - Len(Tail(q)) = done + 1
        /\ done + 1 \in 0 .. len
    BY <1>1, <1>2
  <1>4. Head(q) = [op |-> OpOf(n, done + 1), case |-> c]
    BY <1>1, <1>2
  <1>5. \A i \in 1 .. Len(Tail(q)) : Tail(q)[i] = [op |-> OpOf(n, done + 1 + i), case |-> c]
    <2> SUFFICES ASSUME NEW i \in 1 .. Len(Tail(q))
                 PROVE  Tail(q)[i] = [op |-> OpOf(n, done + 1 + i), case |-> c]
      OBVIOUS
    <2>1. i + 1 \in 1 .. Len(q) /\ Tail(q)[i] = q[i + 1]
      BY <1>1
    <2>2. q[i + 1] = [op |-> OpOf(n, done + (i + 1)), case |-> c]
      BY <1>2, <2>1
    <2>3. done + (i + 1) = done + 1 + i
      BY <1>2
    <2> QED BY <2>1, <2>2, <2>3
  <1>6. Ahead(Tail(q), len, n, c, TimedOf(n, done + 1), TimingOf(n, done + 1))
    BY <1>3, <1>5 DEF Ahead
  <1> QED BY <1>2, <1>3, <1>4, <1>6

\* How the counters move at an entry.
LEMMA TakenOps ==
  ASSUME NEW n \in Nat, NEW i \in 1 .. n + 2
  PROVE  /\ OpOf(n, i) = "start" => TimedOf(n, i) = TimedOf(n, i - 1) /\ TimingOf(n, i) = "running"
         /\ OpOf(n, i) = "launch" => /\ TimedOf(n, i) = TimedOf(n, i - 1) + 1
                                     /\ TimingOf(n, i - 1) = "running" /\ TimingOf(n, i) = "running"
         /\ OpOf(n, i) = "end" => TimedOf(n, i) = TimedOf(n, i - 1) /\ TimingOf(n, i) = "stopped"
         /\ OpOf(n, i) \in {"start", "launch", "end"} /\ TimedOf(n, i - 1) \in Nat
  BY DEF OpOf, TimedOf, TimingOf

LEMMA MeasureDevice ==
  ASSUME TypeInv, VerdictInv, QueueInv, MeasureInv, Device
  PROVE  MeasureInv'
  <1>1. /\ queue # << >> /\ queue' = Tail(queue) /\ UNCHANGED <<pc, caseNo, tc, made>>
    BY DeviceCounts
  <1>2. SUFFICES ASSUME pc \in Measuring PROVE MeasureInv'
    BY <1>1, DeviceIdle DEF MeasureInv, Measuring
  <1>3. /\ queue \in Seq(Entry) /\ tc.warmup \in Nat /\ caseNo \in Nat /\ Launched \in Nat
        /\ MeasureLen \in {Launched + 1, Launched + 2}
    BY CaseTyped DEF QueueInv, TypeInv, Launched, MeasureLen
  <1>4. /\ Launched <= tc.repeat
        /\ Ahead(queue, MeasureLen, Launched, caseNo, timed, timing)
        /\ finished = tc.warmup + timed
    BY <1>2, MeasureForm
  <1> DEFINE i == MeasureLen - Len(queue) + 1
  <1>5. /\ i \in 1 .. Launched + 2
        /\ timed = TimedOf(Launched, i - 1) /\ timing = TimingOf(Launched, i - 1)
        /\ Head(queue) = [op |-> OpOf(Launched, i), case |-> caseNo]
        /\ Ahead(queue', MeasureLen, Launched, caseNo, TimedOf(Launched, i), TimingOf(Launched, i))
    <2> HIDE DEF i
    <2>1. Ahead(queue, MeasureLen, Launched, caseNo, timed, timing) /\ i = MeasureLen - Len(queue) + 1
      BY <1>4 DEF i
    <2> QED BY <1>1, <1>3, <2>1, AheadTaken
  <1> HIDE DEF i
  <1>6. /\ OpOf(Launched, i) = "start" =>
             TimedOf(Launched, i) = TimedOf(Launched, i - 1) /\ TimingOf(Launched, i) = "running"
        /\ OpOf(Launched, i) = "launch" =>
             /\ TimedOf(Launched, i) = TimedOf(Launched, i - 1) + 1
             /\ TimingOf(Launched, i - 1) = "running" /\ TimingOf(Launched, i) = "running"
        /\ OpOf(Launched, i) = "end" =>
             TimedOf(Launched, i) = TimedOf(Launched, i - 1) /\ TimingOf(Launched, i) = "stopped"
        /\ OpOf(Launched, i) \in {"start", "launch", "end"} /\ TimedOf(Launched, i - 1) \in Nat
    BY <1>3, <1>5, TakenOps
  <1>7. Head(queue).op = OpOf(Launched, i) /\ Head(queue).case = caseNo
    BY <1>5
  <1>8. /\ timed' = TimedOf(Launched, i) /\ timing' = TimingOf(Launched, i)
        /\ finished' = tc.warmup + timed'
    <2>1. CASE OpOf(Launched, i) = "start"
      BY <1>4, <1>5, <1>6, <1>7, <2>1, DeviceCounts
    <2>2. CASE OpOf(Launched, i) = "launch"
      <3>1. finished' = finished + 1 /\ timing' = timing /\ timed' = timed + 1
        BY <1>5, <1>6, <1>7, <2>2, DeviceCounts
      <3> QED BY <1>3, <1>4, <1>5, <1>6, <2>2, <3>1
    <2>3. CASE OpOf(Launched, i) = "end"
      BY <1>4, <1>5, <1>6, <1>7, <2>3, DeviceCounts
    <2> QED BY <1>6, <2>1, <2>2, <2>3
  <1>9. MeasureLen' = MeasureLen /\ Launched' = Launched
    BY <1>1 DEF MeasureLen, Launched
  <1>10. /\ Launched' <= tc'.repeat
         /\ Ahead(queue', MeasureLen', Launched', caseNo', timed', timing')
         /\ finished' = tc'.warmup + timed'
    BY <1>1, <1>4, <1>5, <1>8, <1>9
  <1> QED BY <1>1, <1>2, <1>10
       DEF MeasureInv, Measuring, Ahead, OpOf, OpAt, TimedOf, TimingOf

\* A step to a point of the measurement restores it with the facts of MeasureForm.
LEMMA MeasureFormNext ==
  ASSUME pc' \in Measuring, NEW n, NEW len, Launched' = n, MeasureLen' = len, n <= tc'.repeat,
         Ahead(queue', len, n, caseNo', timed', timing'), finished' = tc'.warmup + timed'
  PROVE  MeasureInv'
  BY DEF MeasureInv, Measuring, Ahead, OpOf, OpAt, TimedOf, TimingOf

LEMMA MeasureStream ==
  ASSUME TypeInv, QueueInv, WarmupInv, MeasureInv, Stream
  PROVE  MeasureInv'
  <1>1. /\ UNCHANGED <<caseNo, tc, finished, timed, timing>>
        /\ queue \in Seq(Entry) /\ caseNo \in Nat /\ tc.repeat \in Nat /\ tc.warmup \in Nat /\ made \in Nat
    BY CaseTyped DEF Stream, QueueInv, TypeInv
  <1>2. CASE Warmup \/ pc' = "release"
    BY <1>2 DEF Warmup, LaunchLoop, Goto, Fail, MeasureInv
  <1>3. CASE Record("recordStart", "start", "measure") /\ pc' # "release"
    <2>1. /\ pc = "recordStart" /\ pc' = "measure" /\ made' = made
          /\ queue' = Append(queue, [op |-> "start", case |-> caseNo])
      BY <1>3 DEF Record, Goto, Fail, Enqueue
    <2>2. made = 0 /\ queue = << >>
      BY <2>1 DEF QueueInv
    <2>3. timing = "no" /\ timed = 0 /\ finished = tc.warmup
      <3>1. /\ timing = "no" /\ timed = 0 /\ finished \in Int
            /\ Pending \in 0 .. Len(queue) /\ WarmupLaunched = tc.warmup
        BY <2>1, WarmupForm DEF WarmingUp, WarmupLaunched, TypeInv
      <3>2. Len(queue) = 0
        BY <2>2
      <3> QED BY <1>1, <3>1, <3>2 DEF Pending
    <2>4. Len(queue') = 1 /\ queue'[1] = [op |-> "start", case |-> caseNo]
      BY <2>1, <2>2
    <2>5. Ahead(queue', 1, 0, caseNo, 0, "no")
      BY <2>4 DEF Ahead, OpOf, TimedOf, TimingOf
    <2>6. Launched' = 0 /\ MeasureLen' = 1
      BY <2>1, <2>2 DEF Launched, MeasureLen
    <2>7. pc' \in Measuring /\ 0 <= tc'.repeat /\ finished' = tc'.warmup + timed'
          /\ Ahead(queue', 1, 0, caseNo', timed', timing')
      BY <1>1, <2>1, <2>3, <2>5 DEF Measuring
    <2> QED BY <2>6, <2>7, MeasureFormNext
  <1>4. CASE pc \in Measuring /\ pc' # "release"
    <2>1. /\ Launched <= tc.repeat
          /\ Ahead(queue, MeasureLen, Launched, caseNo, timed, timing)
          /\ finished = tc.warmup + timed
      BY <1>4, MeasureForm
    <2>2. CASE pc = "measure" /\ made = tc.repeat
      <3>1. pc' = "recordEnd" /\ UNCHANGED queue
        BY <1>4, <2>2 DEF Stream, Warmup, Measure, LaunchLoop, Record, Goto
      <3>2. Launched' = Launched /\ MeasureLen' = MeasureLen
        BY <1>1, <2>2, <3>1 DEF Launched, MeasureLen
      <3>3. pc' \in Measuring
        BY <3>1 DEF Measuring
      <3> QED BY <1>1, <2>1, <3>1, <3>2, <3>3, MeasureFormNext
    <2>3. CASE pc = "measure" /\ made # tc.repeat
      <3>1. /\ pc' = "measure" /\ made' = made + 1
            /\ queue' = Append(queue, [op |-> "launch", case |-> caseNo])
        BY <1>4, <2>3 DEF Stream, Warmup, Measure, LaunchLoop, Record, Goto, Fail, Enqueue
      <3>2. Launched = made /\ MeasureLen = made + 1 /\ Launched' = made + 1 /\ MeasureLen' = made + 2
        BY <1>1, <2>3, <3>1 DEF Launched, MeasureLen
      <3>3. Ahead(queue', made + 2, made + 1, caseNo, timed, timing)
        <4>1. made + 1 # made /\ made + 1 \in {made, made + 1}
          BY <1>1
        <4>2. queue' = Append(queue, [op |-> IF made + 1 = made THEN "end" ELSE "launch", case |-> caseNo])
          BY <3>1, <4>1
        <4> QED BY <1>1, <2>1, <3>2, <4>1, <4>2, AheadGrows
      <3>4. pc' \in Measuring /\ made + 1 <= tc'.repeat
        BY <1>1, <2>1, <2>3, <3>1, <3>2 DEF Measuring
      <3> QED BY <1>1, <2>1, <3>2, <3>3, <3>4, MeasureFormNext
    <2>4. CASE pc = "recordEnd"
      <3>1. /\ pc' = "measureSync" /\ queue' = Append(queue, [op |-> "end", case |-> caseNo])
        BY <1>4, <2>4 DEF Stream, Warmup, Measure, LaunchLoop, Record, Goto, Fail, Enqueue
      <3>2. /\ Launched = tc.repeat /\ MeasureLen = tc.repeat + 1
            /\ Launched' = tc.repeat /\ MeasureLen' = tc.repeat + 2
        BY <1>1, <2>4, <3>1 DEF Launched, MeasureLen
      <3>3. Ahead(queue', tc.repeat + 2, tc.repeat, caseNo, timed, timing)
        BY <1>1, <2>1, <3>1, <3>2, AheadGrows
      <3>4. pc' \in Measuring /\ tc.repeat <= tc'.repeat
        BY <1>1, <3>1 DEF Measuring
      <3> QED BY <1>1, <2>1, <3>2, <3>3, <3>4, MeasureFormNext
    <2>5. pc # "measureSync"
      BY <1>4 DEF Stream, Warmup, Measure, LaunchLoop, Record
    <2> QED BY <1>4, <2>2, <2>3, <2>4, <2>5 DEF Measuring
  <1> QED BY <1>2, <1>3, <1>4 DEF Stream, Measure, LaunchLoop, Record, Measuring

\* Waiting for an empty stream leaves the device behind the end event.
LEMMA MeasureJudge ==
  ASSUME TypeInv, QueueInv, MeasureInv, Judge
  PROVE  MeasureInv'
  <1>1. UNCHANGED <<queue, caseNo, tc, finished, timed, timing>>
    BY DEF Judge, deviceVars
  <1>2. CASE pc = "measureSync"
    <2>1. queue = << >> /\ pc' = "elapsed"
      BY <1>2 DEF Judge, Synchronize, Elapsed, Verify, AfterSync, Goto
    <2>2. /\ Ahead(queue, tc.repeat + 2, tc.repeat, caseNo, timed, timing)
          /\ finished = tc.warmup + timed
      BY <1>2, MeasureForm DEF Measuring, Launched, MeasureLen
    <2>3. timing = "stopped" /\ timed = tc.repeat
      <3>1. tc.repeat \in Nat /\ Len(queue) = 0
        BY <2>1, CaseTyped DEF TypeInv
      <3> QED BY <2>2, <3>1 DEF Ahead, TimedOf, TimingOf
    <2> QED BY <1>1, <2>1, <2>2, <2>3 DEF MeasureInv
  <1>3. CASE pc # "measureSync"
    BY <1>1, <1>3 DEF Judge, Synchronize, Elapsed, Verify, AfterSync, Goto, Fail, MeasureInv
  <1> QED BY <1>2, <1>3

LEMMA MeasureStep ==
  TypeInv /\ VerdictInv /\ QueueInv /\ WarmupInv /\ MeasureInv /\ Next => MeasureInv'
  <1> SUFFICES ASSUME TypeInv, VerdictInv, QueueInv, WarmupInv, MeasureInv, Next PROVE MeasureInv'
    OBVIOUS
  <1>1. CASE Device
    BY <1>1, MeasureDevice
  <1>2. CASE Stream
    BY <1>2, MeasureStream
  <1>3. CASE Judge
    BY <1>3, MeasureJudge
  <1>4. CASE Exited
    BY <1>4 DEF Exited, vars, MeasureInv
  <1>5. CASE \/ ParseOptions \/ Open \/ Close \/ NextCase \/ Acquire \/ CreateEvents \/ Dispose
             \/ SynchronizeFails
    <2>1. pc' \notin {"measure", "recordEnd", "measureSync", "elapsed", "verify"}
      BY <1>5 DEF ParseOptions, Open, AclInit, SetDevice, CreateStream, OpenUnwinding, Close,
        NextCase, Dispose, Release, Destructors, SynchronizeFails, Acquire, CreateTensor,
        GetWorkspaceSize, MallocWorkspace, SetRepeatable, CreateEvents, Goto, Fail
    <2> QED BY <2>1 DEF MeasureInv
  <1> QED BY <1>1, <1>2, <1>3, <1>4, <1>5 DEF Next, Host

-----------------------------------------------------------------------------
(* The invariant of every execution *)

LEMMA InitIInv == Init => IInv
  <1> SUFFICES ASSUME Init PROVE IInv
    OBVIOUS
  <1>1. TypeInv /\ VerdictInv /\ LiveInv
    BY InitType, InitLive
  <1>2. QueueInv
    BY DEF Init, QueueInv, Preparing, Creating, Ending
  <1>3. WarmupInv /\ MeasureInv
    BY DEF Init, WarmupInv, MeasureInv
  <1> QED BY <1>1, <1>2, <1>3 DEF IInv

LEMMA NextIInv == IInv /\ [Next]_vars => IInv'
  <1> SUFFICES ASSUME IInv, [Next]_vars PROVE IInv'
    OBVIOUS
  <1>1. CASE Next
    BY <1>1, TypeStep, LiveStep, VerdictStep, QueueStep, WarmupStep, MeasureStep DEF IInv
  <1>2. CASE UNCHANGED vars
    <2> USE <1>2 DEF vars
    <2>1. TypeInv' /\ VerdictInv'
      BY DEF IInv, TypeInv, VerdictInv
    <2>2. LiveInv'
      BY DEF IInv, LiveInv, Held, RuntimeHeld, CaseHeld, Workspace, FirstTensors, AddrOf, TensorOf
    <2>3. QueueInv'
      BY DEF IInv, QueueInv, Success, Earned
    <2>4. WarmupInv' /\ MeasureInv'
      BY DEF IInv, WarmupInv, MeasureInv, Launched, MeasureLen, OpAt
    <2> QED BY <2>1, <2>2, <2>3, <2>4 DEF IInv
  <1> QED BY <1>1, <1>2

\* Where the program is tells which handles are held, what the stream still
\* has to do and for which case, and what the device has counted.
THEOREM HarnessInvariant == Spec => []IInv
  BY InitIInv, NextIInv, PTL DEF Spec

-----------------------------------------------------------------------------
(* The properties *)

LEMMA HeldHolds ==
  ASSUME LiveInv, NEW h \in Handles
  PROVE  Holds(h) <=> h \in Held
  BY DEF LiveInv, Held, Holds

\* During a case the tensors are built in order: address before tensor.
LEMMA CaseOrder ==
  ASSUME TypeInv, LiveInv, pc \in Running
  PROVE  /\ EXECUTOR \in Held => TensorHandles \subseteq Held
         /\ \A i \in 1 .. 5 : TensorOf(i) \in Held => AddrOf(i) \in Held
         /\ {ACL, DEVICE, STREAM} \subseteq Held
  <1>1. Held = {ACL, DEVICE, STREAM} \cup CaseHeld
    BY DEF LiveInv, RuntimeHeld, Running, Preparing, Creating, Streaming
  <1>2. CASE pc \in Creating
    <2>1. /\ made \in 0 .. 4 /\ FirstTensors(made) \subseteq CaseHeld
          /\ CaseHeld \subseteq FirstTensors(made) \cup {AddrOf(made + 1)}
      BY <1>2 DEF TypeInv, CaseHeld, Creating
    <2>2. EXECUTOR \notin Held
      <3>1. FirstTensors(made) \cup {AddrOf(made + 1)} \subseteq TensorHandles
        BY <2>1, FirstOnes
      <3>2. EXECUTOR \notin TensorHandles \cup {ACL, DEVICE, STREAM}
        BY HandlesDiffer DEF RuntimeHandles
      <3> QED BY <1>1, <2>1, <3>1, <3>2
    <2>3. \A i \in 1 .. 5 : TensorOf(i) \in Held => AddrOf(i) \in Held
      <3> SUFFICES ASSUME NEW i \in 1 .. 5, TensorOf(i) \in Held PROVE AddrOf(i) \in Held
        OBVIOUS
      <3>1. made + 1 \in 1 .. 5 /\ 1 .. made \subseteq 1 .. 5
        BY <2>1
      <3>2. TensorOf(i) \in TensorHandles
        BY DEF TensorHandles, TensorOf
      <3>3. TensorOf(i) # AddrOf(made + 1) /\ TensorOf(i) \notin {ACL, DEVICE, STREAM}
        BY <3>1, <3>2, HandlesDiffer, TensorsDiffer DEF RuntimeHandles
      <3>4. TensorOf(i) \in FirstTensors(made)
        BY <1>1, <2>1, <3>3
      <3>5. PICK j \in 1 .. made : TensorOf(i) = TensorOf(j) \/ TensorOf(i) = AddrOf(j)
        BY <3>4 DEF FirstTensors
      <3>6. i = j
        BY <3>1, <3>5, TensorsDiffer
      <3>7. AddrOf(i) \in FirstTensors(made)
        BY <3>5, <3>6 DEF FirstTensors
      <3> QED BY <1>1, <2>1, <3>7
    <2> QED BY <1>1, <2>2, <2>3
  <1>3. CASE pc \notin Creating
    <2>1. TensorHandles \subseteq Held
      BY <1>1, <1>3 DEF CaseHeld, Running, Preparing, Creating
    <2>2. \A i \in 1 .. 5 : AddrOf(i) \in TensorHandles
      BY DEF TensorHandles, AddrOf
    <2> QED BY <1>1, <2>1, <2>2
  <1> QED BY <1>2, <1>3

\* Every handle the test program creates is released once, whichever call
\* fails: between cases only the runtime, the device and the stream are
\* held, and nothing when the process exits.
THEOREM HarnessReleasedOnce == Spec => []ReleasedOnce
  <1>1. IInv => ReleasedOnce
    <2> SUFFICES ASSUME IInv PROVE ReleasedOnce
      OBVIOUS
    <2>1. TypeInv /\ LiveInv /\ VerdictInv
      BY DEF IInv
    <2>2. TypeOK
      BY <2>1, HarnessAssumption DEF TypeInv, LiveInv, VerdictInv, TypeOK
    <2>3. pc = "nextCase" => \A h \in CaseHandles : ~Holds(h)
      <3> SUFFICES ASSUME pc = "nextCase", NEW h \in CaseHandles PROVE ~Holds(h)
        OBVIOUS
      <3>1. Held = {ACL, DEVICE, STREAM}
        BY <2>1 DEF LiveInv, RuntimeHeld, Between
      <3>2. h \notin {ACL, DEVICE, STREAM} /\ h \in Handles
        BY HandlesDiffer DEF Handles, CaseHandles, RuntimeHandles
      <3> QED BY <2>1, <3>1, <3>2, HeldHolds
    <2>4. pc = "exited" => \A h \in Handles : ~Holds(h)
      BY <2>1, HeldHolds DEF LiveInv, RuntimeHeld, Between
    <2> QED BY <2>2, <2>3, <2>4 DEF ReleasedOnce, NothingLeaks
  <1> QED BY <1>1, HarnessInvariant, PTL

\* Nothing is released under what is built on it, and a launch that is still
\* queued finds its executor, its workspace and its tensors unless its case
\* has failed.
THEOREM HarnessNothingReleasedInUse == Spec => []NothingReleasedInUse
  <1>1. IInv => NothingReleasedInUse
    <2> SUFFICES ASSUME IInv PROVE NothingReleasedInUse
      OBVIOUS
    <2>1. TypeInv /\ LiveInv /\ VerdictInv /\ QueueInv
      BY DEF IInv
    <2>2. \A h \in Handles : Holds(h) <=> h \in Held
      BY <2>1, HeldHolds
    <2>3. ReleasedInOrder
      <3>1. /\ Held \subseteq Handles
            /\ ACL \in Handles /\ DEVICE \in Handles /\ EXECUTOR \in Handles /\ TensorHandles \subseteq Handles
            /\ \A i \in 1 .. 5 : AddrOf(i) \in Handles /\ TensorOf(i) \in Handles
        BY DEF Held, Handles, CaseHandles, TensorHandles, AddrOf, TensorOf
      <3>2. CASE pc \in Between
        <4>1. Held = RuntimeHeld
          BY <2>1, <3>2 DEF LiveInv
        <4>2. /\ EXECUTOR \notin Held /\ \A i \in 1 .. 5 : TensorOf(i) \notin Held
          <5>1. Held \subseteq RuntimeHandles
            BY <4>1 DEF RuntimeHeld, RuntimeHandles
          <5>2. \A i \in 1 .. 5 : TensorOf(i) \in TensorHandles
            BY DEF TensorHandles, TensorOf
          <5> QED BY <5>1, <5>2, HandlesDiffer
        <4>3. /\ \A h \in Held \ {ACL} : ACL \in Held
              /\ \A h \in Held \ {ACL, DEVICE} : DEVICE \in Held
          BY <4>1 DEF RuntimeHeld
        <4> QED BY <2>2, <3>1, <4>2, <4>3 DEF ReleasedInOrder, TensorOf
      <3>3. CASE pc \in Running
        <4>1. /\ EXECUTOR \in Held => TensorHandles \subseteq Held
              /\ \A i \in 1 .. 5 : TensorOf(i) \in Held => AddrOf(i) \in Held
              /\ {ACL, DEVICE, STREAM} \subseteq Held
          BY <2>1, <3>3, CaseOrder
        <4> QED BY <2>2, <3>1, <4>1 DEF ReleasedInOrder, TensorOf, AddrOf
      <3>4. CASE pc \in Ending
        <4>1. {ACL, DEVICE, STREAM} \subseteq Held
          BY <2>1, <3>4 DEF LiveInv, RuntimeHeld, Ending
        <4>2. EXECUTOR \in Held => TensorHandles \subseteq Held
          BY <2>1, <3>4 DEF LiveInv, Ending
        <4>3. \A i \in 1 .. 5 : TensorOf(i) \in Held => AddrOf(i) \in Held
          <5>1. \A i \in 1 .. 5 : AddrOf(i) \in TensorHandles
            BY DEF TensorHandles, AddrOf
          <5> QED BY <2>1, <3>4, <5>1 DEF LiveInv, Ending
        <4> QED BY <2>2, <3>1, <4>1, <4>2, <4>3 DEF ReleasedInOrder, TensorOf, AddrOf
      <3> QED BY <2>1, <3>2, <3>3, <3>4 DEF TypeInv, PC
    <2>4. LaunchesKeepResources
      <3> SUFFICES ASSUME NEW i \in DOMAIN queue, queue[i].case \notin failed
                   PROVE  /\ queue[i].case = caseNo
                          /\ Holds(EXECUTOR) /\ (tc.workspace => Holds(WORKSPACE))
                          /\ \A h \in TensorHandles : Holds(h)
        BY DEF LaunchesKeepResources
      <3>1. queue[i].case = caseNo /\ pc \in Streaming
        <4>1. DOMAIN queue = 1 .. Len(queue)
          BY <2>1 DEF QueueInv
        <4> QED BY <2>1, <4>1 DEF QueueInv
      <3>2. /\ TensorHandles \cup {EXECUTOR} \subseteq Held
            /\ tc.workspace => WORKSPACE \in Held
        <4>1. TensorHandles \cup {EXECUTOR} \cup Workspace \subseteq CaseHeld /\ CaseHeld \subseteq Held
          BY <2>1, <3>1 DEF LiveInv, CaseHeld, Running, Streaming, Timed
        <4> QED BY <4>1 DEF Workspace
      <3>3. EXECUTOR \in Handles /\ WORKSPACE \in Handles /\ TensorHandles \subseteq Handles
        BY DEF Handles, CaseHandles
      <3> QED BY <2>2, <3>1, <3>2, <3>3
    <2> QED BY <2>3, <2>4 DEF NothingReleasedInUse
  <1> QED BY <1>1, HarnessInvariant, PTL

\* The elapsed time that is printed spans the measured launches, all of them
\* and no warm-up, and the device is idle when the output is read.
THEOREM HarnessTimesMeasuredOnly == Spec => []TimesMeasuredOnly
  <1>1. IInv => TimesMeasuredOnly
    BY DEF IInv, QueueInv, MeasureInv, TimesMeasuredOnly
  <1> QED BY <1>1, HarnessInvariant, PTL

\* A case that passes has earned it, and the process returns 0 after running
\* cases only if every selected one has.
THEOREM HarnessExitTells == Spec => []ExitTells
  <1>1. IInv => ExitTells
    BY DEF IInv, VerdictInv, ExitTells
  <1> QED BY <1>1, HarnessInvariant, PTL
=============================================================================
