------------------------------ MODULE KktHarness ------------------------------
(***************************************************************************)
(* The test program: main() opens the device and a stream, RunOneCase()    *)
(* creates the tensors of a case, launches the operator warmup + repeat    *)
(* times on the stream, times and verifies it, and releases what it has    *)
(* (examples/test_aclnn_chunk_scaled_dot_kkt.cpp).  Every ACL call may     *)
(* fail.  The device runs beside the host, in stream order.                *)
(*                                                                         *)
(* Handles are <<kind, name>> pairs; live counts creations less releases.  *)
(* What a launch computes is the state of the output tensor: "poison" as   *)
(* created, "right" or "wrong" as the last launch left it.                 *)
(***************************************************************************)
EXTENDS Integers, Sequences

CONSTANTS Selected,  \* number of cases the options select
          Cases      \* cases after RunOneCase() applied the overrides:
                     \* [valid, warmup, repeat, mode, rows, workspace]

ASSUME HarnessAssumption ==
  /\ Selected \in Nat \ {0}
  /\ \A c \in Cases : /\ c.valid \in BOOLEAN /\ c.workspace \in BOOLEAN
                      /\ c.warmup \in Nat /\ c.repeat \in Nat /\ c.rows \in Nat
                      /\ c.mode \in {"full", "sampled", "none"}
                      /\ c.valid => c.repeat > 0

\* The order of CreateTensorFromHost() and CreateOutputTensor() calls.
TensorNames == <<"k", "beta", "g", "offsets", "output">>

ACL_ERROR == 100000   \* any error code of ACL

Addr(name) == <<"addr", name>>
Tensor(name) == <<"tensor", name>>
ACL == <<"acl", "init">>
DEVICE == <<"acl", "device">>
STREAM == <<"acl", "stream">>
EXECUTOR == <<"case", "executor">>
WORKSPACE == <<"case", "workspace">>
START == <<"event", "start">>
END == <<"event", "end">>

TensorHandles == {Addr(TensorNames[i]) : i \in 1 .. 5}
                   \cup {Tensor(TensorNames[i]) : i \in 1 .. 5}
CaseHandles == TensorHandles \cup {EXECUTOR, WORKSPACE, START, END}
Handles == CaseHandles \cup {ACL, DEVICE, STREAM}

VARIABLES pc,        \* the next call of the host
          live,      \* handle -> creations less releases
          ret,       \* exit code
          caseNo,    \* cases begun
          tc,        \* the case being run
          made,      \* tensors created, or launches of the loop at hand
          failed,    \* numbers of the cases with success = false
          passed,    \* passed
          queue,     \* what the stream has still to do
          finished,  \* launches of the case the device has finished
          timed,     \* of these, those between the two events
          timing,    \* "no", "running", "stopped"
          output,    \* the output tensor
          good       \* history: cases whose OK was earned

vars == <<pc, live, ret, caseNo, tc, made, failed, passed, queue, finished, timed,
          timing, output, good>>
deviceVars == <<queue, finished, timed, timing, output>>

Holds(h) == live[h] > 0
Created(S) == [h \in Handles |-> IF h \in S THEN live[h] + 1 ELSE live[h]]
Released(S) == [h \in Handles |-> IF h \in S THEN live[h] - 1 ELSE live[h]]
Existing(S) == {h \in S : Holds(h)}

Success == caseNo \notin failed

Init ==
  /\ pc = "options"
  /\ live = [h \in Handles |-> 0]
  /\ ret = 0 /\ caseNo = 0 /\ made = 0 /\ failed = {} /\ passed = 0 /\ good = 0
  /\ tc \in Cases
  /\ queue = <<>> /\ finished = 0 /\ timed = 0 /\ timing = "no" /\ output = "poison"

-----------------------------------------------------------------------------
(* main() *)

Goto(next) == pc' = next

\* Bad options and an empty selection exit with 2, --help and --list with 0.
ParseOptions ==
  /\ pc = "options"
  /\ \/ Goto("init") /\ UNCHANGED ret
     \/ Goto("exited") /\ ret' \in {0, 2}
  /\ UNCHANGED <<live, caseNo, tc, made, failed, passed, good, deviceVars>>

\* Opening the runtime; a failure undoes what was opened before it.
OpenUnwinding(handle, undo, next) ==
  \/ /\ live' = Created({handle}) /\ Goto(next) /\ UNCHANGED ret
  \/ /\ live' = Released(undo) /\ Goto("exited") /\ ret' = ACL_ERROR

AclInit == pc = "init" /\ OpenUnwinding(ACL, {}, "setDevice")
SetDevice == pc = "setDevice" /\ OpenUnwinding(DEVICE, {ACL}, "createStream")
CreateStream == pc = "createStream" /\ OpenUnwinding(STREAM, {DEVICE, ACL}, "nextCase")

Open ==
  /\ AclInit \/ SetDevice \/ CreateStream
  /\ UNCHANGED <<caseNo, tc, made, failed, passed, good, deviceVars>>

Close ==
  /\ \/ pc = "destroyStream" /\ live' = Released({STREAM}) /\ Goto("resetDevice")
     \/ pc = "resetDevice" /\ live' = Released({DEVICE}) /\ Goto("finalize")
     \/ pc = "finalize" /\ live' = Released({ACL}) /\ Goto("exited")
  /\ ret' = IF pc = "finalize" /\ passed # Selected THEN 1 ELSE ret
  /\ UNCHANGED <<caseNo, tc, made, failed, passed, good, deviceVars>>

\* The next selected case, its overrides and ValidateCase(), or the end.
NextCase ==
  /\ pc = "nextCase"
  /\ IF caseNo = Selected
     THEN Goto("destroyStream") /\ UNCHANGED <<caseNo, tc, made, failed, deviceVars>>
     ELSE /\ caseNo' = caseNo + 1
          /\ tc' \in Cases
          /\ made' = 0 /\ finished' = 0 /\ timed' = 0 /\ timing' = "no"
          /\ output' = "poison"
          /\ IF tc'.valid
             THEN Goto("malloc") /\ UNCHANGED failed
             ELSE Goto("nextCase") /\ failed' = failed \cup {caseNo'}
          /\ UNCHANGED queue
  /\ UNCHANGED <<live, ret, passed, good>>

-----------------------------------------------------------------------------
(* RunOneCase(): resources *)

Fail(next) == failed' = failed \cup {caseNo} /\ Goto(next)

\* aclrtMalloc, aclrtMemcpy or aclrtMemset, aclCreateTensor of one tensor;
\* on failure RunOneCase() returns and ~DeviceTensor() does the rest.
CreateTensor ==
  LET name == TensorNames[made + 1]
  IN  \/ /\ pc = "malloc"
         /\ \/ live' = Created({Addr(name)}) /\ Goto("copy") /\ UNCHANGED failed
            \/ Fail("destructors") /\ UNCHANGED live
         /\ UNCHANGED made
      \/ /\ pc = "copy"
         /\ \/ Goto("create") /\ UNCHANGED failed
            \/ Fail("destructors")
         /\ UNCHANGED <<live, made>>
      \/ /\ pc = "create"
         /\ \/ /\ live' = Created({Tensor(name)})
               /\ made' = made + 1
               /\ Goto(IF made + 1 = 5 THEN "getWorkspaceSize" ELSE "malloc")
               /\ UNCHANGED failed
            \/ Fail("destructors") /\ UNCHANGED <<live, made>>

\* A failed call may still hand out an executor, which is destroyed at once.
GetWorkspaceSize ==
  /\ pc = "getWorkspaceSize"
  /\ made' = 0
  /\ \/ /\ live' = Created({EXECUTOR}) /\ UNCHANGED failed
        /\ Goto(IF tc.workspace THEN "mallocWorkspace" ELSE "setRepeatable")
     \/ Fail("destructors") /\ UNCHANGED live

\* Seeded fault: the executor outlives a workspace that is not to be had.
MallocWorkspaceLeaking ==
  /\ pc = "mallocWorkspace"
  /\ \/ live' = Created({WORKSPACE}) /\ Goto("setRepeatable") /\ UNCHANGED failed
     \/ UNCHANGED live /\ Fail("destructors")
  /\ UNCHANGED made

MallocWorkspace ==
  /\ pc = "mallocWorkspace"
  /\ \/ live' = Created({WORKSPACE}) /\ Goto("setRepeatable") /\ UNCHANGED failed
     \/ live' = Released({EXECUTOR}) /\ Fail("destructors")
  /\ UNCHANGED made

SetRepeatable ==
  /\ pc = "setRepeatable"
  /\ \/ Goto("warmup") /\ UNCHANGED <<live, failed>>
     \/ live' = Released(Existing({WORKSPACE}) \cup {EXECUTOR}) /\ Fail("destructors")
  /\ UNCHANGED made

Acquire ==
  /\ CreateTensor \/ GetWorkspaceSize \/ MallocWorkspace \/ SetRepeatable
  /\ UNCHANGED <<ret, caseNo, tc, passed, good, deviceVars>>

\* The two aclrtCreateEvent() of one condition: end is tried only after start.
CreateEvents ==
  /\ pc = "createEvents"
  /\ \/ live' = Created({START, END}) /\ Goto("recordStart") /\ UNCHANGED failed
     \/ live' \in {live, Created({START})} /\ Fail("release")
  /\ UNCHANGED <<ret, caseNo, tc, made, passed, good, deviceVars>>

-----------------------------------------------------------------------------
(* RunOneCase(): the stream *)

Enqueue(op) == queue' = Append(queue, [op |-> op, case |-> caseNo])

\* One pass of the loop at pc of n launches; the loop ends in a jump to next.
\* A launch that fails queues nothing and gives up the case.
LaunchLoop(loop, n, next) ==
  /\ pc = loop
  /\ IF made = n
     THEN Goto(next) /\ made' = 0 /\ UNCHANGED <<queue, failed>>
     ELSE \/ Enqueue("launch") /\ made' = made + 1 /\ UNCHANGED <<pc, failed>>
          \/ Fail("release") /\ UNCHANGED <<queue, made>>

Warmup == LaunchLoop("warmup", tc.warmup, "warmupSync")
Measure == LaunchLoop("measure", tc.repeat, "recordEnd")

Record(at, op, next) ==
  /\ pc = at
  /\ \/ Enqueue(op) /\ Goto(next) /\ UNCHANGED failed
     \/ Fail("release") /\ UNCHANGED queue
  /\ UNCHANGED made

Stream ==
  /\ \/ Warmup \/ Measure
     \/ Record("recordStart", "start", "measure")
     \/ Record("recordEnd", "end", "measureSync")
  /\ UNCHANGED <<live, ret, caseNo, tc, passed, good, finished, timed, timing, output>>

\* What follows a successful aclrtSynchronizeStream().
AfterSync == [warmupSync |-> "createEvents", measureSync |-> "elapsed"]

\* Seeded fault: the measured launches are not waited for.
SynchronizeMeasuredNot ==
  /\ pc \in DOMAIN AfterSync
  /\ pc = "measureSync" \/ queue = <<>>
  /\ Goto(AfterSync[pc])

\* aclrtSynchronizeStream() returns success once the stream is empty.
Synchronize ==
  /\ pc \in DOMAIN AfterSync
  /\ queue = <<>>
  /\ Goto(AfterSync[pc])

\* It may fail at any time, whatever the device still runs.
SynchronizeFails ==
  /\ pc \in DOMAIN AfterSync
  /\ Fail("release")
  /\ UNCHANGED <<live, ret, caseNo, tc, made, passed, good, deviceVars>>

\* aclrtEventElapsedTime() of the two events.
Elapsed ==
  /\ pc = "elapsed"
  /\ \/ Goto("verify") /\ UNCHANGED failed
     \/ Fail("release")

\* ValidateFullOutput() reads the whole output, ValidateSampledOutput() some
\* rows of it, or none when no rows are asked for; a wrong output may escape
\* a sample.  Reading may fail.
Verify ==
  /\ pc = "verify"
  /\ \/ /\ CASE tc.mode = "full" -> output = "right"
             [] tc.mode = "sampled" -> tc.rows = 0 \/ output # "poison"
             [] OTHER -> TRUE
        /\ Goto("release") /\ UNCHANGED failed
     \/ /\ tc.mode = "full" \/ (tc.mode = "sampled" /\ tc.rows > 0)
        /\ Fail("release")

Judge ==
  /\ (Synchronize /\ UNCHANGED failed) \/ Elapsed \/ Verify
  /\ UNCHANGED <<live, ret, caseNo, tc, made, passed, good, deviceVars>>

\* The OK of a case is worth something: the device has finished all launches
\* of it, and a full check has seen the output of the last.
Earned ==
  /\ finished = tc.warmup + tc.repeat
  /\ tc.mode = "full" => output = "right"
  /\ tc.mode = "sampled" /\ tc.rows > 0 => output # "poison"

\* Seeded fault: a workspace is freed whether there was one or not.
ReleaseUnguarded ==
  /\ pc = "release"
  /\ live' = Released({WORKSPACE, EXECUTOR})
  /\ passed' = IF Success THEN passed + 1 ELSE passed
  /\ good' = IF Success /\ Earned THEN good + 1 ELSE good
  /\ Goto("destructors")

\* Seeded fault: the verdict counts every case that was run.
ReleaseCountingAll ==
  /\ pc = "release"
  /\ live' = Released(Existing({WORKSPACE}) \cup {EXECUTOR})
  /\ passed' = passed + 1
  /\ good' = IF Success /\ Earned THEN good + 1 ELSE good
  /\ Goto("destructors")

\* aclrtFree, aclDestroyAclOpExecutor and the verdict of the case.
Release ==
  /\ pc = "release"
  /\ live' = Released(Existing({WORKSPACE}) \cup {EXECUTOR})
  /\ passed' = IF Success THEN passed + 1 ELSE passed
  /\ good' = IF Success /\ Earned THEN good + 1 ELSE good
  /\ Goto("destructors")

\* ~EventPair(), and ~DeviceTensor() of the five tensors.
Destructors ==
  /\ pc = "destructors"
  /\ live' = Released(Existing({START, END} \cup TensorHandles))
  /\ Goto("nextCase")
  /\ UNCHANGED <<passed, good>>

Dispose ==
  /\ Release \/ Destructors
  /\ UNCHANGED <<ret, caseNo, tc, made, failed, deviceVars>>

-----------------------------------------------------------------------------
(* The device *)

\* External: the runtime takes the entries of the stream in order.
Device ==
  /\ queue # <<>>
  /\ queue' = Tail(queue)
  /\ LET entry == Head(queue)
         mine == entry.case = caseNo
     IN  /\ IF entry.op = "launch" /\ mine
            THEN /\ finished' = finished + 1
                 /\ timed' = IF timing = "running" THEN timed + 1 ELSE timed
                 /\ output' \in {"right", "wrong"}
            ELSE UNCHANGED <<finished, timed, output>>
         /\ timing' = CASE entry.op = "start" /\ mine -> "running"
                        [] entry.op = "end" /\ mine -> "stopped"
                        [] OTHER -> timing
  /\ UNCHANGED <<pc, live, ret, caseNo, tc, made, failed, passed, good>>

-----------------------------------------------------------------------------
Host == ParseOptions \/ Open \/ Close \/ NextCase \/ Acquire \/ CreateEvents
          \/ Stream \/ Judge \/ Dispose

Exited == pc = "exited" /\ UNCHANGED vars

Next == Host \/ SynchronizeFails \/ Device \/ Exited

Spec == Init /\ [][Next]_vars

-----------------------------------------------------------------------------
(* Properties *)

\* No handle is released twice or overwritten while it is held.
TypeOK ==
  /\ \A h \in Handles : live[h] \in {0, 1}
  /\ ret \in {0, 1, 2, ACL_ERROR}
  /\ caseNo \in 0 .. Selected /\ failed \subseteq 1 .. caseNo
  /\ passed \in 0 .. caseNo /\ good \in 0 .. caseNo
  /\ tc \in Cases /\ made \in Nat
  /\ finished \in Nat /\ timed \in 0 .. finished
  /\ timing \in {"no", "running", "stopped"} /\ output \in {"poison", "right", "wrong"}

\* Whichever call fails, everything created is released once: between cases
\* only the runtime, the device and the stream are held, at the end nothing.
NothingLeaks ==
  /\ pc = "nextCase" => \A h \in CaseHandles : ~Holds(h)
  /\ pc = "exited" => \A h \in Handles : ~Holds(h)

\* Every handle is released, and none a second time.
ReleasedOnce == TypeOK /\ NothingLeaks

\* Nothing is released under what is built on it.
ReleasedInOrder ==
  /\ \A h \in Handles \ {ACL} : Holds(h) => Holds(ACL)
  /\ \A h \in Handles \ {ACL, DEVICE} : Holds(h) => Holds(DEVICE)
  /\ \A i \in 1 .. 5 : Holds(Tensor(TensorNames[i])) => Holds(Addr(TensorNames[i]))
  /\ Holds(EXECUTOR) => \A h \in TensorHandles : Holds(h)

\* A launch the device has still to run finds its executor, workspace and
\* tensors, unless its case has failed: success paths synchronise first.
LaunchesKeepResources ==
  \A i \in DOMAIN queue :
    \/ queue[i].case \in failed
    \/ /\ queue[i].case = caseNo
       /\ Holds(EXECUTOR) /\ (tc.workspace => Holds(WORKSPACE))
       /\ \A h \in TensorHandles : Holds(h)

\* Neither the host nor a launch still queued loses what it builds on.
NothingReleasedInUse == ReleasedInOrder /\ LaunchesKeepResources

\* The time printed is that of the measured launches, all and only these, and
\* the device is idle when it is read and when the output is compared.
TimesMeasuredOnly ==
  pc \in {"elapsed", "verify"} =>
    /\ timing = "stopped" /\ timed = tc.repeat
    /\ queue = <<>> /\ finished = tc.warmup + tc.repeat

\* docs/testing.md: the process returns 0 only if every selected case passed,
\* and a case passes only by its launches and its comparison.
ExitTells ==
  /\ passed = good
  /\ pc = "exited" /\ caseNo > 0 => (ret = 0) = (good = Selected)

=============================================================================
