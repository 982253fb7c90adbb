------------------------------- MODULE KktPipes -------------------------------
(***************************************************************************)
(* The hardware pipes of one core, as the kernel uses them (AscendC is     *)
(* external to the repository; KktV02 and KktV03Vector issue to it what    *)
(* the Vector stages of those versions issue).                             *)
(*                                                                         *)
(* The scalar unit issues operations to pipes and runs ahead.  A pipe      *)
(* executes its operations one at a time and in order; different pipes     *)
(* run concurrently and are ordered only by events.  An operation starts   *)
(* when every event in its waits has been signalled (WaitFlag), occupies   *)
(* the buffers it reads and writes until it finishes, and signals its sets *)
(* then (SetFlag).  An event is a counter: WaitFlag takes one signal.      *)
(***************************************************************************)
EXTENDS Integers, Sequences

VARIABLES queue,    \* queue[p]: operations issued to pipe p, oldest first
          running,  \* running[p]: the oldest operation of p has started
          flag      \* flag[e]: signals of event e not yet waited for

pipeVars == <<queue, running, flag>>

Pipe  == DOMAIN queue
Event == DOMAIN flag

\* An operation; data says what it does to the buffers it writes.
Op(name, waits, sets, reads, writes, data) ==
  [name |-> name, waits |-> waits, sets |-> sets,
   reads |-> reads, writes |-> writes, data |-> data]

\* WaitFlag and SetFlag (or a flag of another core) without a buffer access.
Sync(waits, sets) == Op("Sync", waits, sets, {}, {}, 0)

PipesInit(pipes, events, signalled) ==
  /\ queue = [p \in pipes |-> << >>]
  /\ running = [p \in pipes |-> FALSE]
  /\ flag = [e \in events |-> IF e \in signalled THEN 1 ELSE 0]

\* The scalar unit issues the sequence ops[p] to every pipe p of DOMAIN ops.
Issue(ops) ==
  queue' = [p \in Pipe |-> IF p \in DOMAIN ops THEN queue[p] \o ops[p] ELSE queue[p]]

Waited(waits) == [e \in Event |-> IF e \in waits THEN flag[e] - 1 ELSE flag[e]]
Signalled(sets) == [e \in Event |-> IF e \in sets THEN flag[e] + 1 ELSE flag[e]]
Ready(waits) == \A e \in waits : flag[e] > 0

\* The operation pipe p is executing or will execute next.
Current(p) == Head(queue[p])
Touches(op) == op.reads \cup op.writes

Start(p) ==
  /\ queue[p] # << >>
  /\ ~running[p]
  /\ Touches(Current(p)) # {}
  /\ Ready(Current(p).waits)
  /\ flag' = Waited(Current(p).waits)
  /\ running' = [running EXCEPT ![p] = TRUE]
  /\ UNCHANGED queue

Finish(p) ==
  /\ running[p]
  /\ flag' = Signalled(Current(p).sets)
  /\ running' = [running EXCEPT ![p] = FALSE]
  /\ queue' = [queue EXCEPT ![p] = Tail(@)]

\* An operation that touches no buffer takes no time.
Synchronize(p) ==
  /\ queue[p] # << >>
  /\ Touches(Current(p)) = {}
  /\ Ready(Current(p).waits)
  /\ flag' = [e \in Event |-> Waited(Current(p).waits)[e]
                               + (IF e \in Current(p).sets THEN 1 ELSE 0)]
  /\ queue' = [queue EXCEPT ![p] = Tail(@)]
  /\ UNCHANGED running

PipesIdle == \A p \in Pipe : queue[p] = << >>

\* No running operation writes a buffer another running one reads or writes.
NoBufferRace ==
  \A p, q \in Pipe :
    p # q /\ running[p] /\ running[q] =>
      Current(p).writes \cap Touches(Current(q)) = {}
=============================================================================
