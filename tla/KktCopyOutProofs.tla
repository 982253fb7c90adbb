--------------------------- MODULE KktCopyOutProofs ---------------------------
(***************************************************************************)
(* For every token count, head count and choice of chunks, the launch of a *)
(* recorded batch writes each head's rows to their place (CopiedRight).    *)
(* The inductive invariant says which batches exist (BatchOK) and that the *)
(* record describes the batch (Recorded); the arithmetic is OffsetNext:    *)
(* the next head begins t rows further on.                                 *)
(***************************************************************************)
EXTENDS KktCopyOut, TLAPS

\* The batches the Queue actions make.
BatchOK ==
  /\ t \in Nat
  /\ batch.head \in Int /\ batch.start \in Nat /\ batch.rows \in Nat
  /\ batch = NoBatch => ~ready.valid
  /\ \/ batch = NoBatch
     \/ batch.kind = "single" /\ batch.heads = 1 /\ batch.rows <= BT
     \/ batch.kind = "pair" /\ batch.heads = 2 /\ batch.rows <= BT
     \/ batch.kind = "chunkPair" /\ batch.heads \in {1, 2} /\ batch.rows = 2 * BT

\* The record always has the shape of the C++ fields.
RecordOK == ready \in [valid : BOOLEAN, isPair : BOOLEAN, isChunkPair : BOOLEAN,
                       first : Int, second : Int, active : Int]

IInv == BatchOK /\ RecordOK /\ Recorded /\ CopiedRight

\* The rows of the next head begin t rows behind those of this one.
LEMMA OffsetNext ==
  ASSUME t \in Nat, NEW head \in Int, NEW token \in Int
  PROVE  /\ Offset(head, token) \in Int
         /\ Offset(head + 1, token) = Offset(head, token) + t * ROW_BLOCKS
<1>1. (head + 1) * t = head * t + t OBVIOUS
<1>2. head * t \in Int OBVIOUS
<1> QED BY <1>1, <1>2 DEF Offset, ROW_BLOCKS

\* A strided command that fits its 16-bit field writes two neighbouring
\* heads, each to its place.
LEMMA StridedIsTwoRuns ==
  ASSUME t \in Nat, NEW len \in Nat, Fits(DstStride(len)), ready.first \in Int
  PROVE  Strided(len, DstStride(len)) =
           {Run(0, ready.first, len), Run(len, ready.first + t * ROW_BLOCKS, len)}
<1>1. DstStride(len) \in Int /\ 0 <= DstStride(len) /\ DstStride(len) < 65536
  BY DEF Fits, DstStride, MAX_DATA_COPY_STRIDE, ROW_BLOCKS
<1>2. UInt16(DstStride(len)) = DstStride(len)
  BY <1>1 DEF UInt16
<1>3. ready.first + len + DstStride(len) = ready.first + t * ROW_BLOCKS
  BY DEF DstStride, ROW_BLOCKS
<1> QED BY <1>2, <1>3 DEF Strided

\* What is wanted of a batch of one head and of a batch of two heads.
LEMMA WantedOne ==
  ASSUME batch.heads = 1, batch.head \in Int
  PROVE  Wanted = {Run(0, Offset(batch.head, batch.start), batch.rows * ROW_BLOCKS)}
<1>1. 0 .. batch.heads - 1 = {0} OBVIOUS
<1>2. Source(0) = 0 BY DEF Source, TWO_CHUNK_HEAD_BLOCKS, FULL_HEAD_BLOCKS, BT, ROW_BLOCKS
<1>3. batch.head + 0 = batch.head OBVIOUS
<1> QED BY <1>1, <1>2, <1>3 DEF Wanted

LEMMA WantedTwo ==
  ASSUME batch.heads = 2, batch.head \in Int
  PROVE  Wanted = {Run(0, Offset(batch.head, batch.start), batch.rows * ROW_BLOCKS),
                   Run(IF batch.kind = "chunkPair" THEN TWO_CHUNK_HEAD_BLOCKS
                                                   ELSE FULL_HEAD_BLOCKS,
                       Offset(batch.head + 1, batch.start), batch.rows * ROW_BLOCKS)}
<1>1. 0 .. batch.heads - 1 = {0, 1} OBVIOUS
<1>2. Source(0) = 0 /\ Source(1) = IF batch.kind = "chunkPair" THEN TWO_CHUNK_HEAD_BLOCKS
                                                               ELSE FULL_HEAD_BLOCKS
  BY DEF Source, TWO_CHUNK_HEAD_BLOCKS, FULL_HEAD_BLOCKS, BT, ROW_BLOCKS
<1>3. batch.head + 0 = batch.head OBVIOUS
<1> QED BY <1>1, <1>2, <1>3 DEF Wanted

\* The heart of the matter: in every case of LaunchReadyOutput() the commands
\* move exactly what is wanted of the recorded batch.
LEMMA LaunchIsRight ==
  ASSUME IInv, LaunchReadyOutput
  PROVE  copies' = Wanted
<1> USE DEF IInv, BatchOK, RecordOK, Recorded, LaunchReadyOutput
<1>1. /\ batch # NoBatch /\ t \in Nat /\ ready.first \in Int
      /\ ready.first = Offset(batch.head, batch.start)
      /\ ready.active = batch.rows * ROW_BLOCKS
  OBVIOUS
<1>2. CASE batch.kind = "single"
  <2>1. batch.heads = 1 /\ ~ready.isPair /\ ~ready.isChunkPair
    BY <1>1, <1>2 DEF GATE_HEAD_BATCH
  <2>2. copies' = SingleCopies BY <2>1
  <2> QED BY <1>1, <2>1, <2>2, WantedOne DEF SingleCopies
<1>3. CASE batch.kind = "pair"
  <2>1. /\ batch.heads = 2 /\ ready.isPair /\ ~ready.isChunkPair
        /\ ready.second = Offset(batch.head + 1, batch.start)
    BY <1>1, <1>3 DEF GATE_HEAD_BATCH
  <2>2. copies' = PairCopies BY <2>1
  <2>3. Wanted = {Run(0, ready.first, ready.active),
                  Run(FULL_HEAD_BLOCKS, ready.second, ready.active)}
    BY <1>1, <1>3, <2>1, WantedTwo
  <2>4. ready.second = ready.first + t * ROW_BLOCKS
    BY <1>1, <2>1, OffsetNext
  <2>5. CASE ready.active = FULL_HEAD_BLOCKS /\ Fits(DstStride(FULL_HEAD_BLOCKS))
    <3>1. FULL_HEAD_BLOCKS \in Nat BY DEF FULL_HEAD_BLOCKS, BT, ROW_BLOCKS
    <3>2. copies' = Strided(FULL_HEAD_BLOCKS, DstStride(FULL_HEAD_BLOCKS))
      BY <2>2, <2>5 DEF PairCopies
    <3> QED BY <1>1, <2>3, <2>4, <2>5, <3>1, <3>2, StridedIsTwoRuns
  <2>6. CASE ~(ready.active = FULL_HEAD_BLOCKS /\ Fits(DstStride(FULL_HEAD_BLOCKS)))
    BY <2>2, <2>3, <2>6 DEF PairCopies
  <2> QED BY <2>5, <2>6
<1>4. CASE batch.kind = "chunkPair"
  <2>1. /\ ready.isChunkPair
        /\ batch.rows * ROW_BLOCKS = TWO_CHUNK_HEAD_BLOCKS
        /\ batch.heads \in {1, 2}
    BY <1>1, <1>4 DEF TWO_CHUNK_HEAD_BLOCKS, FULL_HEAD_BLOCKS, BT, ROW_BLOCKS
  <2>2. copies' = ChunkPairCopies BY <2>1
  <2>3. CASE batch.heads = 1
    <3>1. ~ready.isPair BY <1>1, <2>3 DEF GATE_HEAD_BATCH
    <3> QED BY <1>1, <2>1, <2>2, <2>3, <3>1, WantedOne DEF ChunkPairCopies
  <2>4. CASE batch.heads = 2
    <3>1. ready.isPair /\ ready.second = Offset(batch.head + 1, batch.start)
      BY <1>1, <2>4 DEF GATE_HEAD_BATCH
    <3>2. Wanted = {Run(0, ready.first, TWO_CHUNK_HEAD_BLOCKS),
                    Run(TWO_CHUNK_HEAD_BLOCKS, ready.second, TWO_CHUNK_HEAD_BLOCKS)}
      BY <1>1, <1>4, <2>1, <2>4, <3>1, WantedTwo
    <3>3. ready.second = ready.first + t * ROW_BLOCKS
      BY <1>1, <3>1, OffsetNext
    <3>4. TWO_CHUNK_HEAD_BLOCKS \in Nat
      BY DEF TWO_CHUNK_HEAD_BLOCKS, FULL_HEAD_BLOCKS, BT, ROW_BLOCKS
    <3>5. CASE Fits(DstStride(TWO_CHUNK_HEAD_BLOCKS))
      <4>1. copies' = Strided(TWO_CHUNK_HEAD_BLOCKS, DstStride(TWO_CHUNK_HEAD_BLOCKS))
        BY <2>2, <3>1, <3>5 DEF ChunkPairCopies
      <4> QED BY <1>1, <3>2, <3>3, <3>4, <3>5, <4>1, StridedIsTwoRuns
    <3>6. CASE ~Fits(DstStride(TWO_CHUNK_HEAD_BLOCKS))
      BY <2>2, <3>1, <3>2, <3>6 DEF ChunkPairCopies
    <3> QED BY <3>5, <3>6
  <2> QED BY <2>1, <2>3, <2>4
<1> QED BY <1>1, <1>2, <1>3, <1>4

LEMMA InitIInv == Init => IInv
BY CopyOutAssumption DEF Init, IInv, BatchOK, RecordOK, Recorded, CopiedRight, NoBatch

LEMMA NextIInv == IInv /\ [Next]_vars => IInv'
<1> SUFFICES ASSUME IInv, [Next]_vars PROVE IInv' OBVIOUS
<1>1. CASE Queue
  <2> USE DEF IInv, BatchOK, RecordOK, Recorded, Queue
  <2>1. PICK head \in 0 .. Heads - 1, start \in Starts :
          \/ \E rows \in RowCounts : \/ QueueDelayedSingleOutput(head, start, rows)
                                     \/ QueueDelayedPairOutput(head, start, rows)
          \/ \E heads \in {1, 2} : QueueDelayedChunkPairOutput(head, start, heads)
    BY <1>1
  <2>2. t' = t /\ t \in Nat /\ head \in Int /\ start \in Nat
    BY <1>1, CopyOutAssumption
  <2>3. Offset(head, start) \in Int /\ Offset(head + 1, start) \in Int
    BY <2>2, OffsetNext
  <2>4. \A a, b : Offset(a, b)' = Offset(a, b)
    BY <2>2 DEF Offset
  <2>5. ASSUME NEW rows \in RowCounts, QueueDelayedSingleOutput(head, start, rows)
        PROVE  IInv'
    <3>1. rows \in Nat /\ rows <= BT BY CopyOutAssumption DEF BT
    <3> QED BY <2>2, <2>3, <2>4, <2>5, <3>1
      DEF QueueDelayedSingleOutput, CopiedRight, NoBatch, GATE_HEAD_BATCH, ROW_BLOCKS
  <2>6. ASSUME NEW rows \in RowCounts, QueueDelayedPairOutput(head, start, rows)
        PROVE  IInv'
    <3>1. rows \in Nat /\ rows <= BT BY CopyOutAssumption DEF BT
    <3> QED BY <2>2, <2>3, <2>4, <2>6, <3>1
      DEF QueueDelayedPairOutput, CopiedRight, NoBatch, GATE_HEAD_BATCH, ROW_BLOCKS
  <2>7. ASSUME NEW heads \in {1, 2}, QueueDelayedChunkPairOutput(head, start, heads)
        PROVE  IInv'
    <3>1. /\ batch' = [kind |-> "chunkPair", head |-> head, start |-> start, rows |-> 128,
                      heads |-> heads]
          /\ ready'.valid /\ ready'.isChunkPair /\ ready'.isPair = (heads = 2)
          /\ ready'.first = Offset(head, start) /\ ready'.active = 1024
          /\ heads = 2 => ready'.second = Offset(head + 1, start)
      BY <2>7 DEF QueueDelayedChunkPairOutput, GATE_HEAD_BATCH, TWO_CHUNK_HEAD_BLOCKS,
                  FULL_HEAD_BLOCKS, BT, ROW_BLOCKS
    <3>2. RecordOK'
      BY <2>3, <2>7 DEF QueueDelayedChunkPairOutput, TWO_CHUNK_HEAD_BLOCKS,
                        FULL_HEAD_BLOCKS, BT, ROW_BLOCKS
    <3>3. BatchOK' BY <2>2, <3>1 DEF NoBatch, BT
    <3>4. Recorded'
      <4>1. batch'.kind = "chunkPair" /\ batch'.heads = heads /\ batch'.rows * ROW_BLOCKS = 1024
        BY <3>1 DEF ROW_BLOCKS
      <4>2. /\ ready'.first = Offset(batch.head, batch.start)'
            /\ heads = 2 => ready'.second = Offset(batch.head + 1, batch.start)'
        BY <2>2, <3>1 DEF Offset
      <4>3. (ready.isPair <=> batch.heads = GATE_HEAD_BATCH)'
        <5>1. batch'.heads = GATE_HEAD_BATCH <=> heads = 2 BY <4>1 DEF GATE_HEAD_BATCH
        <5>2. ready'.isPair = (heads = 2) BY <3>1
        <5> QED BY <5>1, <5>2, Zenon DEF GATE_HEAD_BATCH
      <4>4. (ready.isPair => ready.second = Offset(batch.head + 1, batch.start))'
        <5>1. ready'.isPair = (heads = 2) BY <3>1
        <5> QED BY <4>2, <5>1, Zenon
      <4> QED BY <3>1, <4>1, <4>2, <4>3, <4>4
    <3> QED BY <3>1, <3>2, <3>3, <3>4 DEF CopiedRight
  <2> QED BY <2>1, <2>5, <2>6, <2>7
<1>2. CASE LaunchReadyOutput
  <2>1. copies' = Wanted BY <1>2, LaunchIsRight
  <2>2. t' = t /\ batch' = batch BY <1>2 DEF LaunchReadyOutput
  <2>3. Wanted' = Wanted BY <2>2 DEF Wanted, Source, Offset
  <2>4. CopiedRight' BY <2>1, <2>3 DEF CopiedRight
  <2> QED BY <1>2, <2>2, <2>4 DEF LaunchReadyOutput, IInv, BatchOK, RecordOK, Recorded
<1>3. CASE UNCHANGED vars
  BY <1>3 DEF vars, IInv, BatchOK, RecordOK, Recorded, CopiedRight, Wanted, Source, Offset
<1> QED BY <1>1, <1>2, <1>3 DEF Next

\* Each head's rows are moved to their place whatever commands are chosen,
\* for every T: the two-block command is used only where its gap fits.
THEOREM CopiedRightAlways == Spec => []CopiedRight
<1>1. IInv => CopiedRight BY DEF IInv
<1> QED BY InitIInv, NextIInv, <1>1, PTL DEF Spec

\* The record a launch reads is that of the batch recorded last.
THEOREM RecordedAlways == Spec => []Recorded
<1>1. IInv => Recorded BY DEF IInv
<1> QED BY InitIInv, NextIInv, <1>1, PTL DEF Spec
=============================================================================
