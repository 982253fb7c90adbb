------------------------------- MODULE KktTask -------------------------------
(***************************************************************************)
(* One task of the operator is one (KV head, chunk) pair: the AIC computes *)
(* the 64x64 Gram of the chunk's K rows once, the two AIVs of the same MIX *)
(* group turn it into the outputs of the query heads that share that KV    *)
(* head.  This module holds the arithmetic every component of a group has  *)
(* to agree on: which chunks are computed at all, which workspace slot a   *)
(* local round uses, and which rows and repeated heads each AIV lane owns. *)
(*                                                                         *)
(* A chunk is represented by its two offsets start and end; t is the token *)
(* count, repeat is H/Hg (tiling->numRepeat).                              *)
(***************************************************************************)
EXTENDS Integers

BT == 64
SLOT_COUNT == 2
AIVS_PER_AIC == 2
FALLBACK_ROWS_PER_AIV == BT \div AIVS_PER_AIC
GATE_HEAD_BATCH == 2

Slot == 0 .. SLOT_COUNT - 1
Lane == 0 .. AIVS_PER_AIC - 1

MinI32(a, b) == IF a < b THEN a ELSE b

\* localRound & (SLOT_COUNT - 1): rounds alternate between ping and pong.
SlotOf(round) == round % SLOT_COUNT

ValidChunk(start, end, t) ==
  /\ start >= 0
  /\ end <= t
  /\ end - start > 0
  /\ end - start <= BT

\* Rows of the chunk lane owns: all of them when the heads are split, its
\* half of the 64 rows (clipped to the chunk) when there is one head only.
LaneRows(repeat, lane, len) ==
  IF repeat >= AIVS_PER_AIC
  THEN 0 .. len - 1
  ELSE LET first == lane * FALLBACK_ROWS_PER_AIV
       IN  first .. first + MinI32(FALLBACK_ROWS_PER_AIV, len - first) - 1

FirstRepeat(repeat, lane) ==
  IF repeat >= AIVS_PER_AIC THEN (lane * repeat) \div AIVS_PER_AIC ELSE 0

RepeatEnd(repeat, lane) ==
  IF repeat >= AIVS_PER_AIC THEN ((lane + 1) * repeat) \div AIVS_PER_AIC ELSE 1

\* Repeated heads (offsets inside the KV head's group of repeat heads).
LaneRepeats(repeat, lane) ==
  FirstRepeat(repeat, lane) .. RepeatEnd(repeat, lane) - 1

HasWork(repeat, lane, len) ==
  /\ len > 0
  /\ len <= BT
  /\ LaneRows(repeat, lane, len) # {}
  /\ LaneRepeats(repeat, lane) # {}
=============================================================================
