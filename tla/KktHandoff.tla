------------------------------ MODULE KktHandoff ------------------------------
(***************************************************************************)
(* What one MIX group promises, without flags, pipes or workspace: the     *)
(* Gram of every round is handed from the AIC to both AIV lanes in round   *)
(* order, and the AIC is never more than SLOT_COUNT rounds ahead of the    *)
(* slower lane.  A lane that has rows to compute in a round holds exactly  *)
(* that round's Gram once it has received it.                              *)
(*                                                                         *)
(* Nothing is said here of how many rounds there are and which lanes have  *)
(* rows in which: both are given when the group starts, and never change.  *)
(* A round in which no lane has any is that of a malformed chunk.          *)
(***************************************************************************)
EXTENDS KktTask

NoGram == -1

VARIABLES count,      \* localTaskCount of the group
          users,      \* users[r]: the lanes that have rows in round r
          claimed,    \* rounds whose slot the AIC has taken for writing
          produced,   \* rounds announced to the lanes
          received,   \* received[l]: rounds lane l no longer needs the slot of
          tile        \* tile[l]: the round whose Gram lane l holds

given == <<count, users>>
vars == <<given, claimed, produced, received, tile>>

Init ==
  /\ count \in Nat
  /\ users \in [0 .. count - 1 -> SUBSET Lane]
  /\ claimed = 0
  /\ produced = 0
  /\ received = [l \in Lane |-> 0]
  /\ tile = [l \in Lane |-> NoGram]

\* The next round may be started: no lane still needs the slot it reuses.
Room == \A l \in Lane : claimed < received[l] + SLOT_COUNT

Claim ==
  /\ claimed = produced
  /\ claimed < count
  /\ users[claimed] # {}
  /\ Room
  /\ claimed' = claimed + 1
  /\ UNCHANGED <<given, produced, received, tile>>

Produce ==
  /\ produced < claimed
  /\ produced' = claimed
  /\ UNCHANGED <<given, claimed, received, tile>>

\* A malformed chunk has no Gram; its round is announced all the same.
Skip ==
  /\ claimed = produced
  /\ claimed < count
  /\ users[claimed] = {}
  /\ Room
  /\ claimed' = claimed + 1
  /\ produced' = claimed + 1
  /\ UNCHANGED <<given, received, tile>>

Receive(l) ==
  /\ received[l] < produced
  /\ received' = [received EXCEPT ![l] = @ + 1]
  /\ tile' = IF l \in users[received[l]]
             THEN [tile EXCEPT ![l] = received[l]]
             ELSE tile
  /\ UNCHANGED <<given, claimed, produced>>

Next ==
  \/ Claim
  \/ Produce
  \/ Skip
  \/ \E l \in Lane : Receive(l)

\* The group goes on as long as there is anything left to do.  Every step
\* moves one of finitely many counters ahead, none of which exceeds count: so
\* nobody is left behind for ever, and fairness of each actor adds nothing.
Spec == Init /\ [][Next]_vars /\ WF_vars(Next)
=============================================================================
