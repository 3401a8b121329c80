--------------------------- MODULE IncidentRecord ---------------------------
(***************************************************************************)
(* What the lifecycle of work items promises, without requests, locks or   *)
(* connections: an item walks from stage to stage in the order of Stages,  *)
(* never skips one or turns back, and takes the last step only once an RCA *)
(* has been recorded.                                                      *)
(***************************************************************************)
EXTENDS Naturals, Sequences

CONSTANTS Items,
          Stages   \* the stages in their order

VARIABLES stage,      \* position in Stages; 0 before the item exists
          explained   \* an RCA has been recorded

vars == <<stage, explained>>

Init == /\ stage = [i \in Items |-> 0]
        /\ explained = [i \in Items |-> FALSE]

Explain(i) == /\ stage[i] > 0
              /\ explained' = [explained EXCEPT ![i] = TRUE]
              /\ UNCHANGED stage

Advance(i) == /\ stage[i] < Len(Stages)
              /\ stage[i] + 1 = Len(Stages) => explained[i]
              /\ stage' = [stage EXCEPT ![i] = @ + 1]
              /\ UNCHANGED explained

Next == \E i \in Items : Explain(i) \/ Advance(i)

Spec == Init /\ [][Next]_vars
=============================================================================
