------------------------------ MODULE TokenOnce ------------------------------
(***************************************************************************)
(* What one decode step promises its caller: a token is submitted with a   *)
(* write set, every cell of it takes exactly one deposit, in any order and *)
(* through any number of walks, no other cell takes any, and the step      *)
(* returns only when all of them have.  A step that raises leaves some of  *)
(* them unmade, and none made twice.                                       *)
(***************************************************************************)
EXTENDS Naturals

CONSTANT Cell

VARIABLES
  target,   \* the write set of the submitted token
  got,      \* [Cell -> deposits of that token]
  step      \* "idle", "busy" or "raised"

vars == <<target, got, step>>

Init == target = {} /\ got = [c \in Cell |-> 0] /\ step = "idle"

Submit ==
  /\ step # "busy" /\ step' = "busy"
  /\ target' \in SUBSET Cell
  /\ got' = [c \in Cell |-> 0]

Deposit ==
  /\ step = "busy"
  /\ \E D \in SUBSET {c \in target : got[c] = 0} :
        got' = [c \in Cell |-> IF c \in D THEN 1 ELSE got[c]]
  /\ UNCHANGED <<target, step>>

Return ==
  /\ step = "busy" /\ step' = "idle"
  /\ \A c \in Cell : got[c] = IF c \in target THEN 1 ELSE 0
  /\ UNCHANGED <<target, got>>

Raise == step = "busy" /\ step' = "raised" /\ UNCHANGED <<target, got>>

Next == Submit \/ Deposit \/ Return \/ Raise

Spec == Init /\ [][Next]_vars

==============================================================================
