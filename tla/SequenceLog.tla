----------------------------- MODULE SequenceLog -----------------------------
(***************************************************************************)
(* What a recurrent state promises its owner (rola/_state.py): a handle    *)
(* stands for one sequence, every batch-head of it has absorbed the same   *)
(* calls in the same order, a call reaches one handle and no other, a      *)
(* clone starts where its source stands and goes its own way, and a handle *)
(* that was dropped leaves nothing to the next one.                        *)
(***************************************************************************)
EXTENDS Naturals, Sequences

CONSTANTS State, BatchHead, Calls

VARIABLE log       \* [State -> [BatchHead -> the calls absorbed, in order]]

Fresh == [h \in BatchHead |-> <<>>]

Init == log = [s \in State |-> Fresh]

Absorb(s, c) == log' = [log EXCEPT ![s] = [h \in BatchHead |-> Append(log[s][h], c)]]
Fork(s, t)   == log[t] = Fresh /\ log' = [log EXCEPT ![t] = log[s]]
Drop(s)      == log' = [log EXCEPT ![s] = Fresh]

Next ==
  \/ \E s \in State, c \in Calls : Absorb(s, c)
  \/ \E s, t \in State : Fork(s, t)
  \/ \E s \in State : Drop(s)

Spec == Init /\ [][Next]_log

=============================================================================
