---------------------------- MODULE DenseState ----------------------------
(***************************************************************************)
(* What a carried state promises, with no paging in it: a dense plane of   *)
(* atoms, each holding the deposits made to it since the sequence began.   *)
(* The dense backing of rola/_state.py IS this plane; the paged backing    *)
(* must be indistinguishable from it ("the dense-vs-paged torch.equal      *)
(* gate"), which is the refinement PageArena is checked against.           *)
(*                                                                         *)
(* An atom's contents are abstracted to the NUMBER of deposits it holds:   *)
(* enough to tell a zeroed atom from a stale one, and a deposit that was   *)
(* lost, doubled, or made to somebody else's bytes.                        *)
(***************************************************************************)
EXTENDS Naturals

CONSTANT Cell          \* the (batch-head, atom) pairs of the plane

VARIABLE val           \* [Cell -> Nat]: deposits the atom holds

TypeOK == val \in [Cell -> Nat]

Init == val = [c \in Cell |-> 0]

(* A fresh call: "compute as if nothing preceded it".                      *)
Clear == val' = [c \in Cell |-> 0]

(* One call deposits once into every atom of its write set.                *)
Deposit(W) == val' = [c \in Cell |-> IF c \in W THEN val[c] + 1 ELSE val[c]]

Next == Clear \/ \E W \in SUBSET Cell : Deposit(W)

Spec == Init /\ [][Next]_val
===========================================================================
