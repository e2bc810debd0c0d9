---------------------------- MODULE MCDecodeStep ----------------------------
(***************************************************************************)
(* The decode step and the walk it takes for granted.  Each behaviour      *)
(* explores one of the two: the protocol of the CTAs and the host, or the  *)
(* units they walk on a small topology.                                    *)
(*                                                                         *)
(* Batch-heads are model values and interchangeable, since nothing in the  *)
(* kernel or the host compares two of them.                                *)
(***************************************************************************)
EXTENDS DecodeStep, DecodeLattice, TLC

VARIABLE focus

HeadSymmetry == Permutations(Head)

MCWidths == {<<8>>, <<4, 4>>, <<4, 8>>, <<2, 2, 2>>}

StepAtRest ==
  /\ resident = [h \in Head |-> {}]
  /\ claimRow = [h \in Head |-> {}]

LatticeAtRest ==
  /\ n_split = 1
  /\ R = <<{}>> /\ W = <<{}>>

MCInit ==
  /\ \/ focus = "step" /\ LatticeAtRest
     \/ focus = "lattice" /\ StepAtRest
  /\ LatticeInit
  /\ Init

MCNext ==
  /\ \/ focus = "step" /\ Next /\ UNCHANGED latticeVars
     \/ focus = "lattice" /\ LatticeNext /\ UNCHANGED vars
  /\ UNCHANGED focus

MCSpec == MCInit /\ [][MCNext]_<<vars, latticeVars, focus>>
=============================================================================
