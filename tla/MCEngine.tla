------------------------------ MODULE MCEngine -------------------------------
(***************************************************************************)
(* Engine with its handles, batch-heads, formats and arms interchangeable. *)
(***************************************************************************)
EXTENDS Engine, TLC

Symmetry == Permutations(State) \cup Permutations(BatchHead)
            \cup Permutations(Fmt) \cup Permutations(Arm)

=============================================================================
