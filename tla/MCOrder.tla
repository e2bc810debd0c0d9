------------------------------ MODULE MCOrder ------------------------------
(***************************************************************************)
(* Three places where the order between queues of work is all there is:    *)
(* the streams an admission runs on, the copies and barriers of an intra   *)
(* block, and the host unmapping what device work may still touch.  They   *)
(* meet in no variable; one is explored per behaviour.                     *)
(***************************************************************************)
EXTENDS StreamOrder, IntraPipeline, VmmOwner

VARIABLE focus

MCArms == {[levels |-> a[1], width |-> a[2], window |-> a[3]] :
             a \in {<<2, 256, 384>>, <<2, 256, 512>>, <<2, 256, 64>>, <<3, 16, 64>>,
                    <<4, 16, 64>>}}

\* The built arms are among those the proofs about IntraPipeline cover.
ASSUME BuiltArmsFit == TilesFit

\* Elsewhere one arm stands for all of them.
MCInit ==
  /\ Init /\ IntraInit /\ OwnerInit /\ focus \in {"streams", "intra", "owner"}
  /\ focus = "intra" \/ arm = CHOOSE a \in MCArms : TRUE

MCNext ==
  /\ \/ focus = "streams" /\ Next /\ UNCHANGED <<ivars, ownerVars>>
     \/ focus = "intra" /\ IntraNext /\ UNCHANGED <<vars, ownerVars>>
     \/ focus = "owner" /\ OwnerNext /\ UNCHANGED <<vars, ivars>>
  /\ UNCHANGED focus

MCSpec == MCInit /\ [][MCNext]_<<vars, ivars, ownerVars, focus>>
=============================================================================
