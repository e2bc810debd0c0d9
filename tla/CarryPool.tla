----------------------------- MODULE CarryPool -----------------------------
(***************************************************************************)
(* The write pool of the chunk kernel's fold                               *)
(* (csrc/rola/src/carry/carry_kernel.cuh).  A window's live tokens come in *)
(* chunks; a chunk is copied into one of kPoolSlots shared slots, a piece  *)
(* by every warp, and every warp then folds the whole chunk out of it.     *)
(* No block barrier orders this: each slot has a `full` barrier (all       *)
(* pieces landed) and an `empty` one (all warps released), each warp runs  *)
(* its own stream, and a warp knows a barrier only by one PARITY BIT and   *)
(* its own byte-wide count of the slot's uses.                             *)
(*                                                                         *)
(* A warp is one process (its lanes agree by vote or by the fold word); a  *)
(* copy lands whenever it likes.  The readout and the next head run        *)
(* between a stream's construction and its steps and do not touch the pool.*)
(***************************************************************************)
EXTENDS Integers, FiniteSets, FiniteSetsExt

CONSTANTS
  Warps,      \* kWarps
  Slots,      \* kPoolSlots
  Windows,    \* windows of the call
  MaxChunks,  \* bound: chunks of a window
  Wrap        \* values a count's byte takes: 256 in the code

ASSUME CarryPoolAssumption ==
  /\ Warps \in Nat \ {0} /\ Slots \in Nat \ {0} /\ Windows \in Nat \ {0}
  /\ MaxChunks \in Nat /\ Wrap \in Nat /\ Wrap > 3 /\ Wrap % 2 = 0

Warp == 1 .. Warps
Slot == 0 .. Slots - 1
None == -1

VARIABLES
  chunks,  \* [window -> its chunks]
  pc, win, \* where each warp is
  c,       \* the chunk a warp folds next
  fill,    \* fill_c: the chunk a warp still owes a fill, or None
  fills,   \* [Warp -> [Slot -> the byte counting its fills]]
  takes,   \* [Warp -> [Slot -> the byte counting its takes]]
  full, empty,  \* the barriers: phases completed, arrivals of the current one
  flight,  \* copies issued and not landed
  piece    \* [Slot -> [Warp -> the chunk whose piece it last landed there]]

vars == <<chunks, pc, win, c, fill, fills, takes, full, empty, flight, piece>>

Zero  == [w \in Warp |-> [s \in Slot |-> 0]]
Fresh == [s \in Slot |-> [phase |-> 0, arrived |-> 0]]

Init ==
  /\ chunks \in [0 .. Windows - 1 -> 0 .. MaxChunks]
  /\ pc = [w \in Warp |-> "prime"] /\ win = [w \in Warp |-> 0]
  /\ c = [w \in Warp |-> 0] /\ fill = [w \in Warp |-> 0]
  /\ fills = Zero /\ takes = Zero
  /\ full = Fresh /\ empty = Fresh
  /\ flight = {} /\ piece = [s \in Slot |-> [w \in Warp |-> <<None, None>>]]

---------------------------------------------------------------------------
(* mbarrier: the phase of parity p has completed iff the current one is of *)
(* the other parity; the Warps-th arrival completes a phase.               *)
Tested(bar, p) == bar.phase % 2 # p
Arrive(bar) ==
  IF bar.arrived + 1 = Warps THEN [phase |-> bar.phase + 1, arrived |-> 0]
                             ELSE [bar EXCEPT !.arrived = @ + 1]

(* bump_byte: in place, and a fill count wraps to 2, never to 0.           *)
Bump_ToZero(n, isFill) == (n + 1) % Wrap       \* mutant: a fill count wraps to 0
Bump(n, isFill) == LET v == (n + 1) % Wrap IN IF isFill /\ v = 0 THEN 2 ELSE v

(* PoolCursor: the n-th fill of a slot waits `empty` at parity n - 1, the  *)
(* n-th take waits `full` at parity n.                                     *)
EmptyNow(w, s) == fills[w][s] = 0 \/ Tested(empty[s], (fills[w][s] - 1) % 2)

FullNow(w, s)  == Tested(full[s], takes[w][s] % 2)

Chunks(w) == chunks[win[w]]

(* pool_fill of chunk f by warp w, and `filled`.                           *)
PoolFill(w, f) ==
  LET s == f % Slots
  IN /\ flight' = flight \cup {[warp |-> w, slot |-> s, chunk |-> <<win[w], f>>]}
     /\ fills' = [fills EXCEPT ![w][s] = Bump(@, TRUE)]

(* fill_now: the owed chunk, then the next one.                            *)
FillNow(w) ==
  /\ PoolFill(w, fill[w])
  /\ fill' = [fill EXCEPT ![w] = IF @ + 1 < Chunks(w) THEN @ + 1 ELSE None]

Poll(w) ==
  IF fill[w] # None /\ EmptyNow(w, fill[w] % Slots)
  THEN FillNow(w) ELSE UNCHANGED <<flight, fills, fill>>

Goto(w, there) == pc' = [pc EXCEPT ![w] = there]

---------------------------------------------------------------------------
(* FoldStream's constructor: the first kPoolSlots chunks into their slots. *)
Prime(w) ==
  /\ pc[w] = "prime" /\ fill[w] < Min({Slots, Chunks(w)})
  /\ EmptyNow(w, fill[w])
  /\ PoolFill(w, fill[w])
  /\ fill' = [fill EXCEPT ![w] = @ + 1]
  /\ UNCHANGED <<chunks, pc, win, c, takes, full, empty, piece>>

Primed(w) ==
  /\ pc[w] = "prime" /\ fill[w] = Min({Slots, Chunks(w)})
  /\ fill' = [fill EXCEPT ![w] = IF Chunks(w) > Slots THEN Slots ELSE None]
  /\ Goto(w, IF Chunks(w) = 0 THEN "end" ELSE "step")
  /\ UNCHANGED <<chunks, win, c, fills, takes, full, empty, flight, piece>>

(* step: the fill poll,                                                    *)
Step(w) ==
  /\ pc[w] = "step" /\ Poll(w) /\ Goto(w, "take")
  /\ UNCHANGED <<chunks, win, c, takes, full, empty, piece>>

(* the take of the chunk's slot and the walk,                              *)
Take(w) ==
  /\ pc[w] = "take"
  /\ Goto(w, IF c[w] >= Chunks(w) THEN (IF fill[w] = None THEN "end" ELSE "wait")
             ELSE IF FullNow(w, c[w] % Slots) THEN "burst" ELSE "wait")
  /\ UNCHANGED <<chunks, win, c, fill, fills, takes, full, empty, flight, piece>>

(* the poll between the chunk's two bursts,                                *)
Mid(w) ==
  /\ pc[w] = "burst" /\ Poll(w) /\ Goto(w, "last")
  /\ UNCHANGED <<chunks, win, c, takes, full, empty, piece>>

(* and, after the second, the release.                                     *)
Release(w) ==
  LET s == c[w] % Slots
  IN /\ pc[w] = "last"
     /\ empty' = [empty EXCEPT ![s] = Arrive(@)]
     /\ takes' = [takes EXCEPT ![w][s] = Bump(@, FALSE)]
     /\ c' = [c EXCEPT ![w] = @ + 1]
     /\ Goto(w, IF c[w] + 1 >= Chunks(w) /\ fill[w] = None THEN "end" ELSE "step")
     /\ UNCHANGED <<chunks, win, fill, fills, full, flight, piece>>

(* wait(), when no stream can progress: on the slot the owed fill goes     *)
(* into, else on the chunk's pieces.                                       *)
OwesFirst_AtEnd(w) == fill[w] # None /\ c[w] >= Chunks(w)   \* mutant: not the chunk it needs next
OwesFirst(w) == fill[w] # None /\ (c[w] >= Chunks(w) \/ fill[w] = c[w])

WaitEmpty(w) ==
  /\ pc[w] = "wait" /\ OwesFirst(w)
  /\ EmptyNow(w, fill[w] % Slots) /\ FillNow(w) /\ Goto(w, "step")
  /\ UNCHANGED <<chunks, win, c, takes, full, empty, piece>>

WaitFull(w) ==
  /\ pc[w] = "wait" /\ ~OwesFirst(w)
  /\ c[w] < Chunks(w) => FullNow(w, c[w] % Slots)
  /\ Goto(w, "step")
  /\ UNCHANGED <<chunks, win, c, fill, fills, takes, full, empty, flight, piece>>

(* A warp's copies for one fill land: the bytes, then the arrival.         *)
Land(m) ==
  /\ m \in flight
  /\ flight' = flight \ {m}
  /\ piece' = [piece EXCEPT ![m.slot][m.warp] = m.chunk]
  /\ full' = [full EXCEPT ![m.slot] = Arrive(@)]
  /\ UNCHANGED <<chunks, pc, win, c, fill, fills, takes, empty>>

(* The barriers between two windows' folds; the last one ends the loop.    *)
Rendezvous ==
  /\ \A w \in Warp : pc[w] = "end"
  /\ win' = [w \in Warp |-> win[w] + 1]
  /\ pc' = [w \in Warp |-> IF win[w] + 1 < Windows THEN "prime" ELSE "exit"]
  /\ c' = [w \in Warp |-> 0] /\ fill' = [w \in Warp |-> 0]
  /\ UNCHANGED <<chunks, fills, takes, full, empty, flight, piece>>

WarpStep(w) ==
  Prime(w) \/ Primed(w) \/ Step(w) \/ Take(w) \/ Mid(w) \/ Release(w)
           \/ WaitEmpty(w) \/ WaitFull(w)

Next == (\E w \in Warp : WarpStep(w)) \/ (\E m \in flight : Land(m)) \/ Rendezvous

(* A resident warp is always scheduled again, and a copy lands.            *)
Spec ==
  /\ Init /\ [][Next]_vars
  /\ \A w \in Warp : WF_vars(WarpStep(w))
  /\ WF_vars(\E m \in flight : Land(m)) /\ WF_vars(Rendezvous)

---------------------------------------------------------------------------
(* Every variable has its type; the bytes stay bytes.                      *)
TypeOK ==
  /\ chunks \in [0 .. Windows - 1 -> 0 .. MaxChunks]
  /\ pc \in [Warp -> {"prime", "step", "take", "burst", "last", "wait", "end", "exit"}]
  /\ win \in [Warp -> 0 .. Windows]
  /\ c \in [Warp -> 0 .. MaxChunks] /\ fill \in [Warp -> None .. MaxChunks]
  /\ fills \in [Warp -> [Slot -> 0 .. Wrap - 1]] /\ takes \in [Warp -> [Slot -> 0 .. Wrap - 1]]
  /\ full \in [Slot -> [phase : Nat, arrived : 0 .. Warps - 1]]
  /\ empty \in [Slot -> [phase : Nat, arrived : 0 .. Warps - 1]]
  /\ \A m \in flight : m.warp \in Warp /\ m.slot \in Slot
  /\ piece \in [Slot -> [Warp -> (None .. Windows) \X (None .. MaxChunks)]]

(* A warp that gathers a chunk out of a slot reads that chunk: every       *)
(* warp's piece of it has landed, and nobody is copying into the slot.     *)
NoTornChunk ==
  \A w \in Warp : pc[w] \in {"burst", "last"} =>
    LET s == c[w] % Slots
    IN /\ \A v \in Warp : piece[s][v] = <<win[w], c[w]>>
       /\ \A m \in flight : m.slot # s

(* wait() blocks only on warps that can move: every window's fold ends.    *)
EveryWindowEnds == <>(\A w \in Warp : pc[w] = "exit")

=============================================================================
