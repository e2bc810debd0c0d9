----------------------------- MODULE DecodeStep -----------------------------
(***************************************************************************)
(* The decode step: one launch of n_split CTAs per batch-head              *)
(* (csrc/rola/src/decode/decode.cu, decode_step_kernel) under the host's   *)
(* protocol of rola/engine/dags/decode_dag.py -- gated step, verdict read, *)
(* admission, replay.                                                      *)
(*                                                                         *)
(* One action is what one CTA does between two points at which another CTA *)
(* can observe it; the CTAs of a launch interleave freely and a launch     *)
(* ends when all of them have returned.  Fences make the accesses          *)
(* sequentially consistent.  A row is abstracted to how many deposits the  *)
(* submitted token has made in it, an atom to one such row, and the slots  *)
(* behind the atoms are PageArena's: here a table row is the set of atoms  *)
(* it maps.                                                                *)
(***************************************************************************)
EXTENDS Integers, FiniteSets

CONSTANTS
  Head,           \* the batch-heads
  NSplit,         \* CTAs per batch-head, frozen for the sequence
  UnitBlock,      \* kUnitBlockWarps: consecutive units of one CTA
  Atoms,          \* atoms per batch-head
  MaxUnits,       \* the largest unit count of a term
  PoolCap,        \* pool slots per batch-head
  Tokens          \* bound: tokens submitted

ASSUME StepAssumption ==
  /\ IsFiniteSet(Head) /\ Head # {}
  /\ {NSplit, UnitBlock, Atoms, Tokens} \subseteq Nat \ {0}
  /\ PoolCap \in 0 .. Atoms /\ MaxUnits \in Nat /\ MaxUnits >= Atoms

BH   == Cardinality(Head)
Seg  == 0 .. NSplit - 1
CTA  == Head \X Seg
Atom == 0 .. Atoms - 1
Cell == Head \X Atom

VARIABLES
  \* the arena, as the kernel sees it
  resident,    \* [Head -> SUBSET Atom]   page_tbl
  claimRow,    \* [Head -> SUBSET Atom]   pool_map
  cursor,      \* [Head -> 0 .. PoolCap]  pool_cursor
  \* DecodeScratch
  done, growth, growthAny, ctr, growthCtr, atomBits, ws,
  \* the token and its output
  write,       \* [Head -> SUBSET Atom]   the write set
  units,       \* [Head -> 0 .. MaxUnits] umax
  got,         \* [Cell -> deposits of this token]
  y,           \* [Head -> what the output row sums]
  \* control
  pc,          \* [CTA -> where the CTA is]
  saw,         \* [CTA -> the answers it derived in its prologue]
  host,        \* where the host is
  token, walk  \* tokens submitted; which walk of this one

arena   == <<resident, claimRow, cursor>>
scratch == <<done, growth, growthAny, ctr, growthCtr, atomBits, ws>>
input   == <<write, units, token>>
vars    == <<arena, scratch, input, got, y, pc, saw, host, walk>>

---------------------------------------------------------------------------
(* The walk's partition: unit i of the write term belongs to one segment.  *)
Rank(h, a) == Cardinality({b \in write[h] : b < a})
Own(c)     == {a \in write[c[1]] : (Rank(c[1], a) \div UnitBlock) % NSplit = c[2]}

(* Retirement, and the number of CTAs the combine waits for.               *)
Retires(c) == c[2] > 0 /\ c[2] * UnitBlock >= units[c[1]]
NLive_Ceiling(h) == NSplit                     \* mutant: waits for the frozen ceiling
NLive(h) ==
  LET want == (units[h] + UnitBlock - 1) \div UnitBlock
  IN IF want < 1 THEN 1 ELSE IF want > NSplit THEN NSplit ELSE want

Tag == <<token, walk>>       \* which launch wrote a partial or an output row
Nothing == [done |-> FALSE, demand |-> {}, claimed |-> FALSE, needy |-> FALSE]

(* A sequence somewhere between two steps: some atoms admitted, a head's   *)
(* either all by the host or all claimed since the last refill.            *)
Init ==
  /\ resident \in [Head -> SUBSET Atom]
  /\ claimRow \in [Head -> {A \in SUBSET Atom : Cardinality(A) <= PoolCap}]
  /\ \A h \in Head : claimRow[h] \in {{}, resident[h]}
  /\ cursor = [h \in Head |-> Cardinality(claimRow[h])]
  /\ done = [h \in Head |-> FALSE] /\ growth = [h \in Head |-> FALSE]
  /\ growthAny = FALSE /\ ctr = [h \in Head |-> 0] /\ growthCtr = 0
  /\ atomBits = [h \in Head |-> {}] /\ ws = [c \in CTA |-> {}]
  /\ write = [h \in Head |-> {}] /\ units = [h \in Head |-> 0]
  /\ got = [c \in Cell |-> 0] /\ y = [h \in Head |-> {}]
  /\ pc = [c \in CTA |-> "gone"] /\ saw = [c \in CTA |-> Nothing]
  /\ host = "ready" /\ token = 0 /\ walk = 0

---------------------------------------------------------------------------
(* The host: submit a token, launch, read the verdict, admit, launch again *)
Launch == pc' = [c \in CTA |-> "prologue"] /\ saw' = [c \in CTA |-> Nothing]
Landed == \A c \in CTA : pc[c] = "gone"

Submit ==
  /\ host \in {"ready", "raised"} /\ token < Tokens
  /\ write' \in [Head -> SUBSET Atom]
  /\ units' \in [Head -> 0 .. MaxUnits]
  /\ \A h \in Head : Cardinality(write'[h]) <= units'[h]
  /\ token' = token + 1 /\ walk' = 1
  /\ got' = [c \in Cell |-> 0]
  /\ Launch /\ host' = "walking"
  /\ UNCHANGED <<arena, scratch, y>>

(* read_verdict: nothing needs growth and the step returns, or it does.    *)
ReadVerdict ==
  /\ host = "walking" /\ Landed
  /\ host' = IF walk = 1 /\ growthAny THEN "growing" ELSE "returned"
  /\ UNCHANGED <<arena, scratch, input, got, y, pc, saw, walk>>

(* admit_growth plans the condensation, then the same launch runs again.   *)
AdmitGrowth ==
  /\ host = "growing"
  /\ resident' = [h \in Head |-> resident[h] \cup atomBits[h]]
  /\ walk' = 2 /\ Launch /\ host' = "walking"
  /\ UNCHANGED <<claimRow, cursor, scratch, input, got, y>>

(* plan_exact raises out of admit_growth (allocator or driver), and the    *)
(* step raises to its caller.                                              *)
AdmitRaises ==
  /\ host = "growing" /\ host' = "raised"
  /\ UNCHANGED <<arena, scratch, input, got, y, pc, saw, walk>>

Return ==
  /\ host = "returned" /\ host' = "ready"
  /\ UNCHANGED <<arena, scratch, input, got, y, pc, saw, walk>>

(* refill_pool, at leisure between steps: the spent positions are whole    *)
(* again.                                                                  *)
RefillPool ==
  /\ host \in {"ready", "raised"} /\ \E h \in Head : cursor[h] > 0
  /\ cursor' = [h \in Head |-> 0]
  /\ UNCHANGED <<resident, claimRow, scratch, input, got, y, pc, saw, host, walk>>

---------------------------------------------------------------------------
(* The kernel.  A CTA retires, or asks how many atoms of its batch-head's  *)
(* write set the table does not map.                                       *)
Ask(c) ==
  LET h == c[1]
  IN /\ pc[c] = "prologue"
     /\ IF Retires(c)
        THEN pc' = [pc EXCEPT ![c] = "gone"] /\ UNCHANGED saw
        ELSE /\ pc' = [pc EXCEPT ![c] = "claim"]
             /\ saw' = [saw EXCEPT ![c] =
                          [Nothing EXCEPT !.done = done[h],
                             !.demand = IF done[h] THEN {} ELSE write[h] \ resident[h]]]
     /\ UNCHANGED <<arena, scratch, input, got, y, host, walk>>

(* All or none of the demand is claimed from the pool; the claim row is    *)
(* written by every CTA, the condensation by segment 0 alone.              *)
Claim_TakesCursor(c) ==                        \* mutant: the claim advances the cursor at once
  LET h == c[1]
      claimed == saw[c].demand # {} /\ Cardinality(saw[c].demand) <= PoolCap - cursor[h]
  IN /\ pc[c] = "claim"
     /\ saw' = [saw EXCEPT ![c].claimed = claimed,
                           ![c].needy = saw[c].demand # {} /\ ~claimed]
     /\ claimRow' = IF claimed THEN [claimRow EXCEPT ![h] = @ \cup saw[c].demand] ELSE claimRow
     /\ cursor' = IF claimed THEN [cursor EXCEPT ![h] = @ + Cardinality(saw[c].demand)] ELSE cursor
     /\ atomBits' = IF c[2] = 0 THEN [atomBits EXCEPT ![h] = write[h]] ELSE atomBits
     /\ pc' = [pc EXCEPT ![c] = "walk"]
     /\ UNCHANGED <<resident, done, growth, growthAny, ctr, growthCtr, ws,
                    input, got, y, host, walk>>
Claim(c) ==
  LET h == c[1]
      claimed == saw[c].demand # {} /\ Cardinality(saw[c].demand) <= PoolCap - cursor[h]
  IN /\ pc[c] = "claim"
     /\ saw' = [saw EXCEPT ![c].claimed = claimed,
                           ![c].needy = saw[c].demand # {} /\ ~claimed]
     /\ claimRow' = IF claimed THEN [claimRow EXCEPT ![h] = @ \cup saw[c].demand] ELSE claimRow
     /\ atomBits' = IF c[2] = 0 THEN [atomBits EXCEPT ![h] = write[h]] ELSE atomBits
     /\ pc' = [pc EXCEPT ![c] = "walk"]
     /\ UNCHANGED <<resident, cursor, done, growth, growthAny, ctr, growthCtr, ws,
                    input, got, y, host, walk>>

(* The CTA's own units: update, then read the updated row; a done head     *)
(* reads without updating, a needy one does neither.  The partial sums the *)
(* rows in which this token's deposit was there to be read.                *)
Reached(c) ==
  {a \in Own(c) : a \in resident[c[1]] \/ (saw[c].claimed /\ a \in claimRow[c[1]])}

Walk_DoneDeposits(c) ==                        \* mutant: the replay deposits again
  LET new == IF saw[c].needy THEN {} ELSE Reached(c)
  IN /\ pc[c] = "walk"
     /\ got' = [x \in Cell |-> IF x[1] = c[1] /\ x[2] \in new THEN got[x] + 1 ELSE got[x]]
     /\ ws' = IF saw[c].needy THEN ws
              ELSE [ws EXCEPT ![c] = {<<Tag, a>> : a \in {b \in Reached(c) : got'[<<c[1], b>>] = 1}}]
     /\ pc' = [pc EXCEPT ![c] = "arrive"]
     /\ UNCHANGED <<arena, done, growth, growthAny, ctr, growthCtr, atomBits,
                    input, y, saw, host, walk>>
Walk(c) ==
  LET new == IF saw[c].needy \/ saw[c].done THEN {} ELSE Reached(c)
  IN /\ pc[c] = "walk"
     /\ got' = [x \in Cell |-> IF x[1] = c[1] /\ x[2] \in new THEN got[x] + 1 ELSE got[x]]
     /\ ws' = IF saw[c].needy THEN ws
              ELSE [ws EXCEPT ![c] = {<<Tag, a>> : a \in {b \in Reached(c) : got'[<<c[1], b>>] = 1}}]
     /\ pc' = [pc EXCEPT ![c] = "arrive"]
     /\ UNCHANGED <<arena, done, growth, growthAny, ctr, growthCtr, atomBits,
                    input, y, saw, host, walk>>

(* One arrival per live CTA; the last one goes on, the others return.  A   *)
(* lone CTA does not touch the counter.                                    *)
Arrive(c) ==
  LET h == c[1]
      last == NLive(h) = 1 \/ ctr[h] = NLive(h) - 1
  IN /\ pc[c] = "arrive"
     /\ ctr' = IF NLive(h) > 1 THEN [ctr EXCEPT ![h] = @ + 1] ELSE ctr
     /\ pc' = [pc EXCEPT ![c] = IF last THEN "combine" ELSE "gone"]
     /\ UNCHANGED <<arena, done, growth, growthAny, growthCtr, atomBits, ws,
                    input, got, y, saw, host, walk>>

(* The split-K combine over the live segments, and the counter's reset.    *)
Combine(c) ==
  LET h == c[1]
  IN /\ pc[c] = "combine"
     /\ y' = IF saw[c].needy THEN y
             ELSE [y EXCEPT ![h] = UNION {ws[<<h, s>>] : s \in 0 .. NLive(h) - 1}]
     /\ ctr' = [ctr EXCEPT ![h] = 0]
     /\ pc' = [pc EXCEPT ![c] = "publish"]
     /\ UNCHANGED <<arena, done, growth, growthAny, growthCtr, atomBits, ws,
                    input, got, saw, host, walk>>

(* The per-batch-head publication: the fold of the claim row, the cursor,  *)
(* the verdict and the done flag.                                          *)
Publish(c) ==
  LET h == c[1]
      folded == IF saw[c].claimed THEN claimRow[h] \ resident[h] ELSE {}
  IN /\ pc[c] = "publish"
     /\ resident' = [resident EXCEPT ![h] = @ \cup folded]
     /\ cursor' = [cursor EXCEPT ![h] = @ + Cardinality(folded)]
     /\ growth' = [growth EXCEPT ![h] = saw[c].needy]
     /\ done' = [done EXCEPT ![h] = @ \/ ~saw[c].needy]
     /\ pc' = [pc EXCEPT ![c] = "tally"]
     /\ UNCHANGED <<claimRow, growthAny, ctr, growthCtr, atomBits, ws,
                    input, got, y, saw, host, walk>>

Tally(c) ==
  /\ pc[c] = "tally"
  /\ growthCtr' = growthCtr + 1
  /\ pc' = [pc EXCEPT ![c] = IF growthCtr = BH - 1 THEN "reduce" ELSE "gone"]
  /\ UNCHANGED <<arena, done, growth, growthAny, ctr, atomBits, ws,
                 input, got, y, saw, host, walk>>

(* The last batch-head reduces the verdicts and, if nobody needs growth,   *)
(* clears every done flag.                                                 *)
Reduce_OwnFlag(c) ==                           \* mutant: it clears its own flag only
  LET needed == \E h \in Head : growth[h]
  IN /\ pc[c] = "reduce"
     /\ done' = IF needed THEN done ELSE [done EXCEPT ![c[1]] = FALSE]
     /\ growthAny' = needed /\ growthCtr' = 0
     /\ pc' = [pc EXCEPT ![c] = "gone"]
     /\ UNCHANGED <<arena, growth, ctr, atomBits, ws, input, got, y, saw, host, walk>>
Reduce(c) ==
  LET needed == \E h \in Head : growth[h]
  IN /\ pc[c] = "reduce"
     /\ done' = IF needed THEN done ELSE [h \in Head |-> FALSE]
     /\ growthAny' = needed /\ growthCtr' = 0
     /\ pc' = [pc EXCEPT ![c] = "gone"]
     /\ UNCHANGED <<arena, growth, ctr, atomBits, ws, input, got, y, saw, host, walk>>

Block(c) == Ask(c) \/ Claim(c) \/ Walk(c) \/ Arrive(c) \/ Combine(c) \/ Publish(c)
            \/ Tally(c) \/ Reduce(c)

Next ==
  \/ Submit \/ ReadVerdict \/ AdmitGrowth \/ AdmitRaises \/ Return \/ RefillPool
  \/ \E c \in CTA : Block(c)

Spec == Init /\ [][Next]_vars

---------------------------------------------------------------------------
Asked   == {c \in CTA : pc[c] \in {"walk", "arrive", "combine", "publish"}}
Written == {c \in Cell : c[2] \in write[c[1]]}

(* Every variable has its type.                                            *)
TypeOK ==
  /\ resident \in [Head -> SUBSET Atom] /\ claimRow \in [Head -> SUBSET Atom]
  /\ cursor \in [Head -> 0 .. PoolCap]
  /\ done \in [Head -> BOOLEAN] /\ growth \in [Head -> BOOLEAN] /\ growthAny \in BOOLEAN
  /\ ctr \in [Head -> 0 .. NSplit] /\ growthCtr \in 0 .. BH
  /\ atomBits \in [Head -> SUBSET Atom]
  /\ write \in [Head -> SUBSET Atom] /\ units \in [Head -> 0 .. MaxUnits]
  /\ got \in [Cell -> 0 .. 2]
  /\ pc \in [CTA -> {"gone", "prologue", "claim", "walk", "arrive", "combine",
                      "publish", "tally", "reduce"}]
  /\ host \in {"ready", "walking", "growing", "returned", "raised"}
  /\ token \in 0 .. Tokens /\ walk \in 0 .. 2

(* "No CTA of a launch can observe a value its own launch wrote": the CTAs *)
(* of one batch-head derive the same answer, each on its own.              *)
SiblingsAgree == \A c, d \in Asked : c[1] = d[1] => saw[c] = saw[d]

(* What the step returns sums every row its token wrote, from partials of  *)
(* the launch that just ended: no segment's stale workspace, no row read   *)
(* before its update, no batch-head missing after a replay.                *)
OutputComplete ==
  host = "returned" => \A h \in Head : y[h] = {<<Tag, a>> : a \in write[h]}

(* A step that returns leaves nothing for the next one to trip over: the   *)
(* verdict is settled without being read again, and no done flag survives. *)
RoundSettled ==
  host = "returned" => ~growthAny /\ \A h \in Head : ~done[h] /\ ~growth[h]

(* The gated step's contract: the pair of walks "advances every sequence   *)
(* EXACTLY ONCE" (decode_step_gated).                                      *)
ExactlyOnce ==
  host = "returned" => \A c \in Cell : got[c] = IF c \in Written THEN 1 ELSE 0

(* The same as a specification: whatever the CTAs and the two walks do, no *)
(* deposit is made twice or outside the write set, and the step returns    *)
(* only when none is missing, or raises.                                   *)
Once == INSTANCE TokenOnce
          WITH target <- Written,
               step <- CASE host = "ready"  -> "idle"
                         [] host = "raised" -> "raised"
                         [] OTHER           -> "busy"
ImplementsOnce == Once!Spec

===========================================================================
