---------------------------- MODULE PageArena -----------------------------
(***************************************************************************)
(* The page arena of rola/ops/paging.py: a pooled store of page SLOTS, a   *)
(* table from (batch-head, atom) cells to slots, a bump allocator with     *)
(* extent alignment, and the slack pool a decode step claims from on the   *)
(* device.  One action per operation: plan_exact (served, refused by the   *)
(* allocator, or failed by the driver), refill_pool, the device step of    *)
(* one batch-head, and the chunk launch that consumes a plan.              *)
(*                                                                         *)
(* A slot's bytes are the number of deposits they hold, or Unwritten for   *)
(* physical memory nobody has zeroed.                                      *)
(***************************************************************************)
EXTENDS Integers, FiniteSets

CONSTANTS
  BH,                \* batch-heads
  AtomsPerBH,        \* N / MMA_K_QUANTUM
  ExtentAtoms,       \* consecutive slots of one allocator extent
  PoolCapacity,      \* ceil(pool_slack * AtomsPerBH), per batch-head
  Vmm,               \* TRUE: the VMM backing; FALSE: the dense bridge
  ResetAfterClaims,  \* may plan_exact(fresh=True) follow a device claim?
  MaxDeposits        \* bound: deposits one slot may hold

ASSUME ArenaAssumption ==
  /\ BH \in Nat \ {0} /\ AtomsPerBH \in Nat \ {0} /\ ExtentAtoms \in Nat \ {0}
  /\ PoolCapacity \in 0 .. AtomsPerBH
  /\ Vmm \in BOOLEAN /\ ResetAfterClaims \in BOOLEAN
  /\ MaxDeposits \in Nat \ {0}

Absent    == -1      \* the table's "no slot"
Unwritten == -1      \* bytes never zeroed and never deposited to

Head     == 0 .. BH - 1
Cell     == Head \X (0 .. AtomsPerBH - 1)
Position == Head \X (0 .. PoolCapacity - 1)   \* entries of pool_slots

Capacity == BH * AtomsPerBH                   \* the dense limit
Slot     == 0 .. Capacity - 1
PoolTotal == Cardinality(Position)

VARIABLES
  table,       \* [Cell -> Slot \cup {Absent}]      _page_table
  next,        \* the allocator's cursor            _allocator._next
  mapped,      \* slots that physically exist       mapped_pages
  poolSlots,   \* [Position -> Slot]                _pool_slots
  poolCursor,  \* [Head -> 0 .. PoolCapacity]       _pool_cursor
  poolMap,     \* [Cell -> Slot \cup {Absent}]      _pool_map, the claim row
  plane,       \* [Slot -> deposits]                the value pages
  planned,     \* the write set of a plan no launch has consumed yet
  lost         \* history: slots taken since the last reset, then not backed

vars == <<table, next, mapped, poolSlots, poolCursor, poolMap, plane, planned, lost>>
pool == <<poolSlots, poolCursor, poolMap>>

---------------------------------------------------------------------------
(* Row-major order of a [BH, k] tensor, and how many members of S precede  *)
(* p in it: what nonzero()/arange/view and the kernel's block scan compute *)
Before(p, q) == p[1] < q[1] \/ (p[1] = q[1] /\ p[2] < q[2])
Rank(S, p)   == Cardinality({q \in S : Before(q, p)})

(* admission(): a run that does not fit the open extent's remainder starts *)
(* a new extent; the run must end below the capacity.                      *)
Remainder(allocated) == (-allocated) % ExtentAtoms
First_AlwaysAligns(allocated, count) ==       \* mutant: "count > remainder" dropped
  allocated + Remainder(allocated)
First(allocated, count) ==
  IF 0 < Remainder(allocated) /\ Remainder(allocated) < count
  THEN allocated + Remainder(allocated)
  ELSE allocated
Serves(allocated, count) == count = 0 \/ First(allocated, count) + count <= Capacity

(* ExtentAllocator.take: the cursor after it.                              *)
Taken(allocated, count) ==
  IF count > 0 THEN First(allocated, count) + count ELSE allocated

Run(first, count) == first .. first + count - 1
Zeroed(slots)     == [s \in Slot |-> IF s \in slots THEN 0 ELSE plane[s]]

(* _commit: the owner grows to hold `pages`, a whole number of chunks past *)
(* the demand or exactly it; a grow the driver refuses changes nothing.    *)
Committed_Skipped(pages) == {mapped}          \* mutant: no grow before admission
Committed(pages) ==
  IF pages <= mapped THEN {mapped} ELSE {m \in mapped .. Capacity : m >= pages}
CommitMayFail(pages) == Vmm /\ pages > mapped

(* _reserve_pool, on an allocator at zero: the first PoolTotal slots.      *)
ReservedSlots == [p \in Position |-> Rank(Position, p)]
NoResidency   == [c \in Cell |-> Absent]
NothingSpent  == [h \in Head |-> 0]

Init ==
  /\ table = NoResidency
  /\ next = PoolTotal
  /\ IF Vmm THEN mapped \in PoolTotal .. Capacity ELSE mapped = Capacity
  /\ poolSlots = ReservedSlots
  /\ poolCursor = NothingSpent
  /\ poolMap = NoResidency
  /\ plane = [s \in Slot |-> IF ~Vmm \/ s < PoolTotal THEN 0 ELSE Unwritten]
  /\ planned = {}
  /\ lost = 0

---------------------------------------------------------------------------
(* plan_exact, over the table t and cursor n it finds once the optional    *)
(* reset has run; z is what that reset zeroed.                             *)
Missing_NoTableTest(W, t) == W                \* mutant: "& table < 0" dropped
Missing(W, t) == {c \in W : t[c] = Absent}

PlanServed_NoZero(W, t, n, z) ==              \* mutant: fresh slots not zeroed
  LET new   == Missing(W, t)
      count == Cardinality(new)
      first == First(n, count)
  IN /\ Serves(n, count)
     /\ mapped' \in Committed(Taken(n, count))
     /\ next' = Taken(n, count)
     /\ table' = [c \in Cell |-> IF c \in new THEN first + Rank(new, c) ELSE t[c]]
     /\ plane' = Zeroed(z)
     /\ planned' = W

PlanServed(W, t, n, z) ==
  LET new   == Missing(W, t)
      count == Cardinality(new)
      first == First(n, count)
  IN /\ Serves(n, count)
     /\ mapped' \in Committed(Taken(n, count))
     /\ next' = Taken(n, count)
     /\ table' = [c \in Cell |-> IF c \in new THEN first + Rank(new, c) ELSE t[c]]
     /\ plane' = Zeroed(z \cup Run(first, count))
     /\ planned' = W

PlanRefused(W, t, n, z) ==
  /\ ~Serves(n, Cardinality(Missing(W, t)))
  /\ table' = t /\ next' = n /\ plane' = Zeroed(z)
  /\ planned' = {}
  /\ UNCHANGED mapped

PlanUncommitted(W, t, n, z) ==
  LET count == Cardinality(Missing(W, t))
  IN /\ Serves(n, count) /\ CommitMayFail(Taken(n, count))
     /\ next' = Taken(n, count)
     /\ table' = t /\ plane' = Zeroed(z)
     /\ planned' = {}
     /\ UNCHANGED mapped

(* plan_exact(bitmap, fresh=False): residency becomes the union.           *)
PlanContinue(W) ==
  /\ \/ PlanServed(W, table, next, {}) /\ UNCHANGED lost
     \/ PlanRefused(W, table, next, {}) /\ UNCHANGED lost
     \/ PlanUncommitted(W, table, next, {}) /\ lost' = lost + Cardinality(Missing(W, table))
  /\ UNCHANGED pool

PlanFresh_PoolKept(W) ==                      \* mutant: reset keeps the old pool
  /\ ResetAfterClaims \/ poolMap = NoResidency
  /\ \/ PlanServed(W, NoResidency, 0, {})
     \/ PlanRefused(W, NoResidency, 0, {})
     \/ PlanUncommitted(W, NoResidency, 0, {})
  /\ UNCHANGED <<pool, lost>>

(* plan_exact(bitmap, fresh=True): reset() empties the table, rewinds the  *)
(* allocator and re-reserves the pool -- and leaves the claim row alone.   *)
PlanFresh(W) ==
  /\ ResetAfterClaims \/ poolMap = NoResidency
  /\ \/ PlanServed(W, NoResidency, PoolTotal, 0 .. PoolTotal - 1) /\ lost' = 0
     \/ PlanRefused(W, NoResidency, PoolTotal, 0 .. PoolTotal - 1) /\ lost' = 0
     \/ PlanUncommitted(W, NoResidency, PoolTotal, 0 .. PoolTotal - 1)
          /\ lost' = Cardinality(Missing(W, NoResidency))
  /\ poolSlots' = ReservedSlots
  /\ poolCursor' = NothingSpent
  /\ UNCHANGED poolMap

---------------------------------------------------------------------------
(* The bytes after one deposit into every cell of W, addressed by slotOf.  *)
Deposited(W, slotOf) ==
  [s \in Slot |->
     IF plane[s] = Unwritten THEN Unwritten
     ELSE plane[s] + Cardinality({c \in W : slotOf[c] = s})]
Bounded(W, slotOf) == \A c \in W : plane[slotOf[c]] < MaxDeposits

(* The chunk consumer: it stores exactly the planned write set, through    *)
(* the table.                                                              *)
ChunkLaunch ==
  /\ planned # {}
  /\ Bounded(planned, table)
  /\ plane' = Deposited(planned, table)
  /\ planned' = {}
  /\ UNCHANGED <<table, next, mapped, pool, lost>>

(* The decode kernel's claim: every unmapped atom of the write set, in     *)
(* ascending atom id, from the head's unspent positions, or none.          *)
Claimable(h, new) == Cardinality(new) <= PoolCapacity - poolCursor[h]
ClaimRow(h, new) ==
  [c \in Cell |-> IF c \in new
                  THEN poolSlots[<<h, poolCursor[h] + Rank(new, c)>>]
                  ELSE poolMap[c]]

(* The last-arriving CTA folds the claim row: every entry the row maps and *)
(* the table does not.                                                     *)
Folding(h, row) == {c \in Cell : c[1] = h /\ row[c] # Absent /\ table[c] = Absent}

StepResident(h, W) ==
  /\ Missing(W, table) = {}
  /\ Bounded(W, table)
  /\ plane' = Deposited(W, table)
  /\ UNCHANGED <<table, poolCursor, poolMap>>

StepClaims_TableWalk(h, W) ==                 \* mutant: the walk reads the table alone
  LET new    == Missing(W, table)
      row    == ClaimRow(h, new)
      folded == Folding(h, row)
  IN /\ new # {} /\ Claimable(h, new)
     /\ Bounded(W \ new, table)
     /\ plane' = Deposited(W \ new, table)
     /\ poolMap' = row
     /\ table' = [c \in Cell |-> IF c \in folded THEN row[c] ELSE table[c]]
     /\ poolCursor' = [poolCursor EXCEPT ![h] = @ + Cardinality(folded)]

StepClaims(h, W) ==
  LET new    == Missing(W, table)
      row    == ClaimRow(h, new)
      slotOf == [c \in Cell |-> IF table[c] = Absent THEN row[c] ELSE table[c]]
      folded == Folding(h, row)
  IN /\ new # {} /\ Claimable(h, new)
     /\ Bounded(W, slotOf)
     /\ plane' = Deposited(W, slotOf)
     /\ poolMap' = row
     /\ table' = [c \in Cell |-> IF c \in folded THEN row[c] ELSE table[c]]
     /\ poolCursor' = [poolCursor EXCEPT ![h] = @ + Cardinality(folded)]

(* A needy head -- one whose demand neither the table nor the pool covers  *)
(* -- runs nothing, so only these two change the arena.                    *)
DeviceStep(h, W) ==
  /\ W \subseteq {h} \X (0 .. AtomsPerBH - 1)
  /\ StepResident(h, W) \/ StepClaims(h, W)
  /\ UNCHANGED <<next, mapped, poolSlots, planned, lost>>

---------------------------------------------------------------------------
(* refill_pool: fresh slots for exactly the spent positions, row-major.    *)
Spent == {p \in Position : p[2] < poolCursor[p[1]]}

RefillServed ==
  LET count == Cardinality(Spent)
      first == First(next, count)
  IN /\ Serves(next, count)
     /\ mapped' \in Committed(Taken(next, count))
     /\ next' = Taken(next, count)
     /\ plane' = Zeroed(Run(first, count))
     /\ poolSlots' = [p \in Position |-> IF p \in Spent THEN first + Rank(Spent, p)
                                                        ELSE poolSlots[p]]
     /\ poolCursor' = NothingSpent
     /\ UNCHANGED <<table, poolMap, planned, lost>>

RefillUncommitted ==
  LET count == Cardinality(Spent)
  IN /\ Serves(next, count) /\ CommitMayFail(Taken(next, count))
     /\ next' = Taken(next, count)
     /\ lost' = lost + count
     /\ UNCHANGED <<table, mapped, pool, plane, planned>>

RefillPool == Spent # {} /\ (RefillServed \/ RefillUncommitted)

---------------------------------------------------------------------------
Next ==
  \/ \E W \in SUBSET Cell : PlanContinue(W)
  \/ \E W \in SUBSET Cell : PlanFresh(W)
  \/ ChunkLaunch
  \/ \E h \in Head, W \in SUBSET Cell : W # {} /\ DeviceStep(h, W)
  \/ RefillPool

Spec == Init /\ [][Next]_vars

---------------------------------------------------------------------------
(* materialize(): what the paged plane says of the dense state.            *)
Materialized ==
  [c \in Cell |-> IF table[c] = Absent THEN 0 ELSE plane[table[c]]]

Dense == INSTANCE DenseState WITH val <- Materialized

Resident == {c \in Cell : table[c] # Absent}
Unspent  == Position \ Spent

(* Every variable has its type.                                            *)
TypeOK ==
  /\ table \in [Cell -> Slot \cup {Absent}]
  /\ next \in 0 .. Capacity
  /\ mapped \in 0 .. Capacity
  /\ poolSlots \in [Position -> Slot]
  /\ poolCursor \in [Head -> 0 .. PoolCapacity]
  /\ poolMap \in [Cell -> Slot \cup {Absent}]
  /\ plane \in [Slot -> Nat \cup {Unwritten}]
  /\ planned \in SUBSET Cell
  /\ lost \in Nat

(* No two owners of one slot: a slot is named by at most one resident atom *)
(* or one unspent pool position, never by both.  plan_exact, the device    *)
(* claim, the fold, refill_pool and reset all hand out slots, and nothing  *)
(* ever takes one back.                                                    *)
NoSharedSlot ==
  /\ \A c, d \in Resident : table[c] = table[d] => c = d
  /\ \A p, q \in Unspent : poolSlots[p] = poolSlots[q] => p = q
  /\ \A c \in Resident, p \in Unspent : table[c] # poolSlots[p]

(* A slot the table or the pool names was handed out by the allocator and  *)
(* physically exists, also after a grow the driver refused half way        *)
(* through plan_exact or refill_pool; and the pool a reset re-reserves is  *)
(* always still mapped.                                                    *)
NamedSlotsExist ==
  /\ PoolTotal <= mapped
  /\ \A c \in Resident : table[c] < next /\ table[c] < mapped
  /\ \A p \in Unspent : poolSlots[p] < next /\ poolSlots[p] < mapped

(* "THE TWO CAN NEVER DISAGREE" (decode.md): an entry a claim left in the  *)
(* claim row names the slot the table names.  The fold reads the WHOLE     *)
(* row, so an entry that outlives its table entry is folded again.         *)
ClaimRowAgrees == \A c \in Cell : poolMap[c] # Absent => table[c] = poolMap[c]

(* "ADMISSION IS TOTAL": no write set is refused, the capacity being the   *)
(* dense limit; a demand it cannot serve "was not derived from this        *)
(* arena's own keying" (admission()).  The code does not keep it.           *)
AdmissionAlwaysServed ==
  \A W \in SUBSET Cell : Serves(next, Cardinality(Missing(W, table)))

(* What the extents do leave: a plan or a refill is served as long as what *)
(* is named, what refused growths lost and what it asks for come to no     *)
(* more than (E + 1) / 2E of the capacity, for extents of E atoms: all of  *)
(* it when E = 1, a little over half of it for long ones.  The slots that  *)
(* alignment skips are never given back, and still they never add up to    *)
(* more than that.                                                         *)
Named == Cardinality(Resident) + Cardinality(Unspent)

SparseIsServed ==
  \A count \in 0 .. Capacity :
    2 * ExtentAtoms * (Named + lost + count) <= (ExtentAtoms + 1) * Capacity
      => Serves(next, count)

(* A slot never moves once assigned, short of a reset: what a captured     *)
(* graph, the claim row and a walk in flight rely on.                      *)
SlotNeverMoves ==
  [][(\E W \in SUBSET Cell : PlanFresh(W)) \/ \A c \in Resident : table'[c] = table[c]]_vars

(* A launch deposits once into EVERY atom of its write set and nowhere     *)
(* else, whoever admitted the atoms: no lost write, no write through a     *)
(* slot somebody else owns.                                                *)
WholeWriteSetDeposited ==
  [][/\ ChunkLaunch => Dense!Deposit(planned)
     /\ \A h \in Head, W \in SUBSET Cell :
          W # {} /\ DeviceStep(h, W) => Dense!Deposit(W)]_vars

(* The paged state is indistinguishable from the dense one: admission,     *)
(* claims, refills and failures are invisible, fresh atoms read zero, and  *)
(* a fresh plan reads as an empty sequence.                                *)
ImplementsDense == Dense!Spec

===========================================================================
