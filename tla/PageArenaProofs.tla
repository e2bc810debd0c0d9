-------------------------- MODULE PageArenaProofs --------------------------
(***************************************************************************)
(* That the arena never hands one slot to two owners, for every number of  *)
(* batch-heads, atoms, pool slots and extent size (the inductive invariant *)
(* IInv), that alignment skips no more than a bounded share of the slots,  *)
(* and that, read through its table, the arena is the dense plane.         *)
(*                                                                         *)
(* They are proved for an arena that is not reset after a device claim     *)
(* (ResetAfterClaims = FALSE), which is how RoLAState uses it; with such   *)
(* resets and a pool ClaimRowAgrees does not hold.                         *)
(***************************************************************************)
EXTENDS PageArena, TLAPS, FiniteSetTheorems

(***************************************************************************)
(* Counting                                                                *)
(***************************************************************************)
LEMMA CellsFinite ==
  /\ IsFiniteSet(Cell) /\ IsFiniteSet(Position)
  /\ Capacity \in Nat /\ Cardinality(Cell) = Capacity
  /\ PoolTotal \in 0 .. Capacity
<1>1. IsFiniteSet(Head) /\ Cardinality(Head) = BH
  BY FS_Interval, ArenaAssumption DEF Head
<1>2. IsFiniteSet(0 .. AtomsPerBH - 1) /\ Cardinality(0 .. AtomsPerBH - 1) = AtomsPerBH
  BY FS_Interval, ArenaAssumption
<1>3. IsFiniteSet(Cell) /\ Cardinality(Cell) = Capacity
  BY <1>1, <1>2, FS_Product DEF Cell, Capacity
<1>4. Position \in SUBSET Cell
  BY ArenaAssumption DEF Position, Cell
<1>5. IsFiniteSet(Position) /\ Cardinality(Position) <= Cardinality(Cell)
  BY <1>3, <1>4, FS_Subset
<1>6. Cardinality(Position) \in Nat /\ Cardinality(Cell) \in Nat
  BY <1>3, <1>5, FS_CardinalityType
<1>. QED
  BY <1>3, <1>5, <1>6 DEF PoolTotal

(* Ranks are below the size of the set ...                                 *)
LEMMA RankBound ==
  ASSUME NEW S \in SUBSET (Nat \X Nat), IsFiniteSet(S), NEW p \in S
  PROVE  Cardinality(S) \in Nat /\ Rank(S, p) \in 0 .. Cardinality(S) - 1
<1>. DEFINE R == {q \in S : Before(q, p)}
<1>1. R \in SUBSET (S \ {p})
  BY DEF Before
<1>2. IsFiniteSet(S \ {p}) /\ Cardinality(S \ {p}) = Cardinality(S) - 1
  BY FS_RemoveElement
<1>3. IsFiniteSet(R) /\ Cardinality(R) <= Cardinality(S \ {p})
  BY <1>1, <1>2, FS_Subset
<1>4. Cardinality(S) \in Nat /\ Cardinality(R) \in Nat /\ Cardinality(S \ {p}) \in Nat
  BY <1>2, <1>3, FS_CardinalityType
<1>. QED
  BY <1>2, <1>3, <1>4 DEF Rank

(* ... and two members of one set never share one.                         *)
LEMMA RankIncreases ==
  ASSUME NEW S \in SUBSET (Nat \X Nat), IsFiniteSet(S),
         NEW p \in S, NEW q \in S, Before(p, q)
  PROVE  Rank(S, p) < Rank(S, q)
<1>. DEFINE P == {x \in S : Before(x, p)}
            Q == {x \in S : Before(x, q)}
<1>1. P \cup {p} \in SUBSET Q
  BY DEF Before
<1>2. p \notin P
  BY DEF Before
<1>3. P \in SUBSET S /\ Q \in SUBSET S
  OBVIOUS
<1>4. IsFiniteSet(P) /\ IsFiniteSet(Q)
  BY <1>3, FS_Subset
<1>5. Cardinality(P \cup {p}) = Cardinality(P) + 1
  BY <1>2, <1>4, FS_AddElement
<1>6. Cardinality(P \cup {p}) <= Cardinality(Q)
  BY <1>1, <1>4, FS_Subset
<1>7. Cardinality(P) \in Nat /\ Cardinality(Q) \in Nat
  BY <1>4, FS_CardinalityType
<1>. QED
  BY <1>5, <1>6, <1>7 DEF Rank

LEMMA RankInjective ==
  ASSUME NEW S \in SUBSET (Nat \X Nat), IsFiniteSet(S),
         NEW p \in S, NEW q \in S, Rank(S, p) = Rank(S, q)
  PROVE  p = q
<1>1. Rank(S, p) \in Int /\ Rank(S, q) \in Int
  BY RankBound
<1>2. ~Before(p, q) /\ ~Before(q, p)
  BY <1>1, RankIncreases
<1>. QED
  BY <1>2 DEF Before

(***************************************************************************)
(* The allocator: a served run starts at or past the cursor and ends at    *)
(* the new cursor, inside the capacity.                                    *)
(***************************************************************************)
LEMMA TakeRun ==
  ASSUME NEW n \in 0 .. Capacity, NEW k \in Nat, Serves(n, k)
  PROVE  /\ First(n, k) \in Nat /\ n <= First(n, k)
         /\ Taken(n, k) \in n .. Capacity
         /\ k > 0 => First(n, k) + k = Taken(n, k)
<1>1. Capacity \in Nat
  BY CellsFinite
<1>2. Remainder(n) \in Int
  BY ArenaAssumption, <1>1 DEF Remainder
<1>3. First(n, k) \in Nat /\ n <= First(n, k)
  BY <1>1, <1>2 DEF First
<1>. QED
  BY <1>1, <1>3 DEF Taken, Serves

(***************************************************************************)
(* The slot ledger of a table t, cursor n, mapped prefix m and a pool of   *)
(* slots ps spent up to pc: everything named is below n and m, and nothing *)
(* is named twice.  plan_exact after a reset runs over a ledger that is no *)
(* state's own, which is why the ledger is an operator.                    *)
(***************************************************************************)
Left(pc) == {p \in Position : ~(p[2] < pc[p[1]])}

Ledger(t, n, m, ps, pc) ==
  /\ t \in [Cell -> Slot \cup {Absent}]
  /\ n \in 0 .. Capacity /\ m \in 0 .. Capacity /\ PoolTotal <= m
  /\ ps \in [Position -> Slot] /\ pc \in [Head -> 0 .. PoolCapacity]
  /\ \A c \in Cell : t[c] # Absent => t[c] < n /\ t[c] < m
  /\ \A p \in Left(pc) : ps[p] < n /\ ps[p] < m
  /\ \A c, d \in Cell : t[c] # Absent /\ t[c] = t[d] => c = d
  /\ \A p, q \in Left(pc) : ps[p] = ps[q] => p = q
  /\ \A c \in Cell, p \in Left(pc) : t[c] # ps[p]

IInv ==
  /\ Ledger(table, next, mapped, poolSlots, poolCursor)
  /\ ClaimRowAgrees
  /\ poolMap \in [Cell -> Slot \cup {Absent}]

LEMMA UnspentLeft == Unspent = Left(poolCursor)
  BY DEF Unspent, Spent, Left

LEMMA CellsArePairs ==
  /\ Cell \in SUBSET (Nat \X Nat)
  /\ Position \in SUBSET (Nat \X Nat)
  BY ArenaAssumption DEF Cell, Position, Head

(* A subset of the cells is a finite set of pairs of naturals, and its     *)
(* ranks number it without repetition.                                     *)
LEMMA CellRanks ==
  ASSUME NEW S \in SUBSET Cell
  PROVE  /\ Cardinality(S) \in Nat
         /\ \A c \in S : Rank(S, c) \in 0 .. Cardinality(S) - 1
         /\ \A c, d \in S : Rank(S, c) = Rank(S, d) => c = d
<1>1. IsFiniteSet(S) /\ S \in SUBSET (Nat \X Nat)
  BY CellsFinite, CellsArePairs, FS_Subset
<1>2. Cardinality(S) \in Nat
  BY <1>1, FS_CardinalityType
<1>. QED
  BY <1>1, <1>2, RankBound, RankInjective

LEMMA PositionRanks ==
  ASSUME NEW S \in SUBSET Position
  PROVE  /\ Cardinality(S) \in Nat
         /\ \A p \in S : Rank(S, p) \in 0 .. Cardinality(S) - 1
         /\ \A p, q \in S : Rank(S, p) = Rank(S, q) => p = q
<1>1. S \in SUBSET Cell
  BY ArenaAssumption DEF Position, Cell
<1>. QED
  BY <1>1, CellRanks

(* The pool a reset reserves is a ledger with an empty table.              *)
LEMMA ReservedLedger ==
  ASSUME NEW m \in 0 .. Capacity, PoolTotal <= m
  PROVE  Ledger(NoResidency, PoolTotal, m, ReservedSlots, NothingSpent)
<1>1. \A p \in Position : Rank(Position, p) \in 0 .. PoolTotal - 1
  BY PositionRanks DEF PoolTotal
<1>2. PoolTotal \in 0 .. Capacity /\ Capacity \in Nat
  BY CellsFinite
<1>3. ReservedSlots \in [Position -> Slot]
  BY <1>1, <1>2 DEF ReservedSlots, Slot
<1>4. NothingSpent \in [Head -> 0 .. PoolCapacity]
  BY ArenaAssumption DEF NothingSpent
<1>5. NoResidency \in [Cell -> Slot \cup {Absent}] /\ \A c \in Cell : NoResidency[c] = Absent
  BY DEF NoResidency
<1>6. Left(NothingSpent) \in SUBSET Position
  BY DEF Left
<1>7. \A p \in Position : ReservedSlots[p] = Rank(Position, p)
  BY DEF ReservedSlots
<1>8. \A p \in Left(NothingSpent) : ReservedSlots[p] < PoolTotal /\ ReservedSlots[p] < m
  BY <1>1, <1>2, <1>6, <1>7
<1>9. \A p, q \in Left(NothingSpent) : ReservedSlots[p] = ReservedSlots[q] => p = q
  BY <1>6, <1>7, PositionRanks
<1>10. \A c \in Cell, p \in Left(NothingSpent) : NoResidency[c] # ReservedSlots[p]
  BY <1>1, <1>5, <1>6, <1>7, <1>2 DEF Absent
<1>. QED
  BY <1>2, <1>3, <1>4, <1>5, <1>8, <1>9, <1>10 DEF Ledger

(* _commit never unmaps, and what it returns holds the pages asked for.    *)
LEMMA CommitGrows ==
  ASSUME mapped \in 0 .. Capacity, NEW pages \in 0 .. Capacity,
         NEW m \in Committed(pages)
  PROVE  m \in 0 .. Capacity /\ mapped <= m /\ pages <= m
  BY CellsFinite DEF Committed

(***************************************************************************)
(* plan_exact: from a ledger to a ledger, moving no slot already assigned. *)
(***************************************************************************)
LEMMA PlanServedKeeps ==
  ASSUME NEW W \in SUBSET Cell, NEW STATE t, NEW STATE n, NEW STATE ps, NEW STATE pc,
         NEW STATE z,
         Ledger(t, n, mapped, ps, pc), PlanServed(W, t, n, z)
  PROVE  /\ Ledger(table', next', mapped', ps, pc)
         /\ \A c \in Cell : t[c] # Absent => table'[c] = t[c]
<1>. DEFINE new == Missing(W, t)
            k   == Cardinality(new)
            f   == First(n, k)
<1>1. new \in SUBSET Cell /\ \A c \in new : t[c] = Absent
  BY DEF Missing
<1>2. k \in Nat /\ (\A c \in new : Rank(new, c) \in 0 .. k - 1)
      /\ (\A c, d \in new : Rank(new, c) = Rank(new, d) => c = d)
  BY <1>1, CellRanks
<1>. HIDE DEF new
<1>3. Serves(n, k) /\ next' = Taken(n, k) /\ mapped' \in Committed(next')
      /\ table' = [c \in Cell |-> IF c \in new THEN f + Rank(new, c) ELSE t[c]]
  BY DEF PlanServed, new
<1>. HIDE DEF k
<1>4. n \in 0 .. Capacity /\ mapped \in 0 .. Capacity /\ PoolTotal <= mapped
  BY DEF Ledger
<1>5. Capacity \in Nat /\ PoolTotal \in Nat
  BY CellsFinite
<1>6. f \in Nat /\ n <= f /\ next' \in n .. Capacity /\ (k > 0 => f + k = next')
  BY <1>2, <1>3, <1>4, TakeRun
<1>. HIDE DEF f
<1>7. mapped' \in 0 .. Capacity /\ mapped <= mapped' /\ next' <= mapped'
  BY <1>3, <1>4, <1>5, <1>6, CommitGrows
<1>8. \A c \in new : table'[c] = f + Rank(new, c) /\ table'[c] \in n .. next' - 1
  <2>. SUFFICES ASSUME NEW c \in new
                PROVE  table'[c] = f + Rank(new, c) /\ table'[c] \in n .. next' - 1
    OBVIOUS
  <2>1. table'[c] = f + Rank(new, c)
    BY <1>1, <1>3
  <2>2. Rank(new, c) \in 0 .. k - 1 /\ k > 0
    BY <1>2
  <2>. QED
    BY <1>2, <1>4, <1>5, <1>6, <2>1, <2>2
<1>9. \A c \in Cell : c \notin new => table'[c] = t[c]
  BY <1>3
<1>10. table' \in [Cell -> Slot \cup {Absent}]
  <2>1. \A c \in new : table'[c] \in Slot
    BY <1>4, <1>5, <1>6, <1>8 DEF Slot
  <2>2. t \in [Cell -> Slot \cup {Absent}]
    BY DEF Ledger
  <2>. QED
    BY <1>3, <1>9, <2>1, <2>2
<1>11. \A c \in Cell : table'[c] # Absent => table'[c] < next' /\ table'[c] < mapped'
  <2>1. \A c \in Cell : t[c] # Absent => t[c] < n /\ t[c] < mapped /\ t[c] \in Int
    BY DEF Ledger, Slot
  <2>. QED
    BY <1>4, <1>6, <1>7, <1>8, <1>9, <2>1
<1>12. \A p \in Left(pc) : ps[p] < next' /\ ps[p] < mapped'
  <2>1. \A p \in Left(pc) : ps[p] < n /\ ps[p] < mapped /\ ps[p] \in Int
    BY DEF Ledger, Left, Slot
  <2>. QED
    BY <1>4, <1>6, <1>7, <2>1
<1>13. \A c, d \in Cell : table'[c] # Absent /\ table'[c] = table'[d] => c = d
  <2>. SUFFICES ASSUME NEW c \in Cell, NEW d \in Cell,
                       table'[c] # Absent, table'[c] = table'[d]
                PROVE  c = d
    OBVIOUS
  <2>1. \A e \in Cell : e \notin new /\ table'[e] # Absent => table'[e] < n
    BY <1>9 DEF Ledger
  <2>2. CASE c \in new /\ d \in new
    <3>1. Rank(new, c) = Rank(new, d)
      BY <1>2, <1>6, <1>8, <2>2
    <3>. QED
      BY <1>2, <2>2, <3>1
  <2>3. CASE c \notin new /\ d \notin new
    BY <1>9, <2>3 DEF Ledger
  <2>4. CASE c \in new /\ d \notin new
    BY <1>4, <1>6, <1>8, <2>1, <2>4
  <2>5. CASE c \notin new /\ d \in new
    BY <1>4, <1>6, <1>8, <2>1, <2>5
  <2>. QED
    BY <2>2, <2>3, <2>4, <2>5
<1>14. \A c \in Cell, p \in Left(pc) : table'[c] # ps[p]
  <2>1. \A p \in Left(pc) : ps[p] < n
    BY DEF Ledger
  <2>2. \A c \in Cell, p \in Left(pc) : c \notin new => table'[c] # ps[p]
    BY <1>9 DEF Ledger
  <2>. QED
    BY <1>4, <1>6, <1>8, <2>1, <2>2
<1>15. \A p, q \in Left(pc) : ps[p] = ps[q] => p = q
  BY DEF Ledger
<1>16. ps \in [Position -> Slot] /\ pc \in [Head -> 0 .. PoolCapacity]
  BY DEF Ledger
<1>17. next' \in 0 .. Capacity /\ PoolTotal <= mapped'
  BY <1>4, <1>5, <1>6, <1>7
<1>. QED
  BY <1>1, <1>7, <1>9, <1>10, <1>11, <1>12, <1>13, <1>14, <1>15, <1>16, <1>17 DEF Ledger

(* A cursor that moved past slots nobody was given leaves a ledger.        *)
LEMMA LeakKeeps ==
  ASSUME NEW STATE t, NEW STATE n, NEW n2 \in n .. Capacity, NEW STATE m,
         NEW STATE ps, NEW STATE pc,
         Ledger(t, n, m, ps, pc)
  PROVE  Ledger(t, n2, m, ps, pc)
<1>1. n \in Int /\ 0 <= n /\ Capacity \in Int
  BY CellsFinite DEF Ledger
<1>2. \A c \in Cell : t[c] # Absent => t[c] < n2
  BY <1>1 DEF Ledger, Slot
<1>3. \A p \in Left(pc) : ps[p] < n2
  BY <1>1 DEF Ledger, Left, Slot
<1>4. n2 \in 0 .. Capacity
  BY <1>1
<1>. QED
  BY <1>2, <1>3, <1>4 DEF Ledger

LEMMA PlanKeeps ==
  ASSUME NEW W \in SUBSET Cell, NEW STATE t, NEW STATE n, NEW STATE ps, NEW STATE pc,
         NEW STATE z,
         Ledger(t, n, mapped, ps, pc),
         \/ PlanServed(W, t, n, z)
         \/ PlanRefused(W, t, n, z)
         \/ PlanUncommitted(W, t, n, z)
  PROVE  /\ Ledger(table', next', mapped', ps, pc)
         /\ \A c \in Cell : t[c] # Absent => table'[c] = t[c]
<1>1. CASE PlanServed(W, t, n, z)
  BY <1>1, PlanServedKeeps
<1>2. CASE PlanRefused(W, t, n, z)
  BY <1>2 DEF PlanRefused
<1>3. CASE PlanUncommitted(W, t, n, z)
  <2>1. Missing(W, t) \in SUBSET Cell
    BY DEF Missing
  <2>2. Cardinality(Missing(W, t)) \in Nat
    BY <2>1, CellRanks
  <2>3. n \in 0 .. Capacity
    BY DEF Ledger
  <2>4. next' \in n .. Capacity
    BY <1>3, <2>2, <2>3, TakeRun DEF PlanUncommitted
  <2>. QED
    BY <1>3, <2>4, LeakKeeps DEF PlanUncommitted
<1>. QED
  BY <1>1, <1>2, <1>3

(***************************************************************************)
(* The device claim.  Because the claim row agrees with the table, the     *)
(* fold maps exactly the atoms this step claimed: the cursor then passes   *)
(* over exactly the pool positions those atoms took.                       *)
(***************************************************************************)
LEMMA ClaimKeeps ==
  ASSUME NEW h \in Head, NEW W \in SUBSET Cell, W \subseteq {h} \X (0 .. AtomsPerBH - 1),
         IInv, StepClaims(h, W), UNCHANGED <<next, mapped, poolSlots>>
  PROVE  /\ IInv'
         /\ \A c \in Cell : table[c] # Absent => table'[c] = table[c]
         /\ \A c \in Missing(W, table) :
              /\ table'[c] = ClaimRow(h, Missing(W, table))[c] /\ table'[c] \in Slot
              /\ \E p \in Left(poolCursor) : table'[c] = poolSlots[p]
         /\ \A c \in Cell \ Missing(W, table) : table'[c] = table[c]
         /\ Left(poolCursor') \subseteq Left(poolCursor)
         /\ poolCursor' = [poolCursor EXCEPT ![h] = poolCursor[h] + Cardinality(Missing(W, table))]
<1>. DEFINE new   == Missing(W, table)
            k     == Cardinality(new)
            row   == ClaimRow(h, new)
            at(c) == <<h, poolCursor[h] + Rank(new, c)>>
<1>1. new \in SUBSET Cell /\ (\A c \in new : table[c] = Absent /\ c[1] = h)
  BY DEF Missing
<1>2. k \in Nat /\ (\A c \in new : Rank(new, c) \in 0 .. k - 1)
      /\ (\A c, d \in new : Rank(new, c) = Rank(new, d) => c = d)
  BY <1>1, CellRanks
<1>3. /\ k <= PoolCapacity - poolCursor[h]
      /\ poolMap' = row
      /\ table' = [c \in Cell |-> IF c \in Folding(h, row) THEN row[c] ELSE table[c]]
      /\ poolCursor' = [poolCursor EXCEPT ![h] = @ + Cardinality(Folding(h, row))]
  BY DEF StepClaims, Claimable
<1>4. row = [c \in Cell |-> IF c \in new THEN poolSlots[at(c)] ELSE poolMap[c]]
  BY DEF ClaimRow
<1>. HIDE DEF new
<1>. HIDE DEF k, row
<1>5. /\ poolSlots \in [Position -> Slot] /\ poolCursor \in [Head -> 0 .. PoolCapacity]
      /\ table \in [Cell -> Slot \cup {Absent}] /\ poolMap \in [Cell -> Slot \cup {Absent}]
  BY DEF IInv, Ledger
<1>6. PoolCapacity \in Nat /\ poolCursor[h] \in 0 .. PoolCapacity
  BY <1>5, ArenaAssumption
<1>7. \A c \in new : at(c) \in Position /\ at(c) \in Left(poolCursor)
  <2>. SUFFICES ASSUME NEW c \in new
                PROVE  at(c) \in Position /\ at(c) \in Left(poolCursor)
    OBVIOUS
  <2>1. Rank(new, c) \in 0 .. k - 1
    BY <1>2
  <2>2. poolCursor[h] + Rank(new, c) \in 0 .. PoolCapacity - 1
        /\ ~(poolCursor[h] + Rank(new, c) < poolCursor[h])
    BY <1>2, <1>3, <1>6, <2>1
  <2>. QED
    BY <2>2 DEF Position, Left
<1>8. \A c \in new : row[c] = poolSlots[at(c)] /\ row[c] \in Slot
  BY <1>1, <1>4, <1>5, <1>7
<1>9. Absent \notin Slot
  BY DEF Absent, Slot
<1>10. Folding(h, row) = new
  <2>1. \A c \in new : c \in Folding(h, row)
    BY <1>1, <1>8, <1>9 DEF Folding
  <2>2. \A c \in Folding(h, row) : c \in new
    BY <1>4 DEF Folding, IInv, ClaimRowAgrees
  <2>. QED
    BY <2>1, <2>2
<1>11. \A c \in new : table'[c] = poolSlots[at(c)] /\ poolMap'[c] = table'[c]
  BY <1>1, <1>3, <1>8, <1>10
<1>12. \A c \in Cell : c \notin new => table'[c] = table[c] /\ poolMap'[c] = poolMap[c]
  BY <1>3, <1>4, <1>10
<1>13. table' \in [Cell -> Slot \cup {Absent}] /\ poolMap' \in [Cell -> Slot \cup {Absent}]
  <2>1. row \in [Cell -> Slot \cup {Absent}]
    BY <1>4, <1>5, <1>8
  <2>. QED
    BY <1>3, <1>5, <2>1
<1>14. ClaimRowAgrees'
  <2>1. \A c \in Cell : poolMap[c] # Absent => table[c] = poolMap[c]
    BY DEF IInv, ClaimRowAgrees
  <2>. QED
    BY <1>11, <1>12, <2>1 DEF ClaimRowAgrees
<1>15. poolCursor' = [poolCursor EXCEPT ![h] = poolCursor[h] + k]
  BY <1>3, <1>10 DEF k
<1>16. poolCursor' \in [Head -> 0 .. PoolCapacity]
  <2>1. poolCursor[h] + k \in 0 .. PoolCapacity
    BY <1>2, <1>3, <1>6
  <2>. QED
    BY <1>5, <1>15, <2>1
<1>17. \A p \in Left(poolCursor') : p \in Left(poolCursor) /\ \A c \in new : p # at(c)
  <2>. SUFFICES ASSUME NEW p \in Left(poolCursor')
                PROVE  p \in Left(poolCursor) /\ \A c \in new : p # at(c)
    OBVIOUS
  <2>1. p \in Position /\ p[1] \in Head /\ p[2] \in Nat /\ ~(p[2] < poolCursor'[p[1]])
    BY <1>6 DEF Left, Position
  <2>2. CASE p[1] = h
    <3>1. poolCursor'[p[1]] = poolCursor[h] + k
      BY <1>5, <1>15, <2>1, <2>2
    <3>2. ~(p[2] < poolCursor[h])
      BY <1>2, <1>6, <2>1, <3>1
    <3>3. \A c \in new : p[2] # poolCursor[h] + Rank(new, c)
      BY <1>2, <1>6, <2>1, <3>1
    <3>. QED
      BY <2>1, <2>2, <3>2, <3>3 DEF Left
  <2>3. CASE p[1] # h
    BY <1>5, <1>15, <2>1, <2>3 DEF Left
  <2>. QED
    BY <2>2, <2>3
<1>18. \A c, d \in Cell : table'[c] # Absent /\ table'[c] = table'[d] => c = d
  <2>. SUFFICES ASSUME NEW c \in Cell, NEW d \in Cell,
                       table'[c] # Absent, table'[c] = table'[d]
                PROVE  c = d
    OBVIOUS
  <2>1. CASE c \in new /\ d \in new
    <3>1. at(c) = at(d)
      BY <1>7, <1>11, <2>1 DEF IInv, Ledger
    <3>2. Rank(new, c) = Rank(new, d)
      BY <1>2, <1>6, <2>1, <3>1
    <3>. QED
      BY <1>2, <2>1, <3>2
  <2>2. CASE c \notin new /\ d \notin new
    BY <1>12, <2>2 DEF IInv, Ledger
  <2>3. \A e \in Cell, x \in new : e \notin new => table'[e] # table'[x]
    <3>1. \A e \in Cell, p \in Left(poolCursor) : table[e] # poolSlots[p]
      BY DEF IInv, Ledger
    <3>2. \A x \in new : at(x) \in Left(poolCursor) /\ table'[x] = poolSlots[at(x)]
      BY <1>7, <1>11
    <3>. HIDE DEF at
    <3>. QED
      BY <1>12, <3>1, <3>2
  <2>4. CASE c \in new /\ d \notin new
    BY <2>3, <2>4
  <2>5. CASE c \notin new /\ d \in new
    BY <2>3, <2>5
  <2>. QED
    BY <2>1, <2>2, <2>4, <2>5
<1>19. \A c \in Cell, p \in Left(poolCursor') : table'[c] # poolSlots[p]
  <2>. SUFFICES ASSUME NEW c \in Cell, NEW p \in Left(poolCursor')
                PROVE  table'[c] # poolSlots[p]
    OBVIOUS
  <2>1. CASE c \in new
    BY <1>7, <1>11, <1>17, <2>1 DEF IInv, Ledger
  <2>2. CASE c \notin new
    BY <1>12, <1>17, <2>2 DEF IInv, Ledger
  <2>. QED
    BY <2>1, <2>2
<1>20. \A c \in Cell : table'[c] # Absent => table'[c] < next /\ table'[c] < mapped
  <2>1. \A c \in new : table'[c] < next /\ table'[c] < mapped
    BY <1>7, <1>11 DEF IInv, Ledger
  <2>. QED
    BY <1>12, <2>1 DEF IInv, Ledger
<1>21. Ledger(table', next', mapped', poolSlots', poolCursor')
  BY <1>13, <1>16, <1>17, <1>18, <1>19, <1>20 DEF IInv, Ledger
<1>22. \A c \in new : /\ table'[c] = row[c] /\ table'[c] \in Slot
                     /\ \E p \in Left(poolCursor) : table'[c] = poolSlots[p]
  BY <1>7, <1>8, <1>11
<1>23. Left(poolCursor') \subseteq Left(poolCursor)
  BY <1>17
<1>. QED
  BY <1>1, <1>12, <1>13, <1>14, <1>15, <1>21, <1>22, <1>23 DEF IInv, new, row, k

(***************************************************************************)
(* refill_pool: a fresh run for the spent positions, the rest untouched.   *)
(***************************************************************************)
LEMMA RefillKeeps ==
  ASSUME IInv, RefillPool
  PROVE  IInv' /\ table' = table
<1>1. Spent \in SUBSET Position
  BY DEF Spent
<1>. DEFINE k == Cardinality(Spent)
            f == First(next, k)
<1>2. k \in Nat /\ (\A p \in Spent : Rank(Spent, p) \in 0 .. k - 1)
      /\ (\A p, q \in Spent : Rank(Spent, p) = Rank(Spent, q) => p = q)
  BY <1>1, PositionRanks
<1>3. next \in 0 .. Capacity /\ mapped \in 0 .. Capacity /\ PoolTotal <= mapped
      /\ Capacity \in Nat /\ PoolTotal \in Nat
  BY CellsFinite DEF IInv, Ledger
<1>4. CASE RefillUncommitted
  <2>1. next' \in next .. Capacity
    BY <1>2, <1>3, <1>4, TakeRun DEF RefillUncommitted
  <2>2. UNCHANGED <<table, mapped, poolSlots, poolCursor, poolMap>>
    BY <1>4 DEF RefillUncommitted, pool
  <2>3. Ledger(table, next', mapped, poolSlots, poolCursor)
    BY <2>1, LeakKeeps DEF IInv
  <2>. QED
    BY <2>2, <2>3 DEF IInv, ClaimRowAgrees
<1>5. CASE RefillServed
  <2>1. /\ Serves(next, k) /\ next' = Taken(next, k) /\ mapped' \in Committed(next')
        /\ poolSlots' = [p \in Position |-> IF p \in Spent THEN f + Rank(Spent, p)
                                                           ELSE poolSlots[p]]
        /\ poolCursor' = NothingSpent
        /\ UNCHANGED <<table, poolMap>>
    BY <1>5 DEF RefillServed
  <2>. HIDE DEF k
  <2>2. f \in Nat /\ next <= f /\ next' \in next .. Capacity /\ (k > 0 => f + k = next')
    BY <1>2, <1>3, <2>1, TakeRun
  <2>. HIDE DEF f
  <2>3. mapped' \in 0 .. Capacity /\ mapped <= mapped' /\ next' <= mapped'
    BY <1>3, <2>1, <2>2, CommitGrows
  <2>4. \A p \in Spent : poolSlots'[p] = f + Rank(Spent, p)
                         /\ poolSlots'[p] \in next .. next' - 1
    <3>. SUFFICES ASSUME NEW p \in Spent
                  PROVE  poolSlots'[p] = f + Rank(Spent, p)
                         /\ poolSlots'[p] \in next .. next' - 1
      OBVIOUS
    <3>1. poolSlots'[p] = f + Rank(Spent, p)
      BY <1>1, <2>1
    <3>2. Rank(Spent, p) \in 0 .. k - 1 /\ k > 0
      BY <1>2
    <3>. QED
      BY <1>2, <1>3, <2>2, <3>1, <3>2
  <2>5. \A p \in Position : p \notin Spent => poolSlots'[p] = poolSlots[p]
                                            /\ p \in Left(poolCursor)
    BY <2>1 DEF Left, Spent
  <2>6. Left(poolCursor') \in SUBSET Position
    BY DEF Left
  <2>7. poolSlots' \in [Position -> Slot]
    <3>1. \A p \in Spent : poolSlots'[p] \in Slot
      BY <1>3, <2>2, <2>4 DEF Slot
    <3>. QED
      BY <2>1, <2>5, <3>1 DEF IInv, Ledger
  <2>8. poolCursor' \in [Head -> 0 .. PoolCapacity]
    BY <2>1, ArenaAssumption DEF NothingSpent
  <2>9. \A p \in Left(poolCursor) : poolSlots[p] < next /\ poolSlots[p] < mapped
                                   /\ poolSlots[p] \in Int
    BY DEF IInv, Ledger, Left, Slot
  <2>10. \A c \in Cell : table[c] # Absent => table[c] < next /\ table[c] < mapped
                                            /\ table[c] \in Int
    BY DEF IInv, Ledger, Slot
  <2>11. \A c \in Cell : table'[c] # Absent => table'[c] < next' /\ table'[c] < mapped'
    BY <1>3, <2>1, <2>2, <2>3, <2>10
  <2>12. \A p \in Position : poolSlots'[p] < next' /\ poolSlots'[p] < mapped'
    BY <1>3, <2>2, <2>3, <2>4, <2>5, <2>9
  <2>13. \A p, q \in Position : poolSlots'[p] = poolSlots'[q] => p = q
    <3>. SUFFICES ASSUME NEW p \in Position, NEW q \in Position,
                         poolSlots'[p] = poolSlots'[q]
                  PROVE  p = q
      OBVIOUS
    <3>1. CASE p \in Spent /\ q \in Spent
      <4>1. Rank(Spent, p) = Rank(Spent, q)
        BY <1>2, <2>2, <2>4, <3>1
      <4>. QED
        BY <1>2, <3>1, <4>1
    <3>2. CASE p \notin Spent /\ q \notin Spent
      BY <2>5, <3>2 DEF IInv, Ledger
    <3>3. CASE ~(p \in Spent <=> q \in Spent)
      BY <1>3, <2>2, <2>4, <2>5, <2>9, <3>3
    <3>. QED
      BY <3>1, <3>2, <3>3
  <2>14. \A c \in Cell, p \in Position : table'[c] # poolSlots'[p]
    <3>. SUFFICES ASSUME NEW c \in Cell, NEW p \in Position
                  PROVE  table[c] # poolSlots'[p]
      BY <2>1
    <3>1. CASE p \in Spent
      BY <1>3, <2>2, <2>4, <2>10, <3>1 DEF Absent
    <3>2. CASE p \notin Spent
      BY <2>5, <3>2 DEF IInv, Ledger
    <3>. QED
      BY <3>1, <3>2
  <2>15. \A c, d \in Cell : table'[c] # Absent /\ table'[c] = table'[d] => c = d
    BY <2>1 DEF IInv, Ledger
  <2>16. next' \in 0 .. Capacity /\ PoolTotal <= mapped'
    BY <1>3, <2>2, <2>3
  <2>17. table' \in [Cell -> Slot \cup {Absent}]
    BY <2>1 DEF IInv, Ledger
  <2>18. Ledger(table', next', mapped', poolSlots', poolCursor')
    BY <2>3, <2>6, <2>7, <2>8, <2>11, <2>12, <2>13, <2>14, <2>15, <2>16, <2>17 DEF Ledger
  <2>. QED
    BY <2>1, <2>18 DEF IInv, ClaimRowAgrees
<1>. QED
  BY <1>4, <1>5 DEF RefillPool

(***************************************************************************)
(* The invariant is inductive: one step per action.                        *)
(***************************************************************************)
LEMMA InitIInv == Init => IInv
<1>. SUFFICES ASSUME Init
              PROVE  IInv
  OBVIOUS
<1>1. mapped \in 0 .. Capacity /\ PoolTotal <= mapped
  BY CellsFinite DEF Init
<1>2. Ledger(table, next, mapped, poolSlots, poolCursor)
  BY <1>1, ReservedLedger DEF Init
<1>. QED
  BY <1>2 DEF Init, IInv, ClaimRowAgrees, NoResidency

LEMMA NextIInv ==
  ASSUME ResetAfterClaims = FALSE, IInv, [Next]_vars
  PROVE  IInv'
<1>1. ASSUME NEW W \in SUBSET Cell, PlanContinue(W)
      PROVE  IInv'
  <2>1. Ledger(table', next', mapped', poolSlots, poolCursor)
        /\ \A c \in Cell : table[c] # Absent => table'[c] = table[c]
    BY <1>1, PlanKeeps DEF PlanContinue, IInv
  <2>2. UNCHANGED <<poolSlots, poolCursor, poolMap>>
    BY <1>1 DEF PlanContinue, pool
  <2>. QED
    BY <2>1, <2>2 DEF IInv, ClaimRowAgrees
<1>2. ASSUME NEW W \in SUBSET Cell, PlanFresh(W)
      PROVE  IInv'
  <2>1. mapped \in 0 .. Capacity /\ PoolTotal <= mapped
    BY DEF IInv, Ledger
  <2>2. Ledger(NoResidency, PoolTotal, mapped, ReservedSlots, NothingSpent)
    BY <2>1, ReservedLedger
  <2>. DEFINE z == 0 .. PoolTotal - 1
  <2>3. \/ PlanServed(W, NoResidency, PoolTotal, z)
        \/ PlanRefused(W, NoResidency, PoolTotal, z)
        \/ PlanUncommitted(W, NoResidency, PoolTotal, z)
    BY <1>2 DEF PlanFresh
  <2>. HIDE DEF z
  <2>4. Ledger(table', next', mapped', ReservedSlots, NothingSpent)
    BY <2>2, <2>3, PlanKeeps
  <2>5. poolSlots' = ReservedSlots /\ poolCursor' = NothingSpent
        /\ poolMap' = poolMap /\ poolMap = NoResidency
    BY <1>2 DEF PlanFresh
  <2>. QED
    BY <2>4, <2>5 DEF IInv, ClaimRowAgrees, NoResidency
<1>3. CASE ChunkLaunch
  BY <1>3 DEF ChunkLaunch, pool, IInv, ClaimRowAgrees
<1>4. ASSUME NEW h \in Head, NEW W \in SUBSET Cell, DeviceStep(h, W)
      PROVE  IInv'
  <2>1. CASE StepResident(h, W)
    BY <1>4, <2>1 DEF DeviceStep, StepResident, IInv, ClaimRowAgrees
  <2>2. CASE StepClaims(h, W)
    BY <1>4, <2>2, ClaimKeeps DEF DeviceStep
  <2>. QED
    BY <1>4, <2>1, <2>2 DEF DeviceStep
<1>5. CASE RefillPool
  BY <1>5, RefillKeeps
<1>6. CASE UNCHANGED vars
  BY <1>6 DEF vars, IInv, ClaimRowAgrees
<1>. QED
  BY <1>1, <1>2, <1>3, <1>4, <1>5, <1>6 DEF Next

(* The slot ledger and the claim row's agreement with the table hold in    *)
(* every reachable state of every arena.                                   *)
THEOREM LedgerHolds == ResetAfterClaims = FALSE => (Spec => []IInv)
<1>. SUFFICES ASSUME ResetAfterClaims = FALSE
              PROVE  Spec => []IInv
  OBVIOUS
<1>1. Init => IInv
  BY InitIInv
<1>2. IInv /\ [Next]_vars => IInv'
  BY NextIInv
<1>. QED
  BY <1>1, <1>2, PTL DEF Spec

(* However plans, resets, claims, folds and refills interleave, no slot is *)
(* handed to two atoms, to two pool positions, or to one of each.          *)
THEOREM SlotsNeverShared == ResetAfterClaims = FALSE => (Spec => []NoSharedSlot)
<1>. SUFFICES ASSUME ResetAfterClaims = FALSE
              PROVE  Spec => []NoSharedSlot
  OBVIOUS
<1>1. IInv => NoSharedSlot
  BY UnspentLeft DEF IInv, Ledger, NoSharedSlot, Resident
<1>. QED
  BY <1>1, LedgerHolds, PTL

(* A slot anybody can name was handed out and physically exists, whatever  *)
(* grow the driver refused.                                                *)
THEOREM NamedSlotsAreMapped == ResetAfterClaims = FALSE => (Spec => []NamedSlotsExist)
<1>. SUFFICES ASSUME ResetAfterClaims = FALSE
              PROVE  Spec => []NamedSlotsExist
  OBVIOUS
<1>1. IInv => NamedSlotsExist
  BY UnspentLeft DEF IInv, Ledger, NamedSlotsExist, Resident
<1>. QED
  BY <1>1, LedgerHolds, PTL

(* The claim row never disagrees with the table, so a fold over the whole  *)
(* row maps this step's claims and nothing else.                           *)
THEOREM ClaimRowNeverStale == ResetAfterClaims = FALSE => (Spec => []ClaimRowAgrees)
<1>. SUFFICES ASSUME ResetAfterClaims = FALSE
              PROVE  Spec => []ClaimRowAgrees
  OBVIOUS
<1>1. IInv => ClaimRowAgrees
  BY DEF IInv
<1>. QED
  BY <1>1, LedgerHolds, PTL

(* Short of a reset, a slot once assigned is never moved: what a walk in   *)
(* flight and a captured launch rely on.                                   *)
THEOREM SlotsNeverMove == ResetAfterClaims = FALSE => (Spec => SlotNeverMoves)
<1>. SUFFICES ASSUME ResetAfterClaims = FALSE
              PROVE  Spec => SlotNeverMoves
  OBVIOUS
<1>. DEFINE Stays == \A c \in Resident : table'[c] = table[c]
            Fresh == \E W \in SUBSET Cell : PlanFresh(W)
<1>1. ASSUME IInv, [Next]_vars
      PROVE  [Fresh \/ Stays]_vars
  <2>1. ASSUME NEW W \in SUBSET Cell, PlanContinue(W)
        PROVE  Stays
    <3>1. \A c \in Cell : table[c] # Absent => table'[c] = table[c]
      BY <1>1, <2>1, PlanKeeps DEF PlanContinue, IInv
    <3>. QED
      BY <3>1 DEF Resident
  <2>2. CASE ChunkLaunch
    BY <2>2 DEF ChunkLaunch
  <2>3. ASSUME NEW h \in Head, NEW W \in SUBSET Cell, DeviceStep(h, W)
        PROVE  Stays
    <3>1. CASE StepResident(h, W)
      BY <3>1 DEF StepResident
    <3>2. CASE StepClaims(h, W)
      <4>1. \A c \in Cell : table[c] # Absent => table'[c] = table[c]
        BY <1>1, <2>3, <3>2, ClaimKeeps DEF DeviceStep
      <4>. QED
        BY <4>1 DEF Resident
    <3>. QED
      BY <2>3, <3>1, <3>2 DEF DeviceStep
  <2>4. CASE RefillPool
    BY <1>1, <2>4, RefillKeeps
  <2>. QED
    BY <1>1, <2>1, <2>2, <2>3, <2>4 DEF Next
<1>2. Spec => []IInv
  BY LedgerHolds
<1>. QED
  BY <1>1, <1>2, PTL DEF Spec, SlotNeverMoves

(* The bytes keep their type: a slot holds a count of deposits, or nothing *)
(* was ever written to it.                                                 *)
LEMMA DepositedTyped ==
  ASSUME plane \in [Slot -> Nat \cup {Unwritten}], NEW W \in SUBSET Cell, NEW STATE slotOf
  PROVE  Deposited(W, slotOf) \in [Slot -> Nat \cup {Unwritten}]
<1>1. \A s \in Slot : Cardinality({c \in W : slotOf[c] = s}) \in Nat
  <2>. SUFFICES ASSUME NEW s \in Slot
                PROVE  Cardinality({c \in W : slotOf[c] = s}) \in Nat
    OBVIOUS
  <2>1. {c \in W : slotOf[c] = s} \in SUBSET Cell
    OBVIOUS
  <2>. HIDE DEF Cell
  <2>. QED
    BY <2>1, CellRanks
<1>. QED
  BY <1>1 DEF Deposited

(***************************************************************************)
(* What alignment costs.  Extents of E atoms are filled like bins by next  *)
(* fit: a gap of g slots is opened only by a run longer than g, and the    *)
(* extent it closes was filled up to it.  So E + 1 times the cursor, plus  *)
(* what is left of the open extent, stays within 2E times the slots that   *)
(* are named, and the arena is served until (E + 1) / 2E of it are.        *)
(***************************************************************************)
Paid(n, held) == (ExtentAtoms + 1) * n + Remainder(n) <= 2 * ExtentAtoms * held

(* The remainder of the open extent leads to the next extent's first slot. *)
LEMMA RemainderAligns ==
  ASSUME NEW n \in Nat
  PROVE  /\ Remainder(n) \in 0 .. ExtentAtoms - 1
         /\ \E q \in Int : n + Remainder(n) = ExtentAtoms * q
<1>. DEFINE E == ExtentAtoms
<1>1. E \in Nat \ {0}
  BY ArenaAssumption
<1>2. -n \in Int /\ (-n) % E \in 0 .. E - 1 /\ (-n) \div E \in Int
  BY <1>1
<1>3. -n = E * ((-n) \div E) + ((-n) % E)
  BY <1>1
<1>4. n + Remainder(n) = E * (-((-n) \div E))
  BY <1>1, <1>2, <1>3 DEF Remainder
<1>. QED
  BY <1>2, <1>4 DEF Remainder

(* A run of at most an extent, from an extent's first slot, leaves the     *)
(* rest of it open.                                                        *)
LEMMA RemainderAfter ==
  ASSUME NEW n \in Nat, NEW q \in Int, NEW k \in 1 .. ExtentAtoms,
         n = ExtentAtoms * q + k
  PROVE  Remainder(n) = ExtentAtoms - k
<1>. DEFINE E == ExtentAtoms
            r == Remainder(n)
<1>1. E \in Nat \ {0}
  BY ArenaAssumption
<1>2. PICK p \in Int : n + r = E * p
  BY RemainderAligns
<1>3. r \in 0 .. E - 1
  BY RemainderAligns
<1>. HIDE DEF r
<1>4. r + k = E * (p - q)
  BY <1>1, <1>2, <1>3
<1>5. r + k \in 1 .. 2 * E - 1
  BY <1>1, <1>3
<1>6. p - q = 1
  <2>1. CASE p - q <= 0
    <3>1. E * (p - q) <= 0
      BY <1>1, <2>1
    <3>. QED
      BY <1>1, <1>4, <1>5, <3>1
  <2>2. CASE p - q >= 2
    <3>1. E * (p - q) >= 2 * E
      BY <1>1, <2>2
    <3>. QED
      BY <1>1, <1>4, <1>5, <3>1
  <2>. QED
    BY <2>1, <2>2
<1>. QED
  BY <1>1, <1>3, <1>4, <1>6 DEF r

(* A run pays for the gap in front of it.  The tight case is a run longer  *)
(* than the gap by one, which leaves the most of its own extent open.      *)
LEMMA AlignmentPays ==
  ASSUME NEW n \in Nat, NEW held \in Nat, NEW k \in Nat \ {0}, Paid(n, held)
  PROVE  Paid(First(n, k) + k, held + k)
<1>. DEFINE E == ExtentAtoms
            g == First(n, k) - n
            after == First(n, k) + k
            r == Remainder(n)
            s == Remainder(after)
<1>1. E \in Nat \ {0}
  BY ArenaAssumption
<1>2. r \in 0 .. E - 1 /\ \E q \in Int : n + r = E * q
  BY RemainderAligns
<1>3. after \in Nat /\ after = n + g + k /\ (g = 0 \/ (g = r /\ 0 < r /\ r < k))
  BY <1>2 DEF First
<1>4. s \in 0 .. E - 1
  BY <1>3, RemainderAligns
<1>5. (E + 1) * n + r <= 2 * E * held
  BY DEF Paid
<1>6. (E + 1) * g + s <= (E - 1) * k + r
  <2>1. CASE g = 0
    <3>1. (E - 1) * k >= E - 1
      BY <1>1
    <3>. QED
      BY <1>1, <1>2, <1>4, <2>1, <3>1
  <2>2. CASE g = r /\ 0 < r /\ k = r + 1
    <3>1. PICK q \in Int : after = E * q + k
      BY <1>2, <1>3, <2>2
    <3>2. s = E - k
      BY <1>1, <1>2, <1>3, <2>2, <3>1, RemainderAfter
    <3>. HIDE DEF r, s, g, after
    <3>3. (E + 1) * g = E * r + r /\ (E - 1) * k = E * r + E - r - 1
      BY <1>1, <1>2, <2>2
    <3>. QED
      BY <1>1, <1>2, <2>2, <3>2, <3>3
  <2>3. CASE g = r /\ 0 < r /\ k >= r + 2
    <3>. HIDE DEF r, s, g, after
    <3>1. (E - 1) * k >= (E - 1) * (r + 2)
      <4>1. (E - 1) * (k - (r + 2)) >= 0
        BY <1>1, <1>2, <2>3
      <4>. QED
        BY <1>1, <1>2, <4>1
    <3>2. (E - 1) * (r + 2) = E * r - r + 2 * E - 2 /\ (E + 1) * g = E * r + r
      BY <1>1, <1>2, <2>3
    <3>. QED
      BY <1>1, <1>2, <1>4, <2>3, <3>1, <3>2
  <2>. QED
    BY <1>2, <1>3, <2>1, <2>2, <2>3
<1>. HIDE DEF r, s, g, after
<1>7. (E + 1) * after + s <= 2 * E * (held + k)
  <2>1. g \in Nat
    BY <1>2, <1>3
  <2>2. (E + 1) * after = (E + 1) * n + (E + 1) * g + (E * k + k)
    BY <1>1, <1>3, <2>1
  <2>3. 2 * E * (held + k) = 2 * E * held + 2 * E * k /\ (E - 1) * k = E * k - k
    BY <1>1
  <2>. QED
    BY <1>1, <1>2, <1>4, <1>5, <1>6, <2>1, <2>2, <2>3
<1>. QED
  BY <1>7 DEF Paid, after, s

(* Below (E + 1) / 2E of the capacity the next run still ends inside it.   *)
LEMMA PaidIsServed ==
  ASSUME NEW n \in Nat, NEW held \in Nat, NEW k \in Nat, Paid(n, held),
         2 * ExtentAtoms * (held + k) <= (ExtentAtoms + 1) * Capacity
  PROVE  Serves(n, k)
<1>1. CASE k = 0
  BY <1>1 DEF Serves
<1>2. CASE k # 0
  <2>. DEFINE E == ExtentAtoms
              after == First(n, k) + k
  <2>1. E \in Nat \ {0} /\ Capacity \in Nat
    BY ArenaAssumption, CellsFinite
  <2>2. after \in Nat /\ Remainder(after) \in Nat
    BY <1>2, RemainderAligns DEF First
  <2>3. (E + 1) * after + Remainder(after) <= 2 * E * (held + k)
    BY <1>2, AlignmentPays DEF Paid
  <2>. HIDE DEF after
  <2>4. (E + 1) * after <= (E + 1) * Capacity
    BY <2>1, <2>2, <2>3
  <2>5. after <= Capacity
    <3>. SUFFICES ASSUME after >= Capacity + 1
                  PROVE  FALSE
      BY <2>1, <2>2
    <3>1. (E + 1) * after >= (E + 1) * (Capacity + 1)
      BY <2>1, <2>2
    <3>. QED
      BY <2>1, <2>2, <2>4, <3>1
  <2>. QED
    BY <2>5 DEF Serves, after
<1>. QED
  BY <1>1, <1>2

(* The slots a table and a pool name.                                      *)
Mapped(t)     == {c \in Cell : t[c] # Absent}
Filled(t, pc) == Cardinality(Mapped(t)) + Cardinality(Left(pc))

LEMMA FilledIsNamed ==
  /\ Named = Filled(table, poolCursor)
  /\ \A t, pc : /\ IsFiniteSet(Mapped(t)) /\ Cardinality(Mapped(t)) \in Nat
               /\ IsFiniteSet(Left(pc)) /\ Cardinality(Left(pc)) \in Nat
<1>1. Named = Filled(table, poolCursor)
  BY UnspentLeft DEF Named, Filled, Mapped, Resident
<1>2. ASSUME NEW t
      PROVE  IsFiniteSet(Mapped(t)) /\ Cardinality(Mapped(t)) \in Nat
  <2>1. Mapped(t) \in SUBSET Cell
    BY DEF Mapped
  <2>. QED
    BY <2>1, CellsFinite, FS_Subset, FS_CardinalityType
<1>3. ASSUME NEW pc
      PROVE  IsFiniteSet(Left(pc)) /\ Cardinality(Left(pc)) \in Nat
  <2>1. Left(pc) \in SUBSET Position
    BY DEF Left
  <2>. QED
    BY <2>1, CellsFinite, FS_Subset, FS_CardinalityType
<1>. QED
  BY <1>1, <1>2, <1>3

(* Two disjoint finite sets together.                                      *)
LEMMA DisjointUnion ==
  ASSUME NEW S, NEW T, IsFiniteSet(S), IsFiniteSet(T), S \cap T = {}
  PROVE  Cardinality(S \cup T) = Cardinality(S) + Cardinality(T)
<1>1. Cardinality(S \cup T) = Cardinality(S) + Cardinality(T) - Cardinality(S \cap T)
  BY FS_Union
<1>2. Cardinality(S \cap T) = 0
  BY FS_EmptySet
<1>3. Cardinality(S) \in Nat /\ Cardinality(T) \in Nat
  BY FS_CardinalityType
<1>. QED
  BY <1>1, <1>2, <1>3

(* A plan pays for the run it takes, also one that the driver then fails   *)
(* to back and that is lost; a plan that is refused takes none.            *)
LEMMA PlanPays ==
  ASSUME NEW W \in SUBSET Cell, NEW STATE t, NEW STATE n, NEW STATE ps, NEW STATE pc,
         NEW STATE z, NEW STATE l,
         Ledger(t, n, mapped, ps, pc), l \in Nat, Paid(n, Filled(t, pc) + l),
         \/ PlanServed(W, t, n, z) /\ lost' = l
         \/ PlanRefused(W, t, n, z) /\ lost' = l
         \/ PlanUncommitted(W, t, n, z) /\ lost' = l + Cardinality(Missing(W, t))
  PROVE  Paid(next', Filled(table', pc) + lost') /\ lost' \in Nat
<1>1. CASE PlanRefused(W, t, n, z) /\ lost' = l
  BY <1>1 DEF PlanRefused
<1>. DEFINE held == Filled(t, pc) + l
<1>2. n \in 0 .. Capacity /\ n \in Nat
  BY CellsFinite DEF Ledger
<1>3. Filled(t, pc) \in Nat /\ held \in Nat
  BY FilledIsNamed DEF Filled
<1>4. CASE PlanServed(W, t, n, z) /\ lost' = l
  <2>. DEFINE new == Missing(W, t)
              k   == Cardinality(new)
              f   == First(n, k)
  <2>1. new \in SUBSET Cell /\ new \cap Mapped(t) = {}
    BY DEF Missing, Mapped
  <2>2. IsFiniteSet(new) /\ k \in Nat
    BY <2>1, CellsFinite, FS_Subset, FS_CardinalityType
  <2>3. \A c \in new : Rank(new, c) \in 0 .. k - 1
    BY <2>1, CellRanks
  <2>4. /\ Serves(n, k) /\ next' = Taken(n, k)
        /\ table' = [c \in Cell |-> IF c \in new THEN f + Rank(new, c) ELSE t[c]]
    BY <1>4 DEF PlanServed
  <2>. HIDE DEF new, k
  <2>5. f \in Nat
    BY <1>2, <2>2, <2>4, TakeRun
  <2>6. Mapped(table') = Mapped(t) \cup new
    <3>1. \A c \in new : table'[c] # Absent
      BY <2>1, <2>3, <2>4, <2>5 DEF Absent
    <3>2. \A c \in Cell \ new : table'[c] = t[c]
      BY <2>4
    <3>. QED
      BY <2>1, <3>1, <3>2 DEF Mapped
  <2>7. Filled(table', pc) = Filled(t, pc) + k
    <3>1. Cardinality(Mapped(table')) = Cardinality(Mapped(t)) + k
      BY <2>1, <2>2, <2>6, FilledIsNamed, DisjointUnion DEF k
    <3>2. Cardinality(Mapped(t)) \in Nat /\ Cardinality(Left(pc)) \in Nat
      BY FilledIsNamed
    <3>. QED
      BY <2>2, <3>1, <3>2 DEF Filled
  <2>8. Filled(table', pc) + lost' = held + k
    BY <1>3, <1>4, <2>2, <2>7
  <2>. HIDE DEF held
  <2>9. CASE k = 0
    BY <1>3, <1>4, <2>4, <2>8, <2>9 DEF Taken, held
  <2>10. CASE k > 0
    BY <1>2, <1>3, <1>4, <2>2, <2>4, <2>8, <2>10, AlignmentPays DEF Taken, held
  <2>. QED
    BY <2>2, <2>9, <2>10
<1>5. CASE PlanUncommitted(W, t, n, z) /\ lost' = l + Cardinality(Missing(W, t))
  <2>. DEFINE k == Cardinality(Missing(W, t))
  <2>1. k \in Nat
    BY CellRanks DEF Missing
  <2>2. table' = t /\ next' = Taken(n, k) /\ lost' = l + k
    BY <1>5 DEF PlanUncommitted
  <2>. HIDE DEF k
  <2>3. Filled(table', pc) + lost' = held + k /\ lost' \in Nat
    BY <1>3, <2>1, <2>2
  <2>4. CASE k = 0
    BY <2>2, <2>3, <2>4 DEF Taken
  <2>5. CASE k > 0
    <3>. HIDE DEF held
    <3>. QED
      BY <1>2, <1>3, <2>1, <2>2, <2>3, <2>5, AlignmentPays DEF Taken, held
  <2>. QED
    BY <2>1, <2>4, <2>5
<1>. QED
  BY <1>1, <1>4, <1>5

(* A claim only moves slots from the pool into the table.                  *)
LEMMA ClaimBalances ==
  ASSUME NEW h \in Head, NEW W \in SUBSET Cell, W \subseteq {h} \X (0 .. AtomsPerBH - 1),
         IInv, StepClaims(h, W), UNCHANGED <<next, mapped, poolSlots>>
  PROVE  Filled(table', poolCursor') = Filled(table, poolCursor)
<1>. DEFINE new  == Missing(W, table)
            k    == Cardinality(new)
            u    == poolCursor[h]
            used == {h} \X (u .. u + k - 1)
<1>1. /\ \A c \in new : table'[c] \in Slot
      /\ \A c \in Cell \ new : table'[c] = table[c]
      /\ poolCursor' = [poolCursor EXCEPT ![h] = u + k]
  BY ClaimKeeps
<1>2. k <= PoolCapacity - u
  BY DEF StepClaims, Claimable
<1>3. new \in SUBSET Cell /\ new \cap Mapped(table) = {}
  BY DEF Missing, Mapped
<1>4. IsFiniteSet(new) /\ k \in Nat
  BY <1>3, CellsFinite, FS_Subset, FS_CardinalityType
<1>. HIDE DEF new
<1>5. /\ PoolCapacity \in Nat /\ u \in 0 .. PoolCapacity
      /\ poolCursor \in [Head -> 0 .. PoolCapacity]
  BY ArenaAssumption DEF IInv, Ledger
<1>6. Cardinality(Mapped(table')) = Cardinality(Mapped(table)) + k
  <2>1. Absent \notin Slot
    BY DEF Absent, Slot
  <2>2. Mapped(table') = Mapped(table) \cup new
    BY <1>1, <1>3, <2>1 DEF Mapped
  <2>. QED
    BY <1>3, <1>4, <2>2, FilledIsNamed, DisjointUnion
<1>. HIDE DEF k
<1>7. IsFiniteSet(used) /\ Cardinality(used) = k
  <2>1. IsFiniteSet({h}) /\ Cardinality({h}) = 1
    BY FS_Singleton
  <2>2. IsFiniteSet(u .. u + k - 1) /\ Cardinality(u .. u + k - 1) = k
    <3>1. u \in Int /\ u + k - 1 \in Int
      BY <1>4, <1>5
    <3>2. CASE k = 0
      <4>1. u .. u + k - 1 = {}
        BY <1>5, <3>2
      <4>. QED
        BY <3>2, <4>1, FS_EmptySet
    <3>3. CASE k > 0
      <4>1. IsFiniteSet(u .. u + k - 1)
            /\ Cardinality(u .. u + k - 1) = IF u > u + k - 1 THEN 0 ELSE (u + k - 1) - u + 1
        BY <3>1, FS_Interval
      <4>. QED
        BY <1>4, <1>5, <3>3, <4>1
    <3>. QED
      BY <1>4, <3>2, <3>3
  <2>3. PICK one, run : one = {h} /\ run = u .. u + k - 1
    OBVIOUS
  <2>4. IsFiniteSet(one \X run) /\ Cardinality(one \X run) = Cardinality(one) * Cardinality(run)
    BY <2>1, <2>2, <2>3, FS_Product
  <2>. QED
    BY <1>4, <2>1, <2>2, <2>3, <2>4
<1>8. Left(poolCursor) = Left(poolCursor') \cup used /\ Left(poolCursor') \cap used = {}
  <2>1. \A p \in Position : /\ p[1] \in Head /\ p[2] \in Int /\ p = <<p[1], p[2]>>
                             /\ p[2] \in 0 .. PoolCapacity - 1
    BY <1>5 DEF Position
  <2>2. \A p \in Position : p[1] # h => poolCursor'[p[1]] = poolCursor[p[1]]
    BY <1>1, <1>5, <2>1
  <2>3. poolCursor'[h] = u + k
    BY <1>1, <1>5
  <2>4. \A i \in u .. u + k - 1 : <<h, i>> \in Position
    BY <1>2, <1>4, <1>5 DEF Position
  <2>5. \A p \in used : p \in Position /\ p[1] = h /\ p[2] \in u .. u + k - 1
    BY <2>4
  <2>6. \A p \in Position : p[1] = h /\ p[2] \in u .. u + k - 1 => p \in used
    BY <2>1
  <2>. HIDE DEF used
  <2>7. \A p \in Position : p \in used => p \in Left(poolCursor) /\ p \notin Left(poolCursor')
    BY <1>4, <1>5, <2>1, <2>3, <2>5 DEF Left
  <2>8. \A p \in Position : p \notin used => (p \in Left(poolCursor) <=> p \in Left(poolCursor'))
    <3>. SUFFICES ASSUME NEW p \in Position, p \notin used
                  PROVE  p \in Left(poolCursor) <=> p \in Left(poolCursor')
      OBVIOUS
    <3>1. CASE p[1] = h
      BY <1>4, <1>5, <2>1, <2>3, <2>6, <3>1 DEF Left
    <3>2. CASE p[1] # h
      BY <2>2, <3>2 DEF Left
    <3>. QED
      BY <3>1, <3>2
  <2>9. Left(poolCursor) \in SUBSET Position /\ Left(poolCursor') \in SUBSET Position
    BY DEF Left
  <2>. QED
    BY <2>5, <2>7, <2>8, <2>9
<1>. HIDE DEF used
<1>9. Cardinality(Left(poolCursor)) = Cardinality(Left(poolCursor')) + k
  BY <1>7, <1>8, FilledIsNamed, DisjointUnion
<1>10. /\ Cardinality(Mapped(table)) \in Nat /\ Cardinality(Left(poolCursor')) \in Nat
  BY FilledIsNamed
<1>. QED
  BY <1>4, <1>6, <1>9, <1>10 DEF Filled

(* A refill pays for the run it takes: what it names anew is what was      *)
(* spent, or it is lost.                                                   *)
LEMMA RefillPays ==
  ASSUME IInv, lost \in Nat, Paid(next, Filled(table, poolCursor) + lost), RefillPool
  PROVE  Paid(next', Filled(table', poolCursor') + lost') /\ lost' \in Nat
<1>. DEFINE k    == Cardinality(Spent)
            held == Filled(table, poolCursor) + lost
<1>1. Spent \in SUBSET Position /\ Spent \cap Left(poolCursor) = {}
      /\ Position = Left(poolCursor) \cup Spent
  BY DEF Spent, Left
<1>2. IsFiniteSet(Spent) /\ k \in Nat /\ k # 0
  BY <1>1, CellsFinite, FS_Subset, FS_CardinalityType, FS_EmptySet DEF RefillPool
<1>3. next \in Nat
  BY CellsFinite DEF IInv, Ledger
<1>4. Cardinality(Mapped(table)) \in Nat /\ Cardinality(Left(poolCursor)) \in Nat
      /\ Filled(table, poolCursor) \in Nat /\ held \in Nat
  BY FilledIsNamed DEF Filled
<1>5. next' = First(next, k) + k
  BY <1>2 DEF RefillPool, RefillServed, RefillUncommitted, Taken
<1>6. Paid(next', held + k)
  <2>. HIDE DEF k, held
  <2>. QED
    BY <1>2, <1>3, <1>4, <1>5, AlignmentPays DEF held
<1>7. CASE RefillUncommitted
  <2>1. lost' = lost + k /\ UNCHANGED <<table, poolCursor>>
    BY <1>7 DEF RefillUncommitted, pool
  <2>2. Filled(table', poolCursor') = Filled(table, poolCursor)
    BY <2>1 DEF Filled, Mapped, Left
  <2>. HIDE DEF k
  <2>. QED
    BY <1>2, <1>4, <1>6, <2>1, <2>2
<1>8. CASE RefillServed
  <2>1. poolCursor' = NothingSpent /\ table' = table /\ lost' = lost
    BY <1>8 DEF RefillServed
  <2>2. Left(NothingSpent) = Position
    BY ArenaAssumption DEF Left, NothingSpent, Position
  <2>3. Cardinality(Left(poolCursor')) = Cardinality(Left(poolCursor)) + k
    BY <1>1, <1>2, <2>1, <2>2, FilledIsNamed, DisjointUnion
  <2>. HIDE DEF k
  <2>4. Filled(table', poolCursor') = Filled(table, poolCursor) + k
    BY <1>2, <1>4, <2>1, <2>3 DEF Filled
  <2>. QED
    BY <1>2, <1>4, <1>6, <2>1, <2>4
<1>. QED
  BY <1>7, <1>8 DEF RefillPool

(* The pool a reset reserves starts at slot zero and opens no gap.         *)
LEMMA ReservedPays == Paid(PoolTotal, Filled(NoResidency, NothingSpent))
<1>. DEFINE E == ExtentAtoms
<1>1. E \in Nat \ {0} /\ PoolTotal \in Nat
  BY ArenaAssumption, CellsFinite
<1>2. Left(NothingSpent) = Position
  BY ArenaAssumption DEF Left, NothingSpent, Position
<1>3. Mapped(NoResidency) = {}
  BY DEF Mapped, NoResidency
<1>4. Filled(NoResidency, NothingSpent) = PoolTotal
  BY <1>1, <1>2, <1>3, FS_EmptySet DEF Filled, PoolTotal
<1>5. Remainder(PoolTotal) \in 0 .. E - 1
  BY <1>1, RemainderAligns
<1>6. CASE PoolTotal = 0
  <2>1. Remainder(0) = 0
    BY <1>1 DEF Remainder
  <2>. QED
    BY <1>1, <1>4, <1>6, <2>1 DEF Paid
<1>7. CASE PoolTotal > 0
  <2>1. (E - 1) * PoolTotal >= E - 1
    BY <1>1, <1>7
  <2>2. (E + 1) * PoolTotal + (E - 1) * PoolTotal = 2 * E * PoolTotal
    BY <1>1
  <2>. QED
    BY <1>1, <1>4, <1>5, <2>1, <2>2 DEF Paid
<1>. QED
  BY <1>1, <1>6, <1>7

(* What has been paid for: everything named, and what was lost.            *)
Pays == lost \in Nat /\ Paid(next, Filled(table, poolCursor) + lost)

LEMMA NextPays ==
  ASSUME IInv, Pays, [Next]_vars
  PROVE  Pays'
<1>. SUFFICES Paid(next', Filled(table', poolCursor') + lost') /\ lost' \in Nat
  BY DEF Pays, Filled, Mapped, Left
<1>. USE DEF Pays
<1>1. ASSUME NEW W \in SUBSET Cell, PlanContinue(W)
      PROVE  Paid(next', Filled(table', poolCursor') + lost') /\ lost' \in Nat
  <2>1. Ledger(table, next, mapped, poolSlots, poolCursor)
    BY DEF IInv
  <2>2. \/ PlanServed(W, table, next, {}) /\ lost' = lost
        \/ PlanRefused(W, table, next, {}) /\ lost' = lost
        \/ PlanUncommitted(W, table, next, {}) /\ lost' = lost + Cardinality(Missing(W, table))
    BY <1>1 DEF PlanContinue
  <2>3. Paid(next', Filled(table', poolCursor) + lost') /\ lost' \in Nat
    BY <2>1, <2>2, PlanPays
  <2>4. poolCursor' = poolCursor
    BY <1>1 DEF PlanContinue, pool
  <2>. QED
    BY <2>3, <2>4 DEF Filled, Left
<1>2. ASSUME NEW W \in SUBSET Cell, PlanFresh(W)
      PROVE  Paid(next', Filled(table', poolCursor') + lost') /\ lost' \in Nat
  <2>. DEFINE z == 0 .. PoolTotal - 1
              k == Cardinality(Missing(W, NoResidency))
  <2>1. \/ PlanServed(W, NoResidency, PoolTotal, z) /\ lost' = 0
        \/ PlanRefused(W, NoResidency, PoolTotal, z) /\ lost' = 0
        \/ PlanUncommitted(W, NoResidency, PoolTotal, z) /\ lost' = k
    BY <1>2 DEF PlanFresh
  <2>2. k \in Nat /\ k = 0 + k
    BY CellRanks DEF Missing
  <2>3. Ledger(NoResidency, PoolTotal, mapped, ReservedSlots, NothingSpent)
    BY ReservedLedger DEF IInv, Ledger
  <2>4. Paid(PoolTotal, Filled(NoResidency, NothingSpent) + 0)
    <3>1. Filled(NoResidency, NothingSpent) \in Nat
      BY FilledIsNamed DEF Filled
    <3>. QED
      BY <3>1, ReservedPays
  <2>. HIDE DEF z
  <2>5. \/ PlanServed(W, NoResidency, PoolTotal, z) /\ lost' = 0
        \/ PlanRefused(W, NoResidency, PoolTotal, z) /\ lost' = 0
        \/ PlanUncommitted(W, NoResidency, PoolTotal, z)
             /\ lost' = 0 + Cardinality(Missing(W, NoResidency))
    BY <2>1, <2>2
  <2>6. Paid(next', Filled(table', NothingSpent) + lost') /\ lost' \in Nat
    BY <2>3, <2>4, <2>5, PlanPays
  <2>7. poolCursor' = NothingSpent
    BY <1>2 DEF PlanFresh
  <2>. QED
    BY <2>6, <2>7 DEF Filled, Left
<1>3. CASE ChunkLaunch
  BY <1>3 DEF ChunkLaunch, pool, Filled, Mapped, Left
<1>4. ASSUME NEW h \in Head, NEW W \in SUBSET Cell, DeviceStep(h, W)
      PROVE  Paid(next', Filled(table', poolCursor') + lost') /\ lost' \in Nat
  <2>1. CASE StepResident(h, W)
    BY <1>4, <2>1 DEF DeviceStep, StepResident, Filled, Mapped, Left
  <2>2. CASE StepClaims(h, W)
    BY <1>4, <2>2, ClaimBalances DEF DeviceStep
  <2>. QED
    BY <1>4, <2>1, <2>2 DEF DeviceStep
<1>5. CASE RefillPool
  BY <1>5, RefillPays
<1>6. CASE UNCHANGED vars
  BY <1>6 DEF vars, Filled, Mapped, Left
<1>. QED
  BY <1>1, <1>2, <1>3, <1>4, <1>5, <1>6 DEF Next

(* Every slot below the cursor is paid for, in every reachable state.      *)
LEMMA PaysHolds == ResetAfterClaims = FALSE => (Spec => []Pays)
<1>. SUFFICES ASSUME ResetAfterClaims = FALSE
              PROVE  Spec => []Pays
  OBVIOUS
<1>1. Spec => []IInv
  BY LedgerHolds
<1>2. Init => Pays
  <2>1. Filled(NoResidency, NothingSpent) \in Nat
    BY FilledIsNamed DEF Filled
  <2>. QED
    BY <2>1, ReservedPays DEF Init, Pays
<1>3. IInv /\ Pays /\ [Next]_vars => Pays'
  BY NextPays
<1>. QED
  BY <1>1, <1>2, <1>3, PTL DEF Spec

(* For every extent size, every pool and either backing: a plan or a       *)
(* refill is served whenever its demand, what is named already and what    *)
(* refused growths lost come to no more than (E + 1) / 2E of the dense     *)
(* limit, however admissions, claims, refills, failures and resets         *)
(* interleaved before it.                                                  *)
THEOREM SparseNeverRefused == ResetAfterClaims = FALSE => (Spec => []SparseIsServed)
<1>. SUFFICES ASSUME ResetAfterClaims = FALSE
              PROVE  Spec => []SparseIsServed
  OBVIOUS
<1>1. Spec => []IInv
  BY LedgerHolds
<1>2. Spec => []Pays
  BY PaysHolds
<1>3. IInv /\ Pays => SparseIsServed
  <2>. SUFFICES ASSUME IInv, Pays, NEW count \in 0 .. Capacity,
                       2 * ExtentAtoms * (Named + lost + count) <= (ExtentAtoms + 1) * Capacity
                PROVE  Serves(next, count)
    BY DEF SparseIsServed
  <2>1. next \in Nat /\ count \in Nat
    BY CellsFinite DEF IInv, Ledger
  <2>2. Named = Filled(table, poolCursor) /\ Named + lost \in Nat
    BY FilledIsNamed DEF Filled, Pays
  <2>. QED
    BY <2>1, <2>2, PaidIsServed DEF Pays
<1>. QED
  BY <1>1, <1>2, <1>3, PTL

(* Every variable keeps its type, for every size of the arena.             *)
THEOREM TypesHold == ResetAfterClaims = FALSE => (Spec => []TypeOK)
<1>. SUFFICES ASSUME ResetAfterClaims = FALSE
              PROVE  Spec => []TypeOK
  OBVIOUS
<1>. DEFINE Bytes == plane \in [Slot -> Nat \cup {Unwritten}] /\ planned \in SUBSET Cell
<1>1. Init => Bytes
  BY DEF Init
<1>2. \A z : Bytes => Zeroed(z) \in [Slot -> Nat \cup {Unwritten}]
  BY DEF Zeroed
<1>3. ASSUME Bytes, [Next]_vars
      PROVE  Bytes'
  <2>1. ASSUME NEW W \in SUBSET Cell, PlanContinue(W)
        PROVE  Bytes'
    BY <1>2, <1>3, <2>1 DEF PlanContinue, PlanServed, PlanRefused, PlanUncommitted
  <2>2. ASSUME NEW W \in SUBSET Cell, PlanFresh(W)
        PROVE  Bytes'
    BY <1>2, <1>3, <2>2 DEF PlanFresh, PlanServed, PlanRefused, PlanUncommitted
  <2>3. CASE ChunkLaunch
    BY <1>3, <2>3, DepositedTyped DEF ChunkLaunch
  <2>4. ASSUME NEW h \in Head, NEW W \in SUBSET Cell, DeviceStep(h, W)
        PROVE  Bytes'
    BY <1>3, <2>4, DepositedTyped DEF DeviceStep, StepResident, StepClaims
  <2>5. CASE RefillPool
    BY <1>2, <1>3, <2>5 DEF RefillPool, RefillServed, RefillUncommitted
  <2>6. CASE UNCHANGED vars
    BY <1>3, <2>6 DEF vars
  <2>. QED
    BY <1>3, <2>1, <2>2, <2>3, <2>4, <2>5, <2>6 DEF Next
<1>4. IInv /\ Bytes /\ Pays => TypeOK
  BY DEF IInv, Ledger, Pays, TypeOK
<1>. HIDE DEF Bytes
<1>5. Spec => []IInv
  BY LedgerHolds
<1>6. Spec => []Pays
  BY PaysHolds
<1>. QED
  BY <1>1, <1>3, <1>4, <1>5, <1>6, PTL DEF Spec

(***************************************************************************)
(* The arena as a dense state.  A table t over bytes b says the deposits m *)
(* of every atom; a pool's unspent slots are blank.  Kept is what the      *)
(* ledger does not say: a resident atom's bytes are zeroed or deposited    *)
(* to, an unspent slot's are zero, and a plan's write set stays resident   *)
(* until its launch.                                                       *)
(***************************************************************************)
Says(t, b, m)      == \A c \in Cell : m[c] = IF t[c] = Absent THEN 0 ELSE b[t[c]]
Blank(ps, pc, b)   == \A p \in Left(pc) : b[ps[p]] = 0

Kept ==
  /\ plane \in [Slot -> Nat \cup {Unwritten}]
  /\ planned \in SUBSET Cell /\ \A c \in planned : table[c] # Absent
  /\ Materialized \in [Cell -> Nat]
  /\ Blank(poolSlots, poolCursor, plane)

NoDeposits == [c \in Cell |-> 0]
OneMore(W) == [c \in Cell |-> IF c \in W THEN Materialized[c] + 1 ELSE Materialized[c]]

LEMMA Reads ==
  /\ Says(table, plane, Materialized)
  /\ \A m \in [Cell -> Nat] : Says(table', plane', m) => Materialized' = m
<1>1. Says(table, plane, Materialized)
  BY DEF Says, Materialized
<1>2. ASSUME NEW m \in [Cell -> Nat], Says(table', plane', m)
      PROVE  Materialized' = m
  <2>1. \A c \in Cell : m[c] = IF table'[c] = Absent THEN 0 ELSE plane'[table'[c]]
    BY <1>2 DEF Says
  <2>2. m = [c \in Cell |-> m[c]]
    OBVIOUS
  <2>3. Materialized' = [c \in Cell |-> IF table'[c] = Absent THEN 0 ELSE plane'[table'[c]]]
    BY DEF Materialized
  <2>. QED
    BY <2>1, <2>2, <2>3
<1>. QED
  BY <1>1, <1>2

(* A plan hands out blank bytes: whatever was said of the table it found   *)
(* is said of the one it leaves.                                           *)
LEMMA PlanSays ==
  ASSUME NEW W \in SUBSET Cell, NEW STATE t, NEW STATE n, NEW STATE ps, NEW STATE pc,
         NEW STATE z, NEW m,
         Ledger(t, n, mapped, ps, pc),
         Says(t, Zeroed(z), m), Blank(ps, pc, Zeroed(z)),
         \/ PlanServed(W, t, n, z)
         \/ PlanRefused(W, t, n, z)
         \/ PlanUncommitted(W, t, n, z)
  PROVE  /\ Says(table', plane', m) /\ Blank(ps, pc, plane')
         /\ planned' \in SUBSET Cell /\ \A c \in planned' : table'[c] # Absent
<1>1. CASE PlanServed(W, t, n, z)
  <2>. DEFINE new == Missing(W, t)
              k   == Cardinality(new)
              f   == First(n, k)
              run == Run(f, k)
  <2>1. new \in SUBSET Cell /\ (\A c \in new : t[c] = Absent) /\ \A c \in W \ new : t[c] # Absent
    BY DEF Missing
  <2>2. k \in Nat /\ \A c \in new : Rank(new, c) \in 0 .. k - 1
    BY <2>1, CellRanks
  <2>3. /\ Serves(n, k) /\ planned' = W
        /\ table' = [c \in Cell |-> IF c \in new THEN f + Rank(new, c) ELSE t[c]]
        /\ plane' = Zeroed(z \cup run)
    BY <1>1 DEF PlanServed
  <2>. HIDE DEF new
  <2>4. n \in 0 .. Capacity /\ Capacity \in Nat
    BY CellsFinite DEF Ledger
  <2>5. f \in Nat /\ n <= f /\ (k > 0 => f + k <= Capacity)
    BY <2>2, <2>3, <2>4, TakeRun
  <2>. HIDE DEF k, f
  <2>6. ASSUME NEW c \in new
        PROVE  table'[c] \in run /\ table'[c] \in Slot /\ table'[c] # Absent
    <3>1. table'[c] = f + Rank(new, c) /\ Rank(new, c) \in 0 .. k - 1
      BY <2>1, <2>2, <2>3
    <3>. QED
      BY <2>2, <2>4, <2>5, <3>1 DEF Run, Slot, Absent
  <2>7. \A s \in run : s \in Int /\ n <= s
    BY <2>2, <2>4, <2>5 DEF Run
  <2>. HIDE DEF run
  <2>8. /\ \A s \in Slot : s \in run => plane'[s] = 0
        /\ \A s \in Slot : s \notin run => plane'[s] = Zeroed(z)[s]
    BY <2>3 DEF Zeroed
  <2>9. ASSUME NEW c \in Cell
        PROVE  m[c] = IF table'[c] = Absent THEN 0 ELSE plane'[table'[c]]
    <3>1. CASE c \in new
      BY <2>1, <2>6, <2>8, <3>1 DEF Says
    <3>2. CASE c \notin new
      <4>1. table'[c] = t[c]
        BY <2>3, <3>2
      <4>2. t[c] # Absent => t[c] \in Slot /\ t[c] < n
        BY DEF Ledger
      <4>3. t[c] # Absent => t[c] \notin run
        BY <2>4, <2>7, <4>2
      <4>. QED
        BY <2>8, <4>1, <4>2, <4>3 DEF Says
    <3>. QED
      BY <3>1, <3>2
  <2>10. ASSUME NEW p \in Left(pc)
         PROVE  plane'[ps[p]] = 0
    <3>1. ps[p] \in Slot /\ ps[p] < n
      BY DEF Ledger, Left
    <3>2. ps[p] \notin run
      BY <2>4, <2>7, <3>1
    <3>. QED
      BY <2>8, <3>1, <3>2 DEF Blank
  <2>11. \A c \in W : table'[c] # Absent
    BY <2>1, <2>3, <2>6
  <2>. QED
    BY <2>3, <2>9, <2>10, <2>11 DEF Says, Blank
<1>2. CASE PlanRefused(W, t, n, z) \/ PlanUncommitted(W, t, n, z)
  <2>1. table' = t /\ plane' = Zeroed(z) /\ planned' = {}
    BY <1>2 DEF PlanRefused, PlanUncommitted
  <2>. QED
    BY <2>1 DEF Says, Blank
<1>. QED
  BY <1>1, <1>2

(* One deposit in each atom of W, through slots that nobody shares.        *)
LEMMA DepositSays ==
  ASSUME NEW W \in SUBSET Cell, NEW STATE slotOf, NEW tab, NEW left, NEW m \in [Cell -> Nat],
         plane \in [Slot -> Nat \cup {Unwritten}], plane' = Deposited(W, slotOf),
         tab \in [Cell -> Slot \cup {Absent}], left \in SUBSET Slot,
         \A c, d \in Cell : tab[c] # Absent /\ tab[c] = tab[d] => c = d,
         \A c \in Cell : tab[c] \notin left,
         \A c \in W : tab[c] # Absent /\ slotOf[c] = tab[c],
         Says(tab, plane, m), \A s \in left : plane[s] = 0
  PROVE  /\ Says(tab, plane', [c \in Cell |-> IF c \in W THEN m[c] + 1 ELSE m[c]])
         /\ \A s \in left : plane'[s] = 0
<1>. DEFINE here(s) == {c \in W : slotOf[c] = s}
<1>1. \A s \in Slot : plane'[s] = IF plane[s] = Unwritten THEN Unwritten
                                   ELSE plane[s] + Cardinality(here(s))
  BY DEF Deposited
<1>2. \A s : here(s) = {c \in W : tab[c] = s}
  OBVIOUS
<1>3. ASSUME NEW c \in Cell, tab[c] # Absent
      PROVE  plane'[tab[c]] = IF c \in W THEN m[c] + 1 ELSE m[c]
  <2>1. here(tab[c]) = IF c \in W THEN {c} ELSE {}
    BY <1>2, <1>3
  <2>2. tab[c] \in Slot /\ plane[tab[c]] = m[c] /\ m[c] \in Nat /\ m[c] # Unwritten
    BY <1>3 DEF Says, Unwritten
  <2>3. plane'[tab[c]] = m[c] + Cardinality(here(tab[c]))
    BY <1>1, <2>2
  <2>. HIDE DEF here
  <2>4. Cardinality(here(tab[c])) = IF c \in W THEN 1 ELSE 0
    BY <2>1, FS_Singleton, FS_EmptySet
  <2>. QED
    BY <2>2, <2>3, <2>4
<1>4. \A c \in Cell : tab[c] = Absent => c \notin W /\ m[c] = 0
  BY DEF Says
<1>5. ASSUME NEW s \in left
      PROVE  plane'[s] = 0
  <2>1. here(s) = {}
    BY <1>2, <1>5
  <2>2. plane'[s] = IF plane[s] = Unwritten THEN Unwritten ELSE plane[s] + Cardinality(here(s))
    BY <1>1
  <2>. HIDE DEF here
  <2>3. Cardinality(here(s)) = 0
    BY <2>1, FS_EmptySet
  <2>. QED
    BY <2>2, <2>3 DEF Unwritten
<1>. QED
  BY <1>3, <1>4, <1>5 DEF Says

(* What a step leaves is Kept once it says deposits of the table it leaves *)
(* and the pool it leaves is blank.                                        *)
LEMMA KeptAfter ==
  ASSUME NEW m \in [Cell -> Nat],
         plane' \in [Slot -> Nat \cup {Unwritten}],
         planned' \in SUBSET Cell, \A c \in planned' : table'[c] # Absent,
         Says(table', plane', m), Blank(poolSlots', poolCursor', plane')
  PROVE  Kept' /\ Materialized' = m
<1>1. Materialized' = m
  BY Reads
<1>2. Blank(poolSlots, poolCursor, plane)'
  BY DEF Blank, Left
<1>. QED
  BY <1>1, <1>2 DEF Kept

LEMMA ZeroedTyped ==
  ASSUME Kept, NEW z
  PROVE  Zeroed(z) \in [Slot -> Nat \cup {Unwritten}]
  BY DEF Kept, Zeroed

(* plan_exact(fresh=False) is invisible.                                   *)
LEMMA ContinueIsInvisible ==
  ASSUME IInv, Kept, NEW W \in SUBSET Cell, PlanContinue(W)
  PROVE  Kept' /\ Materialized' = Materialized
<1>1. PICK m \in [Cell -> Nat] : m = Materialized
  BY DEF Kept
<1>2. Zeroed({}) = plane
  BY DEF Kept, Zeroed
<1>3. Says(table, Zeroed({}), m) /\ Blank(poolSlots, poolCursor, Zeroed({}))
  BY <1>1, <1>2, Reads DEF Kept
<1>4. Ledger(table, next, mapped, poolSlots, poolCursor)
  BY DEF IInv
<1>5. \/ PlanServed(W, table, next, {})
      \/ PlanRefused(W, table, next, {})
      \/ PlanUncommitted(W, table, next, {})
  BY DEF PlanContinue
<1>6. /\ Says(table', plane', m) /\ Blank(poolSlots, poolCursor, plane')
      /\ planned' \in SUBSET Cell /\ \A c \in planned' : table'[c] # Absent
  BY <1>3, <1>4, <1>5, PlanSays
<1>7. poolSlots' = poolSlots /\ poolCursor' = poolCursor
  BY DEF PlanContinue, pool
<1>8. plane' \in [Slot -> Nat \cup {Unwritten}]
  BY <1>5, ZeroedTyped DEF PlanServed, PlanRefused, PlanUncommitted
<1>. QED
  BY <1>1, <1>6, <1>7, <1>8, KeptAfter

(* plan_exact(fresh=True) reads as an empty sequence.                      *)
LEMMA FreshIsClear ==
  ASSUME IInv, Kept, NEW W \in SUBSET Cell, PlanFresh(W)
  PROVE  Kept' /\ Materialized' = NoDeposits
<1>. DEFINE z == 0 .. PoolTotal - 1
<1>1. NoDeposits \in [Cell -> Nat]
  BY DEF NoDeposits
<1>2. mapped \in 0 .. Capacity /\ PoolTotal <= mapped
  BY DEF IInv, Ledger
<1>3. Ledger(NoResidency, PoolTotal, mapped, ReservedSlots, NothingSpent)
  BY <1>2, ReservedLedger
<1>4. Says(NoResidency, Zeroed(z), NoDeposits)
  BY DEF Says, NoResidency, NoDeposits
<1>5. Blank(ReservedSlots, NothingSpent, Zeroed(z))
  <2>. SUFFICES ASSUME NEW p \in Left(NothingSpent)
                PROVE  Zeroed(z)[ReservedSlots[p]] = 0
    BY DEF Blank
  <2>1. p \in Position
    BY DEF Left
  <2>2. ReservedSlots[p] \in 0 .. PoolTotal - 1
    BY <2>1, PositionRanks DEF ReservedSlots, PoolTotal
  <2>3. ReservedSlots[p] \in Slot
    BY <2>1, <1>3 DEF Ledger
  <2>. QED
    BY <2>2, <2>3 DEF Zeroed
<1>6. \/ PlanServed(W, NoResidency, PoolTotal, z)
      \/ PlanRefused(W, NoResidency, PoolTotal, z)
      \/ PlanUncommitted(W, NoResidency, PoolTotal, z)
  BY DEF PlanFresh
<1>. HIDE DEF z
<1>7. /\ Says(table', plane', NoDeposits) /\ Blank(ReservedSlots, NothingSpent, plane')
      /\ planned' \in SUBSET Cell /\ \A c \in planned' : table'[c] # Absent
  BY <1>3, <1>4, <1>5, <1>6, PlanSays
<1>8. poolSlots' = ReservedSlots /\ poolCursor' = NothingSpent
  BY DEF PlanFresh
<1>9. plane' \in [Slot -> Nat \cup {Unwritten}]
  BY <1>6, ZeroedTyped DEF PlanServed, PlanRefused, PlanUncommitted
<1>. QED
  BY <1>1, <1>7, <1>8, <1>9, KeptAfter

(* A launch whose write set is resident deposits once into each of its     *)
(* atoms and into nothing else.                                            *)
LEMMA ResidentDeposits ==
  ASSUME IInv, Kept, NEW W \in SUBSET Cell, \A c \in W : table[c] # Absent,
         plane' = Deposited(W, table), planned' \in {{}, planned},
         UNCHANGED <<table, poolSlots, poolCursor>>
  PROVE  Kept' /\ Materialized' = OneMore(W)
<1>1. PICK m \in [Cell -> Nat] : m = Materialized
  BY DEF Kept
<1>2. PICK tab : tab = table
  OBVIOUS
<1>3. PICK left : left = {poolSlots[p] : p \in Left(poolCursor)}
  OBVIOUS
<1>4. /\ tab \in [Cell -> Slot \cup {Absent}] /\ left \in SUBSET Slot
      /\ \A c, d \in Cell : tab[c] # Absent /\ tab[c] = tab[d] => c = d
      /\ \A c \in Cell : tab[c] \notin left
  BY <1>2, <1>3 DEF IInv, Ledger, Left
<1>5. Says(tab, plane, m) /\ \A s \in left : plane[s] = 0
  BY <1>1, <1>2, <1>3, Reads DEF Kept, Blank
<1>6. plane \in [Slot -> Nat \cup {Unwritten}]
  BY DEF Kept
<1>7. PICK more \in [Cell -> Nat] : more = [c \in Cell |-> IF c \in W THEN m[c] + 1 ELSE m[c]]
  <2>1. [c \in Cell |-> IF c \in W THEN m[c] + 1 ELSE m[c]] \in [Cell -> Nat]
    OBVIOUS
  <2>. QED
    BY <2>1, Zenon
<1>8. \A c \in W : tab[c] # Absent /\ table[c] = tab[c]
  BY <1>2
<1>9. Says(tab, plane', more) /\ \A s \in left : plane'[s] = 0
  BY <1>4, <1>5, <1>6, <1>7, <1>8, DepositSays
<1>10. Says(table', plane', more) /\ Blank(poolSlots', poolCursor', plane')
  <2>1. \A p \in Left(poolCursor) : poolSlots[p] \in left
    BY <1>3
  <2>. QED
    BY <1>2, <1>9, <2>1 DEF Blank
<1>11. plane' \in [Slot -> Nat \cup {Unwritten}]
  BY <1>6, DepositedTyped
<1>12. planned' \in SUBSET Cell /\ \A c \in planned' : table'[c] # Absent
  BY DEF Kept
<1>13. Kept' /\ Materialized' = more
  BY <1>10, <1>11, <1>12, KeptAfter
<1>. QED
  BY <1>1, <1>7, <1>13 DEF OneMore

(* So does a device step that claims: the atoms it maps land on pool slots *)
(* that are blank and that nobody else names.                              *)
LEMMA ClaimDeposits ==
  ASSUME IInv, Kept, NEW h \in Head, NEW W \in SUBSET Cell,
         W \subseteq {h} \X (0 .. AtomsPerBH - 1), StepClaims(h, W),
         UNCHANGED <<next, mapped, poolSlots, planned>>
  PROVE  Kept' /\ Materialized' = OneMore(W)
<1>. DEFINE new    == Missing(W, table)
            row    == ClaimRow(h, new)
            slotOf == [c \in Cell |-> IF table[c] = Absent THEN row[c] ELSE table[c]]
<1>1. /\ IInv'
      /\ \A c \in Cell : table[c] # Absent => table'[c] = table[c]
      /\ \A c \in new : /\ table'[c] = row[c] /\ table'[c] \in Slot
                        /\ \E p \in Left(poolCursor) : table'[c] = poolSlots[p]
      /\ \A c \in Cell \ new : table'[c] = table[c]
      /\ Left(poolCursor') \subseteq Left(poolCursor)
  BY ClaimKeeps
<1>2. plane' = Deposited(W, slotOf)
  BY DEF StepClaims
<1>3. /\ new \in SUBSET Cell /\ \A c \in new : table[c] = Absent
      /\ \A c \in W \ new : table[c] # Absent
  BY DEF Missing
<1>. HIDE DEF new, row
<1>4. PICK m \in [Cell -> Nat] : m = Materialized
  BY DEF Kept
<1>5. PICK tab : tab = table'
  OBVIOUS
<1>6. PICK left : left = {poolSlots[p] : p \in Left(poolCursor')}
  OBVIOUS
<1>7. poolSlots' = poolSlots /\ poolSlots \in [Position -> Slot]
  BY DEF IInv, Ledger
<1>8. /\ tab \in [Cell -> Slot \cup {Absent}]
      /\ \A c, d \in Cell : tab[c] # Absent /\ tab[c] = tab[d] => c = d
      /\ \A c \in Cell, p \in Left(poolCursor') : tab[c] # poolSlots[p]
  <2>1. Ledger(table', next', mapped', poolSlots', poolCursor')
    BY <1>1 DEF IInv, Ledger, Left
  <2>. QED
    BY <1>5, <1>7, <2>1 DEF Ledger
<1>9. left \in SUBSET Slot /\ \A c \in Cell : tab[c] \notin left
  <2>1. Left(poolCursor') \in SUBSET Position
    BY DEF Left
  <2>. QED
    BY <1>6, <1>7, <1>8, <2>1
<1>10. \A s \in left : plane[s] = 0
  BY <1>1, <1>6 DEF Kept, Blank
<1>11. Absent \notin Slot
  BY DEF Absent, Slot
<1>12. \A c \in W : tab[c] # Absent /\ slotOf[c] = tab[c]
  <2>. SUFFICES ASSUME NEW c \in W
                PROVE  tab[c] # Absent /\ slotOf[c] = tab[c]
    OBVIOUS
  <2>1. slotOf[c] = IF table[c] = Absent THEN row[c] ELSE table[c]
    OBVIOUS
  <2>2. CASE c \in new
    BY <1>1, <1>3, <1>5, <1>11, <2>1, <2>2
  <2>3. CASE c \notin new
    BY <1>1, <1>3, <1>5, <2>1, <2>3
  <2>. QED
    BY <2>2, <2>3
<1>13. Says(tab, plane, m)
  <2>. SUFFICES ASSUME NEW c \in Cell
                PROVE  m[c] = IF tab[c] = Absent THEN 0 ELSE plane[tab[c]]
    BY DEF Says
  <2>1. m[c] = IF table[c] = Absent THEN 0 ELSE plane[table[c]]
    BY <1>4 DEF Materialized
  <2>2. CASE c \in new
    <3>1. plane[tab[c]] = 0
      BY <1>1, <1>5, <2>2 DEF Kept, Blank
    <3>. QED
      BY <1>3, <2>1, <2>2, <3>1
  <2>3. CASE c \notin new
    BY <1>1, <1>5, <2>1, <2>3
  <2>. QED
    BY <2>2, <2>3
<1>14. PICK slots : slots = slotOf
  OBVIOUS
<1>. HIDE DEF slotOf
<1>15. plane \in [Slot -> Nat \cup {Unwritten}]
  BY DEF Kept
<1>16. PICK more \in [Cell -> Nat] : more = [c \in Cell |-> IF c \in W THEN m[c] + 1 ELSE m[c]]
  <2>1. [c \in Cell |-> IF c \in W THEN m[c] + 1 ELSE m[c]] \in [Cell -> Nat]
    OBVIOUS
  <2>. QED
    BY <2>1, Zenon
<1>17. Says(tab, plane', more) /\ \A s \in left : plane'[s] = 0
  <2>1. plane' = Deposited(W, slots) /\ \A c \in W : tab[c] # Absent /\ slots[c] = tab[c]
    BY <1>2, <1>12, <1>14
  <2>. QED
    BY <1>8, <1>9, <1>10, <1>13, <1>15, <1>16, <2>1, DepositSays
<1>18. Says(table', plane', more) /\ Blank(poolSlots', poolCursor', plane')
  <2>1. \A p \in Left(poolCursor') : poolSlots'[p] \in left
    BY <1>6, <1>7
  <2>. QED
    BY <1>5, <1>17, <2>1 DEF Blank
<1>19. plane' \in [Slot -> Nat \cup {Unwritten}]
  BY <1>2, <1>15, DepositedTyped
<1>20. planned' \in SUBSET Cell /\ \A c \in planned' : table'[c] # Absent
  BY <1>1 DEF Kept
<1>21. Kept' /\ Materialized' = more
  BY <1>18, <1>19, <1>20, KeptAfter
<1>. QED
  BY <1>4, <1>16, <1>21 DEF OneMore

LEMMA LaunchIsDeposit ==
  ASSUME IInv, Kept, ChunkLaunch
  PROVE  Kept' /\ Materialized' = OneMore(planned)
<1>1. PICK W \in SUBSET Cell : W = planned
  BY DEF Kept
<1>2. /\ \A c \in W : table[c] # Absent
      /\ plane' = Deposited(W, table) /\ planned' \in {{}, planned}
      /\ UNCHANGED <<table, poolSlots, poolCursor>>
  BY <1>1 DEF Kept, ChunkLaunch, pool
<1>3. Kept' /\ Materialized' = OneMore(W)
  BY <1>2, ResidentDeposits
<1>. QED
  BY <1>1, <1>3

LEMMA StepIsDeposit ==
  ASSUME IInv, Kept, NEW h \in Head, NEW W \in SUBSET Cell, DeviceStep(h, W)
  PROVE  Kept' /\ Materialized' = OneMore(W)
<1>1. CASE StepResident(h, W)
  <2>1. \A c \in W : table[c] # Absent
    BY <1>1 DEF StepResident, Missing
  <2>2. plane' = Deposited(W, table) /\ UNCHANGED <<table, poolSlots, poolCursor, planned>>
    BY <1>1 DEF DeviceStep, StepResident
  <2>. QED
    BY <2>1, <2>2, ResidentDeposits
<1>2. CASE StepClaims(h, W)
  BY <1>2, ClaimDeposits DEF DeviceStep
<1>. QED
  BY <1>1, <1>2 DEF DeviceStep

(* refill_pool is invisible: its fresh slots lie past everything named.    *)
LEMMA RefillIsInvisible ==
  ASSUME IInv, Kept, RefillPool
  PROVE  Kept' /\ Materialized' = Materialized
<1>1. PICK m \in [Cell -> Nat] : m = Materialized
  BY DEF Kept
<1>2. CASE RefillServed
  <2>. DEFINE k   == Cardinality(Spent)
              f   == First(next, k)
              run == Run(f, k)
  <2>1. Spent \in SUBSET Position
    BY DEF Spent
  <2>2. k \in Nat /\ \A p \in Spent : Rank(Spent, p) \in 0 .. k - 1
    BY <2>1, PositionRanks
  <2>3. /\ Serves(next, k) /\ plane' = Zeroed(run)
        /\ poolSlots' = [p \in Position |-> IF p \in Spent THEN f + Rank(Spent, p)
                                                           ELSE poolSlots[p]]
        /\ table' = table /\ planned' = planned
    BY <1>2 DEF RefillServed
  <2>4. next \in 0 .. Capacity /\ Capacity \in Nat
    BY CellsFinite DEF IInv, Ledger
  <2>. HIDE DEF k
  <2>5. f \in Nat /\ next <= f /\ (k > 0 => f + k <= Capacity)
    BY <2>2, <2>3, <2>4, TakeRun
  <2>. HIDE DEF f
  <2>6. \A s \in run : s \in Int /\ next <= s
    BY <2>2, <2>4, <2>5 DEF Run
  <2>7. \A p \in Spent : f + Rank(Spent, p) \in run /\ f + Rank(Spent, p) \in Slot
    BY <2>2, <2>4, <2>5 DEF Run, Slot
  <2>. HIDE DEF run
  <2>8. /\ \A s \in Slot : s \in run => plane'[s] = 0
        /\ \A s \in Slot : s \notin run => plane'[s] = plane[s]
    BY <2>3 DEF Zeroed
  <2>9. Says(table', plane', m)
    <3>. SUFFICES ASSUME NEW c \in Cell
                  PROVE  m[c] = IF table[c] = Absent THEN 0 ELSE plane'[table[c]]
      BY <2>3 DEF Says
    <3>1. m[c] = IF table[c] = Absent THEN 0 ELSE plane[table[c]]
      BY <1>1 DEF Materialized
    <3>2. table[c] # Absent => table[c] \in Slot /\ table[c] < next
      BY DEF IInv, Ledger
    <3>3. table[c] # Absent => table[c] \notin run
      BY <2>4, <2>6, <3>2 DEF Slot
    <3>. QED
      BY <2>8, <3>1, <3>2, <3>3
  <2>10. Blank(poolSlots', poolCursor', plane')
    <3>. SUFFICES ASSUME NEW p \in Left(poolCursor')
                  PROVE  plane'[poolSlots'[p]] = 0
      BY DEF Blank
    <3>1. p \in Position
      BY DEF Left
    <3>2. CASE p \in Spent
      BY <2>3, <2>7, <2>8, <3>1, <3>2
    <3>3. CASE p \notin Spent
      <4>1. p \in Left(poolCursor) /\ poolSlots'[p] = poolSlots[p]
        BY <2>3, <3>1, <3>3 DEF Left, Spent
      <4>2. poolSlots[p] \in Slot /\ poolSlots[p] < next /\ plane[poolSlots[p]] = 0
        BY <3>1, <4>1 DEF IInv, Ledger, Kept, Blank
      <4>3. poolSlots[p] \notin run
        BY <2>4, <2>6, <4>2 DEF Slot
      <4>. QED
        BY <2>8, <4>1, <4>2, <4>3
    <3>. QED
      BY <3>2, <3>3
  <2>11. plane' \in [Slot -> Nat \cup {Unwritten}]
    BY <2>3, ZeroedTyped
  <2>12. planned' \in SUBSET Cell /\ \A c \in planned' : table'[c] # Absent
    BY <2>3 DEF Kept
  <2>. QED
    BY <1>1, <2>9, <2>10, <2>11, <2>12, KeptAfter
<1>3. CASE RefillUncommitted
  BY <1>3 DEF RefillUncommitted, pool, Kept, Blank, Left, Materialized
<1>. QED
  BY <1>2, <1>3 DEF RefillPool

LEMMA InitKept ==
  ASSUME Init
  PROVE  Kept /\ Materialized = NoDeposits
<1>1. Materialized = NoDeposits
  BY DEF Init, NoResidency, Materialized, NoDeposits
<1>2. Blank(poolSlots, poolCursor, plane)
  <2>. SUFFICES ASSUME NEW p \in Left(NothingSpent)
                PROVE  plane[ReservedSlots[p]] = 0
    BY DEF Init, Blank
  <2>1. p \in Position
    BY DEF Left
  <2>2. ReservedSlots[p] \in 0 .. PoolTotal - 1
    BY <2>1, PositionRanks DEF ReservedSlots, PoolTotal
  <2>3. ReservedSlots[p] \in Slot
    BY <2>2, CellsFinite DEF Slot
  <2>. QED
    BY <2>2, <2>3, CellsFinite DEF Init
<1>. QED
  BY <1>1, <1>2 DEF Init, Kept, NoDeposits

(* Every step of the arena is a step of the dense plane or invisible.      *)
LEMMA StepIsDense ==
  ASSUME IInv, Kept, [Next]_vars
  PROVE  /\ Kept'
         /\ \/ Materialized' = NoDeposits
            \/ \E W \in SUBSET Cell : Materialized' = OneMore(W)
            \/ Materialized' = Materialized
<1>1. ASSUME NEW W \in SUBSET Cell, PlanContinue(W)
      PROVE  Kept' /\ Materialized' = Materialized
  BY <1>1, ContinueIsInvisible
<1>2. ASSUME NEW W \in SUBSET Cell, PlanFresh(W)
      PROVE  Kept' /\ Materialized' = NoDeposits
  BY <1>2, FreshIsClear
<1>3. CASE ChunkLaunch
  BY <1>3, LaunchIsDeposit DEF Kept
<1>4. ASSUME NEW h \in Head, NEW W \in SUBSET Cell, DeviceStep(h, W)
      PROVE  Kept' /\ Materialized' = OneMore(W)
  BY <1>4, StepIsDeposit
<1>5. CASE RefillPool
  BY <1>5, RefillIsInvisible
<1>6. CASE UNCHANGED vars
  BY <1>6 DEF vars, Kept, Blank, Left, Materialized
<1>. QED
  BY <1>1, <1>2, <1>3, <1>4, <1>5, <1>6 DEF Next

(* A call's deposit reaches every atom of its write set exactly once and   *)
(* no byte of anybody else, whether a plan admitted the atoms, an earlier  *)
(* call did, or the step claimed them itself.                              *)
THEOREM WritesLandWhole == ResetAfterClaims = FALSE => (Spec => WholeWriteSetDeposited)
<1>. SUFFICES ASSUME ResetAfterClaims = FALSE
              PROVE  Spec => WholeWriteSetDeposited
  OBVIOUS
<1>. DEFINE Whole == /\ ChunkLaunch => Dense!Deposit(planned)
                     /\ \A h \in Head, W \in SUBSET Cell :
                          W # {} /\ DeviceStep(h, W) => Dense!Deposit(W)
<1>1. Spec => []IInv
  BY LedgerHolds
<1>2. Init => Kept
  BY InitKept
<1>3. IInv /\ Kept /\ [Next]_vars => Kept'
  BY StepIsDense
<1>4. IInv /\ Kept => Whole
  BY LaunchIsDeposit, StepIsDeposit DEF OneMore, Dense!Deposit
<1>5. IInv /\ Kept => [Whole]_vars
  BY <1>4
<1>. QED
  BY <1>1, <1>2, <1>3, <1>5, PTL DEF Spec, WholeWriteSetDeposited

(* The paged backing implements the dense one: read through the table, the *)
(* arena starts empty, a fresh plan empties it, a call deposits into its   *)
(* write set, and nothing else the arena does shows.                       *)
THEOREM PagedIsDense == ResetAfterClaims = FALSE => (Spec => ImplementsDense)
<1>. SUFFICES ASSUME ResetAfterClaims = FALSE
              PROVE  Spec => ImplementsDense
  OBVIOUS
<1>1. Spec => []IInv
  BY LedgerHolds
<1>2. Init => Kept /\ Dense!Init
  BY InitKept DEF NoDeposits, Dense!Init
<1>3. IInv /\ Kept /\ [Next]_vars => Kept' /\ [Dense!Next]_Materialized
  BY StepIsDense DEF NoDeposits, OneMore, Dense!Next, Dense!Clear, Dense!Deposit
<1>. QED
  BY <1>1, <1>2, <1>3, PTL DEF Spec, ImplementsDense, Dense!Spec

============================================================================
