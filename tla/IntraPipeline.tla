--------------------------- MODULE IntraPipeline ---------------------------
(***************************************************************************)
(* The shared memory of one block of the intra kernel                      *)
(* (csrc/rola/src/intra/intra_kernel.cuh): two operand slabs filled a      *)
(* stage ahead by asynchronous copies, the values of a column tile, and    *)
(* the staging tiles of the deposit, which lie over all of these.          *)
(*                                                                         *)
(* A warp's piece of a buffer holds the tag of what was last stored there: *)
(* which tile pair, and which stage of it.  A copy lands at any time after *)
(* it was issued; a warp waits for its own only, by age, and for the       *)
(* others at the block's barriers.  Between two barriers all warps are at  *)
(* the same pair and stage, so both are kept once.  Which row tiles a      *)
(* stage has work in is read off the masks, the same in every warp, and is *)
(* drawn here.  What goes wrong goes wrong between two warps, a reader and *)
(* a writer, and a barrier of fewer warps holds them back less: a block is *)
(* looked at a few warps at a time.                                        *)
(***************************************************************************)
EXTENDS Integers, FiniteSets

CONSTANTS
  Arms,      \* the built arms: [levels, width, window]
  Samples    \* the sets of warps looked at together

ASSUME IntraAssumption ==
  /\ \A a \in Arms : /\ a.levels \in Nat \ {0} /\ a.width \in Nat \ {0}
                     /\ a.window \in Nat /\ a.window % 64 = 0
  /\ \A s \in Samples : s \subseteq Nat

VARIABLES
  arm,      \* the arm launched
  at,       \* [block, column, step]: the output block's first row tile, the
            \* column tile, and the stage of the pair, counted over its levels
  pcs,      \* [warps looked at -> where the warp is]
  rows,     \* row tiles of the block with work in this stage
  coming,   \* and in the next
  copies,   \* copies in flight: [warp, buf, tag, age]
  slab,     \* [0..1 -> [warp -> tag of its piece]]
  vals      \* [warp -> tag of its piece of the values]

ivars == <<arm, at, pcs, rows, coming, copies, slab, vals>>

---------------------------------------------------------------------------
(* The shape of an arm.                                                    *)
Tile     == 64
WarpRows == 16
SlabDigits == 16

Larger(a, b)  == IF a > b THEN a ELSE b
Smaller(a, b) == IF a < b THEN a ELSE b

Tiles        == arm.window \div Tile
RowTiles     == IF Tiles >= 2 THEN 2 ELSE 1
Rows         == RowTiles * Tile
BlockWarps   == Rows \div WarpRows
LevelDigits  == Larger(SlabDigits, arm.width)
StageDigits  == Smaller(LevelDigits, 64)
Steps        == arm.levels * (LevelDigits \div StageDigits)

Warp    == DOMAIN pcs
Mine(w) == (w \div (Tile \div WarpRows)) % RowTiles

\* Bytes of both slabs, read and write side, and of a warp's staging tile.
SlabBytes == 2 * (Rows + Tile) * (StageDigits + 8) * 2
TileBytes == WarpRows * 40 * 4

\* The staging tiles lie one behind the other from the slabs' first byte on;
\* what does not fit there reaches into the values.
Spills(w) == (w + 1) * TileBytes > SlabBytes

---------------------------------------------------------------------------
Pair    == <<at.block, at.column>>
Stage   == <<at.block, at.column, at.step>>
After(s) == [s EXCEPT ![3] = @ + 1]
Buf(step) == step % 2       \* the slab of a stage
Values    == 2
Spoiled   == <<>>            \* the tag of what belongs to no pair

Below(block, column) == {r \in 0 .. RowTiles - 1 : block + r >= column}

AllAt(where) == \A w \in Warp : pcs[w] = where
Release(to)  == pcs' = [w \in Warp |-> to]
Step(w, from, to) == pcs[w] = from /\ pcs' = [pcs EXCEPT ![w] = to]

\* stage_slabs, stage_values and stage_commit: new copies, everything the
\* warp issued before is a group older.
Issue(w, new) ==
  copies' = {[m EXCEPT !.age = IF m.warp = w THEN Smaller(@ + 1, 2) ELSE @] : m \in copies}
              \cup {[warp |-> w, buf |-> n[1], tag |-> n[2], age |-> 0] : n \in new}

\* A barrier moves on: tags of stages past, which nothing asks for again, are
\* forgotten.
KeepOnly(tag) ==
  slab' = [b \in 0 .. 1 |-> [w \in Warp |-> IF slab[b][w] = tag THEN tag ELSE Spoiled]]

Slabs(buf, tag, some) == IF some = {} THEN {} ELSE {<<buf, tag>>}

---------------------------------------------------------------------------
\* After build_masks: the block's first pair, its first barrier still ahead.
IntraInit ==
  /\ arm \in Arms
  /\ at = [block |-> 0, column |-> -1, step |-> 0]
  /\ \E s \in Samples : s \subseteq 0 .. BlockWarps - 1 /\ pcs = [w \in s |-> "top"]
  /\ rows = {} /\ coming = {} /\ copies = {}
  /\ slab = [b \in 0 .. 1 |-> [w \in Warp |-> Spoiled]]
  /\ vals = [w \in Warp |-> Spoiled]

LastColumn == at.column = at.block + RowTiles - 1

\* The barrier at the head of a column tile, of this block or the next one.
Top ==
  /\ AllAt("top")
  /\ LET block  == IF LastColumn THEN at.block + RowTiles ELSE at.block
         column == IF LastColumn THEN 0 ELSE at.column + 1
     IN /\ block < Tiles
        /\ at' = [block |-> block, column |-> column, step |-> 0]
        /\ rows' \in SUBSET Below(block, column)
        /\ coming' \in IF Steps > 1 THEN SUBSET Below(block, column) ELSE {{}}
  /\ KeepOnly(Spoiled) /\ vals' = [w \in Warp |-> Spoiled]
  /\ Release("fill")
  /\ UNCHANGED <<arm, copies>>

Fill(w) ==
  /\ Step(w, "fill", "stage")
  /\ Issue(w, {<<Values, Pair>>} \cup Slabs(0, Stage, rows))
  /\ UNCHANGED <<arm, at, rows, coming, slab, vals>>

\* The next stage's slabs, if any, under way before this one is waited for.
StageAhead(w) ==
  /\ Step(w, "stage", "wait")
  /\ Issue(w, Slabs(Buf(at.step + 1), After(Stage), coming))
  /\ UNCHANGED <<arm, at, rows, coming, slab, vals>>

\* Mutant: two groups may stay in flight.
Settled_Two(w) == \A m \in copies : m.warp = w => m.age < 2

\* stage_wait<1>: all groups of the warp but its newest have landed.
Settled(w) == \A m \in copies : m.warp = w => m.age < 1

Wait(w) ==
  /\ Settled(w) /\ Step(w, "wait", "landed")
  /\ UNCHANGED <<arm, at, rows, coming, copies, slab, vals>>

Landed ==
  /\ AllAt("landed") /\ Release("mma")
  /\ UNCHANGED <<arm, at, rows, coming, copies, slab, vals>>

\* The slabs of this stage are read from "mma" to "done".
Multiply(w) ==
  /\ Step(w, "mma", "done")
  /\ UNCHANGED <<arm, at, rows, coming, copies, slab, vals>>

\* The barrier that ends a stage.
Done ==
  /\ AllAt("done")
  /\ IF at.step + 1 < Steps
     THEN /\ at' = [at EXCEPT !.step = @ + 1]
          /\ coming' \in IF at.step + 2 < Steps THEN SUBSET Below(at.block, at.column) ELSE {{}}
          /\ Release("stage")
     ELSE at' = at /\ coming' = {} /\ Release("gram")
  /\ rows' = coming /\ KeepOnly(After(Stage))
  /\ UNCHANGED <<arm, copies, vals>>

\* The values are read here, by the warps whose tile is not above the column.
Weigh(w) ==
  /\ Step(w, "gram", IF LastColumn THEN "deposit" ELSE "top")
  /\ UNCHANGED <<arm, at, rows, coming, copies, slab, vals>>

\* The block's rows through the warp's staging tile, over the slabs.
Deposit(w) ==
  /\ Step(w, "deposit", "drain")
  /\ slab' = [b \in 0 .. 1 |-> [v \in Warp |-> Spoiled]]
  /\ vals' = IF Spills(w) THEN [v \in Warp |-> Spoiled] ELSE vals
  /\ UNCHANGED <<arm, at, rows, coming, copies>>

Drain(w) ==
  /\ Step(w, "drain", "top")
  /\ UNCHANGED <<arm, at, rows, coming, copies, slab, vals>>

\* A copy lands whenever it does.
CopyLands(m) ==
  /\ copies' = copies \ {m}
  /\ IF m.buf = Values
     THEN vals' = [vals EXCEPT ![m.warp] = m.tag] /\ UNCHANGED slab
     ELSE slab' = [slab EXCEPT ![m.buf][m.warp] = m.tag] /\ UNCHANGED vals
  /\ UNCHANGED <<arm, at, pcs, rows, coming>>

IntraNext ==
  \/ Top \/ Landed \/ Done
  \/ \E w \in Warp : Fill(w) \/ StageAhead(w) \/ Wait(w) \/ Multiply(w)
                       \/ Weigh(w) \/ Deposit(w) \/ Drain(w)
  \/ \E m \in copies : CopyLands(m)

IntraSpec == IntraInit /\ [][IntraNext]_ivars

---------------------------------------------------------------------------
\* Every variable holds what it may hold; no copy is two groups old.
IntraTypeOK ==
  /\ arm \in Arms /\ at.block \in 0 .. Tiles /\ at.column \in -1 .. Tiles /\ at.step \in 0 .. Steps
  /\ pcs \in [Warp -> {"top", "fill", "stage", "wait", "landed", "mma", "done", "gram",
                       "deposit", "drain"}]
  /\ rows \subseteq 0 .. RowTiles - 1 /\ coming \subseteq 0 .. RowTiles - 1
  /\ \A m \in copies : m.warp \in Warp /\ m.buf \in 0 .. Values /\ m.age \in 0 .. 1

\* Every arm's staging tiles lie within its slabs: it has one row tile, or
\* slabs of at least 32 digits.
TilesFit == \A a \in Arms : a.window < 128 \/ a.width >= 32

Into(buf) == {m \in copies : m.buf = buf}

\* What a warp multiplies is its stage's and its column's, whole, in every
\* warp's piece, with no copy on its way over it; and what it deposits
\* through is its own: no copy lands in it and it lies over nothing that is
\* still read (intra_kernel's two barriers a stage, stage_wait<1>, and the
\* claim that the slabs are dead at the deposit).
OperandsAreCurrent ==
  \A w \in Warp :
    /\ pcs[w] = "mma" /\ Mine(w) \in rows =>
         /\ Into(Buf(at.step)) = {}
         /\ \A v \in Warp : slab[Buf(at.step)][v] = Stage
    /\ pcs[w] = "gram" /\ at.block + Mine(w) >= at.column =>
         /\ Into(Values) = {}
         /\ \A v \in Warp : vals[v] = Pair
    /\ pcs[w] = "drain" => copies = {}
=============================================================================
