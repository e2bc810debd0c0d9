------------------------------ MODULE Operator ------------------------------
(***************************************************************************)
(* The operators over the packed planes: the prefill is the carry (every   *)
(* pair whose write fell in an earlier window than its read) followed on   *)
(* the same stream by the intra (every pair inside one window), and each   *)
(* is a surface of its own.                                                *)
(*                                                                         *)
(* Values are symbolic: a leaf of the state holds the SET of the tokens    *)
(* that deposited in it, Past for what an earlier call left, and a token's *)
(* readout is the set of <<who added it, leaf, writer>>.  The blocks of a  *)
(* launch own disjoint leaves and meet only in the readout, where they     *)
(* add, so a launch is one action.  The window counts tokens, the tile     *)
(* ranks.  Decay is not in these kernels, gains and values ride along, and *)
(* the two halves a deposit is stored in are left out.                     *)
(***************************************************************************)
EXTENDS Prefill

CONSTANTS
  Window,         \* WINDOW: one grid for both kernels
  CarryTile,      \* kTile: ranks to a tile of the carry's readout
  IntraTile,      \* kTile: tokens to a row or a column tile of the intra
  Slab,           \* digits to one step of the intra's Gram product
  RegionLeaves,   \* BC: leaves of the box one block owns
  IntraWidth,     \* the depths with an intra arm at this window, and its width
  Calls           \* [op, planes, pool, paged, exact, order, sparse]

ASSUME OperatorAssumption ==
  /\ {Window, CarryTile, IntraTile, Slab, RegionLeaves} \subseteq Nat \ {0}
  /\ Window % TokBits = 0 /\ IntraTile % TokBits = 0 /\ Window % IntraTile = 0
  /\ RegionLeaves % AtomLeaves = 0

VARIABLES
  call,       \* the call under way
  geometry,   \* [side -> [owner -> [box -> its runs of digits and its leaves]]]
  slots,      \* [page -> its slot, -1 if it has none]: the page table
  state,      \* [slot -> [row -> the tokens that deposited there]]
  num         \* [token -> what was added to its readout]

ovars == <<call, geometry, slots, state, num>>
Past  == -1

---------------------------------------------------------------------------
(* The caller: the backing and the planes it hands over.  A dense plane's  *)
(* slot is the page.  A table gives slots to the pages an earlier call     *)
(* wrote (here the even ones) and, if this call stores, to those it is     *)
(* said to write; a slot that is given out is zero.                        *)
Leaf      == 0 .. Stride(1) * B(1) - 1
Page      == {leaf \div AtomLeaves : leaf \in Leaf}
Written   == IF call.exact THEN activity.pages["write"] ELSE Page
Touched   == IF call.exact THEN activity.pages["read"] \cup Written ELSE Page
StateIn   == call.planes \in {"read", "advance", "two"}
StateOut  == call.planes \in {"fresh", "advance", "two"}
EarlierPages == {page \in Page : StateIn /\ page % 2 = 0}

PageTable ==
  [page \in Page |->
     IF ~ call.paged THEN page
     ELSE IF page \in EarlierPages \cup (IF StateOut THEN Written ELSE {})
     THEN Cardinality(Page) - 1 - page ELSE -1]
Planes ==
  [slot \in Page |-> [row \in 0 .. AtomLeaves - 1 |->
     IF \E page \in EarlierPages : PageTable[page] = slot THEN {Past} ELSE {}]]

(* The box one block of a launch owns: its leaves dealt evenly over the    *)
(* levels, the remainder innermost, the page whole in the innermost one.   *)
OwnerSpanBits ==
  LET log(n)   == CHOOSE e \in 0 .. n : 2 ^ e = n
      total    == log(RegionLeaves)
      floor(i) == IF i = D THEN log(AtomLeaves) ELSE 0
      even(i)  == total \div D + (IF i > D - (total % D) THEN 1 ELSE 0)
      dealt    == [i \in Level |-> Max({floor(i), even(i)})]
      takes[n \in 0 .. D * total] ==
        IF n = 0 THEN dealt
        ELSE LET bits == takes[n - 1]
                 free == {k \in Level : bits[k] > floor(k)}
                 most == {k \in free : \A j \in free : bits[j] <= bits[k]}
             IN [bits EXCEPT ![Min(most)] = @ - 1]
  IN takes[SumFunction(dealt) - total]
OwnerSpan(l) == 2 ^ OwnerSpanBits[l]
Grid(l)      == B(l) \div OwnerSpan(l)

(* What is refused before a launch.  The carry wants the strict shape, the *)
(* operands and planes of that shape, levels no narrower than its box and  *)
(* one state plane, advanced in place; the intra the width it ships at     *)
(* this depth, to which it pads, and whole windows; the two together that  *)
(* width unpadded.                                                         *)
ShapeRefused ==
  (\E l \in Level : B(l) \notin LevelWidths) \/ Cardinality(Leaf) % AtomLeaves # 0
OperandsRefused ==
  \/ \E side \in Side, t \in Token :
       DOMAIN plane[side][t] # 0 .. SumFunction([l \in Level |-> B(l)]) - 1
  \/ DOMAIN words # 0 .. (Tokens + TokBits - 1) \div TokBits - 1
StateRefused == call.planes # "none" /\ call.pool # call.paged
CarryRefuses ==
  \/ ShapeRefused \/ OperandsRefused \/ StateRefused
  \/ \E l \in Level : B(l) < OwnerSpan(l)
  \/ call.planes = "two"

ShippedLevelWidth == IF D \in DOMAIN IntraWidth THEN IntraWidth[D] ELSE 0
IntraRefuses   == Tokens % Window # 0 \/ \E l \in Level : Width(l) > ShippedLevelWidth
PrefillRefuses == Tokens % Window # 0 \/ \E l \in Level : Width(l) # ShippedLevelWidth

Refuses ==
  \/ call.op = "prefill" /\ PrefillRefuses
  \/ call.op = "intra"   /\ IntraRefuses
  \/ call.op # "intra"   /\ CarryRefuses

(* The geometry block.  A block of the launch owns an aligned box of       *)
(* RegionLeaves leaves; each side cuts it into boxes of AtomLeaves leaves  *)
(* in an order of its own, the levels declared sparse outermost.           *)
Declared(side, l)    == l \in call.sparse[side]
SparseGroup(side, l) ==
  IF \A either \in Side : Declared(either, l) THEN 2 ELSE IF Declared(side, l) THEN 1 ELSE 0
Inside(side, l) ==            \* the levels ranked within l
  {i \in Level : \/ SparseGroup(side, i) < SparseGroup(side, l)
                 \/ SparseGroup(side, i) = SparseGroup(side, l) /\ i > l}
ProductOf(f, set) == FoldFunctionOnSet(LAMBDA a, b : a * b, 1, f, set)

Owner == 0 .. ProductOf([l \in Level |-> Grid(l)], Level) - 1
Box   == 0 .. RegionLeaves \div AtomLeaves - 1
BoxAt(side, owner, box) ==
  LET spans    == [l \in Level |-> OwnerSpan(l)]
      grids    == [l \in Level |-> Grid(l)]
      base(l)  == ((owner \div ProductOf(grids, l + 1 .. D)) % Grid(l)) * OwnerSpan(l)
      inner(l) == ProductOf(spans, Inside(side, l))
      at(l, p) == base(l) + ((p \div inner(l)) % OwnerSpan(l))
      runs     == [l \in Level |->
                     {at(l, p) : p \in box * AtomLeaves .. (box + 1) * AtomLeaves - 1}]
  IN [runs |-> runs, leaves |-> Leaves(runs)]
GeometryBlock ==
  [side \in Side |-> [owner \in Owner |-> [box \in Box |-> BoxAt(side, owner, box)]]]
BoxLeavesOf(side, owner, boxes) ==
  UNION {geometry[side][owner][box].leaves : box \in boxes}
OwnedPages(owner) == {leaf \div AtomLeaves : leaf \in BoxLeavesOf("write", owner, Box)}

Call ==
  /\ step = "folded" /\ step' = "called"
  /\ call' \in {c \in Calls : c.exact \/ activity.grain = "page"}
  /\ UNCHANGED <<vars, draw, plane, words, activity, geometry, slots, state, num>>

Refuse ==
  /\ step = "called" /\ Refuses /\ step' = "refused"
  /\ UNCHANGED <<vars, draw, plane, words, activity, ovars>>

Bind ==
  /\ step = "called" /\ ~ Refuses /\ step' = "bound"
  /\ geometry' = IF call.op = "intra" THEN <<>> ELSE GeometryBlock
  /\ slots' = PageTable /\ state' = Planes /\ num' = [t \in Token |-> {}]
  /\ UNCHANGED <<vars, draw, plane, words, activity, call>>

---------------------------------------------------------------------------
(* The carry.                                                              *)
LiveDigits(side, t, l) == {i \in 0 .. B(l) - 1 : Live(plane[side][t][RowBase(l) + i])}
LiveLeaves(side, t)    == Leaves([l \in Level |-> LiveDigits(side, t, l)])

(* A window's head: the boxes a token is live in on a side, and the tokens *)
(* ordered by the first of their read boxes, the dead left off the tiles.  *)
WindowTokens(w) == {t \in Token : t \div Window = w}
LiveBoxes(side, owner, t) ==
  {box \in Box :
     t % TokBits \in Clause(side, t \div TokBits, geometry[side][owner][box].runs)}
Bucket(boxes) == IF call.order = "identity" THEN 0 ELSE Min(boxes)
Order(owner, w) ==
  LET first == [t \in WindowTokens(w) |->
                  LET boxes == LiveBoxes("read", owner, t)
                  IN IF boxes = {} THEN Cardinality(Box) ELSE Bucket(boxes)]
  IN SetToSortSeq({t \in WindowTokens(w) : first[t] < Cardinality(Box)},
                  LAMBDA a, b : first[a] < first[b] \/ (first[a] = first[b] /\ a < b))
Tiles(order) ==
  [k \in 1 .. (Len(order) + CarryTile - 1) \div CarryTile |->
     {order[i] : i \in (k - 1) * CarryTile + 1 .. Min({k * CarryTile, Len(order)})}]

(* The readout of a tile covers the boxes any of its tokens is live in; a  *)
(* window's fold deposits each token in the write boxes it is live in.     *)
Readout(owner, tile, t, held) ==
  LET boxes  == UNION {LiveBoxes("read", owner, other) : other \in tile}
      leaves == LiveLeaves("read", t) \cap BoxLeavesOf("read", owner, boxes)
      by     == <<"carry", tile>>
  IN UNION {{<<by, leaf, writer>> : writer \in held[leaf]} : leaf \in leaves}
Deposits(owner, w) ==
  LET into == [t \in WindowTokens(w) |->
                 LiveLeaves("write", t)
                   \cap BoxLeavesOf("write", owner, LiveBoxes("write", owner, t))]
  IN [leaf \in Leaf |-> {t \in WindowTokens(w) : leaf \in into[t]}]

(* The window's readout sees the state before the window's fold.           *)
ReadWindow(owner, w, held) ==
  LET tiles == Tiles(Order(owner, w))
  IN [t \in Token |-> UNION {Readout(owner, tiles[k], t, held) :
                               k \in {i \in DOMAIN tiles : t \in tiles[i]}}]
WindowRun_FoldFirst(owner, run, w) ==      \* mutant: the fold runs ahead of the readout
  LET d == Deposits(owner, w)
      held == [leaf \in Leaf |-> run.held[leaf] \cup d[leaf]]
      read == ReadWindow(owner, w, held)
  IN [held |-> held, out |-> [t \in Token |-> run.out[t] \cup read[t]]]
WindowRun(owner, run, w) ==
  LET read == ReadWindow(owner, w, run.held)
      d    == Deposits(owner, w)
  IN [held |-> [leaf \in Leaf |-> run.held[leaf] \cup d[leaf]],
      out  |-> [t \in Token |-> run.out[t] \cup read[t]]]

(* A block none of whose pages is touched ends at once.  It loads the      *)
(* touched pages that have a slot, and stores the written ones.            *)
Loaded(owner) ==
  [leaf \in Leaf |->
     LET page == leaf \div AtomLeaves
     IN IF page \in Touched \cap OwnedPages(owner) /\ StateIn /\ slots[page] >= 0
        THEN state[slots[page]][leaf % AtomLeaves] ELSE {}]
Block(owner) ==
  LET start   == [held |-> Loaded(owner), out |-> [t \in Token |-> {}]]
      windows == [i \in 1 .. (Tokens + Window - 1) \div Window |-> i - 1]
  IN IF OwnedPages(owner) \cap Touched = {} THEN start
     ELSE FoldLeft(LAMBDA run, w : WindowRun(owner, run, w), start, windows)

Carry ==
  /\ step = "bound" /\ call.op \in {"prefill", "carry"}
  /\ LET run == [owner \in Owner |-> Block(owner)]
         stored == {page \in Written : StateOut /\ slots[page] >= 0}
         owner(p) == CHOOSE o \in Owner : p \in OwnedPages(o)
         of(slot) == CHOOSE p \in stored : slots[p] = slot
     IN /\ num' = [t \in Token |-> num[t] \cup UNION {run[o].out[t] : o \in Owner}]
        /\ state' = [slot \in Page |-> [row \in 0 .. AtomLeaves - 1 |->
                       IF \E p \in stored : slots[p] = slot
                       THEN run[owner(of(slot))].held[of(slot) * AtomLeaves + row]
                       ELSE state[slot][row]]]
  /\ step' = IF call.op = "prefill" THEN "carried" ELSE "done"
  /\ UNCHANGED <<vars, draw, plane, words, activity, call, geometry, slots>>

---------------------------------------------------------------------------
(* The intra: the tiles of a window against one another, the causal half   *)
(* of them.  A level's Gram product runs over the slabs in which the two   *)
(* tiles' supports meet; a side not declared sparse is taken as all ones.  *)
SupportWord(side, word, l) ==
  UNION {LiveDigits(side, t, l) : t \in {t \in Token : t \div TokBits = word}}
TileMask(side, tile, l) ==
  IF Declared(side, l)
  THEN LET wordsOf == IntraTile \div TokBits
       IN UNION {SupportWord(side, word, l) :
                   word \in tile * wordsOf .. (tile + 1) * wordsOf - 1}
  ELSE 0 .. ShippedLevelWidth - 1
SlabLive(rowTile, colTile, l, slab) ==
  \E i \in slab * Slab .. (slab + 1) * Slab - 1 :
    i \in TileMask("read", rowTile, l) \cap TileMask("write", colTile, l)
Gram(t, writer, l) ==
  {i \in LiveDigits("read", t, l) \cap LiveDigits("write", writer, l) :
     SlabLive(t \div IntraTile, writer \div IntraTile, l, i \div Slab)}

Intra ==
  /\ \/ step = "carried"
     \/ step = "bound" /\ call.op = "intra"
  /\ num' = [t \in Token |-> num[t] \cup
       UNION {LET tiles == <<t \div IntraTile, writer \div IntraTile>>
              IN {<<<<"intra", tiles>>, leaf, writer>> :
                    leaf \in Leaves([l \in Level |-> Gram(t, writer, l)])} :
              writer \in {s \in WindowTokens(t \div Window) : s <= t}}]
  /\ step' = "done"
  /\ UNCHANGED <<vars, draw, plane, words, activity, call, geometry, slots, state>>

Returned == step \in {"done", "refused"} /\ UNCHANGED <<allvars, ovars>>

OperatorInit ==
  PrefillInit /\ call = <<>> /\ geometry = <<>> /\ slots = <<>> /\ state = <<>> /\ num = <<>>
OperatorNext ==
  \/ PrefillNext /\ UNCHANGED ovars
  \/ Call \/ Refuse \/ Bind \/ Carry \/ Intra \/ Returned
OperatorSpec == OperatorInit /\ [][OperatorNext]_<<allvars, ovars>>

---------------------------------------------------------------------------
(* naive_rola: the recurrence over the unpadded leaves, a token at a time, *)
(* from the levels of the unbatched form; its addresses are its own.       *)
RadixStride(l) == ProductOf([i \in Level |-> Width(i)], l + 1 .. D)
Capacity       == ProductOf([i \in Level |-> Width(i)], Level)
DigitOf(s, l)  == (s \div RadixStride(l)) % Width(l)
LeafProduct(side, t) ==
  {s \in 0 .. Capacity - 1 : \A l \in Level :
     Amplitude(TorchCell(side, l, DigitOf(s, l)), t) \notin {0, Minus}}
PaddedLeaf(s) ==
  FoldLeft(LAMBDA id, l : id * B(l) + DigitOf(s, l), 0, [l \in Level |-> l])
InitialCache ==
  [s \in 0 .. Capacity - 1 |->
     IF PaddedLeaf(s) \div AtomLeaves \in EarlierPages THEN {Past} ELSE {}]

Recurrence ==
  FoldLeft(LAMBDA run, n :
             LET t     == n - 1
                 wrote == LeafProduct("write", t)
                 held  == [s \in DOMAIN run.held |->
                             IF s \in wrote THEN run.held[s] \cup {t} ELSE run.held[s]]
                 reads == UNION {{<<PaddedLeaf(s), writer>> : writer \in held[s]} :
                                   s \in LeafProduct("read", t)}
             IN [held |-> held, out |-> Append(run.out, reads)],
           [held |-> InitialCache, out |-> <<>>], [n \in 1 .. Tokens |-> n])

(* However the levels are packed, voted, folded, ordered and tiled, and    *)
(* whatever the backing, every pair of the recurrence is added once: the   *)
(* carry adds those of earlier windows and what was there before, the      *)
(* intra those of the window, the two together all.  The state left is the *)
(* recurrence's, of a call that stores none what it was.                   *)
OperatorIsRecurrence ==
  step = "done" =>
    LET ref == Recurrence
        in(t, writer) ==
          CASE call.op = "carry" -> writer \div Window < t \div Window
            [] call.op = "intra" -> writer \div Window = t \div Window
            [] OTHER             -> TRUE
        due(t) == {pair \in ref.out[t + 1] : in(t, pair[2])}
    IN /\ \A t \in Token :
            /\ {<<add[2], add[3]>> : add \in num[t]} = due(t)
            /\ Cardinality(num[t]) = Cardinality(due(t))
       /\ call.op # "intra" /\ call.planes \in {"advance", "fresh", "read"} =>
            \A s \in 0 .. Capacity - 1 :
              LET leaf == PaddedLeaf(s)
                  slot == slots[leaf \div AtomLeaves]
                  kept == IF slot < 0 THEN {} ELSE state[slot][leaf % AtomLeaves]
              IN kept = IF StateOut THEN ref.held[s] ELSE InitialCache[s]
=============================================================================
