------------------------------ MODULE Prefill ------------------------------
(***************************************************************************)
(* From the solved levels to the activity of the pages: the levels are     *)
(* padded and packed into one plane a side, one pass votes a bit per       *)
(* token, level and digit (liveness_words), and the bits are folded over   *)
(* boxes of leaves into READ and WRITTEN bits of the pages.                *)
(*                                                                         *)
(* A token's live leaves are the products of its live digits.  Which       *)
(* digits a solve leaves alive is drawn here from the solve itself, so     *)
(* that planes which hold the same solve agree.  A word is the set of its  *)
(* set bits.  Batch and heads ride along and are left out.                 *)
(***************************************************************************)
EXTENDS Routing

CONSTANTS
  TokBits,       \* TOK_BITS: tokens to a word
  AtomLeaves,    \* ATOM_LEAVES: leaves to a page
  BoxLeaves,     \* leaves of the warp box the kernel folds at
  LevelWidths,   \* the widths a kernel takes; a level is padded to the next
  Draws          \* [tokens, turn, wide, fades, sign, arrive, masked]

ASSUME PrefillAssumption ==
  /\ {TokBits, AtomLeaves, BoxLeaves} \subseteq Nat \ {0}
  /\ \A r \in Routings : \A l \in DOMAIN r : \E w \in LevelWidths : w >= r[l].width

VARIABLES
  step,       \* "idle", "handed", "packed", "voted", "folded", and what follows
  draw,       \* what the solves left alive, and how the levels are handed in
  plane,      \* [side -> [token -> [column -> amplitude]]]
  words,      \* [word -> [side -> [level -> [digit -> bits]]]]
  activity    \* [grain, pages: [side -> the pages with the side's bit]]

pvars == <<step, draw, plane, words, activity>>
allvars == <<vars, pvars>>

---------------------------------------------------------------------------
(* An amplitude is a bf16 pattern: a digit is dead at plus or minus zero.  *)
Tokens == draw.tokens                 \* L
Token  == 0 .. Tokens - 1
One    == 127 * 2 ^ 7
Minus  == 2 ^ 15

Support(solve, part, t) ==
  LET w    == Cardinality(DOMAIN solve.rows[1])
      base == (draw.turn * t + solve.rows[1][0][2]) % w
  IN CASE solve.op[1] = "softmax" -> (0 .. w - 1) \ (IF draw.fades THEN {base} ELSE {})
       [] part = "read"           -> {base}
       [] OTHER                   -> {base} \cup (IF draw.wide THEN {(base + 1) % w} ELSE {})
Amplitude(cell, t) ==
  IF cell.at \in Support(cell.solve, cell.part, t) THEN One
  ELSE IF draw.sign THEN Minus ELSE 0

(* The levels of a side as they arrive: windows of the solve's plane, the  *)
(* same in fp32, tensors of their own, or windows in another order.        *)
Tensor(side, l) ==
  CASE draw.arrive \in {"bf16", "fp32"} ->
         [store |-> side, offset |-> LevelOffset(l), stride |-> LogitWidth,
          width |-> Width(l), bf16 |-> draw.arrive = "bf16"]
    [] draw.arrive = "apart" ->
         [store |-> <<side, l>>, offset |-> 0, stride |-> Width(l), width |-> Width(l),
          bf16 |-> TRUE]
    [] OTHER ->
         [store |-> side, offset |-> LogitWidth - LevelOffset(l + 1), stride |-> LogitWidth,
          width |-> Width(l), bf16 |-> TRUE]
Handed(side, l, t, i) ==
  LET held == mem[PlaneOf(side)][LevelOffset(l) + i] IN Amplitude(CHOOSE v \in held : TRUE, t)

Hand ==
  /\ stage = "solved" /\ backward = 0 /\ entry = "levels" /\ gain = 0
  /\ step = "idle" /\ step' = "handed"
  /\ draw' \in Draws
  /\ UNCHANGED <<vars, plane, words, activity>>

---------------------------------------------------------------------------
(* pad_routes, and pack_side: a side that is a plane already is taken as   *)
(* it lies, any other is copied level by level.                            *)
Padded(w) == CHOOSE p \in LevelWidths : p >= w /\ \A q \in LevelWidths : q >= w => p <= q
B(l)      == Padded(Width(l))
Pad(side, l) ==
  IF Width(l) = B(l) THEN Tensor(side, l)
  ELSE [store |-> <<"padded", side, l>>, offset |-> 0, stride |-> B(l), width |-> B(l),
        bf16 |-> Tensor(side, l).bf16]

RowBase(l) == SumFunctionOnSet([i \in Level |-> B(i)], 1 .. l - 1)
PlaneRows      == RowBase(D + 1)

SidePlane(side) ==
  \A l \in Level :
    LET x == Pad(side, l)
    IN /\ x.bf16 /\ x.store = Pad(side, 1).store /\ x.stride = PlaneRows
       /\ x.offset = Pad(side, 1).offset + RowBase(l)

Element(side, t, l, i) == IF i < Width(l) THEN Handed(side, l, t, i) ELSE 0

(* What the storage behind a side's tensors holds at a cell.               *)
Stored(side, store, at) ==
  LET place(z) == LET x == Pad(side, z[2])
                  IN <<x.store, x.offset + z[1] * x.stride + z[3]>>
      z == CHOOSE z \in Token \X Level \X (0 .. PlaneRows - 1) :
             z[3] < B(z[2]) /\ place(z) = <<store, at>>
  IN Element(side, z[1], z[2], z[3])

PackSide(side) ==
  [t \in Token |-> [row \in 0 .. PlaneRows - 1 |->
     IF SidePlane(side)
     THEN Stored(side, Pad(side, 1).store, Pad(side, 1).offset + t * PlaneRows + row)
     ELSE LET l == CHOOSE l \in Level : row \in RowBase(l) .. RowBase(l + 1) - 1
          IN Element(side, t, l, row - RowBase(l))]]

Pack ==
  /\ step = "handed" /\ step' = "packed"
  /\ plane' = [side \in Side |-> PackSide(side)]
  /\ UNCHANGED <<vars, draw, words, activity>>

---------------------------------------------------------------------------
(* The pass.  A dense level is not read if the statics say so: its rows    *)
(* are the width mask.  A word of tokens is one warp's, in all rows, and   *)
(* words share nothing; the lanes past the call's tokens vote dead.        *)
Words     == (Tokens + TokBits - 1) \div TokBits
Dense(side, l) ==
  draw.masked /\ ~ Zeroes(IF side = "read" THEN routing[l].read ELSE routing[l].write)
InMask(l, digit) == digit < Width(l)
Live(amplitude)  == amplitude % Minus # 0

Ballot(side, word, l, digit) ==
  {lane \in 0 .. TokBits - 1 :
     LET t == word * TokBits + lane
     IN /\ t < Tokens
        /\ IF Dense(side, l) THEN InMask(l, digit)
           ELSE Live(plane[side][t][RowBase(l) + digit])}

Vote ==
  /\ step = "packed" /\ step' = "voted"
  /\ words' = [word \in 0 .. Words - 1 |-> [side \in Side |-> [l \in Level |->
                 [digit \in 0 .. B(l) - 1 |-> Ballot(side, word, l, digit)]]]]
  /\ UNCHANGED <<vars, draw, plane, activity>>

---------------------------------------------------------------------------
(* The folds.  A box is an aligned run of digits in every level; its       *)
(* leaves are the products, numbered with the last level minor.            *)
Tuples(sets)  == FoldLeft(LAMBDA grid, digits : {Append(row, d) : row \in grid, d \in digits},
                          {<<>>}, sets)
Leaves(sets)  == FoldLeft(LAMBDA ids, z : {id * z[1] + d : id \in ids, d \in z[2]},
                          {0}, [l \in Level |-> <<B(l), sets[l]>>])
PagesOf(sets) == {leaf \div AtomLeaves : leaf \in Leaves(sets)}
Boxes(spans)  == Tuples([l \in Level |-> {d \in 0 .. B(l) - 1 : d % spans[l] = 0}])
Runs(start, spans) == [l \in Level |-> start[l] .. start[l] + spans[l] - 1]

(* A box is live if in some token every level has a live digit in its run. *)
RunBits(side, word, l, run) == UNION {words[word][side][l][digit] : digit \in run}
Clause_TokensFirst(side, word, runs) ==        \* mutant: a level need not agree on the token
  IF \A l \in Level : RunBits(side, word, l, runs[l]) # {} THEN 0 .. TokBits - 1 ELSE {}
Clause(side, word, runs) ==
  {bit \in 0 .. TokBits - 1 : \A l \in Level : bit \in RunBits(side, word, l, runs[l])}

BoxActive(side, runs) == \E word \in DOMAIN words : Clause(side, word, runs) # {}
PageActivity(side, spans) ==
  UNION {PagesOf(runs) :
           runs \in {r \in {Runs(start, spans) : start \in Boxes(spans)} : BoxActive(side, r)}}

(* The page itself as a box: the last levels whole until they fill it.     *)
Stride(l) == FoldFunctionOnSet(LAMBDA a, b : a * b, 1, [i \in Level |-> B(i)], l + 1 .. D)
AtomSpans ==
  [l \in Level |-> LET left == AtomLeaves \div Stride(l)
                   IN IF left = 0 THEN 1 ELSE IF B(l) < left THEN B(l) ELSE left]
Carves == {f \in [Level -> 1 .. BoxLeaves] :
             /\ FoldFunctionOnSet(LAMBDA a, b : a * b, 1, f, Level) = BoxLeaves
             /\ \A l \in Level : B(l) % f[l] = 0}

Folds(grain, spans) ==
  /\ step = "voted" /\ step' = "folded"
  /\ activity' = [grain |-> grain, pages |-> [side \in Side |-> PageActivity(side, spans)]]
  /\ UNCHANGED <<vars, draw, plane, words>>

FoldPages == Folds("page", AtomSpans)
FoldBoxes == \E spans \in Carves : Folds("box", spans)

PrefillInit ==
  /\ Init
  /\ step = "idle" /\ draw = <<>> /\ plane = <<>> /\ words = <<>> /\ activity = <<>>

PrefillNext ==
  \/ step = "idle" /\ Next /\ UNCHANGED pvars
  \/ Hand \/ Pack \/ Vote \/ FoldPages \/ FoldBoxes

---------------------------------------------------------------------------
(* A page has a side's bit if some token has a live leaf of the unbatched, *)
(* unpadded form in it, and at the page grain, voted from the amplitudes,  *)
(* only then: no page a call writes is left unplanned, none is planned for *)
(* a pad, a negative zero or two tokens' digits put together.              *)
ActivityIsExact ==
  activity # <<>> =>
    \A side \in Side :
      LET live(t) == [l \in Level |->
                       {i \in 0 .. Width(l) - 1 : Amplitude(TorchCell(side, l, i), t) \notin {0, Minus}}]
          pages   == UNION {PagesOf(live(t)) : t \in Token}
      IN /\ pages \subseteq activity.pages[side]
         /\ activity.grain = "page" /\ ~ (draw.masked /\ draw.fades)
              => activity.pages[side] = pages
=============================================================================
