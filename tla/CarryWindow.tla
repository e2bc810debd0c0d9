---------------------------- MODULE CarryWindow ----------------------------
(***************************************************************************)
(* The window loop of the chunk kernel around its fold: the head that      *)
(* orders a window's tokens, the snapshot of the state, and the readout    *)
(* whose tiles the warps take from a shared counter                        *)
(* (csrc/rola/src/carry/carry_kernel.cuh).  The head of window i + 1 runs  *)
(* between the readout and the fold of window i, so its products are kept  *)
(* twice, by window parity; the staged liveness words are kept once.       *)
(*                                                                         *)
(* A warp is one process.  A shared product is modelled by the window it   *)
(* was made for, and a tile by its number; tile k reads box k, which every *)
(* warp owns rows of (the alternating layouts).  The fold is a single step *)
(* (CarryPool has it in full); the model starts past the prologue's        *)
(* barrier, with window 0's words landed.                                  *)
(***************************************************************************)
EXTENDS Integers, FiniteSets

CONSTANTS
  Warps,     \* kWarps
  Windows,   \* nWindows
  MaxTiles   \* bound: live read tiles of a window

ASSUME CarryWindowAssumption ==
  /\ Warps \in Nat \ {0} /\ Windows \in Nat \ {0} /\ MaxTiles \in Nat

Warp   == 0 .. Warps - 1
Window == 0 .. Windows - 1
Tile   == 0 .. MaxTiles - 1
None   == -1
Made   == None .. Windows - 1    \* the window a product was made for

VARIABLES
  tiles,          \* [Window -> its live read tiles]
  pc, win, head,  \* where a warp is, its loop's window, its last head's
  words, landed,  \* the window whose liveness words a warp last staged; landed?
  counts,         \* [Warp -> window of its bucket counts]
  bases,          \* window of the scanned counts and of the live count
  order, masks,   \* by parity: [Warp -> window of the ranks, of the tile masks]
  boxes,          \* by parity: read_boxes
  counter,        \* by parity: the tile counter
  k, knext,       \* the tile a warp has, the one it has taken ahead
  n,              \* tiles a warp has read; its ring slot is n % 2
  ring, flight,   \* ring slots: phases completed and tile landed; copies in flight
  snap,           \* [Warp -> [box -> windows folded into the rows it published]]
  folded,         \* [Warp -> windows folded into its state]
  drained         \* [Window -> [Tile -> times reduced into the output]]

vars == <<tiles, pc, win, head, words, landed, counts, bases, order, masks, boxes, counter,
          k, knext, n, ring, flight, snap, folded, drained>>
headVars == <<words, counts, bases, order, masks, boxes>>
readVars == <<k, knext, n, ring, flight, drained>>
fixed    == <<tiles, win>>

Init ==
  /\ tiles \in [Window -> 0 .. MaxTiles]
  /\ pc = [w \in Warp |-> "reset"]
  /\ win = [w \in Warp |-> 0] /\ head = [w \in Warp |-> 0]
  /\ words = [w \in Warp |-> 0] /\ landed = [w \in Warp |-> TRUE]
  /\ counts = [w \in Warp |-> None] /\ bases = None
  /\ order = [p \in {0, 1} |-> [w \in Warp |-> None]] /\ masks = order
  /\ boxes = [p \in {0, 1} |-> {}] /\ counter = [p \in {0, 1} |-> 0]
  /\ k = [w \in Warp |-> 0] /\ knext = [w \in Warp |-> 0] /\ n = [w \in Warp |-> 0]
  /\ ring = [w \in Warp |-> [r \in {0, 1} |-> [phase |-> 0, tile |-> <<None, None>>]]]
  /\ flight = {}
  /\ snap = [w \in Warp |-> [b \in Tile |-> None]] /\ folded = [w \in Warp |-> 0]
  /\ drained = [i \in Window |-> [t \in Tile |-> 0]]

Goto(w, there) == pc' = [pc EXCEPT ![w] = there]

---------------------------------------------------------------------------
(* The head of window head[w], three named barriers inside.                *)

CounterOf_One(h) == 0                          \* mutant: one tile counter
CounterOf(h) == h % 2

(* tid 0 zeroes the window's tile counter,                                 *)
ResetCounter(w) ==
  /\ pc[w] = "reset" /\ Goto(w, "one")
  /\ counter' = IF w = 0 THEN [counter EXCEPT ![CounterOf(head[w])] = 0] ELSE counter
  /\ UNCHANGED <<fixed, head, headVars, landed, readVars, snap, folded>>

(* pass one: the words read, the bucket counts, read_boxes zeroed,         *)
PassOne_StagesAhead(w) ==                      \* mutant: the next words before the barriers
  /\ pc[w] = "one" /\ Goto(w, "counts")
  /\ counts' = [counts EXCEPT ![w] = head[w]]
  /\ boxes' = IF w = 0 THEN [boxes EXCEPT ![head[w] % 2] = {}] ELSE boxes
  /\ words' = IF head[w] + 1 < Windows THEN [words EXCEPT ![w] = head[w] + 1] ELSE words
  /\ UNCHANGED <<fixed, head, landed, bases, order, masks, counter, readVars, snap, folded>>
PassOne(w) ==
  /\ pc[w] = "one" /\ Goto(w, "counts")
  /\ counts' = [counts EXCEPT ![w] = head[w]]
  /\ boxes' = IF w = 0 THEN [boxes EXCEPT ![head[w] % 2] = {}] ELSE boxes
  /\ UNCHANGED <<fixed, head, words, landed, bases, order, masks, counter, readVars, snap,
                 folded>>

(* the scans, warp 0's of the read side,                                   *)
Scan(w) ==
  /\ pc[w] = "scan" /\ Goto(w, "scanned")
  /\ bases' = IF w = 0 THEN head[w] ELSE bases
  /\ UNCHANGED <<fixed, head, words, landed, counts, order, masks, boxes, counter, readVars,
                 snap, folded>>

(* pass two: the scatter into the order,                                   *)
Scatter(w) ==
  /\ pc[w] = "scatter" /\ Goto(w, "order")
  /\ order' = [order EXCEPT ![head[w] % 2][w] = head[w]]
  /\ UNCHANGED <<fixed, head, words, landed, counts, bases, masks, boxes, counter, readVars,
                 snap, folded>>

(* the tile masks, two tiles a warp a pass, each ORed into read_boxes,     *)
Minter(t) == (t \div 2) % Warps

Mint(w) ==
  LET p == head[w] % 2
  IN /\ pc[w] = "mint" /\ Goto(w, "ahead")
     /\ masks' = [masks EXCEPT ![p][w] = head[w]]
     /\ boxes' = [boxes EXCEPT ![p] = @ \cup {t \in 0 .. tiles[head[w]] - 1 : Minter(t) = w}]
     /\ UNCHANGED <<fixed, head, words, landed, counts, bases, order, counter, readVars, snap,
                    folded>>

(* then the next window's words, into the one buffer.                      *)
StageAhead(w) ==
  /\ pc[w] = "ahead" /\ Goto(w, "prime")
  /\ IF head[w] + 1 < Windows
     THEN words' = [words EXCEPT ![w] = head[w] + 1] /\ landed' = [landed EXCEPT ![w] = FALSE]
     ELSE UNCHANGED <<words, landed>>
  /\ UNCHANGED <<fixed, head, counts, bases, order, masks, boxes, counter, readVars, snap, folded>>

---------------------------------------------------------------------------
(* The readout stream.  take() returns the old count.                      *)
Taken(w) == counter[CounterOf(head[w])]
Take(w)  == counter' = [counter EXCEPT ![CounterOf(head[w])] = @ + 1]
Live(w, t) == t < tiles[head[w]]

Issue(w, r, t) ==
  flight' = IF Live(w, t) THEN flight \cup {[warp |-> w, slot |-> r, tile |-> <<head[w], t>>]}
                          ELSE flight

Prime(w) ==
  /\ pc[w] = "prime"
  /\ Take(w) /\ k' = [k EXCEPT ![w] = Taken(w)] /\ Issue(w, n[w] % 2, Taken(w))
  /\ Goto(w, IF head[w] = 0 THEN "snap" ELSE "fold")
  /\ UNCHANGED <<fixed, head, headVars, landed, knext, n, ring, snap, folded, drained>>

AheadSlot(w) == (n[w] + 1) % 2

Begin_NoDone(w) ==                             \* mutant: a warp without a tile goes on
  /\ pc[w] = "begin"
  /\ Take(w) /\ knext' = [knext EXCEPT ![w] = Taken(w)]
  /\ Issue(w, AheadSlot(w), Taken(w)) /\ Goto(w, "read")
  /\ UNCHANGED <<fixed, head, headVars, landed, k, n, ring, snap, folded, drained>>
Begin(w) ==
  /\ pc[w] = "begin"
  /\ IF Live(w, k[w])
     THEN /\ Take(w) /\ knext' = [knext EXCEPT ![w] = Taken(w)]
          /\ Issue(w, AheadSlot(w), Taken(w)) /\ Goto(w, "read")
     ELSE Goto(w, "after") /\ UNCHANGED <<counter, knext, flight>>
  /\ UNCHANGED <<fixed, head, headVars, landed, k, n, ring, snap, folded, drained>>

(* The ring barrier's phase for the slot's next use has completed.         *)
Uses(w, r) == (n[w] + 1 - r) \div 2
Landed(w) ==
  /\ pc[w] = "read" /\ ring[w][n[w] % 2].phase % 2 # Uses(w, n[w] % 2) % 2
  /\ Goto(w, "tile")
  /\ UNCHANGED <<fixed, head, headVars, landed, counter, readVars, snap, folded>>

(* readout_tile, then the next taken tile into the slot it freed.          *)
ReadTile(w) ==
  /\ pc[w] = "tile"
  /\ drained' = [drained EXCEPT ![win[w]][k[w]] = @ + 1]
  /\ n' = [n EXCEPT ![w] = @ + 1] /\ k' = [k EXCEPT ![w] = knext[w]]
  /\ IF Live(w, knext[w])
     THEN /\ Take(w) /\ knext' = [knext EXCEPT ![w] = Taken(w)]
          /\ Issue(w, n[w] % 2, Taken(w)) /\ Goto(w, "read")
     ELSE Goto(w, "after") /\ UNCHANGED <<counter, knext, flight>>
  /\ UNCHANGED <<fixed, head, headVars, landed, ring, snap, folded>>

Land(m) ==
  /\ m \in flight /\ flight' = flight \ {m}
  /\ ring' = [ring EXCEPT ![m.warp][m.slot] = [phase |-> @.phase + 1, tile |-> m.tile]]
  /\ UNCHANGED <<fixed, pc, head, headVars, landed, counter, k, knext, n, snap, folded, drained>>

---------------------------------------------------------------------------
(* The window: snapshot and the words' wait; ...                           *)
Snapshot(w) ==
  /\ pc[w] = "snap" /\ Goto(w, "edge")
  /\ snap' = IF tiles[win[w]] = 0 THEN snap
             ELSE [snap EXCEPT ![w] = [b \in Tile |-> IF b \in boxes[win[w] % 2] THEN folded[w]
                                                      ELSE @[b]]]
  /\ landed' = [landed EXCEPT ![w] = TRUE]
  /\ UNCHANGED <<fixed, head, headVars, counter, readVars, folded>>

(* ... after the readout the next head, if there is one; ...               *)
NextHead(w) ==
  /\ pc[w] = "after"
  /\ IF win[w] + 1 < Windows
     THEN head' = [head EXCEPT ![w] = win[w] + 1] /\ Goto(w, "reset")
     ELSE Goto(w, "fold") /\ UNCHANGED head
  /\ UNCHANGED <<fixed, headVars, landed, counter, readVars, snap, folded>>

(* ... and the fold.                                                       *)
Fold(w) ==
  /\ pc[w] = "fold" /\ Goto(w, "close")
  /\ folded' = [folded EXCEPT ![w] = @ + 1]
  /\ UNCHANGED <<fixed, head, headVars, landed, counter, readVars, snap>>

(* The block barriers, and the window's last.                              *)
After == [counts |-> "scan", scanned |-> "scatter", order |-> "mint", edge |-> "begin"]

Barrier(at) ==
  /\ \A w \in Warp : pc[w] = at
  /\ pc' = [w \in Warp |-> After[at]]
  /\ UNCHANGED <<fixed, head, headVars, landed, counter, readVars, snap, folded>>

OnToWindow(w) == IF win[w] + 1 < Windows THEN "snap" ELSE "exit"

Close_NoBarrier ==                             \* mutant: a warp goes on alone
  \E w \in Warp :
    /\ pc[w] = "close" /\ Goto(w, OnToWindow(w)) /\ win' = [win EXCEPT ![w] = @ + 1]
    /\ UNCHANGED <<tiles, head, headVars, landed, counter, readVars, snap, folded>>
Close ==
  /\ \A w \in Warp : pc[w] = "close"
  /\ pc' = [w \in Warp |-> OnToWindow(w)]
  /\ win' = [w \in Warp |-> win[w] + 1]
  /\ UNCHANGED <<tiles, head, headVars, landed, counter, readVars, snap, folded>>

WarpStep(w) ==
  \/ ResetCounter(w) \/ PassOne(w) \/ Scan(w) \/ Scatter(w) \/ Mint(w) \/ StageAhead(w)
  \/ Prime(w) \/ Snapshot(w) \/ Begin(w) \/ Landed(w) \/ ReadTile(w) \/ NextHead(w) \/ Fold(w)

Barriers == (\E at \in DOMAIN After : Barrier(at)) \/ Close

Next == (\E w \in Warp : WarpStep(w)) \/ (\E m \in flight : Land(m)) \/ Barriers

(* A resident warp is always scheduled again, and a copy lands.            *)
Spec ==
  /\ Init /\ [][Next]_vars
  /\ \A w \in Warp : WF_vars(WarpStep(w))
  /\ WF_vars(\E m \in flight : Land(m)) /\ WF_vars(Barriers)

---------------------------------------------------------------------------
(* Every variable has its type.                                            *)
TypeOK ==
  /\ tiles \in [Window -> 0 .. MaxTiles]
  /\ pc \in [Warp -> {"reset", "one", "counts", "scan", "scanned", "scatter", "order", "mint",
                      "ahead", "prime", "snap", "edge", "begin", "read", "tile", "after",
                      "fold", "close", "exit"}]
  /\ win \in [Warp -> 0 .. Windows] /\ head \in [Warp -> Window]
  /\ words \in [Warp -> Made] /\ landed \in [Warp -> BOOLEAN]
  /\ counts \in [Warp -> Made] /\ bases \in Made
  /\ order \in [{0, 1} -> [Warp -> Made]] /\ masks \in [{0, 1} -> [Warp -> Made]]
  /\ boxes \in [{0, 1} -> SUBSET Tile] /\ counter \in [{0, 1} -> Nat]
  /\ k \in [Warp -> Nat] /\ knext \in [Warp -> Nat] /\ n \in [Warp -> Nat]
  /\ \A m \in flight : m.warp \in Warp /\ m.slot \in {0, 1}
  /\ snap \in [Warp -> [Tile -> None .. Windows]] /\ folded \in [Warp -> 0 .. Windows]
  /\ drained \in [Window -> [Tile -> Nat]]

(* Each stage of a head and of the readout reads what every warp made for  *)
(* this window, although the buffers are reused a window or two later; the *)
(* tile a warp reads is the one that landed in its ring slot, and nothing  *)
(* is being copied over it.                                                *)
ReadsAreCurrent ==
  \A w \in Warp :
    LET h == head[w]
        Order == \A v \in Warp : order[h % 2][v] = h
    IN /\ pc[w] = "one"     => \A v \in Warp : words[v] = h /\ landed[v]
       /\ pc[w] = "scan"    => \A v \in Warp : counts[v] = h
       /\ pc[w] = "scatter" => bases = h
       /\ pc[w] \in {"mint", "prime", "begin", "read", "tile"} => Order
       /\ pc[w] = "tile" =>
            /\ masks[h % 2][Minter(k[w])] = h
            /\ ring[w][n[w] % 2].tile = <<win[w], k[w]>>
            /\ \A m \in flight : <<m.warp, m.slot>> # <<w, n[w] % 2>>

(* A window's live tiles are read once each: never twice, and none is left *)
(* when a warp passes the window's last barrier.                           *)
TilesReadOnce ==
  \A i \in Window, t \in Tile :
    /\ drained[i][t] <= 1
    /\ t < tiles[i] /\ (\E w \in Warp : win[w] > i) => drained[i][t] = 1

(* A tile is read off a snapshot of the state as of its window's start,    *)
(* every warp's rows of it.                                                *)
SnapshotCovers ==
  \A w \in Warp : pc[w] = "tile" => \A v \in Warp : snap[v][k[w]] = win[w]

(* The same, past the first window: there a barrier stands between the     *)
(* head and the snapshot that reads its read_boxes.                        *)
SnapshotCoversLater ==
  \A w \in Warp : pc[w] = "tile" /\ win[w] > 0 => \A v \in Warp : snap[v][k[w]] = win[w]

(* Every warp gets through every window.                                   *)
EveryWindowEnds == <>(\A w \in Warp : pc[w] = "exit")

=============================================================================
