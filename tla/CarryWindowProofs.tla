-------------------------- MODULE CarryWindowProofs --------------------------
(***************************************************************************)
(* That the window loop reads what it made, reads every tile once, and     *)
(* reads it off a whole snapshot: for every number of warps, windows and   *)
(* tiles.                                                                  *)
(*                                                                         *)
(* The block barriers cut a warp's window into segments, and all warps are *)
(* in the same one of the same window.  What a warp reads of another, that *)
(* one made in an earlier segment and does not make again before a later   *)
(* one; where the buffers are two by parity, the later one is two windows  *)
(* on.  The tile counter is a ledger: below it, a live tile of the window  *)
(* is in exactly one warp's hands or read.                                 *)
(***************************************************************************)
EXTENDS CarryWindow, TLAPS

HeadPc  == {"reset", "one", "counts", "scan", "scanned", "scatter", "order", "mint",
            "ahead", "prime"}
ReadPc  == {"begin", "read", "tile", "after"}
Pc      == HeadPc \cup ReadPc \cup {"snap", "edge", "fold", "close", "exit"}
Copies  == [warp : Warp, slot : {0, 1}, tile : Window \X Nat]
Tag     == [phase : Nat, tile : {None} \X {None} \cup Window \X Nat]

Typed ==
  /\ tiles \in [Window -> 0 .. MaxTiles]
  /\ pc \in [Warp -> Pc] /\ win \in [Warp -> Nat] /\ head \in [Warp -> Window]
  /\ words \in [Warp -> Made] /\ landed \in [Warp -> BOOLEAN]
  /\ counts \in [Warp -> Made] /\ bases \in Made
  /\ order \in [{0, 1} -> [Warp -> Made]] /\ masks \in [{0, 1} -> [Warp -> Made]]
  /\ boxes \in [{0, 1} -> SUBSET Tile] /\ counter \in [{0, 1} -> Nat]
  /\ k \in [Warp -> Nat] /\ knext \in [Warp -> Nat] /\ n \in [Warp -> Nat]
  /\ ring \in [Warp -> [{0, 1} -> Tag]] /\ flight \subseteq Copies
  /\ snap \in [Warp -> [Tile -> None .. Windows]] /\ folded \in [Warp -> Nat]
  /\ drained \in [Window -> [Tile -> Nat]]

(* The window a warp's last head was for.                                  *)
Ahead(w) == win[w] + 1 < Windows

Placed(w) ==
  /\ pc[w] = "exit" <=> win[w] = Windows
  /\ win[w] <= Windows
  /\ pc[w] = "exit" => head[w] + 1 = win[w]
  /\ pc[w] \in HeadPc => head[w] = win[w] + 1 \/ (head[w] = 0 /\ win[w] = 0)
  /\ pc[w] \in ReadPc \cup {"snap", "edge"} => head[w] = win[w]
  /\ pc[w] \in {"fold", "close"} => head[w] = IF Ahead(w) THEN win[w] + 1 ELSE win[w]
  /\ folded[w] = IF pc[w] = "close" THEN win[w] + 1 ELSE win[w]

(* The barriers' segments: the first head's, then those of every window.   *)
Segment(w) ==
  CASE pc[w] \in {"reset", "one", "counts"} -> IF head[w] = 0 THEN 0 ELSE 5
    [] pc[w] \in {"scan", "scanned"}        -> IF head[w] = 0 THEN 1 ELSE 6
    [] pc[w] \in {"scatter", "order"}       -> IF head[w] = 0 THEN 2 ELSE 7
    [] pc[w] \in {"mint", "ahead", "prime"} -> IF head[w] = 0 THEN 3 ELSE 8
    [] pc[w] \in {"snap", "edge"}           -> IF win[w] = 0 THEN 3 ELSE 4
    [] pc[w] \in ReadPc                     -> 5
    [] pc[w] \in {"fold", "close"}          -> IF Ahead(w) THEN 8 ELSE 5
    [] pc[w] = "exit"                       -> 9

Together == \A v, w \in Warp : win[v] = win[w] /\ Segment(v) = Segment(w)

Places == (\A w \in Warp : Placed(w)) /\ Together

(* The last head whose order, whose masks a warp has made.                 *)
Scattered(w) == IF pc[w] \in {"reset", "one", "counts", "scan", "scanned", "scatter"}
                THEN head[w] - 1 ELSE head[w]
Minted(w)    == IF pc[w] \in HeadPc \ {"ahead", "prime"} THEN head[w] - 1 ELSE head[w]

Products(w) ==
  /\ pc[w] \in HeadPc \ {"prime"} => words[w] = head[w]
  /\ pc[w] \notin HeadPc \ {"prime"} /\ head[w] + 1 < Windows => words[w] = head[w] + 1
  /\ pc[w] \notin {"prime", "fold", "close", "snap", "exit"} => landed[w]
  /\ pc[w] \in {"counts", "scan", "scanned"} => counts[w] = head[w]
  /\ Scattered(w) >= 0 => order[Scattered(w) % 2][w] = Scattered(w)
  /\ Minted(w) >= 0 =>
       /\ masks[Minted(w) % 2][w] = Minted(w)
       /\ \A t \in Tile : t < tiles[Minted(w)] /\ Minter(t) = w => t \in boxes[Minted(w) % 2]
  /\ win[w] > 0 /\ pc[w] \notin {"snap", "exit"} =>
       \A t \in Tile : t < tiles[win[w]] => snap[w][t] = win[w]

Made0 == pc[0] \in {"scanned", "scatter", "order"} => bases = head[0]

(* The tickets a warp holds, all for the window of its last head.          *)
HasOne(w) == \/ pc[w] \in {"snap", "edge", "begin", "read", "tile"}
             \/ pc[w] \in {"fold", "close"} /\ head[w] # win[w]
HasTwo(w) == pc[w] \in {"read", "tile"}
Holds(w, i, t) == head[w] = i /\ ((HasOne(w) /\ t = k[w]) \/ (HasTwo(w) /\ t = knext[w]))

Ledger(i) ==
  /\ \A w \in Warp : \A t \in {k[w], knext[w]} : Holds(w, i, t) => t < counter[i % 2]
  /\ \A v, w \in Warp : v # w =>
       \A t \in {k[v], knext[v]} : ~ (Holds(v, i, t) /\ Holds(w, i, t))
  /\ \A t \in Tile :
       /\ drained[i][t] \in {0, 1}
       /\ drained[i][t] = 1 => t < counter[i % 2] /\ \A w \in Warp : ~ Holds(w, i, t)
       /\ t < counter[i % 2] /\ t < tiles[i] /\ (\A w \in Warp : ~ Holds(w, i, t))
            => drained[i][t] = 1

(* A window is open once its counter has been reset.                       *)
Opened(i) == i < head[0] \/ (i = head[0] /\ pc[0] # "reset")

Handed(w)   == HasTwo(w) => k[w] # knext[w] /\ Live(w, k[w])
Finished(w) ==
  pc[w] \in {"after", "fold", "close"} \/ (pc[w] \in HeadPc /\ head[w] # win[w]) =>
    tiles[win[w]] <= counter[win[w] % 2]
Counted(i)  ==
  /\ i < win[0] => \A t \in Tile : drained[i][t] \in {0, 1} /\ (t < tiles[i] => drained[i][t] = 1)
  /\ i >= win[0] /\ Opened(i) => Ledger(i)
  /\ ~ Opened(i) => \A t \in Tile : drained[i][t] = 0

Tickets ==
  /\ \A w \in Warp : Handed(w) /\ Finished(w)
  /\ \A i \in Window : Counted(i)

(* The tile a warp is owed in a slot of its ring.                          *)
Owed(w, r) ==
  IF r = n[w] % 2
  THEN IF HasOne(w) /\ Live(w, k[w]) THEN k[w] ELSE None
  ELSE IF HasTwo(w) /\ Live(w, knext[w]) THEN knext[w] ELSE None

Slotted(w, r) ==
  /\ \A m \in flight : m.warp = w /\ m.slot = r =>
       /\ Owed(w, r) # None /\ m.tile = <<head[w], Owed(w, r)>>
       /\ ring[w][r].phase = Uses(w, r)
  /\ Owed(w, r) = None => ring[w][r].phase = Uses(w, r)
  /\ Owed(w, r) # None /\ (\A m \in flight : <<m.warp, m.slot>> # <<w, r>>) =>
       ring[w][r].phase = Uses(w, r) + 1 /\ ring[w][r].tile = <<head[w], Owed(w, r)>>

(* A tile that is read is no longer on its way.                            *)
Come(w) == pc[w] = "tile" => \A m \in flight : <<m.warp, m.slot>> # <<w, n[w] % 2>>

Ringed == \A w \in Warp : Come(w) /\ \A r \in {0, 1} : Slotted(w, r)

Produced == (\A w \in Warp : Products(w)) /\ Made0

WindowInv == Typed /\ Places /\ Produced /\ Tickets /\ Ringed

---------------------------------------------------------------------------
LEMMA Sizes ==
  /\ Warps \in Nat \ {0} /\ Windows \in Nat \ {0} /\ MaxTiles \in Nat
  /\ 0 \in Warp /\ Warp \subseteq Nat /\ Window \subseteq Nat /\ Tile \subseteq Nat
  /\ \A i \in Nat : i < Windows => i \in Window
BY CarryWindowAssumption DEF Warp, Window, Tile

LEMMA Parity ==
  ASSUME NEW i \in Int
  PROVE  /\ i % 2 \in {0, 1} /\ (i + 1) % 2 \in {0, 1} /\ (i - 1) % 2 \in {0, 1}
         /\ (i + 1) % 2 # i % 2 /\ (i - 1) % 2 # i % 2
OBVIOUS

LEMMA MinterIsAWarp == ASSUME NEW t \in Nat  PROVE Minter(t) \in Warp
<1>1. Warps \in Nat \ {0} /\ t \div 2 \in Nat
  BY Sizes
<1>2. ASSUME NEW a \in Nat, NEW m \in Nat \ {0}  PROVE a % m \in 0 .. m - 1
  OBVIOUS
<1>. QED
  BY <1>1, <1>2 DEF Minter, Warp

---------------------------------------------------------------------------
LEMMA HeadFacts ==
  ASSUME Typed, NEW w \in Warp
  PROVE  /\ head[w] \in Window /\ head[w] \in Nat /\ head[w] < Windows /\ head[w] \in Made
         /\ head[w] + 1 < Windows => head[w] + 1 \in Made
         /\ head[w] % 2 \in {0, 1} /\ n[w] \in Nat /\ n[w] % 2 \in {0, 1} /\ (n[w] + 1) % 2 \in {0, 1}
<1>1. head[w] \in Window /\ n[w] \in Nat
  BY DEF Typed
<1>2. head[w] \in Nat /\ head[w] < Windows /\ Windows \in Nat
  BY <1>1, Sizes DEF Window
<1>3. head[w] \in Made /\ (head[w] + 1 < Windows => head[w] + 1 \in Made)
  BY <1>2 DEF Made, None
<1>4. head[w] % 2 \in {0, 1} /\ n[w] % 2 \in {0, 1} /\ (n[w] + 1) % 2 \in {0, 1}
  <2>1. head[w] \in Int /\ n[w] \in Int
    BY <1>1, <1>2
  <2>. QED
    BY <2>1, Parity
<1>. QED
  BY <1>1, <1>2, <1>3, <1>4

(* Every variable keeps its type.                                          *)
LEMMA HeadTyped ==
  ASSUME Typed, NEW w \in Warp,
         ResetCounter(w) \/ PassOne(w) \/ Scan(w) \/ Scatter(w) \/ Mint(w) \/ StageAhead(w)
  PROVE  Typed'
<1>1. /\ head[w] \in Window /\ head[w] \in Int /\ head[w] \in Made /\ head[w] % 2 \in {0, 1}
      /\ head[w] + 1 < Windows => head[w] + 1 \in Made
  BY HeadFacts
<1>2. CASE ResetCounter(w)
  BY <1>1, <1>2 DEF Typed, ResetCounter, Goto, fixed, headVars, readVars, CounterOf, Pc, HeadPc
<1>3. CASE PassOne(w)
  BY <1>1, <1>3 DEF Typed, PassOne, Goto, fixed, readVars, Pc, HeadPc
<1>4. CASE Scan(w)
  BY <1>1, <1>4 DEF Typed, Scan, Goto, fixed, readVars, Pc, HeadPc
<1>5. CASE Scatter(w)
  BY <1>1, <1>5 DEF Typed, Scatter, Goto, fixed, readVars, Pc, HeadPc
<1>6. CASE Mint(w)
  <2>1. {t \in 0 .. tiles[head[w]] - 1 : Minter(t) = w} \subseteq Tile
    <3>1. tiles[head[w]] \in 0 .. MaxTiles
      BY <1>1 DEF Typed
    <3>2. ASSUME NEW m \in 0 .. MaxTiles  PROVE 0 .. m - 1 \subseteq 0 .. MaxTiles - 1
      BY Sizes
    <3>. QED
      BY <3>1, <3>2 DEF Tile
  <2>2. pc' \in [Warp -> Pc]
    BY <1>6 DEF Typed, Mint, Goto, Pc, HeadPc
  <2>3. masks' \in [{0, 1} -> [Warp -> Made]]
    BY <1>1, <1>6 DEF Typed, Mint
  <2>4. boxes' \in [{0, 1} -> SUBSET Tile]
    BY <1>1, <1>6, <2>1 DEF Typed, Mint
  <2>. QED
    BY <1>6, <2>2, <2>3, <2>4 DEF Typed, Mint, fixed, readVars
<1>7. CASE StageAhead(w)
  <2>1. pc' \in [Warp -> Pc]
    BY <1>7 DEF Typed, StageAhead, Goto, Pc, HeadPc
  <2>2. words' \in [Warp -> Made]
    BY <1>1, <1>7 DEF Typed, StageAhead
  <2>3. landed' \in [Warp -> BOOLEAN]
    BY <1>7 DEF Typed, StageAhead
  <2>. QED
    BY <1>7, <2>1, <2>2, <2>3 DEF Typed, StageAhead, fixed, readVars
<1>. QED
  BY <1>2, <1>3, <1>4, <1>5, <1>6, <1>7

LEMMA ReadTyped ==
  ASSUME Typed, NEW w \in Warp, Placed(w), HasTwo(w) => Live(w, k[w]),
         Prime(w) \/ Begin(w) \/ Landed(w) \/ ReadTile(w)
  PROVE  Typed'
<1>1. /\ head[w] \in Window /\ head[w] \in Int /\ head[w] % 2 \in {0, 1}
      /\ n[w] \in Nat /\ n[w] % 2 \in {0, 1} /\ AheadSlot(w) \in {0, 1} /\ Taken(w) \in Nat
      /\ n[w] + 1 \in Nat
  <2>1. /\ head[w] \in Window /\ head[w] \in Int /\ head[w] % 2 \in {0, 1} /\ n[w] \in Nat
        /\ n[w] % 2 \in {0, 1} /\ (n[w] + 1) % 2 \in {0, 1}
    BY HeadFacts
  <2>2. counter \in [{0, 1} -> Nat]
    BY DEF Typed
  <2>3. Taken(w) \in Nat
    BY <2>1, <2>2 DEF Taken, CounterOf
  <2>4. AheadSlot(w) \in {0, 1}
    BY <2>1 DEF AheadSlot
  <2>5. n[w] + 1 \in Nat
    BY <2>1
  <2>. QED
    BY <2>1, <2>3, <2>4, <2>5
<1>2. ASSUME NEW r \in {0, 1}, Issue(w, r, Taken(w))  PROVE flight' \subseteq Copies
  BY <1>1, <1>2 DEF Issue, Typed, Copies
<1>3. ASSUME Take(w)  PROVE counter' \in [{0, 1} -> Nat]
  BY <1>1, <1>3 DEF Take, CounterOf, Typed
<1>4. ASSUME NEW x, pc' = [pc EXCEPT ![w] = x], x \in Pc  PROVE pc' \in [Warp -> Pc]
  BY <1>4 DEF Typed
<1>5. CASE Prime(w)
  <2>1. pc' \in [Warp -> Pc] /\ counter' \in [{0, 1} -> Nat] /\ flight' \subseteq Copies
    BY <1>1, <1>2, <1>3, <1>4, <1>5 DEF Prime, Goto, Pc
  <2>2. k' \in [Warp -> Nat]
    BY <1>1, <1>5 DEF Prime, Typed
  <2>. QED
    BY <1>5, <2>1, <2>2 DEF Typed, Prime, fixed, headVars
<1>6. CASE Begin(w)
  <2>1. pc' \in [Warp -> Pc] /\ counter' \in [{0, 1} -> Nat] /\ flight' \subseteq Copies
    BY <1>1, <1>2, <1>3, <1>4, <1>6 DEF Begin, Goto, Pc, ReadPc, Typed
  <2>2. knext' \in [Warp -> Nat]
    BY <1>1, <1>6 DEF Begin, Typed
  <2>. QED
    BY <1>6, <2>1, <2>2 DEF Typed, Begin, fixed, headVars
<1>7. CASE Landed(w)
  <2>1. pc' \in [Warp -> Pc]
    BY <1>4, <1>7 DEF Landed, Goto, Pc, ReadPc
  <2>. QED
    BY <1>7, <2>1 DEF Typed, Landed, fixed, headVars, readVars
<1>8. CASE ReadTile(w)
  <2>1. pc' \in [Warp -> Pc] /\ counter' \in [{0, 1} -> Nat] /\ flight' \subseteq Copies
    BY <1>1, <1>2, <1>3, <1>4, <1>8 DEF ReadTile, Goto, Pc, ReadPc, Typed
  <2>2. knext' \in [Warp -> Nat] /\ k' \in [Warp -> Nat] /\ n' \in [Warp -> Nat]
    <3>1. /\ knext' = knext \/ knext' = [knext EXCEPT ![w] = Taken(w)]
          /\ k' = [k EXCEPT ![w] = knext[w]] /\ n' = [n EXCEPT ![w] = @ + 1]
      BY <1>8 DEF ReadTile
    <3>2. knext \in [Warp -> Nat] /\ k \in [Warp -> Nat] /\ n \in [Warp -> Nat]
      BY DEF Typed
    <3>. QED
      BY <1>1, <3>1, <3>2
  <2>3. drained' \in [Window -> [Tile -> Nat]]
    <3>1. win[w] \in Window /\ k[w] \in Tile
      <4>1. pc[w] = "tile"
        BY <1>8 DEF ReadTile
      <4>2. win[w] = head[w] /\ Live(w, k[w])
        BY <4>1 DEF Placed, ReadPc, HasTwo
      <4>3. k[w] \in Nat /\ tiles[head[w]] \in 0 .. MaxTiles
        BY <1>1 DEF Typed
      <4>. QED
        BY <1>1, <4>2, <4>3, Sizes DEF Live, Tile
    <3>. QED
      BY <1>8, <3>1 DEF ReadTile, Typed
  <2>. QED
    BY <1>8, <2>1, <2>2, <2>3 DEF Typed, ReadTile, fixed, headVars
<1>. QED
  BY <1>5, <1>6, <1>7, <1>8

LEMMA LoopTyped ==
  ASSUME Typed, NEW w \in Warp, Placed(w),
         Snapshot(w) \/ NextHead(w) \/ Fold(w)
  PROVE  Typed'
<1>1. CASE Snapshot(w)
  <2>1. pc' \in [Warp -> Pc] /\ landed' \in [Warp -> BOOLEAN]
    BY <1>1 DEF Snapshot, Goto, Typed, Pc
  <2>2. snap' \in [Warp -> [Tile -> None .. Windows]]
    <3>1. folded[w] \in None .. Windows
      BY <1>1, Sizes DEF Snapshot, Placed, Typed, None
    <3>2. [b \in Tile |-> IF b \in boxes[win[w] % 2] THEN folded[w] ELSE snap[w][b]]
             \in [Tile -> None .. Windows]
      BY <3>1 DEF Typed
    <3>. QED
      BY <1>1, <3>2 DEF Snapshot, Typed
  <2>. QED
    BY <1>1, <2>1, <2>2 DEF Snapshot, Typed, fixed, headVars, readVars
<1>2. CASE NextHead(w)
  <2>1. head' \in [Warp -> Window]
    BY <1>2, Sizes DEF NextHead, Typed
  <2>2. pc' \in [Warp -> Pc]
    BY <1>2 DEF NextHead, Goto, Typed, Pc, HeadPc
  <2>. QED
    BY <1>2, <2>1, <2>2 DEF NextHead, Typed, fixed, headVars, readVars
<1>3. CASE Fold(w)
  BY <1>3 DEF Fold, Goto, Typed, fixed, headVars, readVars, Pc
<1>. QED
  BY <1>1, <1>2, <1>3

LEMMA BlockTyped ==
  ASSUME Typed, (\E at \in DOMAIN After : Barrier(at)) \/ Close \/ (\E m \in flight : Land(m))
                \/ UNCHANGED vars
  PROVE  Typed'
<1>1. ASSUME NEW at \in DOMAIN After, Barrier(at)  PROVE Typed'
  <2>1. After[at] \in Pc
    BY DEF After, Pc, HeadPc, ReadPc
  <2>. QED
    BY <1>1, <2>1 DEF Barrier, Typed, fixed, headVars, readVars
<1>2. CASE Close
  BY <1>2 DEF Close, OnToWindow, Typed, headVars, readVars, Pc
<1>3. ASSUME NEW m \in flight, Land(m)  PROVE Typed'
  <2>1. m.warp \in Warp /\ m.slot \in {0, 1} /\ m.tile \in Window \X Nat
    BY DEF Typed, Copies
  <2>2. ring' \in [Warp -> [{0, 1} -> Tag]]
    <3>1. [phase |-> ring[m.warp][m.slot].phase + 1, tile |-> m.tile] \in Tag
      BY <2>1 DEF Typed, Tag
    <3>. QED
      BY <1>3, <2>1, <3>1 DEF Land, Typed
  <2>. QED
    BY <1>3, <2>2 DEF Land, Typed, fixed, headVars
<1>4. CASE UNCHANGED vars
  BY <1>4 DEF vars, Typed
<1>. QED
  BY <1>1, <1>2, <1>3, <1>4

---------------------------------------------------------------------------
(* A step of one warp leaves what is another's alone.                      *)
Still(v) ==
  /\ pc'[v] = pc[v] /\ win'[v] = win[v] /\ head'[v] = head[v]
  /\ words'[v] = words[v] /\ landed'[v] = landed[v] /\ counts'[v] = counts[v]
  /\ \A p \in {0, 1} : order'[p][v] = order[p][v] /\ masks'[p][v] = masks[p][v]
  /\ k'[v] = k[v] /\ knext'[v] = knext[v] /\ n'[v] = n[v] /\ ring'[v] = ring[v]
  /\ snap'[v] = snap[v] /\ folded'[v] = folded[v]

LEMMA OthersStill ==
  ASSUME Typed, NEW w \in Warp, WarpStep(w), NEW v \in Warp, v # w
  PROVE  Still(v) /\ win' = win /\ tiles' = tiles
<1>1. CASE ResetCounter(w)
  BY <1>1 DEF Typed, Still, ResetCounter, Goto, fixed, headVars, readVars
<1>2. CASE PassOne(w)
  BY <1>2 DEF Typed, Still, PassOne, Goto, fixed, readVars
<1>3. CASE Scan(w)
  BY <1>3 DEF Typed, Still, Scan, Goto, fixed, readVars
<1>4. CASE Scatter(w)
  BY <1>4 DEF Typed, Still, Scatter, Goto, fixed, readVars
<1>5. CASE Mint(w)
  BY <1>5 DEF Typed, Still, Mint, Goto, fixed, readVars
<1>6. CASE StageAhead(w)
  BY <1>6 DEF Typed, Still, StageAhead, Goto, fixed, readVars
<1>7. CASE Prime(w)
  BY <1>7 DEF Typed, Still, Prime, Goto, fixed, headVars
<1>8. CASE Snapshot(w)
  BY <1>8 DEF Typed, Still, Snapshot, Goto, fixed, headVars, readVars
<1>9. CASE Begin(w)
  BY <1>9 DEF Typed, Still, Begin, Goto, fixed, headVars
<1>10. CASE Landed(w)
  BY <1>10 DEF Typed, Still, Landed, Goto, fixed, headVars, readVars
<1>11. CASE ReadTile(w)
  BY <1>11 DEF Typed, Still, ReadTile, Goto, fixed, headVars
<1>12. CASE NextHead(w)
  BY <1>12 DEF Typed, Still, NextHead, Goto, fixed, headVars, readVars
<1>13. CASE Fold(w)
  BY <1>13 DEF Typed, Still, Fold, Goto, fixed, headVars, readVars
<1>. QED
  BY <1>1, <1>2, <1>3, <1>4, <1>5, <1>6, <1>7, <1>8, <1>9, <1>10, <1>11, <1>12, <1>13 DEF WarpStep

(* Where a warp goes, and in which segment that is.                        *)
LEMMA OwnSegment ==
  ASSUME Typed, NEW w \in Warp, Placed(w), WarpStep(w)
  PROVE  Placed(w)' /\ Segment(w)' = Segment(w) /\ win' = win
<1>0. /\ head[w] \in Nat /\ head[w] < Windows /\ win[w] \in Nat /\ Windows \in Nat \ {0}
      /\ pc \in [Warp -> Pc] /\ head \in [Warp -> Window] /\ folded \in [Warp -> Nat]
  BY HeadFacts, Sizes DEF Typed
<1>1. CASE ResetCounter(w)
  BY <1>0, <1>1 DEF ResetCounter, Goto, fixed, Placed, Segment, Ahead, HeadPc, ReadPc
<1>2. CASE PassOne(w)
  BY <1>0, <1>2 DEF PassOne, Goto, fixed, Placed, Segment, Ahead, HeadPc, ReadPc
<1>3. CASE Scan(w)
  BY <1>0, <1>3 DEF Scan, Goto, fixed, Placed, Segment, Ahead, HeadPc, ReadPc
<1>4. CASE Scatter(w)
  BY <1>0, <1>4 DEF Scatter, Goto, fixed, Placed, Segment, Ahead, HeadPc, ReadPc
<1>5. CASE Mint(w)
  BY <1>0, <1>5 DEF Mint, Goto, fixed, Placed, Segment, Ahead, HeadPc, ReadPc
<1>6. CASE StageAhead(w)
  BY <1>0, <1>6 DEF StageAhead, Goto, fixed, Placed, Segment, Ahead, HeadPc, ReadPc
<1>7. CASE Prime(w)
  BY <1>0, <1>7 DEF Prime, Goto, fixed, Placed, Segment, Ahead, HeadPc, ReadPc
<1>8. CASE Snapshot(w)
  BY <1>0, <1>8 DEF Snapshot, Goto, fixed, Placed, Segment, Ahead, HeadPc, ReadPc
<1>9. CASE Begin(w)
  BY <1>0, <1>9 DEF Begin, Goto, fixed, Placed, Segment, Ahead, HeadPc, ReadPc
<1>10. CASE Landed(w)
  BY <1>0, <1>10 DEF Landed, Goto, fixed, Placed, Segment, Ahead, HeadPc, ReadPc
<1>11. CASE ReadTile(w)
  BY <1>0, <1>11 DEF ReadTile, Goto, fixed, Placed, Segment, Ahead, HeadPc, ReadPc
<1>12. CASE NextHead(w)
  BY <1>0, <1>12 DEF NextHead, Goto, fixed, Placed, Segment, Ahead, HeadPc, ReadPc
<1>13. CASE Fold(w)
  BY <1>0, <1>13 DEF Fold, Goto, fixed, Placed, Segment, Ahead, HeadPc, ReadPc
<1>. QED
  BY <1>1, <1>2, <1>3, <1>4, <1>5, <1>6, <1>7, <1>8, <1>9, <1>10, <1>11, <1>12, <1>13 DEF WarpStep

LEMMA WarpPlaces ==
  ASSUME Typed, Places, NEW w \in Warp, WarpStep(w)
  PROVE  Places'
<1>1. Placed(w)' /\ Segment(w)' = Segment(w) /\ win' = win
  BY OwnSegment DEF Places
<1>2. ASSUME NEW v \in Warp, v # w  PROVE Placed(v)' /\ Segment(v)' = Segment(v)
  <2>1. Still(v)
    BY <1>2, OthersStill
  <2>2. Placed(v)
    BY DEF Places
  <2>3. Placed(v)'
    BY <2>1, <2>2 DEF Placed, Ahead, Still
  <2>4. Segment(v)' = Segment(v)
    BY <2>1 DEF Segment, Ahead, Still
  <2>. QED
    BY <2>3, <2>4
<1>3. \A v \in Warp : Placed(v)' /\ Segment(v)' = Segment(v)
  BY <1>1, <1>2
<1>4. Together'
  BY <1>1, <1>3 DEF Places, Together
<1>. QED
  BY <1>3, <1>4 DEF Places

(* Warps at one barrier are behind the same head.                          *)
LEMMA SameHead ==
  ASSUME Typed, Places, NEW v \in Warp, NEW w \in Warp, pc[v] = pc[w]
  PROVE  head[v] = head[w] \/ pc[v] = "exit"
<1>1. /\ Placed(v) /\ Placed(w) /\ win[v] = win[w] /\ Segment(v) = Segment(w)
      /\ win[v] \in Nat /\ head[v] \in Nat /\ head[w] \in Nat /\ pc[v] \in Pc
  BY HeadFacts DEF Places, Together, Typed
<1>2. CASE pc[v] \in HeadPc
  BY <1>1, <1>2 DEF Placed, Segment, HeadPc
<1>3. CASE pc[v] \notin HeadPc
  BY <1>1, <1>3 DEF Placed, Ahead, Pc
<1>. QED
  BY <1>2, <1>3

LEMMA BlockPlaces ==
  ASSUME Typed, Places, (\E at \in DOMAIN After : Barrier(at)) \/ Close \/ (\E m \in flight : Land(m))
                \/ UNCHANGED vars
  PROVE  Places'
<1>1. ASSUME NEW at \in DOMAIN After, Barrier(at)  PROVE Places'
  <2>1. /\ win' = win /\ head' = head /\ folded' = folded /\ \A v \in Warp : pc[v] = at /\ pc'[v] = After[at]
        /\ at \in {"counts", "scanned", "order", "edge"}
    BY <1>1 DEF Barrier, fixed, After
  <2>2. ASSUME NEW v \in Warp  PROVE Placed(v)'
    <3>1. Placed(v) /\ win[v] \in Nat /\ head[v] \in Nat
      BY HeadFacts DEF Places, Typed
    <3>. QED
      BY <2>1, <3>1 DEF Placed, After, HeadPc, ReadPc, Ahead
  <2>3. ASSUME NEW v \in Warp, NEW w \in Warp  PROVE win'[v] = win'[w] /\ Segment(v)' = Segment(w)'
    <3>1. win[v] = win[w] /\ head[v] = head[w]
      BY <2>1, SameHead DEF Places, Together
    <3>. QED
      BY <2>1, <3>1 DEF Segment, After, ReadPc, Ahead
  <2>. QED
    BY <2>2, <2>3 DEF Places, Together
<1>2. CASE Close
  <2>1. /\ head' = head /\ folded' = folded
        /\ \A v \in Warp : pc[v] = "close" /\ pc'[v] = OnToWindow(v) /\ win'[v] = win[v] + 1
    BY <1>2 DEF Close
  <2>2. ASSUME NEW v \in Warp  PROVE Placed(v)'
    <3>1. Placed(v) /\ win[v] \in Nat /\ head[v] \in Nat /\ Windows \in Nat
      BY HeadFacts, Sizes DEF Places, Typed
    <3>. QED
      BY <2>1, <3>1 DEF Placed, OnToWindow, HeadPc, ReadPc, Ahead
  <2>3. ASSUME NEW v \in Warp, NEW w \in Warp  PROVE win'[v] = win'[w] /\ Segment(v)' = Segment(w)'
    <3>1. win[v] = win[w] /\ head[v] = head[w] /\ win[v] \in Nat
      BY <2>1, SameHead DEF Places, Together, Typed
    <3>. QED
      BY <2>1, <3>1 DEF Segment, OnToWindow, ReadPc, Ahead
  <2>. QED
    BY <2>2, <2>3 DEF Places, Together
<1>3. CASE (\E m \in flight : Land(m)) \/ UNCHANGED vars
  <2>1. win' = win /\ head' = head /\ folded' = folded /\ pc' = pc
    BY <1>3 DEF Land, fixed, vars
  <2>2. ASSUME NEW v \in Warp  PROVE Placed(v)' /\ Segment(v)' = Segment(v)
    <3>1. Placed(v)
      BY DEF Places
    <3>2. Placed(v)'
      BY <2>1, <3>1 DEF Placed, Ahead
    <3>3. Segment(v)' = Segment(v)
      BY <2>1 DEF Segment, Ahead
    <3>. QED
      BY <3>2, <3>3
  <2>3. Together'
    BY <2>1, <2>2 DEF Places, Together
  <2>. QED
    BY <2>2, <2>3 DEF Places
<1>. QED
  BY <1>1, <1>2, <1>3

---------------------------------------------------------------------------
(* What the warps have made.                                               *)
LEMMA Abreast ==
  ASSUME Typed, Places, NEW v \in Warp, NEW w \in Warp
  PROVE  /\ Placed(v) /\ Placed(w) /\ win[v] = win[w] /\ Segment(v) = Segment(w)
         /\ win[v] \in Nat /\ head[v] \in Nat /\ head[w] \in Nat /\ pc[v] \in Pc /\ pc[w] \in Pc
         /\ head[v] < Windows /\ head[w] < Windows /\ Windows \in Nat \ {0}
<1>1. head[v] \in Nat /\ head[w] \in Nat /\ head[v] < Windows /\ head[w] < Windows
  BY HeadFacts
<1>2. Placed(v) /\ Placed(w) /\ win[v] = win[w] /\ Segment(v) = Segment(w)
  BY DEF Places, Together
<1>3. win[v] \in Nat /\ pc[v] \in Pc /\ pc[w] \in Pc
  BY DEF Typed
<1>. QED
  BY <1>1, <1>2, <1>3, Sizes

(* A warp that is to clear the boxes of its head finds every warp past the *)
(* masks of the head before, and none further.                             *)
LEMMA MintedBehind ==
  ASSUME Typed, Places, NEW v \in Warp, NEW w \in Warp, pc[w] = "one"
  PROVE  Minted(v) = head[w] - 1
<1>1. /\ Placed(v) /\ Placed(w) /\ win[v] = win[w] /\ Segment(v) = Segment(w)
      /\ win[v] \in Nat /\ head[v] \in Nat /\ head[w] \in Nat /\ pc[v] \in Pc
      /\ head[w] < Windows /\ Windows \in Nat
  BY Abreast
<1>2. Segment(w) = IF head[w] = 0 THEN 0 ELSE 5
  BY DEF Segment, ReadPc
<1>3. CASE pc[v] \in HeadPc
  BY <1>1, <1>2, <1>3 DEF Placed, Segment, Minted, HeadPc, ReadPc
<1>4. CASE pc[v] \notin HeadPc
  BY <1>1, <1>2, <1>4 DEF Placed, Segment, Minted, Ahead, HeadPc, ReadPc, Pc
<1>. QED
  BY <1>3, <1>4

(* A warp that publishes a later window's snapshot finds the masks made.   *)
LEMMA MintedForSnapshot ==
  ASSUME Typed, Places, NEW v \in Warp, NEW w \in Warp, pc[w] = "snap", win[w] > 0
  PROVE  Minted(v) = win[w]
<1>1. /\ Placed(v) /\ Placed(w) /\ win[v] = win[w] /\ Segment(v) = Segment(w)
      /\ win[v] \in Nat /\ head[v] \in Nat /\ head[w] \in Nat /\ pc[v] \in Pc
  BY Abreast
<1>2. Segment(w) = 4
  BY <1>1 DEF Segment, ReadPc
<1>3. pc[v] \in {"snap", "edge"}
  BY <1>1, <1>2 DEF Segment, HeadPc, ReadPc, Pc
<1>. QED
  BY <1>1, <1>3 DEF Placed, Minted, HeadPc

LEMMA OthersProducts ==
  ASSUME Typed, Places, NEW v \in Warp, NEW w \in Warp, v # w, WarpStep(w), Products(v)
  PROVE  Products(v)'
<1>1. Still(v) /\ tiles' = tiles
  BY OthersStill
<1>2. /\ Scattered(v)' = Scattered(v) /\ Minted(v)' = Minted(v) /\ Minted(v) \in Int
      /\ Scattered(v) \in Int
  BY <1>1, HeadFacts DEF Still, Scattered, Minted
<1>3. Scattered(v) % 2 \in {0, 1} /\ Minted(v) % 2 \in {0, 1}
  BY <1>2, Parity
<1>4. ASSUME NEW t \in Tile, Minted(v) >= 0, t \in boxes[Minted(v) % 2]
      PROVE  t \in boxes'[Minted(v) % 2]
  <2>1. CASE PassOne(w)
    <3>1. Minted(v) = head[w] - 1 /\ head[w] \in Int
      BY <2>1, MintedBehind, HeadFacts DEF PassOne
    <3>2. Minted(v) % 2 # head[w] % 2
      BY <3>1, Parity
    <3>. QED
      BY <1>3, <1>4, <2>1, <3>2 DEF PassOne, Typed
  <2>2. CASE Mint(w)
    BY <1>3, <1>4, <2>2 DEF Mint, Typed
  <2>3. CASE ~ PassOne(w) /\ ~ Mint(w)
    BY <1>4, <2>3 DEF WarpStep, ResetCounter, Scan, Scatter, StageAhead, Prime, Snapshot, Begin,
                      Landed, ReadTile, NextHead, Fold, headVars
  <2>. QED
    BY <2>1, <2>2, <2>3
<1>. QED
  BY <1>1, <1>2, <1>3, <1>4 DEF Still, Products

LEMMA HeadProducts ==
  ASSUME Typed, Typed', Places, NEW w \in Warp, Products(w),
         ResetCounter(w) \/ PassOne(w) \/ Scan(w) \/ Scatter(w) \/ Mint(w) \/ StageAhead(w)
  PROVE  Products(w)'
<1>1. /\ head[w] \in Window /\ head[w] \in Nat /\ head[w] < Windows /\ head[w] % 2 \in {0, 1}
      /\ head[w] - 1 \in Int /\ (head[w] - 1) % 2 \in {0, 1} /\ (head[w] - 1) % 2 # head[w] % 2
      /\ win[w] \in Nat
  <2>1. head[w] \in Window /\ head[w] \in Nat /\ head[w] < Windows /\ head[w] \in Int /\ head[w] - 1 \in Int
    BY HeadFacts
  <2>. QED
    BY <2>1, Parity DEF Typed
<1>2. CASE ResetCounter(w)
  BY <1>1, <1>2 DEF Typed, Products, Scattered, Minted, HeadPc, ResetCounter, Goto, fixed, headVars,
                    readVars
<1>3. CASE PassOne(w)
  BY <1>1, <1>3 DEF Typed, Products, Scattered, Minted, HeadPc, PassOne, Goto, fixed, readVars
<1>4. CASE Scan(w)
  BY <1>1, <1>4 DEF Typed, Products, Scattered, Minted, HeadPc, Scan, Goto, fixed, readVars
<1>5. CASE Scatter(w)
  BY <1>1, <1>5 DEF Typed, Products, Scattered, Minted, HeadPc, Scatter, Goto, fixed, readVars
<1>6. CASE Mint(w)
  <2>1. /\ pc'[w] = "ahead" /\ pc[w] = "mint" /\ Minted(w)' = head[w] /\ Scattered(w)' = head[w]
        /\ head' = head /\ win' = win /\ words' = words /\ landed' = landed /\ counts' = counts
        /\ order' = order /\ snap' = snap /\ tiles' = tiles
    BY <1>6 DEF Mint, Goto, fixed, readVars, Typed, Minted, Scattered, HeadPc
  <2>2. masks'[head[w] % 2][w] = head[w]
    <3>1. masks' = [masks EXCEPT ![head[w] % 2][w] = head[w]]
      BY <1>6 DEF Mint
    <3>. QED
      BY <1>1, <3>1 DEF Typed
  <2>3. ASSUME NEW t \in Tile, t < tiles[head[w]], Minter(t) = w  PROVE t \in boxes'[head[w] % 2]
    <3>1. t \in 0 .. tiles[head[w]] - 1
      <4>1. t \in Nat /\ tiles[head[w]] \in Nat
        BY <1>1, Sizes DEF Typed
      <4>. QED
        BY <2>3, <4>1
    <3>. QED
      BY <1>1, <1>6, <2>3, <3>1 DEF Mint, Typed
  <2>. QED
    BY <1>1, <2>1, <2>2, <2>3 DEF Products, Scattered, HeadPc
<1>7. CASE StageAhead(w)
  BY <1>1, <1>7 DEF Typed, Products, Scattered, Minted, HeadPc, StageAhead, Goto, fixed, readVars
<1>. QED
  BY <1>2, <1>3, <1>4, <1>5, <1>6, <1>7

LEMMA LoopProducts ==
  ASSUME Typed, Typed', Places, Produced, NEW w \in Warp,
         Prime(w) \/ Snapshot(w) \/ Begin(w) \/ Landed(w) \/ ReadTile(w) \/ NextHead(w) \/ Fold(w)
  PROVE  Products(w)'
<1>1. /\ head[w] \in Window /\ head[w] \in Nat /\ head[w] < Windows /\ win[w] \in Nat
      /\ Products(w) /\ Placed(w)
  BY HeadFacts DEF Typed, Produced, Places
<1>2. CASE Prime(w) \/ Begin(w) \/ Landed(w) \/ ReadTile(w)
  <2>1. pc \in [Warp -> Pc]
    BY DEF Typed
  <2>2. /\ UNCHANGED <<tiles, win, head, words, landed, counts, order, masks, boxes, snap>>
        /\ \/ pc[w] = "prime" /\ pc'[w] = IF head[w] = 0 THEN "snap" ELSE "fold"
           \/ pc[w] \in {"begin", "read", "tile"} /\ pc'[w] \in {"read", "tile", "after"}
    BY <1>2, <2>1 DEF Prime, Begin, Landed, ReadTile, Goto, fixed, headVars, readVars
  <2>3. CASE pc[w] = "prime"
    BY <1>1, <2>2, <2>3 DEF Products, Placed, Scattered, Minted, HeadPc
  <2>4. CASE pc[w] \in {"begin", "read", "tile"}
    BY <1>1, <2>2, <2>4 DEF Products, Scattered, Minted, HeadPc
  <2>. QED
    BY <2>2, <2>3, <2>4
<1>3. CASE Snapshot(w)
  <2>1. /\ pc[w] = "snap" /\ pc'[w] = "edge" /\ head' = head /\ win' = win /\ words' = words /\ landed'[w]
        /\ order' = order /\ masks' = masks /\ boxes' = boxes /\ tiles' = tiles /\ counts' = counts
    BY <1>3 DEF Snapshot, Goto, Typed, fixed, headVars
  <2>2. ASSUME win[w] > 0, NEW t \in Tile, t < tiles[win[w]]  PROVE snap'[w][t] = win[w]
    <3>1. Minter(t) \in Warp
      BY MinterIsAWarp, Sizes
    <3>2. Minted(Minter(t)) = win[w]
      BY <2>1, <2>2, <3>1, MintedForSnapshot
    <3>3. t \in boxes[win[w] % 2]
      BY <1>1, <2>2, <3>1, <3>2 DEF Produced, Products
    <3>4. folded[w] = win[w] /\ win[w] \in Window
      BY <1>1, <2>1 DEF Placed
    <3>5. tiles[win[w]] # 0 /\ t \in Nat
      BY <2>2, <3>4, Sizes DEF Typed
    <3>. QED
      BY <1>3, <3>3, <3>4, <3>5 DEF Snapshot, Typed
  <2>3. /\ Scattered(w)' = Scattered(w) /\ Minted(w)' = Minted(w)
        /\ pc[w] \notin HeadPc /\ pc'[w] \notin HeadPc /\ pc'[w] \notin {"snap", "counts", "scan", "scanned"}
    BY <2>1 DEF Scattered, Minted, HeadPc
  <2>. QED
    BY <1>1, <2>1, <2>2, <2>3 DEF Products
<1>4. CASE NextHead(w)
  <2>1. /\ pc[w] = "after" /\ head[w] = win[w]
        /\ UNCHANGED <<tiles, win, words, landed, counts, order, masks, boxes, snap>>
    BY <1>1, <1>4 DEF NextHead, Placed, ReadPc, fixed, headVars
  <2>2. CASE win[w] + 1 < Windows
    <3>1. pc'[w] = "reset" /\ head'[w] = win[w] + 1
      BY <1>4, <2>2 DEF NextHead, Goto, Typed
    <3>2. head'[w] - 1 = head[w]
      BY <1>1, <2>1, <3>1
    <3>3. Scattered(w) = head[w] /\ Scattered(w)' = head[w] /\ Minted(w) = head[w] /\ Minted(w)' = head[w]
      BY <2>1, <3>1, <3>2 DEF Scattered, Minted, HeadPc
    <3>. QED
      BY <1>1, <2>1, <2>2, <3>1, <3>3 DEF Products, HeadPc
  <2>3. CASE ~ (win[w] + 1 < Windows)
    <3>1. pc'[w] = "fold" /\ head' = head
      BY <1>4, <2>3 DEF NextHead, Goto, Typed
    <3>. QED
      BY <1>1, <2>1, <3>1 DEF Products, Scattered, Minted, HeadPc
  <2>. QED
    BY <2>2, <2>3
<1>5. CASE Fold(w)
  BY <1>1, <1>5 DEF Typed, Products, Placed, Scattered, Minted, HeadPc, Fold, Goto, fixed, headVars,
                    readVars
<1>. QED
  BY <1>2, <1>3, <1>4, <1>5

LEMMA WarpProduced ==
  ASSUME Typed, Typed', Places, Produced, NEW w \in Warp, WarpStep(w)
  PROVE  Produced'
<1>1. Products(w)'
  BY HeadProducts, LoopProducts DEF WarpStep, Produced
<1>2. ASSUME NEW v \in Warp, v # w  PROVE Products(v)'
  BY <1>2, OthersProducts DEF Produced
<1>3. Made0'
  <2>1. 0 \in Warp /\ Made0
    BY Sizes DEF Produced
  <2>2. CASE w = 0
    <3>1. CASE Scan(0)
      BY <2>1, <3>1 DEF Scan, Made0, Typed, Goto, fixed
    <3>2. CASE Scatter(0)
      BY <2>1, <3>2 DEF Scatter, Made0, Typed, Goto, fixed
    <3>3. CASE ~ (Scan(0) \/ Scatter(0))
      <4>1. pc'[0] \notin {"scanned", "scatter", "order"}
        BY <2>1, <2>2, <3>3 DEF WarpStep, Typed, ResetCounter, PassOne, Mint, StageAhead, Prime,
              Snapshot, Begin, Landed, ReadTile, NextHead, Fold, Goto
      <4>. QED
        BY <4>1 DEF Made0
    <3>. QED
      BY <3>1, <3>2, <3>3
  <2>3. CASE w # 0
    <3>1. Still(0)
      BY <2>1, <2>3, OthersStill
    <3>2. bases' = bases
      BY <2>3 DEF WarpStep, ResetCounter, PassOne, Scan, Scatter, Mint, StageAhead, Prime,
          Snapshot, Begin, Landed, ReadTile, NextHead, Fold, headVars
    <3>. QED
      BY <2>1, <3>1, <3>2 DEF Made0, Still
  <2>. QED
    BY <2>2, <2>3
<1>. QED
  BY <1>1, <1>2, <1>3 DEF Produced

LEMMA BlockProduced ==
  ASSUME Typed, Places, Produced,
         (\E at \in DOMAIN After : Barrier(at)) \/ Close \/ (\E m \in flight : Land(m))
                \/ UNCHANGED vars
  PROVE  Produced'
<1>0. 0 \in Warp
  BY Sizes
<1>1. ASSUME NEW at \in DOMAIN After, Barrier(at)  PROVE Produced'
  <2>1. /\ UNCHANGED <<tiles, win, head, words, landed, counts, bases, order, masks, boxes, snap>>
        /\ \A v \in Warp : pc[v] = at /\ pc'[v] = After[at]
        /\ at \in {"counts", "scanned", "order", "edge"}
    BY <1>1 DEF Barrier, fixed, headVars, After
  <2>2. ASSUME NEW v \in Warp  PROVE Products(v)'
    <3>1. Products(v)
      BY DEF Produced
    <3>2. <<pc[v], pc'[v]>> \in {<<"counts", "scan">>, <<"scanned", "scatter">>,
                                <<"order", "mint">>, <<"edge", "begin">>}
      BY <2>1 DEF After
    <3>3. Scattered(v)' = Scattered(v) /\ Minted(v)' = Minted(v)
      BY <2>1, <3>2 DEF Scattered, Minted, HeadPc
    <3>. QED
      BY <2>1, <3>1, <3>2, <3>3 DEF Products, HeadPc
  <2>3. Made0'
    <3>1. Made0 /\ pc[0] = at /\ pc'[0] = After[at] /\ bases' = bases /\ head'[0] = head[0]
      BY <1>0, <2>1 DEF Produced
    <3>2. After[at] \in {"scanned", "scatter", "order"} => at = "scanned"
      BY <2>1 DEF After
    <3>. QED
      BY <3>1, <3>2 DEF Made0
  <2>. QED
    BY <2>2, <2>3 DEF Produced
<1>2. CASE Close
  <2>1. /\ UNCHANGED <<tiles, head, words, landed, counts, bases, order, masks, boxes, snap>>
        /\ \A v \in Warp : pc[v] = "close" /\ pc'[v] \in {"snap", "exit"}
    BY <1>2 DEF Close, OnToWindow, headVars
  <2>2. ASSUME NEW v \in Warp  PROVE Products(v)'
    <3>1. Products(v)
      BY DEF Produced
    <3>. QED
      BY <2>1, <3>1 DEF Products, Scattered, Minted, HeadPc
  <2>3. Made0'
    BY <1>0, <2>1 DEF Made0
  <2>. QED
    BY <2>2, <2>3 DEF Produced
<1>3. CASE (\E m \in flight : Land(m)) \/ UNCHANGED vars
  <2>1. UNCHANGED <<tiles, pc, win, head, words, landed, counts, bases, order, masks, boxes, snap>>
    BY <1>3 DEF Land, fixed, headVars, vars
  <2>2. ASSUME NEW v \in Warp  PROVE Products(v)'
    <3>1. Products(v)
      BY DEF Produced
    <3>. QED
      BY <2>1, <3>1 DEF Products, Scattered, Minted
  <2>. QED
    BY <2>1, <2>2 DEF Produced, Made0
<1>. QED
  BY <1>1, <1>2, <1>3

---------------------------------------------------------------------------
(* The ledger of a window.  A warp may take the next ticket, and may give  *)
(* one up if it has read the tile or there is none.                        *)
LEMMA HoldsOnlyTwo ==
  ASSUME NEW w \in Warp, NEW i, NEW t, Holds(w, i, t)
  PROVE  t \in {k[w], knext[w]}
BY DEF Holds

LEMMA LedgerMoves ==
  ASSUME Typed, Typed', NEW i \in Window, NEW w \in Warp, Ledger(i), tiles' = tiles,
         \A v \in Warp, t \in Nat : v # w => (Holds(v, i, t)' <=> Holds(v, i, t)),
         NEW CONSTANT c \in Nat, NEW CONSTANT d \in Nat, c = counter[i % 2], d = counter'[i % 2],
         d = c \/ (d = c + 1 /\ Holds(w, i, c)'),
         \A t \in Nat : Holds(w, i, t)' => Holds(w, i, t) \/ (t = c /\ d = c + 1),
         \A t \in Tile :
           drained'[i][t] = IF Holds(w, i, t) /\ ~ Holds(w, i, t)' /\ t < tiles[i]
                            THEN drained[i][t] + 1 ELSE drained[i][t]
  PROVE  Ledger(i)'
<1>1. c \in Nat /\ (d = c \/ d = c + 1)
  OBVIOUS
<1>2. \A v \in Warp : k[v] \in Nat /\ knext[v] \in Nat /\ k'[v] \in Nat /\ knext'[v] \in Nat
  BY DEF Typed
<1>3. /\ \A v \in Warp, t \in Nat : Holds(v, i, t) => t < c
      /\ \A v, u \in Warp, t \in Nat : Holds(v, i, t) /\ Holds(u, i, t) => v = u
  BY HoldsOnlyTwo DEF Ledger
<1>4. d = c + 1 => Holds(w, i, c)'
  OBVIOUS
<1>5. \A t \in Nat : Holds(w, i, t)' => Holds(w, i, t) \/ (t = c /\ d = c + 1)
  OBVIOUS
<1>6. \A t \in Tile : t \in Nat /\ drained[i][t] \in {0, 1}
        /\ (drained[i][t] = 1 => t < c /\ \A v \in Warp : ~ Holds(v, i, t))
        /\ (t < c /\ t < tiles[i] /\ (\A v \in Warp : ~ Holds(v, i, t)) => drained[i][t] = 1)
  BY Sizes DEF Ledger
<1>7. ASSUME NEW v \in Warp, NEW t \in Nat, Holds(v, i, t)'  PROVE t < d
  <2>1. CASE v = w
    BY <1>1, <1>3, <1>5, <1>7, <2>1
  <2>2. CASE v # w
    BY <1>1, <1>3, <1>7, <2>2
  <2>. QED
    BY <2>1, <2>2
<1>8. ASSUME NEW v \in Warp, NEW u \in Warp, NEW t \in Nat, v # u, Holds(v, i, t)', Holds(u, i, t)'
      PROVE  FALSE
  <2>1. CASE v # w /\ u # w
    BY <1>3, <1>8, <2>1
  <2>2. CASE v = w
    <3>1. Holds(u, i, t) /\ t < c
      BY <1>3, <1>8, <2>2
    <3>2. Holds(w, i, t)
      BY <1>1, <1>5, <1>8, <2>2, <3>1
    <3>. QED
      BY <1>3, <1>8, <2>2, <3>1, <3>2
  <2>3. CASE u = w
    <3>1. Holds(v, i, t) /\ t < c
      BY <1>3, <1>8, <2>3
    <3>2. Holds(w, i, t)
      BY <1>1, <1>5, <1>8, <2>3, <3>1
    <3>. QED
      BY <1>3, <1>8, <2>3, <3>1, <3>2
  <2>. QED
    BY <2>1, <2>2, <2>3
<1>9. ASSUME NEW t \in Tile
      PROVE  /\ drained'[i][t] \in {0, 1}
             /\ drained'[i][t] = 1 => t < d /\ \A v \in Warp : ~ Holds(v, i, t)'
             /\ t < d /\ t < tiles[i] /\ (\A v \in Warp : ~ Holds(v, i, t)') => drained'[i][t] = 1
  <2>1. CASE Holds(w, i, t) /\ ~ Holds(w, i, t)' /\ t < tiles[i]
    <3>1. drained[i][t] = 0 /\ drained'[i][t] = 1 /\ t < c /\ t \in Nat
      BY <1>3, <1>6, <2>1
    <3>2. \A v \in Warp : ~ Holds(v, i, t)'
      BY <1>3, <2>1, <3>1
    <3>. QED
      BY <1>1, <3>1, <3>2
  <2>2. CASE ~ (Holds(w, i, t) /\ ~ Holds(w, i, t)' /\ t < tiles[i])
    <3>1. drained'[i][t] = drained[i][t] /\ t \in Nat
      BY <1>6, <2>2
    <3>2. ASSUME drained'[i][t] = 1  PROVE t < d /\ \A v \in Warp : ~ Holds(v, i, t)'
      <4>1. t < c /\ \A v \in Warp : ~ Holds(v, i, t)
        BY <1>6, <3>1, <3>2
      <4>. QED
        BY <1>1, <1>5, <3>1, <4>1
    <3>3. ASSUME t < d, t < tiles[i], \A v \in Warp : ~ Holds(v, i, t)'  PROVE drained'[i][t] = 1
      <4>1. \A v \in Warp : ~ Holds(v, i, t)
        BY <2>2, <3>1, <3>3
      <4>2. t # c \/ d = c
        BY <1>1, <1>4, <3>3
      <4>3. t < c
        BY <1>1, <3>1, <3>3, <4>2
      <4>. QED
        BY <1>6, <3>1, <3>3, <4>1, <4>3
    <3>. QED
      BY <1>6, <3>1, <3>2, <3>3
  <2>. QED
    BY <2>1, <2>2
<1>10. /\ \A v \in Warp : \A t \in {k'[v], knext'[v]} : Holds(v, i, t)' => t < d
       /\ \A v, u \in Warp : v # u =>
             \A t \in {k'[v], knext'[v]} : ~ (Holds(v, i, t)' /\ Holds(u, i, t)')
  BY <1>2, <1>7, <1>8
<1>. QED
  BY <1>9, <1>10 DEF Ledger

(* Which windows have a counter, and that they have different ones.        *)
LEMMA TwoWindows ==
  ASSUME Typed, Places, NEW i \in Window, i >= win[0], Opened(i), NEW w \in Warp
  PROVE  /\ win[w] = win[0] /\ win[w] \in Nat /\ head[w] \in Nat /\ i \in Nat
         /\ i \in {win[w], win[w] + 1}
         /\ pc[w] # "exit" /\ head[w] \in {win[w], win[w] + 1}
         /\ i # head[w] => i % 2 # head[w] % 2
<1>1. 0 \in Warp /\ i \in Nat /\ i < Windows
  BY Sizes DEF Window
<1>2. /\ Placed(w) /\ Placed(0) /\ win[w] = win[0] /\ win[w] \in Nat /\ head[w] \in Nat
      /\ head[0] \in Nat /\ pc[w] \in Pc /\ pc[0] \in Pc
  BY <1>1, Abreast
<1>3. pc[w] # "exit" /\ pc[0] # "exit"
  BY <1>1, <1>2 DEF Placed
<1>4. head[w] \in {win[w], win[w] + 1} /\ head[0] \in {win[w], win[w] + 1}
  BY <1>2, <1>3 DEF Placed, Pc
<1>5. i \in {win[w], win[w] + 1}
  BY <1>1, <1>2, <1>4 DEF Opened
<1>6. i # head[w] => i % 2 # head[w] % 2
  BY <1>2, <1>4, <1>5, Parity
<1>. QED
  BY <1>1, <1>2, <1>3, <1>4, <1>5, <1>6

(* A warp that holds a ticket, or is to take one, has the counter reset.   *)
LEMMA HolderOpened ==
  ASSUME Typed, Places, NEW w \in Warp, HasOne(w) \/ pc[w] = "prime"
  PROVE  Opened(head[w]) /\ head[w] >= win[0]
<1>1. 0 \in Warp
  BY Sizes
<1>2. /\ Placed(w) /\ Placed(0) /\ win[w] = win[0] /\ Segment(w) = Segment(0)
      /\ win[w] \in Nat /\ head[w] \in Nat
      /\ head[0] \in Nat /\ pc[w] \in Pc /\ pc[0] \in Pc
  BY <1>1, Abreast
<1>3. CASE pc[0] \in HeadPc
  BY <1>2, <1>3 DEF Placed, Segment, Ahead, HasOne, Opened, HeadPc, ReadPc
<1>4. CASE pc[0] \notin HeadPc
  BY <1>2, <1>4 DEF Placed, Segment, Ahead, HasOne, Opened, HeadPc, ReadPc, Pc
<1>. QED
  BY <1>3, <1>4

LEMMA LedgerKept ==
  ASSUME Typed, Typed', NEW i \in Window, Ledger(i), tiles' = tiles,
         counter'[i % 2] = counter[i % 2], drained'[i] = drained[i],
         \A v \in Warp, t \in Nat : Holds(v, i, t)' <=> Holds(v, i, t)
  PROVE  Ledger(i)'
<1>1. PICK c \in Nat : c = counter[i % 2]
  <2>1. i % 2 \in {0, 1} /\ counter \in [{0, 1} -> Nat]
    BY Parity, Sizes DEF Typed
  <2>. QED
    BY <2>1
<1>2. 0 \in Warp
  BY Sizes
<1>3. \A t \in Tile : t \in Nat
  BY Sizes
<1>4. \A t \in Tile : drained'[i][t] = IF Holds(0, i, t) /\ ~ Holds(0, i, t)' /\ t < tiles[i]
                                       THEN drained[i][t] + 1 ELSE drained[i][t]
  BY <1>2, <1>3
<1>. QED
  BY <1>1, <1>2, <1>4, LedgerMoves

LEMMA StillHolds ==
  ASSUME NEW v \in Warp, Still(v), NEW i, NEW t
  PROVE  Holds(v, i, t)' <=> Holds(v, i, t)
BY DEF Still, Holds, HasOne, HasTwo

(* The steps that neither take a ticket nor give one up.                   *)
Idles(w) ==
  \/ ResetCounter(w) \/ PassOne(w) \/ Scan(w) \/ Scatter(w) \/ Mint(w) \/ StageAhead(w)
  \/ Snapshot(w) \/ Landed(w) \/ NextHead(w) \/ Fold(w)

LEMMA IdleHolds ==
  ASSUME Typed, NEW w \in Warp, Placed(w), Idles(w), NEW i, NEW t
  PROVE  Holds(w, i, t)' <=> Holds(w, i, t)
<1>1. CASE ResetCounter(w) \/ PassOne(w) \/ Scan(w) \/ Scatter(w) \/ Mint(w) \/ StageAhead(w)
  <2>1. ~ HasOne(w) /\ ~ HasTwo(w) /\ ~ HasOne(w)' /\ ~ HasTwo(w)'
    BY <1>1 DEF Typed, HasOne, HasTwo, ResetCounter, PassOne, Scan, Scatter, Mint, StageAhead, Goto
  <2>. QED
    BY <2>1 DEF Holds
<1>2. CASE NextHead(w)
  <2>1. ~ HasOne(w) /\ ~ HasTwo(w) /\ ~ HasOne(w)' /\ ~ HasTwo(w)'
    BY <1>2 DEF Typed, Placed, ReadPc, HasOne, HasTwo, NextHead, Goto, fixed
  <2>. QED
    BY <2>1 DEF Holds
<1>3. CASE Snapshot(w) \/ Landed(w) \/ Fold(w)
  <2>1. /\ head' = head /\ win' = win /\ k' = k /\ knext' = knext
        /\ \/ pc[w] = "snap" /\ pc'[w] = "edge"
           \/ pc[w] = "read" /\ pc'[w] = "tile"
           \/ pc[w] = "fold" /\ pc'[w] = "close"
    BY <1>3 DEF Snapshot, Landed, Fold, Goto, Typed, fixed, readVars
  <2>. QED
    BY <2>1 DEF Holds, HasOne, HasTwo
<1>. QED
  BY <1>1, <1>2, <1>3 DEF Idles

LEMMA IdleLedger ==
  ASSUME Typed, Typed', Places, NEW w \in Warp, WarpStep(w), Idles(w),
         NEW i \in Window, i >= win[0], Opened(i), Ledger(i)
  PROVE  Ledger(i)'
<1>1. \A v \in Warp, t \in Nat : Holds(v, i, t)' <=> Holds(v, i, t)
  <2>1. ASSUME NEW v \in Warp, NEW t \in Nat  PROVE Holds(v, i, t)' <=> Holds(v, i, t)
    <3>1. CASE v = w
      BY <3>1, IdleHolds DEF Places
    <3>2. CASE v # w
      BY <3>2, OthersStill, StillHolds
    <3>. QED
      BY <3>1, <3>2
  <2>. QED
    BY <2>1
<1>2. tiles' = tiles /\ drained' = drained
  BY DEF Idles, ResetCounter, PassOne, Scan, Scatter, Mint, StageAhead, Snapshot, Landed, NextHead,
         Fold, fixed, readVars
<1>3. counter'[i % 2] = counter[i % 2]
  <2>1. CASE ResetCounter(w) /\ w = 0
    <3>1. i # head[w]
      <4>1. i \in Nat /\ head[w] \in Nat
        BY HeadFacts, Sizes
      <4>. QED
        BY <2>1, <4>1 DEF Opened, ResetCounter
    <3>2. i % 2 # head[w] % 2
      BY <3>1, TwoWindows
    <3>. QED
      BY <2>1, <3>2 DEF ResetCounter, CounterOf, Typed
  <2>2. CASE ~ (ResetCounter(w) /\ w = 0)
    BY <2>2 DEF Idles, ResetCounter, PassOne, Scan, Scatter, Mint, StageAhead, Snapshot, Landed,
                NextHead, Fold
  <2>. QED
    BY <2>1, <2>2
<1>. QED
  BY <1>1, <1>2, <1>3, LedgerKept

(* Another window's tickets, while one is taken.                           *)
LEMMA OtherLedger ==
  ASSUME Typed, Typed', Places, NEW w \in Warp, WarpStep(w), Prime(w) \/ Begin(w) \/ ReadTile(w),
         NEW i \in Window, i >= win[0], Opened(i), Ledger(i), i # head[w]
  PROVE  Ledger(i)'
<1>1. i % 2 # head[w] % 2 /\ head[w] % 2 \in {0, 1} /\ Placed(w) /\ i % 2 \in {0, 1}
  BY TwoWindows, HeadFacts, Parity, Sizes DEF Places
<1>2. \A v \in Warp, t \in Nat : Holds(v, i, t)' <=> Holds(v, i, t)
  <2>1. ASSUME NEW v \in Warp, NEW t \in Nat  PROVE Holds(v, i, t)' <=> Holds(v, i, t)
    <3>1. CASE v = w
      <4>1. head' = head
        BY DEF Prime, Begin, ReadTile
      <4>. QED
        BY <3>1, <4>1 DEF Holds
    <3>2. CASE v # w
      BY <3>2, OthersStill, StillHolds
    <3>. QED
      BY <3>1, <3>2
  <2>. QED
    BY <2>1
<1>3. tiles' = tiles
  BY DEF Prime, Begin, ReadTile, fixed
<1>4. counter'[i % 2] = counter[i % 2]
  <2>1. counter' = counter \/ Take(w)
    BY DEF Prime, Begin, ReadTile
  <2>. QED
    BY <1>1, <2>1 DEF Take, CounterOf, Typed
<1>5. drained'[i] = drained[i]
  <2>1. CASE ReadTile(w)
    <3>1. win[w] = head[w]
      BY <1>1, <2>1 DEF Placed, ReadTile, ReadPc
    <3>. QED
      BY <2>1, <3>1 DEF ReadTile, Typed
  <2>2. CASE ~ ReadTile(w)
    BY <2>2 DEF Prime, Begin
  <2>. QED
    BY <2>1, <2>2
<1>. QED
  BY <1>2, <1>3, <1>4, <1>5, LedgerKept

(* The window's own: the ticket taken is the count, and above every other. *)
LEMMA TakeFacts ==
  ASSUME Typed, NEW w \in Warp, NEW i \in Window, i = head[w]
  PROVE  /\ i \in Nat /\ i % 2 \in {0, 1} /\ counter[i % 2] \in Nat /\ Taken(w) = counter[i % 2]
         /\ Take(w) => counter'[i % 2] = counter[i % 2] + 1
         /\ k[w] \in Nat /\ knext[w] \in Nat /\ tiles[i] \in Nat
<1>1. i \in Nat /\ i % 2 \in {0, 1}
  BY HeadFacts
<1>2. counter \in [{0, 1} -> Nat] /\ k[w] \in Nat /\ knext[w] \in Nat /\ tiles[i] \in Nat
  BY Sizes DEF Typed
<1>3. Take(w) => counter'[i % 2] = counter[i % 2] + 1
  BY <1>1, <1>2 DEF Take, CounterOf
<1>. QED
  BY <1>1, <1>2, <1>3 DEF Taken, CounterOf

LEMMA PrimeLedger ==
  ASSUME Typed, Typed', Places, NEW w \in Warp, WarpStep(w), Prime(w),
         NEW i \in Window, i = head[w], Ledger(i)
  PROVE  Ledger(i)'
<1>1. PICK c \in Nat : c = counter[i % 2]
  BY TakeFacts
<1>2. /\ c + 1 = counter'[i % 2] /\ c + 1 \in Nat
      /\ k'[w] = c /\ head' = head /\ win' = win /\ tiles' = tiles /\ drained' = drained
      /\ pc[w] = "prime" /\ pc'[w] = IF i = 0 THEN "snap" ELSE "fold"
  BY <1>1, TakeFacts DEF Prime, Goto, fixed, Typed
<1>3. ~ HasOne(w) /\ ~ HasTwo(w) /\ HasOne(w)' /\ ~ HasTwo(w)'
  <2>1. Placed(w) /\ win[w] \in Nat
    BY DEF Places, Typed
  <2>. QED
    BY <1>2, <2>1 DEF HasOne, HasTwo, Placed, HeadPc
<1>4. \A t \in Nat : (Holds(w, i, t)' <=> t = c) /\ ~ Holds(w, i, t)
  BY <1>2, <1>3 DEF Holds
<1>5. \A v \in Warp, t \in Nat : v # w => (Holds(v, i, t)' <=> Holds(v, i, t))
  BY OthersStill, StillHolds
<1>6. \A t \in Tile : drained'[i][t] = IF Holds(w, i, t) /\ ~ Holds(w, i, t)' /\ t < tiles[i]
                                       THEN drained[i][t] + 1 ELSE drained[i][t]
  BY <1>2, <1>4, Sizes
<1>. QED
  BY <1>1, <1>2, <1>4, <1>5, <1>6, LedgerMoves

LEMMA BeginLedger ==
  ASSUME Typed, Typed', Places, NEW w \in Warp, WarpStep(w), Begin(w),
         NEW i \in Window, i = head[w], Ledger(i)
  PROVE  /\ Ledger(i)'
         /\ HasTwo(w)' => k'[w] # knext'[w] /\ k'[w] < tiles[i]
         /\ pc'[w] = "after" => tiles[i] <= counter'[i % 2]
<1>1. PICK c \in Nat : c = counter[i % 2]
  BY TakeFacts
<1>2. /\ k' = k /\ head' = head /\ win' = win /\ tiles' = tiles /\ drained' = drained
      /\ pc[w] = "begin" /\ k[w] \in Nat /\ knext[w] \in Nat /\ tiles[i] \in Nat
  BY TakeFacts DEF Begin, fixed
<1>3. \A v \in Warp, t \in Nat : v # w => (Holds(v, i, t)' <=> Holds(v, i, t))
  BY OthersStill, StillHolds
<1>4. \A t \in Nat : Holds(w, i, t) <=> t = k[w]
  BY <1>2 DEF Holds, HasOne, HasTwo
<1>5. k[w] < c
  BY <1>1, <1>2, <1>4 DEF Ledger
<1>6. CASE Live(w, k[w])
  <2>1. c + 1 = counter'[i % 2] /\ c + 1 \in Nat /\ knext'[w] = c /\ pc'[w] = "read"
    BY <1>1, <1>6, TakeFacts DEF Begin, Goto, Typed
  <2>2. \A t \in Nat : Holds(w, i, t)' <=> t = k[w] \/ t = c
    BY <1>2, <2>1 DEF Holds, HasOne, HasTwo
  <2>3. \A t \in Tile : drained'[i][t] = IF Holds(w, i, t) /\ ~ Holds(w, i, t)' /\ t < tiles[i]
                                         THEN drained[i][t] + 1 ELSE drained[i][t]
    BY <1>2, <1>4, <2>2, Sizes
  <2>4. Ledger(i)'
    BY <1>1, <1>2, <1>3, <1>4, <2>1, <2>2, <2>3, LedgerMoves
  <2>. QED
    BY <1>2, <1>5, <1>6, <2>1, <2>4 DEF Live
<1>7. CASE ~ Live(w, k[w])
  <2>1. c = counter'[i % 2] /\ pc'[w] = "after"
    BY <1>1, <1>7, TakeFacts DEF Begin, Goto, Typed
  <2>2. \A t \in Nat : ~ Holds(w, i, t)'
    BY <2>1 DEF Holds, HasOne, HasTwo
  <2>3. \A t \in Tile : drained'[i][t] = IF Holds(w, i, t) /\ ~ Holds(w, i, t)' /\ t < tiles[i]
                                         THEN drained[i][t] + 1 ELSE drained[i][t]
    BY <1>2, <1>4, <1>7, Sizes DEF Live
  <2>4. Ledger(i)'
    BY <1>1, <1>2, <1>3, <2>1, <2>2, <2>3, LedgerMoves
  <2>. QED
    BY <1>2, <1>5, <1>7, <2>1, <2>4 DEF Live, HasTwo
<1>. QED
  BY <1>6, <1>7

LEMMA ReadLedger ==
  ASSUME Typed, Typed', Places, NEW w \in Warp, WarpStep(w), ReadTile(w),
         NEW i \in Window, i = head[w], Ledger(i), k[w] # knext[w], Live(w, k[w])
  PROVE  /\ Ledger(i)'
         /\ HasTwo(w)' => k'[w] # knext'[w] /\ k'[w] < tiles[i]
         /\ pc'[w] = "after" => tiles[i] <= counter'[i % 2]
<1>1. PICK c \in Nat : c = counter[i % 2]
  BY TakeFacts
<1>2. /\ k'[w] = knext[w] /\ head' = head /\ win' = win /\ tiles' = tiles
      /\ pc[w] = "tile" /\ k[w] \in Nat /\ knext[w] \in Nat /\ tiles[i] \in Nat /\ k[w] < tiles[i]
  BY TakeFacts DEF ReadTile, fixed, Live, Typed
<1>3. \A v \in Warp, t \in Nat : v # w => (Holds(v, i, t)' <=> Holds(v, i, t))
  BY OthersStill, StillHolds
<1>4. \A t \in Nat : Holds(w, i, t) <=> t = k[w] \/ t = knext[w]
  BY <1>2 DEF Holds, HasOne, HasTwo
<1>5. k[w] < c /\ knext[w] < c
  BY <1>1, <1>2, <1>4 DEF Ledger
<1>6. \A t \in Tile : drained'[i][t] = IF t = k[w] THEN drained[i][t] + 1 ELSE drained[i][t]
  <2>1. win[w] = i
    BY <1>2 DEF Places, Placed, ReadPc
  <2>. QED
    BY <2>1 DEF ReadTile, Typed
<1>7. CASE Live(w, knext[w])
  <2>1. c + 1 = counter'[i % 2] /\ c + 1 \in Nat /\ knext'[w] = c /\ pc'[w] = "read"
    BY <1>1, <1>7, TakeFacts DEF ReadTile, Goto, Typed
  <2>2. \A t \in Nat : Holds(w, i, t)' <=> t = knext[w] \/ t = c
    BY <1>2, <2>1 DEF Holds, HasOne, HasTwo
  <2>3. \A t \in Tile : drained'[i][t] = IF Holds(w, i, t) /\ ~ Holds(w, i, t)' /\ t < tiles[i]
                                         THEN drained[i][t] + 1 ELSE drained[i][t]
    BY <1>2, <1>4, <1>5, <1>6, <2>2, Sizes
  <2>4. Ledger(i)'
    BY <1>1, <1>2, <1>3, <1>4, <2>1, <2>2, <2>3, LedgerMoves
  <2>. QED
    BY <1>2, <1>5, <1>7, <2>1, <2>4 DEF Live
<1>8. CASE ~ Live(w, knext[w])
  <2>1. c = counter'[i % 2] /\ pc'[w] = "after"
    BY <1>1, <1>8, TakeFacts DEF ReadTile, Goto, Typed
  <2>2. \A t \in Nat : ~ Holds(w, i, t)'
    BY <2>1 DEF Holds, HasOne, HasTwo
  <2>3. \A t \in Tile : drained'[i][t] = IF Holds(w, i, t) /\ ~ Holds(w, i, t)' /\ t < tiles[i]
                                         THEN drained[i][t] + 1 ELSE drained[i][t]
    <3>1. ~ (knext[w] < tiles[i])
      BY <1>8 DEF Live
    <3>. QED
      BY <1>2, <1>4, <1>6, <2>2, <3>1, Sizes
  <2>4. Ledger(i)'
    BY <1>1, <1>2, <1>3, <2>1, <2>2, <2>3, LedgerMoves
  <2>. QED
    BY <1>2, <1>5, <1>8, <2>1, <2>4 DEF Live, HasTwo
<1>. QED
  BY <1>7, <1>8

LEMMA OpenLedger ==
  ASSUME Typed, Typed', Places, ResetCounter(0), NEW i \in Window, i = head[0],
         \A t \in Tile : drained[i][t] = 0
  PROVE  Ledger(i)'
<1>1. /\ 0 \in Warp /\ i \in Nat /\ i % 2 \in {0, 1} /\ counter \in [{0, 1} -> Nat]
      /\ \A t \in Tile : t \in Nat
  BY HeadFacts, Sizes DEF Typed
<1>2. /\ pc[0] = "reset" /\ drained' = drained /\ head' = head /\ k' = k /\ knext' = knext /\ win' = win
      /\ counter'[i % 2] = 0
  BY <1>1 DEF ResetCounter, CounterOf, fixed, readVars
<1>3. ASSUME NEW v \in Warp, NEW t  PROVE ~ Holds(v, i, t)'
  <2>1. HasOne(v) => head[v] # i
    <3>1. ~ Opened(i)
      BY <1>1, <1>2 DEF Opened
    <3>. QED
      BY <3>1, HolderOpened
  <2>2. HasTwo(v) => HasOne(v)
    BY DEF HasTwo, HasOne
  <2>3. HasOne(v)' => HasOne(v)
    <3>1. pc'[v] # pc[v] => pc'[v] = "one"
      BY <1>1 DEF ResetCounter, Goto, Typed
    <3>. QED
      BY <1>2, <3>1 DEF HasOne
  <2>4. HasTwo(v)' => HasOne(v)'
    BY DEF HasTwo, HasOne
  <2>. QED
    BY <1>2, <2>1, <2>3, <2>4 DEF Holds
<1>. QED
  BY <1>1, <1>2, <1>3 DEF Ledger

(* A counter a warp has run out on is not reset before its next window.    *)
LEMMA WarpFinished ==
  ASSUME Typed, Typed', Places, Tickets, NEW w \in Warp, WarpStep(w), NEW v \in Warp, v # w
  PROVE  Handed(v)' /\ Finished(v)'
<1>1. Still(v) /\ tiles' = tiles /\ Handed(v) /\ Finished(v)
  BY OthersStill DEF Tickets
<1>2. Handed(v)'
  BY <1>1 DEF Still, Handed, HasTwo, Live
<1>3. /\ Placed(v) /\ Placed(w) /\ win[v] = win[w] /\ Segment(v) = Segment(w)
      /\ win[v] \in Nat /\ head[v] \in Nat /\ head[w] \in Nat /\ pc[v] \in Pc /\ pc[w] \in Pc
      /\ Windows \in Nat \ {0}
  BY Abreast
<1>4. /\ win[v] % 2 \in {0, 1} /\ head[w] % 2 \in {0, 1} /\ (win[w] + 1) % 2 # win[w] % 2
      /\ counter \in [{0, 1} -> Nat] /\ counter[win[v] % 2] \in Nat
  <2>1. win[v] \in Int /\ win[w] \in Int /\ head[w] \in Int
    BY <1>3
  <2>2. win[v] % 2 \in {0, 1} /\ head[w] % 2 \in {0, 1} /\ (win[w] + 1) % 2 # win[w] % 2
    BY <2>1, Parity
  <2>3. counter \in [{0, 1} -> Nat]
    BY DEF Typed
  <2>. QED
    BY <2>2, <2>3
<1>5. ASSUME pc[v] \in {"after", "fold", "close"} \/ (pc[v] \in HeadPc /\ head[v] # win[v])
      PROVE  counter'[win[v] % 2] >= counter[win[v] % 2]
  <2>1. CASE ResetCounter(w)
    <3>1. head[w] # win[w]
      BY <1>3, <1>5, <2>1 DEF ResetCounter, Placed, Segment, Ahead, HeadPc, ReadPc
    <3>2. head[w] = win[w] + 1
      BY <1>3, <2>1, <3>1 DEF ResetCounter, Placed, HeadPc
    <3>. QED
      BY <1>3, <1>4, <2>1, <3>2 DEF ResetCounter, CounterOf
  <2>2. CASE ~ ResetCounter(w)
    <3>1. counter' = counter \/ Take(w)
      BY <2>2 DEF WarpStep, PassOne, Scan, Scatter, Mint, StageAhead, Prime, Snapshot, Begin,
                  Landed, ReadTile, NextHead, Fold
    <3>2. CASE Take(w)
      <4>1. counter[head[w] % 2] \in Nat
        BY <1>4
      <4>. QED
        BY <1>4, <3>2, <4>1 DEF Take, CounterOf
    <3>. QED
      BY <1>4, <3>1, <3>2
  <2>. QED
    BY <2>1, <2>2
<1>6. Finished(v)'
  <2>1. SUFFICES ASSUME pc[v] \in {"after", "fold", "close"} \/ (pc[v] \in HeadPc /\ head[v] # win[v])
                 PROVE  tiles[win[v]] <= counter'[win[v] % 2]
    BY <1>1 DEF Still, Finished
  <2>2. pc[v] # "exit" /\ win[v] \in Window
    <3>1. pc[v] # "exit"
      BY <2>1 DEF HeadPc
    <3>. QED
      BY <1>3, <3>1, Sizes DEF Placed
  <2>3. tiles[win[v]] \in Nat
    BY <2>2, Sizes DEF Typed
  <2>4. counter'[win[v] % 2] \in Nat
    BY <1>4 DEF Typed
  <2>. QED
    BY <1>1, <1>4, <1>5, <2>1, <2>3, <2>4 DEF Finished
<1>. QED
  BY <1>2, <1>6

LEMMA OwnTickets ==
  ASSUME Typed, Typed', Places, Tickets, NEW w \in Warp, WarpStep(w)
  PROVE  Handed(w)' /\ Finished(w)'
<1>1. /\ Placed(w) /\ win[w] \in Nat /\ head[w] \in Nat /\ head[w] \in Window /\ pc \in [Warp -> Pc]
      /\ Handed(w) /\ Finished(w) /\ head \in [Warp -> Window]
  BY HeadFacts DEF Places, Tickets, Typed
<1>2. CASE ResetCounter(w) \/ PassOne(w) \/ Scan(w) \/ Scatter(w) \/ Mint(w) \/ StageAhead(w)
  <2>1. /\ pc[w] \in HeadPc /\ pc'[w] \in HeadPc /\ head' = head /\ win' = win /\ tiles' = tiles
        /\ counter' = counter \/ (ResetCounter(w) /\ w = 0)
    BY <1>1, <1>2 DEF ResetCounter, PassOne, Scan, Scatter, Mint, StageAhead, Goto, fixed, HeadPc
  <2>2. Handed(w)'
    BY <2>1 DEF Handed, HasTwo, HeadPc
  <2>3. head[w] # win[w] => counter'[win[w] % 2] = counter[win[w] % 2]
    <3>1. CASE counter' = counter
      BY <3>1
    <3>2. CASE ResetCounter(w) /\ w = 0
      <4>1. head[w] # win[w] => head[w] = win[w] + 1
        BY <1>1, <2>1 DEF Placed
      <4>2. win[w] \in Int
        BY <1>1
      <4>3. head[w] # win[w] => win[w] % 2 # head[w] % 2
        BY <4>1, <4>2, Parity
      <4>. QED
        BY <3>2, <4>3 DEF ResetCounter, CounterOf, Typed
    <3>. QED
      BY <2>1, <3>1, <3>2
  <2>4. Finished(w)'
    BY <1>1, <2>1, <2>3 DEF Finished, HeadPc
  <2>. QED
    BY <2>2, <2>4
<1>3. CASE Snapshot(w) \/ Landed(w) \/ NextHead(w) \/ Fold(w)
  <2>1. /\ win' = win /\ tiles' = tiles /\ counter' = counter /\ k' = k /\ knext' = knext
        /\ \/ pc[w] = "snap" /\ pc'[w] = "edge" /\ head' = head
           \/ pc[w] = "read" /\ pc'[w] = "tile" /\ head' = head
           \/ pc[w] = "after" /\ pc'[w] \in {"reset", "fold"}
           \/ pc[w] = "fold" /\ pc'[w] = "close" /\ head' = head
    BY <1>1, <1>3 DEF Snapshot, Landed, NextHead, Fold, Goto, fixed, readVars
  <2>2. Handed(w)'
    BY <1>1, <2>1 DEF Handed, HasTwo, Live
  <2>3. Finished(w)'
    BY <1>1, <2>1 DEF Finished, HeadPc
  <2>. QED
    BY <2>2, <2>3
<1>4. CASE Prime(w)
  <2>1. /\ win' = win /\ tiles' = tiles /\ head' = head /\ pc[w] = "prime"
        /\ pc'[w] = IF head[w] = 0 THEN "snap" ELSE "fold"
    BY <1>1, <1>4 DEF Prime, Goto, fixed
  <2>2. Handed(w)'
    BY <2>1 DEF Handed, HasTwo
  <2>3. ASSUME head[w] # 0  PROVE tiles[win[w]] <= counter'[win[w] % 2]
    <3>1. head[w] = win[w] + 1
      BY <1>1, <2>1, <2>3 DEF Placed, HeadPc
    <3>2. win[w] \in Int
      BY <1>1
    <3>3. win[w] % 2 # head[w] % 2 /\ head[w] # win[w]
      BY <3>1, <3>2, Parity
    <3>4. counter'[win[w] % 2] = counter[win[w] % 2]
      BY <1>4, <3>3 DEF Prime, Take, CounterOf, Typed
    <3>. QED
      BY <1>1, <2>1, <3>3, <3>4 DEF Finished, HeadPc
  <2>4. Finished(w)'
    BY <2>1, <2>3 DEF Finished, HeadPc
  <2>. QED
    BY <2>2, <2>4
<1>5. CASE Begin(w) \/ ReadTile(w)
  <2>1. /\ win[w] = head[w] /\ win' = win /\ tiles' = tiles /\ head' = head
        /\ pc'[w] \in {"read", "after"} /\ HasOne(w)
        /\ ReadTile(w) => HasTwo(w)
    BY <1>1, <1>5 DEF Begin, ReadTile, Placed, ReadPc, Goto, fixed, HasOne, HasTwo
  <2>2. PICK i \in Window : i = head[w]
    BY <1>1
  <2>3. Ledger(i)
    BY <2>1, <2>2, HolderOpened DEF Tickets, Counted
  <2>4. /\ HasTwo(w)' => k'[w] # knext'[w] /\ k'[w] < tiles[i]
        /\ pc'[w] = "after" => tiles[i] <= counter'[i % 2]
    BY <1>1, <1>5, <2>1, <2>2, <2>3, BeginLedger, ReadLedger DEF Handed
  <2>5. Handed(w)'
    BY <2>1, <2>2, <2>4 DEF Handed, Live
  <2>6. Finished(w)'
    BY <2>1, <2>2, <2>4 DEF Finished, HeadPc
  <2>. QED
    BY <2>5, <2>6
<1>. QED
  BY <1>2, <1>3, <1>4, <1>5 DEF WarpStep

LEMMA WarpTickets ==
  ASSUME Typed, Typed', Places, Tickets, NEW w \in Warp, WarpStep(w)
  PROVE  Tickets'
<1>1. \A v \in Warp : Handed(v)' /\ Finished(v)'
  BY OwnTickets, WarpFinished
<1>2. ASSUME NEW i \in Window  PROVE Counted(i)'
  <2>0. /\ 0 \in Warp /\ i \in Nat /\ i < Windows /\ Counted(i) /\ win[0] \in Nat /\ win[w] = win[0]
        /\ head[0] \in Nat /\ Placed(0) /\ head \in [Warp -> Window] /\ pc \in [Warp -> Pc]
    <3>1. 0 \in Warp /\ i \in Nat /\ i < Windows
      BY Sizes DEF Window
    <3>. QED
      BY <3>1, HeadFacts DEF Tickets, Places, Together, Typed
  <2>1. win' = win /\ tiles' = tiles
    BY DEF WarpStep, ResetCounter, PassOne, Scan, Scatter, Mint, StageAhead, Prime, Snapshot, Begin,
           Landed, ReadTile, NextHead, Fold, fixed
  <2>2. Opened(i) => Opened(i)'
    <3>1. CASE w = 0 /\ NextHead(w)
      <4>1. head[0] = win[0] /\ (head' = head \/ head'[0] = win[0] + 1)
            /\ pc[0] = "after" /\ (pc'[0] = "fold" \/ head'[0] = win[0] + 1)
        BY <2>0, <3>1 DEF NextHead, Placed, ReadPc, Goto
      <4>. QED
        BY <2>0, <4>1 DEF Opened
    <3>2. CASE w = 0 /\ ~ NextHead(w)
      <4>1. head' = head /\ pc'[0] # "reset"
        BY <2>0, <3>2 DEF WarpStep, ResetCounter, PassOne, Scan, Scatter, Mint, StageAhead, Prime,
              Snapshot, Begin, Landed, ReadTile, Fold, Goto
      <4>. QED
        BY <4>1 DEF Opened
    <3>3. CASE w # 0
      BY <2>0, <3>3, OthersStill DEF Still, Opened
    <3>. QED
      BY <3>1, <3>2, <3>3
  <2>3. ASSUME ~ Opened(i), Opened(i)'  PROVE w = 0 /\ ResetCounter(w) /\ i = head[0]
    <3>1. w = 0
      BY <2>0, <2>3, OthersStill DEF Still, Opened
    <3>2. CASE NextHead(w)
      <4>1. head[0] = win[0] /\ pc[0] = "after"
            /\ (head' = head \/ (head'[0] = win[0] + 1 /\ pc'[0] = "reset"))
        BY <2>0, <3>1, <3>2 DEF NextHead, Placed, ReadPc, Goto
      <4>. QED
        BY <2>0, <2>3, <4>1 DEF Opened
    <3>3. CASE ~ NextHead(w)
      <4>1. head' = head
        BY <3>3 DEF WarpStep, ResetCounter, PassOne, Scan, Scatter, Mint, StageAhead, Prime,
              Snapshot, Begin, Landed, ReadTile, Fold
      <4>2. pc[0] = "reset" /\ i = head[0]
        BY <2>3, <4>1 DEF Opened
      <4>. QED
        BY <3>1, <3>3, <4>2 DEF WarpStep, PassOne, Scan, Scatter, Mint, StageAhead, Prime,
              Snapshot, Begin, Landed, ReadTile, Fold
    <3>. QED
      BY <3>1, <3>2, <3>3
  <2>4. i # win[0] => drained'[i] = drained[i]
    <3>1. CASE ReadTile(w)
      BY <2>0, <3>1 DEF ReadTile, Typed
    <3>2. CASE ~ ReadTile(w)
      BY <3>2 DEF WarpStep, ResetCounter, PassOne, Scan, Scatter, Mint, StageAhead, Prime,
              Snapshot, Begin, Landed, NextHead, Fold, readVars
    <3>. QED
      BY <3>1, <3>2
  <2>5. i < win[0] => \A t \in Tile : drained'[i][t] \in {0, 1} /\ (t < tiles[i] => drained'[i][t] = 1)
    BY <2>0, <2>4 DEF Counted
  <2>6. ASSUME i >= win[0], Opened(i)'  PROVE Ledger(i)'
    <3>1. CASE Opened(i)
      <4>1. Ledger(i)
        BY <2>0, <2>6, <3>1 DEF Counted
      <4>2. CASE Idles(w)
        BY <2>6, <3>1, <4>1, <4>2, IdleLedger
      <4>3. CASE ~ Idles(w)
        <5>1. Prime(w) \/ Begin(w) \/ ReadTile(w)
          BY <4>3 DEF WarpStep, Idles
        <5>2. CASE i # head[w]
          BY <2>6, <3>1, <4>1, <5>1, <5>2, OtherLedger
        <5>3. CASE i = head[w]
          <6>1. ReadTile(w) => k[w] # knext[w] /\ Live(w, k[w])
            BY DEF Tickets, Handed, HasTwo, ReadTile
          <6>. QED
            BY <4>1, <5>1, <5>3, <6>1, PrimeLedger, BeginLedger, ReadLedger
        <5>. QED
          BY <5>2, <5>3
      <4>. QED
        BY <4>2, <4>3
    <3>2. CASE ~ Opened(i)
      <4>1. w = 0 /\ ResetCounter(w) /\ i = head[0] /\ \A t \in Tile : drained[i][t] = 0
        BY <2>0, <2>3, <2>6, <3>2 DEF Counted
      <4>. QED
        BY <4>1, OpenLedger
    <3>. QED
      BY <3>1, <3>2
  <2>7. ~ Opened(i)' => \A t \in Tile : drained'[i][t] = 0
    <3>1. CASE ReadTile(w) /\ i = win[0]
      <4>1. Opened(i)
        BY <2>0, <3>1, HolderOpened DEF ReadTile, HasOne, Places, Placed, ReadPc
      <4>. QED
        BY <2>2, <4>1
    <3>2. CASE ~ (ReadTile(w) /\ i = win[0])
      <4>1. drained'[i] = drained[i]
        BY <2>4, <3>2 DEF WarpStep, ResetCounter, PassOne, Scan, Scatter, Mint, StageAhead, Prime,
              Snapshot, Begin, Landed, NextHead, Fold, readVars
      <4>. QED
        BY <2>0, <2>2, <4>1 DEF Counted
    <3>. QED
      BY <3>1, <3>2
  <2>8. win'[0] = win[0] /\ tiles' = tiles
    BY <2>1
  <2>. QED
    BY <2>5, <2>6, <2>7, <2>8 DEF Counted
<1>. QED
  BY <1>1, <1>2 DEF Tickets

(* At the window's last barrier every warp has run out of its tiles, and   *)
(* holds none of them: all are read.                                       *)
LEMMA WindowIsRead ==
  ASSUME Typed, Places, Tickets, \A w \in Warp : pc[w] = "close",
         NEW i \in Window, i = win[0], NEW t \in Tile
  PROVE  drained[i][t] \in {0, 1} /\ (t < tiles[i] => drained[i][t] = 1)
<1>1. 0 \in Warp /\ i \in Nat /\ i < Windows /\ t \in Nat
  BY Sizes DEF Window
<1>2. /\ Placed(0) /\ head[0] \in Nat /\ Finished(0) /\ Counted(i)
  BY <1>1, HeadFacts DEF Places, Tickets
<1>3. Opened(i)
  BY <1>1, <1>2 DEF Placed, Ahead, Opened
<1>4. Ledger(i)
  BY <1>1, <1>2, <1>3 DEF Counted
<1>5. ASSUME NEW w \in Warp  PROVE ~ Holds(w, i, t)
  <2>1. win[w] = i /\ pc[w] = "close"
    BY <1>1 DEF Places, Together
  <2>. QED
    BY <2>1 DEF Holds, HasOne, HasTwo
<1>6. tiles[i] <= counter[i % 2]
  BY <1>1, <1>2 DEF Finished
<1>7. t < tiles[i] => t < counter[i % 2]
  <2>1. tiles[i] \in Nat /\ counter[i % 2] \in Nat
    <3>1. i % 2 \in {0, 1}
      BY <1>1, Parity
    <3>. QED
      BY <3>1, Sizes DEF Typed
  <2>. QED
    BY <1>1, <1>6, <2>1
<1>. QED
  BY <1>4, <1>5, <1>7 DEF Ledger

LEMMA BlockTickets ==
  ASSUME Typed, Typed', Places, Tickets,
         (\E at \in DOMAIN After : Barrier(at)) \/ Close \/ (\E m \in flight : Land(m))
                \/ UNCHANGED vars
  PROVE  Tickets'
<1>0. 0 \in Warp
  BY Sizes
<1>1. ASSUME win' = win, head' = head, tiles' = tiles, counter' = counter, drained' = drained,
             k' = k, knext' = knext,
             \A v \in Warp : /\ pc'[v] # pc[v] => pc[v] \in {"counts", "scanned", "order", "edge"}
                             /\ pc'[v] \in {"scan", "scatter", "mint"} => pc[v] \in HeadPc
                             /\ pc'[v] # pc[v] => pc'[v] \in {"scan", "scatter", "mint", "begin"}
                             /\ pc'[v] = "begin" => pc[v] \in {"edge", "begin"}
                             /\ pc[v] = "edge" => pc'[v] \in {"begin", "edge"}
      PROVE  Tickets'
  <2>1. ASSUME NEW v \in Warp
        PROVE  Handed(v)' /\ Finished(v)' /\ (HasOne(v)' <=> HasOne(v)) /\ (HasTwo(v)' <=> HasTwo(v))
    <3>1. Handed(v) /\ Finished(v)
      BY DEF Tickets
    <3>2. (HasOne(v)' <=> HasOne(v)) /\ (HasTwo(v)' <=> HasTwo(v))
      BY <1>1 DEF HasOne, HasTwo
    <3>3. Handed(v)'
      BY <1>1, <3>1, <3>2 DEF Handed, Live
    <3>4. Finished(v)'
      BY <1>1, <3>1 DEF Finished, HeadPc
    <3>. QED
      BY <3>2, <3>3, <3>4
  <2>2. ASSUME NEW i \in Window  PROVE Counted(i)'
    <3>1. Counted(i)
      BY DEF Tickets
    <3>2. \A v \in Warp, t \in Nat : Holds(v, i, t)' <=> Holds(v, i, t)
      BY <1>1, <2>1 DEF Holds
    <3>3. Opened(i)' <=> Opened(i)
      BY <1>0, <1>1 DEF Opened
    <3>4. Ledger(i) => Ledger(i)'
      BY <1>1, <3>2, LedgerKept
    <3>. QED
      BY <1>1, <3>1, <3>3, <3>4 DEF Counted
  <2>. QED
    BY <2>1, <2>2 DEF Tickets
<1>2. ASSUME NEW at \in DOMAIN After, Barrier(at)  PROVE Tickets'
  <2>1. /\ win' = win /\ head' = head /\ tiles' = tiles /\ counter' = counter /\ drained' = drained
        /\ k' = k /\ knext' = knext
        /\ \A v \in Warp : pc[v] = at /\ pc'[v] = After[at]
    BY <1>2 DEF Barrier, fixed, readVars
  <2>2. \/ at = "counts" /\ After[at] = "scan"
        \/ at = "scanned" /\ After[at] = "scatter"
        \/ at = "order" /\ After[at] = "mint"
        \/ at = "edge" /\ After[at] = "begin"
    BY DEF After
  <2>. QED
    BY <1>1, <2>1, <2>2 DEF HeadPc
<1>3. CASE (\E m \in flight : Land(m)) \/ UNCHANGED vars
  <2>1. /\ win' = win /\ head' = head /\ tiles' = tiles /\ counter' = counter /\ drained' = drained
        /\ k' = k /\ knext' = knext /\ pc' = pc
    BY <1>3 DEF Land, fixed, vars
  <2>2. \A v \in Warp : pc[v] \in {"scan", "scatter", "mint"} => pc[v] \in HeadPc
    BY DEF HeadPc
  <2>. QED
    BY <1>1, <2>1, <2>2
<1>4. CASE Close
  <2>1. /\ \A v \in Warp : pc[v] = "close" /\ pc'[v] = OnToWindow(v) /\ win'[v] = win[v] + 1
        /\ UNCHANGED <<tiles, head, counter, k, knext, drained>>
    BY <1>4 DEF Close, readVars
  <2>2. ASSUME NEW v \in Warp
        PROVE  /\ Placed(v) /\ win[v] = win[0] /\ win[v] \in Nat /\ win[v] < Windows
               /\ HasOne(v)' <=> HasOne(v)
               /\ ~ HasTwo(v) /\ ~ HasTwo(v)'
    <3>1. Placed(v) /\ win[v] = win[0] /\ win[v] \in Nat /\ head[v] \in Nat /\ Windows \in Nat
      BY <1>0, Abreast
    <3>2. win[v] < Windows
      BY <2>1, <3>1 DEF Placed
    <3>3. HasOne(v)' <=> HasOne(v)
      BY <2>1, <3>1, <3>2 DEF HasOne, OnToWindow, Placed, Ahead
    <3>4. ~ HasTwo(v) /\ ~ HasTwo(v)'
      BY <2>1 DEF HasTwo, OnToWindow
    <3>. QED
      BY <3>1, <3>2, <3>3, <3>4
  <2>3. \A v \in Warp : Handed(v)' /\ Finished(v)'
    BY <2>1, <2>2 DEF Handed, Finished, OnToWindow, HeadPc
  <2>4. ASSUME NEW i \in Window  PROVE Counted(i)'
    <3>1. /\ Counted(i) /\ i \in Nat /\ win[0] \in Nat /\ win'[0] = win[0] + 1 /\ i < Windows
          /\ head[0] \in Nat /\ Placed(0)
      BY <1>0, <2>1, <2>2, HeadFacts, Sizes DEF Tickets, Window
    <3>2. \A v \in Warp, t \in Nat : Holds(v, i, t)' <=> Holds(v, i, t)
      BY <2>1, <2>2 DEF Holds
    <3>3. pc[0] = "close" /\ pc'[0] # "reset" /\ head' = head
      BY <1>0, <2>1 DEF OnToWindow
    <3>4. Opened(i)' <=> Opened(i)
      BY <3>3 DEF Opened
    <3>5. Ledger(i) => Ledger(i)'
      BY <2>1, <3>2, LedgerKept
    <3>6. CASE i = win[0]
      <4>1. \A t \in Tile : drained[i][t] \in {0, 1} /\ (t < tiles[i] => drained[i][t] = 1)
        BY <2>1, <3>6, WindowIsRead
      <4>2. Opened(i)
        BY <3>1, <3>3, <3>6 DEF Opened, Placed, Ahead
      <4>. QED
        BY <2>1, <3>1, <3>4, <3>6, <4>1, <4>2 DEF Counted
    <3>7. CASE i # win[0]
      BY <2>1, <3>1, <3>4, <3>5, <3>7 DEF Counted
    <3>. QED
      BY <3>6, <3>7
  <2>. QED
    BY <2>3, <2>4 DEF Tickets
<1>. QED
  BY <1>2, <1>3, <1>4

---------------------------------------------------------------------------
(* The ring of two slots.  Of n uses, slot r has had those of its parity.  *)
LEMMA HalfOf ==
  ASSUME NEW a \in Nat
  PROVE  (2 * a) \div 2 = a /\ (2 * a + 1) \div 2 = a /\ (2 * a) % 2 = 0 /\ (2 * a + 1) % 2 = 1
OBVIOUS

LEMMA RingUses ==
  ASSUME NEW a \in Nat, NEW r \in Int, NEW s \in Int, r = a % 2, s = (a + 1) % 2
  PROVE  /\ (a + 1 + 1 - r) \div 2 = (a + 1 - r) \div 2 + 1
         /\ (a + 1 + 1 - s) \div 2 = (a + 1 - s) \div 2
<1>1. PICK q \in Nat : a = 2 * q \/ a = 2 * q + 1
  <2>1. a \div 2 \in Nat /\ (a = 2 * (a \div 2) \/ a = 2 * (a \div 2) + 1)
    OBVIOUS
  <2>. QED
    BY <2>1
<1>2. CASE a = 2 * q
  <2>1. r = 0 /\ s = 1
    BY <1>2, HalfOf
  <2>2. a + 1 + 1 - r = 2 * (q + 1) /\ a + 1 - r = 2 * q + 1 /\ a + 1 + 1 - s = 2 * q + 1
        /\ a + 1 - s = 2 * q /\ q + 1 \in Nat
    BY <1>2, <2>1
  <2>3. (2 * (q + 1)) \div 2 = q + 1 /\ (2 * q + 1) \div 2 = q /\ (2 * q) \div 2 = q
    BY <2>2, HalfOf
  <2>. QED
    BY <2>2, <2>3
<1>3. CASE a = 2 * q + 1
  <2>1. a + 1 = 2 * (q + 1) /\ q + 1 \in Nat
    BY <1>3
  <2>2. r = 1 /\ s = 0
    BY <1>3, <2>1, HalfOf
  <2>3. a + 1 + 1 - r = 2 * (q + 1) /\ a + 1 - r = 2 * q + 1 /\ a + 1 + 1 - s = 2 * (q + 1) + 1
        /\ a + 1 - s = 2 * (q + 1)
    BY <1>3, <2>2
  <2>4. (2 * (q + 1)) \div 2 = q + 1 /\ (2 * q + 1) \div 2 = q /\ (2 * (q + 1) + 1) \div 2 = q + 1
    BY <2>1, HalfOf
  <2>. QED
    BY <2>3, <2>4
<1>. QED
  BY <1>1, <1>2, <1>3

LEMMA SlottedKept ==
  ASSUME NEW v \in Warp, NEW r \in {0, 1}, Slotted(v, r),
         Owed(v, r)' = Owed(v, r), Owed(v, r) # None => head'[v] = head[v],
         n'[v] = n[v], ring'[v] = ring[v],
         \A m : m.warp = v => (m \in flight' <=> m \in flight)
  PROVE  Slotted(v, r)'
<1>1. Uses(v, r)' = Uses(v, r)
  BY DEF Uses
<1>2. \A m \in flight' : m.warp = v => m \in flight
  OBVIOUS
<1>3. \A m \in flight : m.warp = v => m \in flight'
  OBVIOUS
<1>. QED
  BY <1>1, <1>2, <1>3 DEF Slotted

(* What a warp is owed, as long as it holds the tickets it held.           *)
LEMMA OwedKept ==
  ASSUME NEW v \in Warp, NEW r \in {0, 1},
         HasOne(v)' <=> HasOne(v), HasTwo(v)' <=> HasTwo(v), HasOne(v) => head'[v] = head[v],
         k'[v] = k[v], knext'[v] = knext[v], n'[v] = n[v], tiles' = tiles
  PROVE  Owed(v, r)' = Owed(v, r) /\ (Owed(v, r) # None => head'[v] = head[v])
<1>1. HasTwo(v) => HasOne(v)
  BY DEF HasTwo, HasOne
<1>2. CASE HasOne(v)
  BY <1>2 DEF Owed, Live
<1>3. CASE ~ HasOne(v)
  BY <1>1, <1>3 DEF Owed
<1>. QED
  BY <1>2, <1>3

LEMMA OthersRinged ==
  ASSUME Typed, Ringed, NEW w \in Warp, WarpStep(w), NEW v \in Warp, v # w
  PROVE  Come(v)' /\ \A r \in {0, 1} : Slotted(v, r)'
<1>1. Still(v) /\ tiles' = tiles
  BY OthersStill
<1>2. \A m : m.warp = v => (m \in flight' <=> m \in flight)
  <2>1. flight' = flight \/ \E r \in {0, 1} : \E t : Issue(w, r, t)
    <3>1. n[w] % 2 \in {0, 1} /\ AheadSlot(w) \in {0, 1}
      BY HeadFacts DEF AheadSlot
    <3>. QED
      BY <3>1 DEF WarpStep, ResetCounter, PassOne, Scan, Scatter, Mint, StageAhead, Prime, Snapshot,
            Begin, Landed, ReadTile, NextHead, Fold, readVars
  <2>. QED
    BY <2>1 DEF Issue
<1>3. ASSUME NEW r \in {0, 1}  PROVE Slotted(v, r)'
  <2>1. Slotted(v, r)
    BY DEF Ringed
  <2>2. (HasOne(v)' <=> HasOne(v)) /\ (HasTwo(v)' <=> HasTwo(v))
    BY <1>1 DEF HasOne, HasTwo, Still
  <2>3. Owed(v, r)' = Owed(v, r) /\ (Owed(v, r) # None => head'[v] = head[v])
    BY <1>1, <2>2, OwedKept DEF Still
  <2>. QED
    BY <1>1, <1>2, <2>1, <2>3, SlottedKept DEF Still
<1>4. Come(v)'
  BY <1>1, <1>2 DEF Ringed, Come, Still
<1>. QED
  BY <1>3, <1>4

(* The phase of a slot tells whether the tile that is owed has landed.     *)
LEMMA PhaseTells ==
  ASSUME Typed, Ringed, NEW w \in Warp, NEW r \in {0, 1},
         ring[w][r].phase % 2 # Uses(w, r) % 2
  PROVE  \A m \in flight : <<m.warp, m.slot>> # <<w, r>>
<1>1. Slotted(w, r)
  BY DEF Ringed
<1>2. ring[w][r].phase # Uses(w, r)
  OBVIOUS
<1>. QED
  BY <1>1, <1>2 DEF Slotted

LEMMA IdleRinged ==
  ASSUME Typed, Places, Ringed, NEW w \in Warp, WarpStep(w), Idles(w)
  PROVE  Come(w)' /\ \A r \in {0, 1} : Slotted(w, r)'
<1>1. flight' = flight /\ ring' = ring /\ n' = n /\ k' = k /\ knext' = knext /\ tiles' = tiles
  BY DEF Idles, ResetCounter, PassOne, Scan, Scatter, Mint, StageAhead, Snapshot, Landed, NextHead,
         Fold, fixed, readVars
<1>2. (HasOne(w)' <=> HasOne(w)) /\ (HasTwo(w)' <=> HasTwo(w)) /\ (HasOne(w) => head'[w] = head[w])
  <2>1. CASE ResetCounter(w) \/ PassOne(w) \/ Scan(w) \/ Scatter(w) \/ Mint(w) \/ StageAhead(w)
    BY <2>1 DEF Typed, HasOne, HasTwo, ResetCounter, PassOne, Scan, Scatter, Mint, StageAhead, Goto
  <2>2. CASE NextHead(w)
    BY <2>2 DEF Typed, Places, Placed, ReadPc, HasOne, HasTwo, NextHead, Goto, fixed
  <2>3. CASE Snapshot(w) \/ Landed(w) \/ Fold(w)
    BY <2>3 DEF Typed, HasOne, HasTwo, Snapshot, Landed, Fold, Goto, fixed
  <2>. QED
    BY <2>1, <2>2, <2>3 DEF Idles
<1>3. ASSUME NEW r \in {0, 1}  PROVE Slotted(w, r)'
  <2>1. Slotted(w, r)
    BY DEF Ringed
  <2>. QED
    BY <1>1, <1>2, <2>1, OwedKept, SlottedKept
<1>4. Come(w)'
  <2>1. CASE Landed(w)
    <3>1. n[w] % 2 \in {0, 1}
      BY HeadFacts
    <3>2. \A m \in flight : <<m.warp, m.slot>> # <<w, n[w] % 2>>
      BY <2>1, <3>1, PhaseTells DEF Landed
    <3>. QED
      BY <1>1, <3>2 DEF Come
  <2>2. CASE ~ Landed(w)
    <3>1. pc'[w] # "tile"
      BY <2>2 DEF Idles, ResetCounter, PassOne, Scan, Scatter, Mint, StageAhead, Snapshot, NextHead,
                  Fold, Goto, Typed
    <3>. QED
      BY <3>1 DEF Come
  <2>. QED
    BY <2>1, <2>2
<1>. QED
  BY <1>3, <1>4

(* A tile issued into a free slot.                                         *)
LEMMA IssueSlotted ==
  ASSUME Typed, NEW w \in Warp, NEW r \in {0, 1}, NEW t \in Nat,
         \A m \in flight : ~ (m.warp = w /\ m.slot = r),
         Issue(w, r, t), tiles' = tiles, head' = head,
         ring'[w][r].phase = Uses(w, r)',
         Owed(w, r)' = IF Live(w, t) THEN t ELSE None
  PROVE  Slotted(w, r)'
<1>1. CASE Live(w, t)
  <2>. DEFINE e == [warp |-> w, slot |-> r, tile |-> <<head[w], t>>]
  <2>1. flight' = flight \cup {e} /\ e.warp = w /\ e.slot = r /\ e.tile = <<head[w], t>>
    BY <1>1 DEF Issue
  <2>2. Owed(w, r)' = t /\ t # None
    BY <1>1 DEF None
  <2>. HIDE DEF e
  <2>3. \A m \in flight' : m.warp = w /\ m.slot = r => m.tile = <<head[w], t>>
    BY <2>1
  <2>4. e \in flight' /\ ~ (<<e.warp, e.slot>> # <<w, r>>)
    BY <2>1
  <2>. QED
    BY <2>2, <2>3, <2>4 DEF Slotted
<1>2. CASE ~ Live(w, t)
  <2>1. flight' = flight /\ Owed(w, r)' = None
    BY <1>2 DEF Issue
  <2>. QED
    BY <2>1 DEF Slotted
<1>. QED
  BY <1>1, <1>2

(* Nothing is on its way into a slot in which nothing is owed.             *)
LEMMA NothingOwed ==
  ASSUME Ringed, NEW w \in Warp, NEW r \in {0, 1}, Owed(w, r) = None
  PROVE  ring[w][r].phase = Uses(w, r) /\ \A m \in flight : ~ (m.warp = w /\ m.slot = r)
BY DEF Ringed, Slotted

LEMMA PrimeRinged ==
  ASSUME Typed, Typed', Places, Ringed, NEW w \in Warp, WarpStep(w), Prime(w)
  PROVE  Come(w)' /\ \A r \in {0, 1} : Slotted(w, r)'
<1>1. PICK c \in Nat : c = Taken(w)
  <2>1. head[w] \in Window
    BY DEF Typed
  <2>. QED
    BY <2>1, TakeFacts
<1>2. /\ k'[w] = c /\ head' = head /\ tiles' = tiles /\ n' = n /\ ring' = ring /\ knext' = knext
      /\ pc[w] = "prime" /\ pc'[w] = (IF head[w] = 0 THEN "snap" ELSE "fold")
      /\ Issue(w, n[w] % 2, c) /\ win' = win /\ n[w] % 2 \in {0, 1}
  BY <1>1, HeadFacts DEF Prime, Goto, fixed, Typed
<1>3. ~ HasOne(w) /\ ~ HasTwo(w) /\ HasOne(w)' /\ ~ HasTwo(w)'
  <2>1. Placed(w) /\ win[w] \in Nat
    BY DEF Places, Typed
  <2>. QED
    BY <1>2, <2>1 DEF HasOne, HasTwo, Placed, HeadPc
<1>4. ASSUME NEW r \in {0, 1}  PROVE Slotted(w, r)'
  <2>1. Owed(w, r) = None
    BY <1>3 DEF Owed
  <2>2. ring[w][r].phase = Uses(w, r) /\ \A m \in flight : ~ (m.warp = w /\ m.slot = r)
    BY <2>1, NothingOwed
  <2>3. Uses(w, r)' = Uses(w, r)
    BY <1>2 DEF Uses
  <2>4. CASE r = n[w] % 2
    <3>1. Owed(w, r)' = IF Live(w, c) THEN c ELSE None
      BY <1>2, <1>3, <2>4 DEF Owed, Live
    <3>. QED
      BY <1>2, <2>2, <2>3, <2>4, <3>1, IssueSlotted
  <2>5. CASE r # n[w] % 2
    <3>1. Owed(w, r)' = None
      BY <1>2, <1>3, <2>5 DEF Owed
    <3>2. \A m \in flight' : ~ (m.warp = w /\ m.slot = r)
      BY <1>2, <2>2, <2>5 DEF Issue
    <3>. QED
      BY <1>2, <2>2, <2>3, <3>1, <3>2 DEF Slotted
  <2>. QED
    BY <2>4, <2>5
<1>. QED
  BY <1>2, <1>4 DEF Come

LEMMA BeginRinged ==
  ASSUME Typed, Typed', Places, Ringed, NEW w \in Warp, WarpStep(w), Begin(w)
  PROVE  Come(w)' /\ \A r \in {0, 1} : Slotted(w, r)'
<1>1. PICK c \in Nat : c = Taken(w)
  <2>1. head[w] \in Window
    BY DEF Typed
  <2>. QED
    BY <2>1, TakeFacts
<1>2. /\ k' = k /\ head' = head /\ tiles' = tiles /\ n' = n /\ ring' = ring /\ pc[w] = "begin"
      /\ n[w] % 2 \in {0, 1} /\ AheadSlot(w) \in {0, 1} /\ AheadSlot(w) # n[w] % 2 /\ k[w] \in Nat
  <2>1. n[w] \in Int /\ n[w] % 2 \in {0, 1} /\ (n[w] + 1) % 2 \in {0, 1} /\ k[w] \in Nat
    BY HeadFacts DEF Typed
  <2>2. AheadSlot(w) \in {0, 1} /\ AheadSlot(w) # n[w] % 2
    BY <2>1, Parity DEF AheadSlot
  <2>. QED
    BY <2>1, <2>2 DEF Begin, fixed
<1>3. HasOne(w) /\ ~ HasTwo(w)
  BY <1>2 DEF HasOne, HasTwo
<1>4. \A r \in {0, 1} : Uses(w, r)' = Uses(w, r)
  BY <1>2 DEF Uses
<1>5. CASE Live(w, k[w])
  <2>1. Issue(w, AheadSlot(w), c) /\ knext'[w] = c /\ pc'[w] = "read"
    BY <1>1, <1>5 DEF Begin, Goto, Typed
  <2>2. HasOne(w)' /\ HasTwo(w)'
    BY <2>1 DEF HasOne, HasTwo
  <2>3. ASSUME NEW r \in {0, 1}  PROVE Slotted(w, r)'
    <3>1. CASE r = AheadSlot(w)
      <4>1. Owed(w, r) = None
        BY <1>2, <1>3, <3>1 DEF Owed
      <4>2. ring[w][r].phase = Uses(w, r) /\ \A m \in flight : ~ (m.warp = w /\ m.slot = r)
        BY <4>1, NothingOwed
      <4>3. Owed(w, r)' = IF Live(w, c) THEN c ELSE None
        BY <1>2, <2>1, <2>2, <3>1 DEF Owed, Live
      <4>. QED
        BY <1>2, <1>4, <2>1, <3>1, <4>2, <4>3, IssueSlotted
    <3>2. CASE r # AheadSlot(w)
      <4>1. r = n[w] % 2
        BY <1>2, <3>2
      <4>2. Owed(w, r) = k[w] /\ Owed(w, r)' = k[w]
        BY <1>2, <1>3, <1>5, <2>1, <2>2, <4>1 DEF Owed, Live
      <4>3. /\ \A m \in flight' : m.warp = w /\ m.slot = r => m \in flight
            /\ \A m \in flight : m \in flight'
        BY <2>1, <3>2 DEF Issue
      <4>4. Slotted(w, r)
        BY DEF Ringed
      <4>. QED
        BY <1>2, <1>4, <4>2, <4>3, <4>4 DEF Slotted
    <3>. QED
      BY <3>1, <3>2
  <2>. QED
    BY <2>1, <2>3 DEF Come
<1>6. CASE ~ Live(w, k[w])
  <2>1. flight' = flight /\ knext' = knext /\ pc'[w] = "after"
    BY <1>6 DEF Begin, Goto, Typed
  <2>2. ~ HasOne(w)' /\ ~ HasTwo(w)'
    BY <2>1 DEF HasOne, HasTwo
  <2>3. ASSUME NEW r \in {0, 1}  PROVE Slotted(w, r)'
    <3>1. Owed(w, r) = None /\ Owed(w, r)' = None
      BY <1>3, <1>6, <2>2 DEF Owed
    <3>2. ring[w][r].phase = Uses(w, r) /\ \A m \in flight : ~ (m.warp = w /\ m.slot = r)
      BY <3>1, NothingOwed
    <3>. QED
      BY <1>2, <1>4, <2>1, <3>1, <3>2 DEF Slotted
  <2>. QED
    BY <2>1, <2>3 DEF Come
<1>. QED
  BY <1>5, <1>6

LEMMA ReadRinged ==
  ASSUME Typed, Typed', Places, Ringed, NEW w \in Warp, WarpStep(w), ReadTile(w), Handed(w)
  PROVE  Come(w)' /\ \A r \in {0, 1} : Slotted(w, r)'
<1>1. PICK c \in Nat : c = Taken(w)
  <2>1. head[w] \in Window
    BY DEF Typed
  <2>. QED
    BY <2>1, TakeFacts
<1>2. /\ k'[w] = knext[w] /\ head' = head /\ tiles' = tiles /\ n'[w] = n[w] + 1 /\ ring' = ring
      /\ pc[w] = "tile" /\ k[w] \in Nat /\ n[w] \in Nat /\ Live(w, k[w])
  BY DEF ReadTile, fixed, Typed, Handed, HasTwo
<1>3. n[w] % 2 \in {0, 1} /\ (n[w] + 1) % 2 \in {0, 1} /\ n[w] % 2 # (n[w] + 1) % 2
  <2>1. n[w] \in Int
    BY <1>2
  <2>. QED
    BY <2>1, Parity
<1>4. PICK r0 \in {0, 1} : r0 = n[w] % 2
  BY <1>3
<1>5. PICK r1 \in {0, 1} : r1 = (n[w] + 1) % 2
  BY <1>3
<1>6. Uses(w, r0)' = Uses(w, r0) + 1 /\ Uses(w, r1)' = Uses(w, r1)
  <2>1. /\ (n[w] + 1 + 1 - r0) \div 2 = (n[w] + 1 - r0) \div 2 + 1
        /\ (n[w] + 1 + 1 - r1) \div 2 = (n[w] + 1 - r1) \div 2
    BY <1>2, <1>4, <1>5, RingUses
  <2>. QED
    BY <1>2, <2>1 DEF Uses
<1>7. HasOne(w) /\ HasTwo(w) /\ n'[w] % 2 = r1 /\ n[w] % 2 = r0 /\ r0 # r1
      /\ \A r \in {0, 1} : r = r0 \/ r = r1
  BY <1>2, <1>3, <1>4, <1>5 DEF HasOne, HasTwo
<1>8. /\ \A m \in flight : ~ (m.warp = w /\ m.slot = r0)
      /\ ring[w][r0].phase = Uses(w, r0) + 1
  <2>1. Come(w) /\ Slotted(w, r0)
    BY DEF Ringed
  <2>2. \A m \in flight : <<m.warp, m.slot>> # <<w, r0>>
    BY <1>2, <1>7, <2>1 DEF Come
  <2>3. Owed(w, r0) # None
    BY <1>2, <1>7 DEF Owed, None
  <2>. QED
    BY <2>1, <2>2, <2>3 DEF Slotted
<1>9. Slotted(w, r1) /\ Owed(w, r1) = IF Live(w, knext[w]) THEN knext[w] ELSE None
  BY <1>7 DEF Ringed, Owed
<1>10. CASE Live(w, knext[w])
  <2>1. Issue(w, r0, c) /\ knext'[w] = c /\ pc'[w] = "read"
    BY <1>1, <1>7, <1>10 DEF ReadTile, Goto, Typed
  <2>2. HasOne(w)' /\ HasTwo(w)'
    BY <2>1 DEF HasOne, HasTwo
  <2>3. Slotted(w, r0)'
    <3>1. Owed(w, r0)' = IF Live(w, c) THEN c ELSE None
      BY <1>2, <1>7, <2>1, <2>2 DEF Owed, Live
    <3>2. ring'[w][r0].phase = Uses(w, r0)'
      BY <1>2, <1>6, <1>8
    <3>. QED
      BY <1>2, <1>8, <2>1, <3>1, <3>2, IssueSlotted
  <2>4. Slotted(w, r1)'
    <3>1. Owed(w, r1)' = Owed(w, r1)
      BY <1>2, <1>7, <1>9, <1>10, <2>1, <2>2 DEF Owed, Live
    <3>2. /\ \A m \in flight' : m.warp = w /\ m.slot = r1 => m \in flight
          /\ \A m \in flight : m \in flight'
      BY <1>7, <2>1 DEF Issue
    <3>. QED
      BY <1>2, <1>6, <1>9, <3>1, <3>2 DEF Slotted
  <2>. QED
    BY <1>7, <2>1, <2>3, <2>4 DEF Come
<1>11. CASE ~ Live(w, knext[w])
  <2>1. flight' = flight /\ pc'[w] = "after"
    BY <1>11 DEF ReadTile, Goto, Typed
  <2>2. \A r \in {0, 1} : Owed(w, r)' = None
    BY <2>1 DEF Owed, HasOne, HasTwo
  <2>3. Slotted(w, r0)'
    BY <1>2, <1>6, <1>8, <2>1, <2>2 DEF Slotted
  <2>4. Slotted(w, r1)'
    <3>1. ring[w][r1].phase = Uses(w, r1) /\ \A m \in flight : ~ (m.warp = w /\ m.slot = r1)
      BY <1>9, <1>11, NothingOwed
    <3>. QED
      BY <1>2, <1>6, <2>1, <2>2, <3>1 DEF Slotted
  <2>. QED
    BY <1>7, <2>1, <2>3, <2>4 DEF Come
<1>. QED
  BY <1>10, <1>11

LEMMA BlockRinged ==
  ASSUME Typed, Places, Ringed, (\E at \in DOMAIN After : Barrier(at)) \/ Close \/ UNCHANGED vars
  PROVE  Ringed'
<1>1. flight' = flight /\ ring' = ring /\ n' = n /\ k' = k /\ knext' = knext /\ tiles' = tiles /\ head' = head
  BY DEF Barrier, Close, fixed, readVars, vars
<1>2. ASSUME NEW v \in Warp
      PROVE  (HasOne(v)' <=> HasOne(v)) /\ (HasTwo(v)' <=> HasTwo(v)) /\ (pc'[v] = "tile" => pc[v] = "tile")
  <2>1. ASSUME NEW at \in DOMAIN After, Barrier(at)
        PROVE  (HasOne(v)' <=> HasOne(v)) /\ (HasTwo(v)' <=> HasTwo(v)) /\ (pc'[v] = "tile" => pc[v] = "tile")
    BY <2>1 DEF Barrier, After, HasOne, HasTwo, fixed
  <2>2. CASE Close
    <3>1. pc[v] = "close" /\ pc'[v] = OnToWindow(v) /\ win'[v] = win[v] + 1
      BY <2>2 DEF Close
    <3>2. Placed(v) /\ win[v] \in Nat /\ Windows \in Nat
      BY Sizes DEF Places, Typed
    <3>. QED
      BY <1>1, <3>1, <3>2 DEF HasOne, HasTwo, OnToWindow, Placed, Ahead
  <2>3. CASE UNCHANGED vars
    BY <2>3 DEF vars, HasOne, HasTwo
  <2>. QED
    BY <2>1, <2>2, <2>3
<1>3. ASSUME NEW v \in Warp, NEW r \in {0, 1}  PROVE Slotted(v, r)'
  <2>1. Slotted(v, r)
    BY DEF Ringed
  <2>. QED
    BY <1>1, <1>2, <2>1, OwedKept, SlottedKept
<1>4. ASSUME NEW v \in Warp  PROVE Come(v)'
  BY <1>1, <1>2 DEF Come, Ringed
<1>. QED
  BY <1>3, <1>4 DEF Ringed

(* A copy lands in the slot it was issued into, which has no other.        *)
LEMMA LandRinged ==
  ASSUME Typed, Ringed, NEW m \in flight, Land(m)
  PROVE  Ringed'
<1>1. /\ m.warp \in Warp /\ m.slot \in {0, 1} /\ m \in Copies
      /\ flight' = flight \ {m}
      /\ ring' = [ring EXCEPT ![m.warp][m.slot] = [phase |-> @.phase + 1, tile |-> m.tile]]
      /\ UNCHANGED <<tiles, win, pc, head, k, knext, n>>
  BY DEF Typed, Copies, Land, fixed
<1>2. ring \in [Warp -> [{0, 1} -> Tag]] /\ flight \subseteq Copies
  BY DEF Typed
<1>3. ASSUME NEW v \in Warp, NEW r \in {0, 1}  PROVE Slotted(v, r)'
  <2>1. Slotted(v, r) /\ Owed(v, r)' = Owed(v, r) /\ Uses(v, r)' = Uses(v, r)
    BY <1>1 DEF Ringed, Owed, Uses, HasOne, HasTwo, Live
  <2>2. CASE v = m.warp /\ r = m.slot
    <3>1. /\ Owed(v, r) # None /\ m.tile = <<head[v], Owed(v, r)>> /\ ring[v][r].phase = Uses(v, r)
          /\ \A l \in flight : l.warp = v /\ l.slot = r => l.tile = m.tile
      BY <2>1, <2>2 DEF Slotted
    <3>2. ASSUME NEW l \in flight', l.warp = v, l.slot = r  PROVE FALSE
      <4>1. l \in Copies /\ l.tile = m.tile /\ l # m
        BY <1>1, <1>2, <3>1, <3>2
      <4>. QED
        BY <1>1, <2>2, <3>2, <4>1 DEF Copies
    <3>3. ring'[v][r].phase = Uses(v, r) + 1 /\ ring'[v][r].tile = m.tile
      BY <1>1, <1>2, <2>2, <3>1
    <3>. QED
      BY <1>1, <2>1, <3>1, <3>2, <3>3 DEF Slotted
  <2>3. CASE ~ (v = m.warp /\ r = m.slot)
    <3>1. ring'[v][r] = ring[v][r]
      BY <1>1, <1>2, <2>3
    <3>2. \A l : l.warp = v /\ l.slot = r => (l \in flight' <=> l \in flight)
      BY <1>1, <2>3
    <3>3. (\A l \in flight' : <<l.warp, l.slot>> # <<v, r>>)
            => (\A l \in flight : <<l.warp, l.slot>> # <<v, r>>)
      BY <3>2
    <3>. QED
      BY <1>1, <2>1, <3>1, <3>2, <3>3 DEF Slotted
  <2>. QED
    BY <2>2, <2>3
<1>4. ASSUME NEW v \in Warp  PROVE Come(v)'
  BY <1>1 DEF Come, Ringed
<1>. QED
  BY <1>3, <1>4 DEF Ringed

---------------------------------------------------------------------------
LEMMA WindowInit == Init => WindowInv
<1>. SUFFICES ASSUME Init  PROVE WindowInv
  OBVIOUS
<1>1. 0 \in Window /\ 0 \in Warp /\ 0 \in Nat /\ None \in Made /\ 0 \in Made /\ 0 < Windows
  BY Sizes DEF Made, None
<1>2. Typed
  BY <1>1, Sizes DEF Init, Typed, Pc, HeadPc, Tag, Made, None
<1>3. ASSUME NEW w \in Warp
      PROVE  /\ pc[w] = "reset" /\ win[w] = 0 /\ head[w] = 0 /\ words[w] = 0 /\ landed[w]
             /\ n[w] = 0 /\ folded[w] = 0
             /\ \A r \in {0, 1} : ring[w][r].phase = 0
  <2>1. /\ pc[w] = "reset" /\ win[w] = 0 /\ head[w] = 0 /\ words[w] = 0 /\ landed[w]
        /\ n[w] = 0 /\ folded[w] = 0
    BY DEF Init
  <2>2. ring[w] = [r \in {0, 1} |-> [phase |-> 0, tile |-> <<None, None>>]]
    BY DEF Init
  <2>3. ASSUME NEW r \in {0, 1}  PROVE ring[w][r].phase = 0
    <3>1. ring[w][r] = [phase |-> 0, tile |-> <<None, None>>]
      BY <2>2
    <3>. QED
      BY <3>1
  <2>. QED
    BY <2>1, <2>3
<1>4. Places
  <2>1. ASSUME NEW w \in Warp  PROVE Placed(w)
    BY <1>1, <1>3, Sizes DEF Placed, ReadPc
  <2>2. ASSUME NEW w \in Warp  PROVE Segment(w) = 0
    BY <1>3 DEF Segment, ReadPc
  <2>. QED
    BY <1>3, <2>1, <2>2 DEF Places, Together
<1>5. Produced
  <2>1. ASSUME NEW w \in Warp  PROVE Products(w)
    <3>1. Scattered(w) = -1 /\ Minted(w) = -1
      BY <1>3 DEF Scattered, Minted, HeadPc
    <3>. QED
      BY <1>3, <3>1 DEF Products, HeadPc
  <2>. QED
    BY <1>1, <1>3, <2>1 DEF Produced, Made0
<1>6. Tickets
  <2>1. ASSUME NEW w \in Warp  PROVE Handed(w) /\ Finished(w)
    BY <1>3 DEF Handed, HasTwo, Finished
  <2>2. ASSUME NEW i \in Window  PROVE Counted(i)
    <3>1. i \in Nat /\ ~ Opened(i)
      BY <1>1, <1>3, Sizes DEF Opened
    <3>2. \A t \in Tile : drained[i][t] = 0
      BY DEF Init
    <3>. QED
      BY <1>1, <1>3, <3>1, <3>2 DEF Counted
  <2>. QED
    BY <2>1, <2>2 DEF Tickets
<1>7. Ringed
  <2>1. ASSUME NEW w \in Warp, NEW r \in {0, 1}  PROVE Slotted(w, r)
    <3>1. Owed(w, r) = None
      BY <1>3 DEF Owed, HasOne, HasTwo
    <3>2. Uses(w, r) = 0
      <4>1. (0 + 1 - 0) \div 2 = 0 /\ (0 + 1 - 1) \div 2 = 0
        OBVIOUS
      <4>. QED
        BY <1>3, <4>1 DEF Uses
    <3>3. flight = {}
      BY DEF Init
    <3>. QED
      BY <1>3, <3>1, <3>2, <3>3 DEF Slotted
  <2>. QED
    BY <1>3, <2>1 DEF Ringed, Come
<1>. QED
  BY <1>2, <1>4, <1>5, <1>6, <1>7 DEF WindowInv

LEMMA WindowStep == WindowInv /\ [Next]_vars => WindowInv'
<1>. SUFFICES ASSUME WindowInv, [Next]_vars  PROVE WindowInv'
  OBVIOUS
<1>0. Typed /\ Places /\ Produced /\ Tickets /\ Ringed /\ \A w \in Warp : Placed(w) /\ Handed(w)
  BY DEF WindowInv, Places, Tickets
<1>1. ASSUME NEW w \in Warp, WarpStep(w)  PROVE WindowInv'
  <2>1. Typed'
    BY <1>0, <1>1, HeadTyped, ReadTyped, LoopTyped DEF WarpStep, Handed
  <2>2. Places'
    BY <1>0, <1>1, WarpPlaces
  <2>3. Produced'
    BY <1>0, <1>1, <2>1, WarpProduced
  <2>4. Tickets'
    BY <1>0, <1>1, <2>1, WarpTickets
  <2>5. Come(w)' /\ \A r \in {0, 1} : Slotted(w, r)'
    BY <1>0, <1>1, <2>1, IdleRinged, PrimeRinged, BeginRinged, ReadRinged DEF WarpStep, Idles
  <2>6. \A v \in Warp : v # w => Come(v)' /\ \A r \in {0, 1} : Slotted(v, r)'
    BY <1>0, <1>1, OthersRinged
  <2>7. Ringed'
    BY <2>5, <2>6 DEF Ringed
  <2>. QED
    BY <2>1, <2>2, <2>3, <2>4, <2>7 DEF WindowInv
<1>2. ASSUME (\E at \in DOMAIN After : Barrier(at)) \/ Close \/ (\E m \in flight : Land(m))
             \/ UNCHANGED vars
      PROVE  WindowInv'
  <2>1. Typed'
    BY <1>0, <1>2, BlockTyped
  <2>2. Places'
    BY <1>0, <1>2, BlockPlaces
  <2>3. Produced'
    BY <1>0, <1>2, BlockProduced
  <2>4. Tickets'
    BY <1>0, <1>2, <2>1, BlockTickets
  <2>5. Ringed'
    BY <1>0, <1>2, BlockRinged, LandRinged
  <2>. QED
    BY <2>1, <2>2, <2>3, <2>4, <2>5 DEF WindowInv
<1>. QED
  BY <1>1, <1>2 DEF Next, Barriers

(***************************************************************************)
(* The theorems.                                                           *)
(***************************************************************************)
(* The warps stay in one segment, and products, tickets and ring slots are *)
(* what the segment says, at every step of the window loop.                *)
THEOREM SegmentsHold == Spec => []WindowInv
<1>1. Init => WindowInv
  BY WindowInit
<1>2. WindowInv /\ [Next]_vars => WindowInv'
  BY WindowStep
<1>. QED
  BY <1>1, <1>2, PTL DEF Spec

(* Each stage of the head and of the readout reads what every warp made    *)
(* for this window: the barriers and the two parities are enough.          *)
THEOREM StagesReadCurrent == Spec => []ReadsAreCurrent
<1>1. WindowInv => ReadsAreCurrent
  <2>. SUFFICES ASSUME WindowInv, NEW w \in Warp
                PROVE  LET h == head[w]
                           Order == \A v \in Warp : order[h % 2][v] = h
                       IN /\ pc[w] = "one"     => \A v \in Warp : words[v] = h /\ landed[v]
                          /\ pc[w] = "scan"    => \A v \in Warp : counts[v] = h
                          /\ pc[w] = "scatter" => bases = h
                          /\ pc[w] \in {"mint", "prime", "begin", "read", "tile"} => Order
                          /\ pc[w] = "tile" =>
                               /\ masks[h % 2][Minter(k[w])] = h
                               /\ ring[w][n[w] % 2].tile = <<win[w], k[w]>>
                               /\ \A m \in flight : <<m.warp, m.slot>> # <<w, n[w] % 2>>
    BY DEF ReadsAreCurrent
  <2>. DEFINE h == head[w]
  <2>0. Typed /\ Places /\ Produced /\ Tickets /\ Ringed /\ 0 \in Warp
    BY Sizes DEF WindowInv
  <2>1. ASSUME NEW v \in Warp
        PROVE  /\ Products(v) /\ Placed(v) /\ Placed(w) /\ win[v] = win[w] /\ Segment(v) = Segment(w)
               /\ win[v] \in Nat /\ head[v] \in Nat /\ head[w] \in Nat /\ pc[v] \in Pc /\ pc[w] \in Pc
               /\ head[v] < Windows /\ head[w] < Windows /\ Windows \in Nat \ {0}
    BY <2>0, Abreast DEF Produced
  <2>2. ASSUME pc[w] = "one", NEW v \in Warp  PROVE words[v] = h /\ landed[v]
    <3>1. CASE pc[v] \in HeadPc
      BY <2>1, <2>2, <3>1 DEF Placed, Segment, Products, HeadPc, ReadPc
    <3>2. CASE pc[v] \notin HeadPc
      BY <2>1, <2>2, <3>2 DEF Placed, Segment, Products, Ahead, HeadPc, ReadPc, Pc
    <3>. QED
      BY <3>1, <3>2
  <2>3. ASSUME pc[w] = "scan", NEW v \in Warp  PROVE counts[v] = h
    <3>1. pc[v] \in {"scan", "scanned"} /\ head[v] = h
      BY <2>1, <2>3 DEF Placed, Segment, Ahead, HeadPc, ReadPc, Pc
    <3>. QED
      BY <2>1, <3>1 DEF Products
  <2>4. ASSUME pc[w] = "scatter"  PROVE bases = h
    <3>1. pc[0] \in {"scatter", "order"} /\ head[0] = h
      BY <2>0, <2>1, <2>4 DEF Placed, Segment, Ahead, HeadPc, ReadPc, Pc
    <3>. QED
      BY <2>0, <3>1 DEF Produced, Made0
  <2>5. ASSUME pc[w] \in {"mint", "prime", "begin", "read", "tile"}, NEW v \in Warp
        PROVE  order[h % 2][v] = h
    <3>1. Scattered(v) = h
      <4>1. CASE pc[v] \in HeadPc
        BY <2>1, <2>5, <4>1 DEF Placed, Segment, Scattered, HeadPc, ReadPc
      <4>2. CASE pc[v] \notin HeadPc
        BY <2>1, <2>5, <4>2 DEF Placed, Segment, Scattered, Ahead, HeadPc, ReadPc, Pc
      <4>. QED
        BY <4>1, <4>2
    <3>. QED
      BY <2>1, <3>1 DEF Products
  <2>6. ASSUME pc[w] = "tile"
        PROVE  /\ masks[h % 2][Minter(k[w])] = h
               /\ ring[w][n[w] % 2].tile = <<win[w], k[w]>>
               /\ \A m \in flight : <<m.warp, m.slot>> # <<w, n[w] % 2>>
    <3>1. k[w] \in Nat /\ Minter(k[w]) \in Warp
      BY <2>0, MinterIsAWarp DEF Typed
    <3>2. ASSUME NEW v \in Warp  PROVE Minted(v) = h
      <4>1. CASE pc[v] \in HeadPc
        BY <2>1, <2>6, <4>1 DEF Placed, Segment, Minted, HeadPc, ReadPc
      <4>2. CASE pc[v] \notin HeadPc
        BY <2>1, <2>6, <4>2 DEF Placed, Segment, Minted, Ahead, HeadPc, ReadPc, Pc
      <4>. QED
        BY <4>1, <4>2
    <3>3. masks[h % 2][Minter(k[w])] = h
      BY <2>1, <3>1, <3>2 DEF Products
    <3>4. \A m \in flight : <<m.warp, m.slot>> # <<w, n[w] % 2>>
      BY <2>0, <2>6 DEF Ringed, Come
    <3>5. Owed(w, n[w] % 2) = k[w] /\ k[w] # None
      BY <2>0, <2>6, <3>1 DEF Owed, HasOne, HasTwo, Tickets, Handed, None
    <3>6. n[w] % 2 \in {0, 1} /\ head[w] = win[w]
      BY <2>0, <2>1, <2>6, HeadFacts DEF Placed, ReadPc
    <3>7. ring[w][n[w] % 2].tile = <<head[w], k[w]>>
      BY <2>0, <3>4, <3>5, <3>6 DEF Ringed, Slotted
    <3>. QED
      BY <3>3, <3>4, <3>6, <3>7
  <2>. QED
    BY <2>2, <2>3, <2>4, <2>5, <2>6
<1>. QED
  BY <1>1, SegmentsHold, PTL

(* Whatever the warps' pace, the counter hands a window's live tiles out   *)
(* once each, and no window is passed with one of them unread.             *)
THEOREM NoTileTwice == Spec => []TilesReadOnce
<1>1. WindowInv => TilesReadOnce
  <2>. SUFFICES ASSUME WindowInv, NEW i \in Window, NEW t \in Tile
                PROVE  /\ drained[i][t] <= 1
                       /\ t < tiles[i] /\ (\E w \in Warp : win[w] > i) => drained[i][t] = 1
    BY DEF TilesReadOnce
  <2>1. Counted(i) /\ 0 \in Warp /\ i \in Nat /\ win[0] \in Nat /\ \A w \in Warp : win[w] = win[0]
    BY Sizes DEF WindowInv, Tickets, Places, Together, Typed
  <2>2. drained[i][t] \in {0, 1}
    BY <2>1 DEF Counted, Ledger
  <2>3. (\E w \in Warp : win[w] > i) => i < win[0]
    BY <2>1
  <2>. QED
    BY <2>1, <2>2, <2>3 DEF Counted
<1>. QED
  BY <1>1, SegmentsHold, PTL

(* Past the first window, whose snapshot has no barrier before it, a tile  *)
(* is read off every warp's rows of the state as of the window's start.    *)
THEOREM SnapshotIsWhole == Spec => []SnapshotCoversLater
<1>1. WindowInv => SnapshotCoversLater
  <2>. SUFFICES ASSUME WindowInv, NEW w \in Warp, pc[w] = "tile", win[w] > 0, NEW v \in Warp
                PROVE  snap[v][k[w]] = win[w]
    BY DEF SnapshotCoversLater
  <2>1. /\ Placed(v) /\ Placed(w) /\ win[v] = win[w] /\ Segment(v) = Segment(w)
        /\ win[v] \in Nat /\ head[v] \in Nat /\ head[w] \in Nat /\ pc[v] \in Pc /\ pc[w] \in Pc
        /\ Products(v) /\ Windows \in Nat /\ Typed /\ Handed(w)
    BY Abreast DEF WindowInv, Produced, Tickets
  <2>2. pc[v] \notin {"snap", "exit"}
    BY <2>1 DEF Segment, ReadPc, Placed
  <2>3. head[w] = win[w]
    BY <2>1 DEF Placed, ReadPc
  <2>4. k[w] < tiles[head[w]]
    BY <2>1 DEF Handed, HasTwo, Live
  <2>5. head[w] \in Window
    BY <2>1, HeadFacts
  <2>6. k[w] \in Nat /\ tiles[head[w]] \in 0 .. MaxTiles
    BY <2>1, <2>5 DEF Typed
  <2>7. k[w] \in Tile
    BY <2>4, <2>6, Sizes DEF Tile
  <2>. QED
    BY <2>1, <2>2, <2>3, <2>4, <2>7 DEF Products
<1>. QED
  BY <1>1, SegmentsHold, PTL

=============================================================================
