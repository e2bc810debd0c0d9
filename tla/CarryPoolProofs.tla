-------------------------- MODULE CarryPoolProofs --------------------------
(***************************************************************************)
(* That no warp folds a torn chunk, for every number of warps, slots,      *)
(* windows and chunks and every even wrap of the byte counts.              *)
(*                                                                         *)
(* A warp knows a slot by two parities and two wrapped counts.  What makes *)
(* that enough is that a slot is at any time about ONE chunk: the warps    *)
(* are either filling it, and then none has taken it and none is past its  *)
(* fill, or folding it, and then all have filled it and none fills beyond. *)
(* IInv says this of every slot; the parities then tell the two apart.     *)
(***************************************************************************)
EXTENDS CarryPool, TLAPS, FiniteSetTheorems

Folding(w) == pc[w] \in {"burst", "last"}

(* The first chunk a warp has not filled yet.                              *)
Due(w) == IF fill[w] = None THEN Chunks(w) ELSE fill[w]

(* Warps whose piece of chunk x of slot s has landed.                      *)
Arrived(s, x) == {w \in Warp : Due(w) > x /\ \A m \in flight : <<m.warp, m.slot>> # <<w, s>>}
TakenBy(x)    == {w \in Warp : c[w] > x}

(* Slot s waits for chunk x: some warps have issued their copies of it.    *)
Filling(s, x) ==
  /\ full[s].phase = empty[s].phase /\ empty[s].arrived = 0
  /\ full[s].arrived = Cardinality(Arrived(s, x))
  /\ \A w \in Warp :
       /\ c[w] <= x /\ takes[w][s] % 2 = empty[s].phase % 2
       /\ (fills[w][s] % 2 = full[s].phase % 2) <=> (Due(w) <= x)
       /\ Folding(w) => c[w] % Slots # s
       /\ w \in Arrived(s, x) => piece[s][w] = <<win[w], x>>
  /\ \A m \in flight : m.slot = s => Due(m.warp) > x /\ m.chunk = <<win[m.warp], x>>

(* Slot s holds chunk x: some warps have folded it.                        *)
Draining(s, x) ==
  /\ full[s].phase = empty[s].phase + 1 /\ full[s].arrived = 0
  /\ empty[s].arrived = Cardinality(TakenBy(x))
  /\ \A w \in Warp :
       /\ Due(w) > x /\ fills[w][s] % 2 = full[s].phase % 2
       /\ (takes[w][s] % 2 = empty[s].phase % 2) <=> (c[w] <= x)
       /\ Folding(w) /\ c[w] % Slots = s => c[w] = x
       /\ piece[s][w] = <<win[w], x>>
  /\ \A m \in flight : m.slot # s

(* No warp is a whole turn of the slots away from x, on either side; and a *)
(* count that reads zero has never been bumped.                            *)
About(s, x) ==
  /\ x % Slots = s
  /\ \A w \in Warp :
       /\ x - Slots < Due(w) /\ Due(w) <= x + Slots
       /\ x - Slots < c[w] /\ c[w] <= x + Slots
       /\ fills[w][s] = 0 => full[s].phase = 0 /\ Due(w) <= x
  /\ Filling(s, x) \/ Draining(s, x)

(* Where a warp is says how far its stream has got.                        *)
Control(w) ==
  /\ c[w] <= Chunks(w)
  /\ pc[w] = "prime" => c[w] = 0 /\ fill[w] \in 0 .. Slots /\ fill[w] <= Chunks(w)
  /\ pc[w] # "prime" => fill[w] = None \/ fill[w] < Chunks(w)
  /\ Folding(w) => c[w] < Chunks(w)
  /\ pc[w] = "end" => c[w] = Chunks(w) /\ fill[w] = None

Typed ==
  /\ chunks \in [0 .. Windows - 1 -> 0 .. MaxChunks]
  /\ pc \in [Warp -> {"prime", "step", "take", "burst", "last", "wait", "end", "exit"}]
  /\ win \in [Warp -> 0 .. Windows]
  /\ c \in [Warp -> 0 .. MaxChunks] /\ fill \in [Warp -> None .. MaxChunks]
  /\ fills \in [Warp -> [Slot -> 0 .. Wrap - 1]] /\ takes \in [Warp -> [Slot -> 0 .. Wrap - 1]]
  /\ full \in [Slot -> [phase : Nat, arrived : 0 .. Warps - 1]]
  /\ empty \in [Slot -> [phase : Nat, arrived : 0 .. Warps - 1]]
  /\ flight \subseteq [warp : Warp, slot : Slot, chunk : (0 .. Windows) \X (0 .. MaxChunks)]
  /\ piece \in [Slot -> [Warp -> (None .. Windows) \X (None .. MaxChunks)]]

(* All warps are in one window, and leave the last one together.           *)
Together ==
  \A v, w \in Warp : win[v] = win[w] /\ (pc[v] = "exit") = (pc[w] = "exit")

Running == \A w \in Warp : pc[w] # "exit"
Ready   == \A w \in Warp : win[w] < Windows /\ Control(w)
IInv ==
  /\ Typed /\ Together
  /\ Running => Ready /\ \A s \in Slot : \E x \in Nat : About(s, x)

(***************************************************************************)
(* Division, and the streams' types.                                       *)
(***************************************************************************)
LEMMA DivMod == ASSUME NEW a \in Int, NEW n \in Nat \ {0}
  PROVE a = n * (a \div n) + (a % n) /\ a % n \in 0 .. n - 1 /\ a \div n \in Int
OBVIOUS
LEMMA Multiple == ASSUME NEW p \in Int, NEW q \in Int, NEW n \in Nat \ {0},
    n * p - n * q < n, n * q - n * p < n PROVE p = q
<1>1. n * p - n * q = n * (p - q) /\ n * q - n * p = n * (q - p) OBVIOUS
<1>2. CASE p - q >= 1
    <2>1. n * (p - q) >= n BY <1>2
    <2> QED BY <2>1, <1>1
<1>3. CASE q - p >= 1
    <2>1. n * (q - p) >= n BY <1>3
    <2> QED BY <2>1, <1>1
<1> QED BY <1>2, <1>3
LEMMA ModUnique == ASSUME NEW a \in Int, NEW b \in Int, NEW n \in Nat \ {0},
   a % n = b % n, a < b + n, b < a + n PROVE a = b
<1>1. /\ a = n * (a \div n) + (a % n) /\ b = n * (b \div n) + (b % n)
      /\ a \div n \in Int /\ b \div n \in Int BY DivMod
<1>2. a \div n = b \div n BY <1>1, Multiple
<1> QED BY <1>1, <1>2
LEMMA ModSmall == ASSUME NEW n \in Nat \ {0}, NEW a \in 0 .. n-1 PROVE a % n = a
OBVIOUS

LEMMA PoolFacts ==
  /\ Slots \in Nat \ {0} /\ Warps \in Nat \ {0} /\ Wrap \in Nat /\ Wrap > 3 /\ Wrap % 2 = 0
  /\ \A f \in Nat : f % Slots \in Slot
  /\ \A s \in Slot : s \in Nat /\ s % Slots = s
  /\ IsFiniteSet(Warp) /\ Cardinality(Warp) = Warps
<1>1. Slots \in Nat \ {0} /\ Warps \in Nat \ {0} /\ Wrap \in Nat /\ Wrap > 3 /\ Wrap % 2 = 0
  BY CarryPoolAssumption
<1>2. \A f \in Nat : f % Slots \in Slot
  BY <1>1, DivMod DEF Slot
<1>3. \A s \in Slot : s \in Nat /\ s % Slots = s
  BY <1>1, ModSmall DEF Slot
<1>4. IsFiniteSet(Warp) /\ Cardinality(Warp) = Warps
  BY <1>1, FS_Interval DEF Warp
<1>. QED
  BY <1>1, <1>2, <1>3, <1>4

(* Two chunks of one slot are a whole turn apart, or the same.             *)
LEMMA SameChunk ==
  ASSUME NEW a \in Nat, NEW b \in Nat, a % Slots = b % Slots, a < b + Slots, b < a + Slots
  PROVE  a = b
<1>1. Slots \in Nat \ {0} /\ a \in Int /\ b \in Int
  BY PoolFacts
<1>. QED
  BY <1>1, ModUnique

LEMMA NextTurn ==
  ASSUME NEW a \in Nat
  PROVE  a + Slots \in Nat /\ (a + Slots) % Slots = a % Slots
<1>. DEFINE p == a \div Slots
            q == (a + Slots) \div Slots
<1>1. Slots \in Nat \ {0} /\ a \in Int /\ a + Slots \in Int /\ a + Slots \in Nat
  BY CarryPoolAssumption
<1>2. a = Slots * p + (a % Slots) /\ a % Slots \in 0 .. Slots - 1 /\ p \in Int
  BY <1>1, DivMod
<1>3. /\ a + Slots = Slots * q + ((a + Slots) % Slots)
      /\ (a + Slots) % Slots \in 0 .. Slots - 1 /\ q \in Int
  BY <1>1, DivMod
<1>. HIDE DEF p, q
<1>4. Slots * (p + 1) = Slots * p + Slots
  BY <1>1, <1>2
<1>5. p + 1 = q
  BY <1>1, <1>2, <1>3, <1>4, Multiple
<1>. QED
  BY <1>1, <1>2, <1>3, <1>4, <1>5

LEMMA BumpFlips ==
  ASSUME NEW n \in 0 .. Wrap - 1, NEW isFill \in BOOLEAN
  PROVE  /\ Bump(n, isFill) \in 0 .. Wrap - 1 /\ Bump(n, isFill) \in Nat
         /\ Bump(n, isFill) % 2 # n % 2
         /\ isFill => Bump(n, isFill) # 0
<1>1. Wrap \in Nat /\ Wrap > 3 /\ Wrap % 2 = 0
  BY PoolFacts
<1>2. n + 1 < Wrap => (n + 1) % Wrap = n + 1
  BY <1>1, ModSmall
<1>3. n + 1 = Wrap => (n + 1) % Wrap = 0
  BY <1>1
<1>. QED
  BY <1>1, <1>2, <1>3 DEF Bump

LEMMA DueTyped ==
  ASSUME Typed, NEW w \in Warp, win[w] < Windows
  PROVE  Chunks(w) \in 0 .. MaxChunks /\ Chunks(w) \in Nat /\ Due(w) \in Nat
  BY CarryPoolAssumption DEF Typed, Due, Chunks, None

(* What a warp may fill, it fills into a slot that is waiting for it.      *)
LEMMA EmptyMeansFilling ==
  ASSUME Typed, NEW w \in Warp, win[w] < Windows, NEW s \in Slot, NEW x \in Nat,
         About(s, x), Due(w) % Slots = s, EmptyNow(w, s)
  PROVE  Filling(s, x) /\ Due(w) = x
<1>1. Due(w) \in Nat
  BY DueTyped
<1>2. fills[w][s] \in Nat /\ full[s].phase \in Nat /\ empty[s].phase \in Nat
  BY DEF Typed
<1>3. Due(w) > x - Slots /\ Due(w) <= x + Slots /\ x % Slots = s
  BY DEF About
<1>4. Filling(s, x)
  <2>1. CASE fills[w][s] = 0
    BY <2>1, <1>1, <1>2 DEF About, Draining
  <2>2. CASE (fills[w][s] - 1) % 2 # empty[s].phase % 2
    <3>. SUFFICES ASSUME Draining(s, x)  PROVE FALSE
      BY DEF About
    <3>. QED
      BY <2>2, <1>2 DEF Draining
  <2>. QED
    BY <2>1, <2>2 DEF EmptyNow, Tested
<1>5. Due(w) <= x
  <2>1. CASE fills[w][s] = 0
    BY <2>1 DEF About
  <2>2. CASE (fills[w][s] - 1) % 2 # empty[s].phase % 2
    BY <2>2, <1>2, <1>4 DEF Filling
  <2>. QED
    BY <2>1, <2>2 DEF EmptyNow, Tested
<1>6. Due(w) % Slots = x % Slots /\ Due(w) < x + Slots /\ x < Due(w) + Slots
  BY <1>1, <1>3, <1>5, CarryPoolAssumption
<1>7. Due(w) = x
  BY <1>1, <1>6, SameChunk
<1>. QED
  BY <1>4, <1>7

(* What a warp finds full, it has not taken yet.                           *)
LEMMA FullMeansDraining ==
  ASSUME Typed, NEW w \in Warp, NEW s \in Slot, NEW x \in Nat,
         About(s, x), c[w] % Slots = s, FullNow(w, s)
  PROVE  Draining(s, x) /\ c[w] = x
<1>1. takes[w][s] \in Nat /\ full[s].phase \in Nat /\ empty[s].phase \in Nat /\ c[w] \in Nat
  BY DEF Typed
<1>2. takes[w][s] % 2 # full[s].phase % 2
  BY <1>1 DEF FullNow, Tested
<1>3. Draining(s, x)
  BY <1>1, <1>2 DEF About, Filling
<1>4. c[w] <= x
  BY <1>1, <1>2, <1>3 DEF Draining
<1>5. c[w] % Slots = x % Slots /\ c[w] < x + Slots /\ x < c[w] + Slots
  BY <1>1, <1>4, CarryPoolAssumption DEF About
<1>6. c[w] = x
  BY <1>1, <1>5, SameChunk
<1>. QED
  BY <1>3, <1>6

(***************************************************************************)
(* Every slot stays about one chunk.                                       *)
(***************************************************************************)
(* A fill: the slot is waiting for that chunk, and of every other slot the *)
(* warp passes no boundary.                                                *)
LEMMA FillKeeps ==
  ASSUME Typed, Ready, NEW w \in Warp, NEW s \in Slot, NEW x \in Nat, About(s, x),
         EmptyNow(w, Due(w) % Slots), PoolFill(w, Due(w)),
         \A v \in Warp : Due(v)' = IF v = w THEN Due(v) + 1 ELSE Due(v),
         UNCHANGED <<win, c, takes, full, empty, piece>>,
         \A v \in Warp : Folding(v)' => Folding(v)
  PROVE  About(s, x)'
<1>. DEFINE f == Due(w)
            t == f % Slots
<1>1. f \in Nat /\ t \in Slot /\ Slots \in Nat \ {0} /\ win[w] < Windows
      /\ \A v \in Warp : Due(v) \in Nat
  BY DueTyped, PoolFacts DEF Ready
<1>2. \A v \in Warp, r \in Slot :
         fills'[v][r] = IF v = w /\ r = t THEN Bump(fills[v][r], TRUE) ELSE fills[v][r]
  BY <1>1 DEF PoolFill, Typed
<1>. DEFINE new == [warp |-> w, slot |-> t, chunk |-> <<win[w], f>>]
<1>3. /\ flight' = flight \cup {new}
      /\ new.warp = w /\ new.slot = t /\ new.chunk = <<win[w], f>>
      /\ \A m \in flight : m.warp \in Warp
  BY DEF PoolFill, Typed
<1>4. \A v \in Warp : /\ fills[v][s] \in 0 .. Wrap - 1 /\ fills[v][s] \in Nat
                      /\ takes[v][s] \in Nat /\ c[v] \in Nat
  BY CarryPoolAssumption DEF Typed
<1>5. full[s].phase \in Nat /\ empty[s].phase \in Nat
  BY DEF Typed
<1>6. CASE s = t
  <2>1. Filling(s, x) /\ f = x
    BY <1>1, <1>6, EmptyMeansFilling
  <2>2. /\ fills'[w][s] % 2 # fills[w][s] % 2 /\ fills'[w][s] # 0 /\ fills'[w][s] \in Nat
        /\ \A v \in Warp : v # w => fills'[v][s] = fills[v][s]
    <3>1. fills'[w][s] = Bump(fills[w][s], TRUE)
      BY <1>2, <1>6, s \in Slot
    <3>2. fills[w][s] \in 0 .. Wrap - 1 /\ TRUE \in BOOLEAN
      BY <1>4
    <3>3. /\ Bump(fills[w][s], TRUE) \in Nat
          /\ Bump(fills[w][s], TRUE) % 2 # fills[w][s] % 2
          /\ Bump(fills[w][s], TRUE) # 0
      BY <3>2, BumpFlips
    <3>. QED
      BY <1>2, <3>1, <3>3
  <2>3. Arrived(s, x)' = Arrived(s, x)
    <3>1. w \notin Arrived(s, x)
      BY <1>1, <2>1 DEF Arrived
    <3>2. new \in flight' /\ <<new.warp, new.slot>> = <<w, s>>
      BY <1>3, <1>6
    <3>3. w \notin Arrived(s, x)'
      BY <3>2 DEF Arrived
    <3>4. ASSUME NEW v \in Warp, v # w  PROVE v \in Arrived(s, x)' <=> v \in Arrived(s, x)
      BY <3>4, <1>3 DEF Arrived
    <3>. QED
      BY <3>1, <3>3, <3>4 DEF Arrived
  <2>4. Filling(s, x)'
    <3>1. ASSUME NEW v \in Warp
          PROVE  (fills'[v][s] % 2 = full[s].phase % 2) <=> (Due(v)' <= x)
      BY <1>1, <1>4, <1>5, <2>1, <2>2 DEF Filling
    <3>2. ASSUME NEW m \in flight', m.slot = s
          PROVE  Due(m.warp)' > x /\ m.chunk = <<win[m.warp], x>>
      <4>1. CASE m = new
        BY <4>1, <1>1, <1>3, <2>1
      <4>2. CASE m \in flight
        BY <4>2, <3>2, <1>1, <1>3, <2>1 DEF Filling
      <4>. QED
        BY <4>1, <4>2, <1>3
    <3>. QED
      BY <2>1, <2>3, <3>1, <3>2 DEF Filling
  <2>5. ASSUME NEW v \in Warp
        PROVE  /\ x - Slots < Due(v)' /\ Due(v)' <= x + Slots
               /\ x - Slots < c[v] /\ c[v] <= x + Slots
               /\ fills'[v][s] = 0 => full[s].phase = 0 /\ Due(v)' <= x
    BY <1>1, <2>1, <2>2 DEF About
  <2>. QED
    BY <2>4, <2>5 DEF About
<1>7. CASE s # t
  <2>1. f # x /\ f # x + Slots
    BY <1>7, NextTurn DEF About
  <2>2. ASSUME NEW v \in Warp
        PROVE  /\ fills'[v][s] = fills[v][s]
               /\ (Due(v)' <= x) <=> (Due(v) <= x)
               /\ (Due(v)' > x) <=> (Due(v) > x)
    <3>1. fills'[v][s] = fills[v][s]
      BY <1>2, <1>7
    <3>2. CASE v = w
      BY <3>1, <3>2, <1>1, <2>1
    <3>3. CASE v # w
      BY <3>1, <3>3
    <3>. QED
      BY <3>2, <3>3
  <2>3. Arrived(s, x)' = Arrived(s, x)
    BY <1>3, <1>7, <2>2 DEF Arrived
  <2>4. \A m \in flight' : m.slot = s => m \in flight
    BY <1>3, <1>7
  <2>5. Filling(s, x) => Filling(s, x)'
    BY <2>2, <2>3, <2>4 DEF Filling, Typed
  <2>6. Draining(s, x) => Draining(s, x)'
    BY <2>2, <2>4 DEF Draining, TakenBy
  <2>7. \A v \in Warp : x - Slots < Due(v)' /\ Due(v)' <= x + Slots
    BY <1>1, <2>1 DEF About
  <2>. QED
    BY <2>2, <2>5, <2>6, <2>7 DEF About
<1>. QED
  BY <1>6, <1>7

(* No slot moves: a warp may begin to fold the chunk it found full.        *)
LEMMA QuietKeeps ==
  ASSUME Typed, NEW s \in Slot, NEW x \in Nat, About(s, x),
         UNCHANGED <<win, c, fills, takes, full, empty, flight, piece>>,
         \A v \in Warp : Due(v)' = Due(v),
         \A v \in Warp : Folding(v)' => Folding(v) \/ FullNow(v, c[v] % Slots)
  PROVE  About(s, x)'
<1>1. Arrived(s, x)' = Arrived(s, x) /\ TakenBy(x)' = TakenBy(x)
  BY DEF Arrived, TakenBy
<1>2. ASSUME NEW v \in Warp, Folding(v)', c[v] % Slots = s
      PROVE  (Folding(v) \/ Draining(s, x)) /\ (Folding(v) \/ c[v] = x)
  BY <1>2, FullMeansDraining
<1>3. ASSUME Filling(s, x)  PROVE Filling(s, x)'
  <2>1. ~ Draining(s, x)
    BY <1>3 DEF Filling, Draining, Typed
  <2>2. \A v \in Warp : Folding(v)' => c[v] % Slots # s
    BY <1>2, <1>3, <2>1 DEF Filling
  <2>3. ASSUME NEW m \in flight, m.slot = s
        PROVE  Due(m.warp)' > x /\ m.chunk = <<win'[m.warp], x>>
    BY <1>3, <2>3 DEF Filling, Typed
  <2>. QED
    BY <1>1, <1>3, <2>2, <2>3 DEF Filling
<1>4. ASSUME Draining(s, x)  PROVE Draining(s, x)'
  <2>1. \A v \in Warp : Folding(v)' /\ c[v] % Slots = s => c[v] = x
    BY <1>2, <1>4 DEF Draining
  <2>. QED
    BY <1>1, <1>4, <2>1 DEF Draining
<1>. QED
  BY <1>3, <1>4 DEF About

(* A set of warps that counts as many as there are is all of them.         *)
LEMMA AllWarps ==
  ASSUME NEW S, S \subseteq Warp
  PROVE  /\ IsFiniteSet(S) /\ Cardinality(S) \in Nat
         /\ Cardinality(S) = Warps => S = Warp
         /\ \A w \in Warp : w \notin S => Cardinality(S \cup {w}) = Cardinality(S) + 1
<1>1. IsFiniteSet(Warp) /\ Cardinality(Warp) = Warps
  BY PoolFacts
<1>2. IsFiniteSet(S) /\ (Cardinality(S) = Cardinality(Warp) => S = Warp)
  BY <1>1, FS_Subset
<1>. QED
  BY <1>1, <1>2, FS_CardinalityType, FS_AddElement

(* A release: the last taker hands the slot to the chunk a turn later.     *)
LEMMA TakeKeeps ==
  ASSUME Typed, Ready, NEW w \in Warp, NEW s \in Slot, NEW x \in Nat, About(s, x),
         Release(w)
  PROVE  About(s, x)' \/ About(s, x + Slots)'
<1>. DEFINE t == c[w] % Slots
<1>1. /\ Slots \in Nat \ {0} /\ c[w] \in Nat /\ t \in Slot
      /\ \A v \in Warp : Due(v) \in Nat /\ c[v] \in Nat
  <2>1. \A v \in Warp : c[v] \in Nat
    BY CarryPoolAssumption DEF Typed
  <2>2. \A v \in Warp : Due(v) \in Nat
    BY DueTyped DEF Ready
  <2>. QED
    BY <2>1, <2>2, PoolFacts
<1>2. /\ \A v \in Warp : Due(v)' = Due(v)
      /\ \A v \in Warp : c'[v] = IF v = w THEN c[v] + 1 ELSE c[v]
      /\ \A v \in Warp : Folding(v)' => Folding(v) /\ v # w
      /\ Folding(w)
  BY DEF Release, Due, Chunks, Folding, Typed, Goto
<1>3. \A v \in Warp, r \in Slot :
         takes'[v][r] = IF v = w /\ r = t THEN Bump(takes[v][r], FALSE) ELSE takes[v][r]
  BY <1>1 DEF Release, Typed
<1>4. /\ UNCHANGED <<win, fills, full, flight, piece>>
      /\ \A r \in Slot : empty'[r] = IF r = t THEN Arrive(empty[r]) ELSE empty[r]
  BY <1>1 DEF Release, Typed
<1>5. /\ full[s].phase \in Nat /\ empty[s].phase \in Nat /\ empty[s].arrived \in 0 .. Warps - 1
      /\ empty[s] \in [phase : Nat, arrived : 0 .. Warps - 1]
      /\ \A v \in Warp : takes[v][s] \in 0 .. Wrap - 1 /\ takes[v][s] \in Nat
  <2>1. full[s] \in [phase : Nat, arrived : 0 .. Warps - 1]
    BY DEF Typed
  <2>2. empty[s] \in [phase : Nat, arrived : 0 .. Warps - 1]
    BY DEF Typed
  <2>3. \A v \in Warp : takes[v][s] \in 0 .. Wrap - 1
    BY DEF Typed
  <2>4. Wrap \in Nat
    BY PoolFacts
  <2>. QED
    BY <2>1, <2>2, <2>3, <2>4
<1>6. CASE s = t
  <2>1. Draining(s, x) /\ c[w] = x
    BY <1>2, <1>6 DEF About, Filling, Draining
  <2>2. takes'[w][s] % 2 # takes[w][s] % 2 /\ takes'[w][s] \in Nat
    <3>1. takes'[w][s] = Bump(takes[w][s], FALSE)
      BY <1>3, <1>6, s \in Slot
    <3>2. takes[w][s] \in 0 .. Wrap - 1 /\ FALSE \in BOOLEAN
      BY <1>5
    <3>3. Bump(takes[w][s], FALSE) \in Nat /\ Bump(takes[w][s], FALSE) % 2 # takes[w][s] % 2
      BY <3>2, BumpFlips
    <3>. QED
      BY <3>1, <3>3
  <2>3. \A v \in Warp : v # w => takes'[v][s] = takes[v][s]
    BY <1>3
  <2>4. /\ TakenBy(x) \subseteq Warp /\ w \notin TakenBy(x) /\ TakenBy(x)' = TakenBy(x) \cup {w}
    BY <1>1, <1>2, <2>1 DEF TakenBy
  <2>5. Cardinality(TakenBy(x)') = empty[s].arrived + 1
    BY <2>1, <2>4, AllWarps DEF Draining
  <2>6. empty'[s] = Arrive(empty[s])
    BY <1>4, <1>6
  <2>7. CASE empty[s].arrived + 1 = Warps
    <3>1. TakenBy(x)' = Warp
      BY <2>4, <2>5, <2>7, AllWarps DEF TakenBy
    <3>2. \A v \in Warp : c'[v] > x
      BY <3>1 DEF TakenBy
    <3>3. \A v \in Warp : c'[v] <= x + Slots
      BY <1>1, <1>2, <2>1 DEF About
    <3>4. empty'[s].phase = empty[s].phase + 1 /\ empty'[s].arrived = 0
      BY <2>6, <2>7 DEF Arrive
    <3>5. \A v \in Warp : takes'[v][s] % 2 = (empty[s].phase + 1) % 2
      <4>1. takes'[w][s] % 2 = (empty[s].phase + 1) % 2
        BY <1>1, <1>5, <2>1, <2>2 DEF Draining
      <4>2. ASSUME NEW v \in Warp, v # w  PROVE takes'[v][s] % 2 = (empty[s].phase + 1) % 2
        <5>1. c[v] > x /\ takes[v][s] % 2 # empty[s].phase % 2
          BY <1>1, <1>2, <2>1, <3>2, <4>2 DEF Draining
        <5>. QED
          BY <5>1, <1>5, <2>3, <4>2
      <4>. QED
        BY <4>1, <4>2
    <3>6. \A v \in Warp : Folding(v)' => c'[v] % Slots # s
      BY <1>1, <1>2, <2>1, <3>2 DEF Draining
    <3>7. \A v \in Warp : Due(v) > x /\ Due(v) <= x + Slots /\ fills[v][s] # 0
      BY <1>1, <2>1 DEF About, Draining
    <3>8. Arrived(s, x + Slots)' = {}
      BY <1>1, <1>2, <3>7 DEF Arrived
    <3>9. Cardinality(Arrived(s, x + Slots)') = 0
      BY <3>8, FS_EmptySet
    <3>10. Filling(s, x + Slots)'
      BY <1>1, <1>2, <1>4, <2>1, <3>3, <3>4, <3>5, <3>6, <3>7, <3>8, <3>9 DEF Filling, Draining
    <3>11. (x + Slots) % Slots = s
      BY NextTurn DEF About
    <3>. QED
      BY <1>1, <1>2, <1>4, <3>2, <3>3, <3>7, <3>10, <3>11 DEF About
  <2>8. CASE empty[s].arrived + 1 # Warps
    <3>1. empty'[s].phase = empty[s].phase /\ empty'[s].arrived = empty[s].arrived + 1
      BY <1>5, <2>6, <2>8 DEF Arrive
    <3>2. ASSUME NEW v \in Warp
          PROVE  /\ (takes'[v][s] % 2 = empty[s].phase % 2) <=> (c'[v] <= x)
                 /\ Folding(v)' /\ c'[v] % Slots = s => c'[v] = x
                 /\ x - Slots < c'[v] /\ c'[v] <= x + Slots
      <4>1. CASE v = w
        BY <4>1, <1>1, <1>2, <1>5, <2>1, <2>2 DEF Draining, About
      <4>2. CASE v # w
        BY <4>2, <1>1, <1>2, <2>1, <2>3 DEF Draining, About
      <4>. QED
        BY <4>1, <4>2
    <3>3. Draining(s, x)'
      BY <1>2, <1>4, <2>1, <2>5, <3>1, <3>2 DEF Draining
    <3>. QED
      BY <1>2, <1>4, <3>2, <3>3 DEF About
  <2>. QED
    BY <2>7, <2>8
<1>7. CASE s # t
  <2>1. c[w] # x /\ c[w] # x + Slots
    BY <1>7, NextTurn DEF About
  <2>2. ASSUME NEW v \in Warp
        PROVE  /\ takes'[v][s] = takes[v][s]
               /\ (c'[v] <= x) <=> (c[v] <= x)
               /\ (c'[v] > x) <=> (c[v] > x)
               /\ Folding(v)' => Folding(v) /\ c'[v] = c[v]
               /\ x - Slots < c'[v] /\ c'[v] <= x + Slots
    <3>1. takes'[v][s] = takes[v][s]
      BY <1>3, <1>7
    <3>2. x - Slots < c[v] /\ c[v] <= x + Slots
      BY DEF About
    <3>3. CASE v = w
      BY <3>1, <3>2, <3>3, <1>1, <1>2, <2>1
    <3>4. CASE v # w
      BY <3>1, <3>2, <3>4, <1>2
    <3>. QED
      BY <3>3, <3>4
  <2>3. empty'[s] = empty[s]
    BY <1>4, <1>7
  <2>4. Arrived(s, x)' = Arrived(s, x)
    BY <1>2, <1>4 DEF Arrived
  <2>5. TakenBy(x)' = TakenBy(x)
    BY <2>2 DEF TakenBy
  <2>6. Filling(s, x) => Filling(s, x)'
    <3>1. ASSUME Filling(s, x), NEW v \in Warp
          PROVE  /\ c'[v] <= x /\ takes'[v][s] % 2 = empty'[s].phase % 2
                 /\ (fills'[v][s] % 2 = full'[s].phase % 2) <=> (Due(v)' <= x)
                 /\ Folding(v)' => c'[v] % Slots # s
                 /\ v \in Arrived(s, x)' => piece'[s][v] = <<win'[v], x>>
      BY <3>1, <1>2, <1>4, <2>2, <2>3, <2>4 DEF Filling
    <3>2. ASSUME Filling(s, x), NEW m \in flight', m.slot = s
          PROVE  Due(m.warp)' > x /\ m.chunk = <<win'[m.warp], x>>
      BY <3>2, <1>2, <1>4 DEF Filling, Typed
    <3>. QED
      BY <3>1, <3>2, <1>4, <2>3, <2>4 DEF Filling
  <2>7. Draining(s, x) => Draining(s, x)'
    BY <1>2, <1>4, <2>2, <2>3, <2>5 DEF Draining
  <2>. QED
    BY <1>2, <1>4, <2>2, <2>6, <2>7 DEF About
<1>. QED
  BY <1>6, <1>7

(* A landing: the last piece of the chunk makes the slot readable.         *)
LEMMA LandKeeps ==
  ASSUME Typed, Ready, NEW m \in flight, NEW s \in Slot, NEW x \in Nat, About(s, x), Land(m)
  PROVE  About(s, x)'
<1>1. /\ Slots \in Nat \ {0} /\ m.warp \in Warp /\ m.slot \in Slot
      /\ \A v \in Warp : Due(v) \in Nat
  BY DueTyped, CarryPoolAssumption DEF Ready, Typed
<1>2. \A v \in Warp : Due(v)' = Due(v) /\ Folding(v)' = Folding(v)
  BY DEF Land, Due, Chunks, Folding
<1>3. /\ UNCHANGED <<win, c, fills, takes, empty>> /\ flight' = flight \ {m}
      /\ \A r \in Slot, v \in Warp :
           piece'[r][v] = IF r = m.slot /\ v = m.warp THEN m.chunk ELSE piece[r][v]
      /\ \A r \in Slot : full'[r] = IF r = m.slot THEN Arrive(full[r]) ELSE full[r]
  BY <1>1 DEF Land, Typed
<1>4. TakenBy(x)' = TakenBy(x)
  BY <1>3 DEF TakenBy
<1>5. CASE m.slot = s
  <2>1. Filling(s, x) /\ Due(m.warp) > x /\ m.chunk = <<win[m.warp], x>>
    BY <1>5 DEF About, Filling, Draining
  <2>2. Arrived(s, x) \subseteq Warp /\ m.warp \notin Arrived(s, x)
    BY <1>5 DEF Arrived
  <2>3. ASSUME NEW n \in flight, n.warp = m.warp, n.slot = s  PROVE n = m
    <3>1. n.chunk = m.chunk
      BY <2>1, <2>3 DEF Filling
    <3>2. /\ n \in [warp : Warp, slot : Slot, chunk : (0 .. Windows) \X (0 .. MaxChunks)]
          /\ m \in [warp : Warp, slot : Slot, chunk : (0 .. Windows) \X (0 .. MaxChunks)]
      BY DEF Typed
    <3>. QED
      BY <1>5, <2>3, <3>1, <3>2
  <2>4. Arrived(s, x)' = Arrived(s, x) \cup {m.warp}
    <3>1. m.warp \in Arrived(s, x)'
      BY <1>1, <1>2, <1>3, <2>1, <2>3 DEF Arrived
    <3>2. ASSUME NEW v \in Warp, v # m.warp  PROVE v \in Arrived(s, x)' <=> v \in Arrived(s, x)
      BY <3>2, <1>2, <1>3 DEF Arrived
    <3>. QED
      BY <3>1, <3>2, <1>1 DEF Arrived
  <2>5. Cardinality(Arrived(s, x)') = full[s].arrived + 1
    BY <1>1, <2>1, <2>2, <2>4, AllWarps DEF Filling
  <2>6. full'[s] = Arrive(full[s])
    BY <1>3, <1>5
  <2>7. ASSUME NEW v \in Arrived(s, x)'  PROVE v \in Warp /\ piece'[s][v] = <<win[v], x>>
    BY <2>7, <1>1, <1>3, <1>5, <2>1, <2>4 DEF Filling, Arrived
  <2>8. /\ full[s].phase \in Nat /\ empty[s].phase \in Nat /\ full[s].arrived \in 0 .. Warps - 1
        /\ full[s] \in [phase : Nat, arrived : 0 .. Warps - 1]
        /\ \A v \in Warp : fills[v][s] \in Nat /\ c[v] \in Nat
    <3>1. \A v \in Warp : fills[v][s] \in Nat /\ c[v] \in Nat
      BY CarryPoolAssumption DEF Typed
    <3>. QED
      BY <3>1 DEF Typed
  <2>9. CASE full[s].arrived + 1 = Warps
    <3>1. Arrived(s, x)' = Warp
      BY <1>1, <2>2, <2>4, <2>5, <2>9, AllWarps
    <3>2. full'[s].phase = full[s].phase + 1 /\ full'[s].arrived = 0
      BY <2>6, <2>9 DEF Arrive
    <3>3. \A v \in Warp : Due(v) > x /\ fills[v][s] # 0
      BY <1>1, <1>2, <3>1 DEF Arrived, About
    <3>4. \A v \in Warp : fills[v][s] % 2 = (full[s].phase + 1) % 2
      BY <1>1, <2>1, <2>8, <3>3 DEF Filling
    <3>5. \A n \in flight' : n.slot # s
      <4>1. ASSUME NEW n \in flight', n.slot = s  PROVE FALSE
        <5>1. n.warp \in Warp /\ n \in flight'
          BY <1>3 DEF Typed
        <5>2. <<n.warp, n.slot>> # <<n.warp, s>>
          BY <3>1, <5>1 DEF Arrived
        <5>. QED
          BY <4>1, <5>2
      <4>. QED
        BY <4>1
    <3>6. TakenBy(x) = {}
      BY <2>1, <2>8 DEF TakenBy, Filling
    <3>7. Cardinality(TakenBy(x)') = 0
      BY <1>4, <3>6, FS_EmptySet
    <3>8. Draining(s, x)'
      BY <1>2, <1>3, <2>1, <2>7, <3>1, <3>2, <3>3, <3>4, <3>5, <3>7 DEF Filling, Draining
    <3>. QED
      BY <1>2, <1>3, <3>3, <3>8 DEF About
  <2>10. CASE full[s].arrived + 1 # Warps
    <3>1. full'[s].phase = full[s].phase /\ full'[s].arrived = full[s].arrived + 1
      BY <2>6, <2>8, <2>10 DEF Arrive
    <3>2. ASSUME NEW n \in flight', n.slot = s
          PROVE  Due(n.warp)' > x /\ n.chunk = <<win'[n.warp], x>>
      <4>1. n \in flight /\ n.warp \in Warp
        BY <1>3 DEF Typed
      <4>2. Due(n.warp) > x /\ n.chunk = <<win[n.warp], x>>
        BY <2>1, <3>2, <4>1 DEF Filling
      <4>. QED
        BY <1>2, <1>3, <4>1, <4>2
    <3>3. ASSUME NEW v \in Warp
          PROVE  /\ c'[v] <= x /\ takes'[v][s] % 2 = empty'[s].phase % 2
                 /\ (fills'[v][s] % 2 = full'[s].phase % 2) <=> (Due(v)' <= x)
                 /\ Folding(v)' => c'[v] % Slots # s
                 /\ v \in Arrived(s, x)' => piece'[s][v] = <<win'[v], x>>
      BY <1>2, <1>3, <2>1, <2>7, <3>1 DEF Filling
    <3>4. Filling(s, x)'
      BY <1>3, <2>1, <2>5, <3>1, <3>2, <3>3 DEF Filling
    <3>. QED
      BY <1>2, <1>3, <3>1, <3>4 DEF About
  <2>. QED
    BY <2>9, <2>10
<1>6. CASE m.slot # s
  <2>1. Arrived(s, x)' = Arrived(s, x)
    BY <1>2, <1>3, <1>6 DEF Arrived
  <2>2. full'[s] = full[s] /\ \A v \in Warp : piece'[s][v] = piece[s][v]
    BY <1>3, <1>6
  <2>3. ASSUME Filling(s, x)  PROVE Filling(s, x)'
    <3>1. ASSUME NEW n \in flight', n.slot = s
          PROVE  Due(n.warp)' > x /\ n.chunk = <<win'[n.warp], x>>
      <4>1. n \in flight /\ n.warp \in Warp
        BY <1>3 DEF Typed
      <4>. QED
        BY <4>1, <2>3, <3>1, <1>2, <1>3 DEF Filling
    <3>. QED
      BY <2>3, <1>2, <1>3, <2>1, <2>2, <3>1 DEF Filling
  <2>4. ASSUME Draining(s, x)  PROVE Draining(s, x)'
    BY <2>4, <1>2, <1>3, <1>4, <2>2 DEF Draining
  <2>. QED
    BY <1>2, <1>3, <2>2, <2>3, <2>4 DEF About
<1>. QED
  BY <1>5, <1>6

(* The end of a window: every slot waits for a chunk nobody will fill, and *)
(* takes the next window's first.                                          *)
LEMMA RendezvousKeeps ==
  ASSUME Typed, Together, Ready, NEW s \in Slot, NEW x \in Nat, About(s, x), Rendezvous
  PROVE  s \in Nat /\ (Running' => About(s, s)')
<1>1. /\ Slots \in Nat \ {0} /\ Warps \in Nat \ {0} /\ s \in Nat /\ s % Slots = s /\ s < Slots
  BY PoolFacts, CarryPoolAssumption DEF Slot
<1>2. 1 \in Warp /\ \A v \in Warp : win[v] = win[1]
  BY <1>1 DEF Together, Warp
<1>. DEFINE K == chunks[win[1]]
<1>3. \A v \in Warp : c[v] = K /\ Due(v) = K
  BY <1>2 DEF Ready, Control, Rendezvous, Due, Chunks
<1>4. K \in Nat
  BY <1>2, <1>3, DueTyped DEF Ready
<1>5. ~ Draining(s, x)
  <2>. SUFFICES ASSUME Draining(s, x)  PROVE FALSE
    OBVIOUS
  <2>1. TakenBy(x) = Warp
    BY <1>2, <1>3 DEF Draining, TakenBy
  <2>2. empty[s].arrived = Warps
    BY <2>1, PoolFacts DEF Draining
  <2>3. empty[s].arrived \in 0 .. Warps - 1
    BY DEF Typed
  <2>. QED
    BY <1>1, <2>2, <2>3
<1>6. Filling(s, x) /\ K <= x
  BY <1>2, <1>3, <1>5 DEF About, Filling
<1>7. Arrived(s, x) = {}
  BY <1>3, <1>4, <1>6 DEF Arrived
<1>8. full[s].arrived = 0 /\ empty[s].arrived = 0 /\ full[s].phase = empty[s].phase
  BY <1>6, <1>7, FS_EmptySet DEF Filling
<1>9. \A m \in flight : m.slot # s
  BY <1>3, <1>4, <1>6 DEF Filling, Typed
<1>10. \A v \in Warp : /\ takes[v][s] % 2 = empty[s].phase % 2
                       /\ fills[v][s] % 2 = full[s].phase % 2
                       /\ fills[v][s] = 0 => full[s].phase = 0
  BY <1>3, <1>6 DEF Filling, About
<1>11. /\ UNCHANGED <<fills, takes, full, empty, flight, piece>>
       /\ \A v \in Warp : c'[v] = 0 /\ Due(v)' = 0 /\ ~ Folding(v)'
  <2>1. \A v \in Warp : fill'[v] = 0 /\ c'[v] = 0 /\ ~ Folding(v)'
    BY DEF Rendezvous, Folding
  <2>. QED
    BY <2>1 DEF Rendezvous, Due, None
<1>12. Arrived(s, s)' = {}
  BY <1>1, <1>11 DEF Arrived
<1>13. Cardinality(Arrived(s, s)') = 0
  BY <1>12, FS_EmptySet
<1>14. Filling(s, s)'
  BY <1>1, <1>8, <1>9, <1>10, <1>11, <1>12, <1>13 DEF Filling
<1>. QED
  BY <1>1, <1>10, <1>11, <1>14 DEF About

(***************************************************************************)
(* The steps.                                                              *)
(***************************************************************************)
(* A step of one warp keeps the invariant if it keeps the types, its own   *)
(* control and every slot.                                                 *)
LEMMA OneMoves ==
  ASSUME IInv, Running, NEW w \in Warp, UNCHANGED <<chunks, win>>,
         Typed', Control(w)', pc'[w] # "exit",
         \A v \in Warp : v # w => pc'[v] = pc[v] /\ c'[v] = c[v] /\ fill'[v] = fill[v],
         \A s \in Slot, x \in Nat : About(s, x) => \E y \in Nat : About(s, y)'
  PROVE  IInv'
<1>1. Ready /\ Together
  BY DEF IInv
<1>2. \A v \in Warp : pc'[v] # "exit"
  BY DEF Running
<1>3. Running' /\ Together'
  BY <1>1, <1>2 DEF Running, Together
<1>4. ASSUME NEW v \in Warp  PROVE win'[v] < Windows /\ Control(v)'
  <2>1. CASE v = w
    BY <2>1, <1>1 DEF Ready
  <2>2. CASE v # w
    BY <2>2, <1>1 DEF Ready, Control, Folding, Chunks
  <2>. QED
    BY <2>1, <2>2
<1>5. ASSUME NEW s \in Slot  PROVE \E y \in Nat : About(s, y)'
  BY DEF IInv
<1>. QED
  BY <1>3, <1>4, <1>5 DEF IInv, Ready

LEMMA FillTyped ==
  ASSUME Typed, NEW w \in Warp, NEW f \in 0 .. MaxChunks, PoolFill(w, f)
  PROVE  /\ flight' \subseteq [warp : Warp, slot : Slot, chunk : (0 .. Windows) \X (0 .. MaxChunks)]
         /\ fills' \in [Warp -> [Slot -> 0 .. Wrap - 1]]
<1>1. f % Slots \in Slot
  BY PoolFacts, CarryPoolAssumption
<1>2. fills[w][f % Slots] \in 0 .. Wrap - 1 /\ TRUE \in BOOLEAN
  BY <1>1 DEF Typed
<1>3. Bump(fills[w][f % Slots], TRUE) \in 0 .. Wrap - 1
  BY <1>2, BumpFlips
<1>4. fills' \in [Warp -> [Slot -> 0 .. Wrap - 1]]
  <2>1. fills' = [fills EXCEPT ![w] = [fills[w] EXCEPT ![f % Slots] = Bump(fills[w][f % Slots], TRUE)]]
    BY DEF PoolFill
  <2>. QED
    BY <1>3, <2>1 DEF Typed
<1>5. [warp |-> w, slot |-> f % Slots, chunk |-> <<win[w], f>>]
        \in [warp : Warp, slot : Slot, chunk : (0 .. Windows) \X (0 .. MaxChunks)]
  BY <1>1 DEF Typed
<1>. QED
  BY <1>4, <1>5 DEF PoolFill, Typed

LEMMA LesserOf ==
  ASSUME NEW a \in Nat, NEW b \in Nat
  PROVE  Min({a, b}) = IF a <= b THEN a ELSE b
<1>. DEFINE m == IF a <= b THEN a ELSE b
            Least(k) == k \in {a, b} /\ \A y \in {a, b} : k <= y
<1>1. Least(m) /\ \A k : Least(k) => k = m
  OBVIOUS
<1>2. Min({a, b}) = CHOOSE k : Least(k)
  BY DEF Min
<1>. HIDE DEF Least, m
<1>3. (CHOOSE k : Least(k)) = m
  BY <1>1
<1>. QED
  BY <1>2, <1>3 DEF m

(* fill_now of an owed chunk.                                              *)
LEMMA OwedFill ==
  ASSUME Typed, Ready, NEW w \in Warp, pc[w] # "prime", fill[w] # None,
         EmptyNow(w, fill[w] % Slots), FillNow(w), UNCHANGED <<chunks, win>>
  PROVE  /\ Due(w) = fill[w] /\ EmptyNow(w, Due(w) % Slots) /\ PoolFill(w, Due(w))
         /\ \A v \in Warp : Due(v)' = IF v = w THEN Due(v) + 1 ELSE Due(v)
         /\ \A v \in Warp : v # w => fill'[v] = fill[v]
         /\ fill' \in [Warp -> None .. MaxChunks]
         /\ fill'[w] = None \/ fill'[w] < Chunks(w)
<1>1. Due(w) = fill[w]
  BY DEF Due
<1>2. fill[w] \in Nat /\ fill[w] < Chunks(w) /\ Chunks(w) \in Nat /\ Chunks(w) <= MaxChunks
  <2>1. Chunks(w) \in 0 .. MaxChunks /\ Chunks(w) \in Nat
    BY DueTyped DEF Ready
  <2>2. fill[w] \in Nat
    BY CarryPoolAssumption DEF Typed, None
  <2>. QED
    BY <2>1, <2>2, CarryPoolAssumption DEF Ready, Control
<1>3. \A v \in Warp : fill'[v] = IF v # w THEN fill[v]
                                 ELSE IF fill[w] + 1 < Chunks(w) THEN fill[w] + 1 ELSE None
  BY DEF FillNow, Typed
<1>4. \A v \in Warp : Chunks(v)' = Chunks(v)
  BY DEF Chunks
<1>5. ASSUME NEW v \in Warp  PROVE Due(v)' = IF v = w THEN Due(v) + 1 ELSE Due(v)
  <2>1. CASE v = w
    BY <2>1, <1>1, <1>2, <1>3, <1>4 DEF Due, None
  <2>2. CASE v # w
    BY <2>2, <1>3, <1>4 DEF Due
  <2>. QED
    BY <2>1, <2>2
<1>6. fill' \in [Warp -> None .. MaxChunks]
  <2>1. (IF fill[w] + 1 < Chunks(w) THEN fill[w] + 1 ELSE None) \in None .. MaxChunks
    BY <1>2, CarryPoolAssumption DEF None
  <2>. QED
    BY <2>1 DEF FillNow, Typed
<1>. QED
  BY <1>1, <1>3, <1>5, <1>6 DEF FillNow

(* A step in which a warp polls: with a fill,                              *)
LEMMA FillStep ==
  ASSUME IInv, Running, NEW w \in Warp, pc[w] # "prime", fill[w] # None,
         EmptyNow(w, fill[w] % Slots), FillNow(w),
         NEW there \in {"take", "last", "step"}, Goto(w, there),
         there = "last" => pc[w] = "burst",
         UNCHANGED <<chunks, win, c, takes, full, empty, piece>>
  PROVE  IInv'
<1>1. Typed /\ Ready
  BY DEF IInv
<1>2. /\ Due(w) = fill[w] /\ EmptyNow(w, Due(w) % Slots) /\ PoolFill(w, Due(w))
      /\ \A v \in Warp : Due(v)' = IF v = w THEN Due(v) + 1 ELSE Due(v)
      /\ \A v \in Warp : v # w => fill'[v] = fill[v]
      /\ fill' \in [Warp -> None .. MaxChunks]
      /\ fill'[w] = None \/ fill'[w] < Chunks(w)
  BY <1>1, OwedFill
<1>3. /\ \A v \in Warp : pc'[v] = IF v = w THEN there ELSE pc[v]
      /\ pc' \in [Warp -> {"prime", "step", "take", "burst", "last", "wait", "end", "exit"}]
  BY <1>1 DEF Goto, Typed
<1>4. Typed'
  <2>1. fill[w] \in 0 .. MaxChunks
    BY <1>1, CarryPoolAssumption DEF Typed, None
  <2>2. PoolFill(w, fill[w])
    BY DEF FillNow
  <2>. QED
    BY <1>1, <1>2, <1>3, <2>1, <2>2, FillTyped DEF Typed
<1>5. Control(w)'
  BY <1>1, <1>2, <1>3 DEF Ready, Control, Folding, Chunks
<1>6. \A v \in Warp : Folding(v)' => Folding(v)
  BY <1>3 DEF Folding
<1>7. ASSUME NEW s \in Slot, NEW x \in Nat, About(s, x)  PROVE About(s, x)'
  BY <1>1, <1>2, <1>6, <1>7, FillKeeps
<1>. QED
  BY <1>2, <1>3, <1>4, <1>5, <1>7, OneMoves

(* and without one.                                                        *)
LEMMA QuietStep ==
  ASSUME IInv, Running, NEW w \in Warp, NEW there, Goto(w, there),
         there \in {"take", "burst", "last", "wait", "step", "end"},
         UNCHANGED <<chunks, win, c, fills, takes, full, empty, flight, piece>>,
         there \in {"burst", "last"} =>
            c[w] < Chunks(w) /\ (Folding(w) \/ FullNow(w, c[w] % Slots)),
         fill' \in [Warp -> None .. MaxChunks],
         \A v \in Warp : Due(v)' = Due(v) /\ (v # w => fill'[v] = fill[v]),
         fill'[w] = None \/ fill'[w] < Chunks(w),
         there = "end" => c[w] = Chunks(w) /\ fill'[w] = None
  PROVE  IInv'
<1>1. Typed /\ Ready
  BY DEF IInv
<1>2. /\ \A v \in Warp : pc'[v] = IF v = w THEN there ELSE pc[v]
      /\ pc' \in [Warp -> {"prime", "step", "take", "burst", "last", "wait", "end", "exit"}]
  BY <1>1 DEF Goto, Typed
<1>3. Typed'
  BY <1>1, <1>2 DEF Typed
<1>4. Control(w)'
  BY <1>1, <1>2 DEF Ready, Control, Folding, Chunks
<1>5. \A v \in Warp : Folding(v)' => Folding(v) \/ FullNow(v, c[v] % Slots)
  BY <1>2 DEF Folding
<1>6. ASSUME NEW s \in Slot, NEW x \in Nat, About(s, x)  PROVE About(s, x)'
  BY <1>1, <1>5, <1>6, QuietKeeps
<1>. QED
  BY <1>2, <1>3, <1>4, <1>6, OneMoves

LEMMA PrimeStep ==
  ASSUME IInv, Running, NEW w \in Warp, Prime(w) \/ Primed(w)
  PROVE  IInv'
<1>1. Typed /\ Ready
  BY DEF IInv
<1>2. /\ Slots \in Nat \ {0} /\ Chunks(w) \in Nat /\ Chunks(w) <= MaxChunks /\ MaxChunks \in Nat
  BY <1>1, DueTyped, CarryPoolAssumption DEF Ready
<1>3. Min({Slots, Chunks(w)}) = IF Slots <= Chunks(w) THEN Slots ELSE Chunks(w)
  BY <1>2, LesserOf
<1>4. c[w] = 0 /\ fill[w] \in 0 .. Slots /\ fill[w] <= Chunks(w) /\ pc[w] = "prime"
      /\ fill[w] \in Nat /\ Due(w) = fill[w]
  BY <1>1 DEF Prime, Primed, Ready, Control, Due, None
<1>5. CASE Prime(w)
  <2>1. fill[w] < Slots /\ fill[w] < Chunks(w)
    BY <1>2, <1>3, <1>4, <1>5 DEF Prime
  <2>2. fill[w] % Slots = fill[w]
    BY <1>2, <1>4, <2>1, ModSmall
  <2>3. EmptyNow(w, Due(w) % Slots) /\ PoolFill(w, Due(w))
    BY <1>4, <1>5, <2>2 DEF Prime
  <2>4. /\ \A v \in Warp : fill'[v] = IF v = w THEN fill[v] + 1 ELSE fill[v]
        /\ UNCHANGED <<chunks, pc, win, c, takes, full, empty, piece>>
        /\ \A v \in Warp : Folding(v)' => Folding(v)
    BY <1>1, <1>5 DEF Prime, Typed, Folding
  <2>5. ASSUME NEW v \in Warp  PROVE Due(v)' = IF v = w THEN Due(v) + 1 ELSE Due(v)
    BY <1>4, <2>4 DEF Due, Chunks, None
  <2>6. Typed'
    <3>1. fill[w] \in 0 .. MaxChunks /\ fill[w] + 1 \in None .. MaxChunks
      BY <1>2, <1>4, <2>1 DEF None
    <3>2. fill' \in [Warp -> None .. MaxChunks]
      BY <1>1, <1>5, <3>1 DEF Prime, Typed
    <3>. QED
      BY <1>1, <1>4, <2>3, <2>4, <3>1, <3>2, FillTyped DEF Typed
  <2>7. Control(w)'
    BY <1>2, <1>4, <2>1, <2>4 DEF Control, Chunks, Folding
  <2>8. ASSUME NEW s \in Slot, NEW x \in Nat, About(s, x)  PROVE About(s, x)'
    BY <1>1, <2>3, <2>4, <2>5, <2>8, FillKeeps
  <2>. QED
    BY <1>4, <2>4, <2>6, <2>7, <2>8, OneMoves
<1>6. CASE Primed(w)
  <2>. DEFINE there == IF Chunks(w) = 0 THEN "end" ELSE "step"
  <2>1. /\ \A v \in Warp : fill'[v] = IF v # w THEN fill[v] ELSE IF Chunks(w) > Slots THEN Slots ELSE None
        /\ UNCHANGED <<chunks, win, c, fills, takes, full, empty, flight, piece>>
        /\ fill[w] = Min({Slots, Chunks(w)}) /\ Goto(w, there)
    BY <1>1, <1>6 DEF Primed, Typed
  <2>2. fill' \in [Warp -> None .. MaxChunks]
    <3>1. (IF Chunks(w) > Slots THEN Slots ELSE None) \in None .. MaxChunks
      BY <1>2 DEF None
    <3>. QED
      BY <1>1, <1>6, <3>1 DEF Primed, Typed
  <2>3. ASSUME NEW v \in Warp  PROVE Due(v)' = Due(v)
    <3>1. CASE v = w
      BY <3>1, <1>2, <1>3, <1>4, <2>1 DEF Due, Chunks, None
    <3>2. CASE v # w
      BY <3>2, <2>1 DEF Due, Chunks
    <3>. QED
      BY <3>1, <3>2
  <2>4. fill'[w] = None \/ fill'[w] < Chunks(w)
    BY <1>2, <2>1 DEF None
  <2>5. there = "end" => c[w] = Chunks(w) /\ fill'[w] = None
    BY <1>2, <1>4, <2>1
  <2>6. there \in {"end", "step"}
    OBVIOUS
  <2>. HIDE DEF there
  <2>. QED
    BY <2>1, <2>2, <2>3, <2>4, <2>5, <2>6, QuietStep
<1>. QED
  BY <1>5, <1>6

LEMMA StepStep ==
  ASSUME IInv, Running, NEW w \in Warp, Step(w) \/ Mid(w) \/ WaitEmpty(w)
  PROVE  IInv'
<1>1. Typed /\ Ready
  BY DEF IInv
<1>. DEFINE there == IF pc[w] = "step" THEN "take" ELSE IF pc[w] = "burst" THEN "last" ELSE "step"
<1>2. /\ pc[w] # "prime" /\ Goto(w, there) /\ there \in {"take", "last", "step"}
      /\ there = "last" <=> pc[w] = "burst"
      /\ UNCHANGED <<chunks, win, c, takes, full, empty, piece>>
  BY DEF Step, Mid, WaitEmpty
<1>3. \/ fill[w] # None /\ EmptyNow(w, fill[w] % Slots) /\ FillNow(w)
      \/ UNCHANGED <<flight, fills, fill>>
  BY DEF Step, Mid, WaitEmpty, Poll, OwesFirst
<1>. HIDE DEF there
<1>4. CASE fill[w] # None /\ EmptyNow(w, fill[w] % Slots) /\ FillNow(w)
  BY <1>2, <1>4, FillStep
<1>5. CASE UNCHANGED <<flight, fills, fill>>
  <2>1. \A v \in Warp : Due(v)' = Due(v)
    BY <1>2, <1>5 DEF Due, Chunks
  <2>2. fill[w] = None \/ fill[w] < Chunks(w)
    BY <1>1, <1>2 DEF Ready, Control
  <2>3. there \in {"burst", "last"} => c[w] < Chunks(w) /\ Folding(w)
    BY <1>1, <1>2 DEF Ready, Control, Folding
  <2>. QED
    BY <1>1, <1>2, <1>5, <2>1, <2>2, <2>3, QuietStep DEF Typed
<1>. QED
  BY <1>3, <1>4, <1>5

LEMMA TakeStep ==
  ASSUME IInv, Running, NEW w \in Warp, Take(w) \/ WaitFull(w)
  PROVE  IInv'
<1>1. Typed /\ Ready
  BY DEF IInv
<1>2. c[w] \in Nat /\ Chunks(w) \in Nat /\ c[w] <= Chunks(w)
      /\ (fill[w] = None \/ fill[w] < Chunks(w))
  <2>1. c[w] \in Nat
    BY <1>1, CarryPoolAssumption DEF Typed
  <2>. QED
    BY <1>1, <2>1, DueTyped DEF Ready, Control, Take, WaitFull
<1>3. UNCHANGED <<chunks, win, c, fill, fills, takes, full, empty, flight, piece>>
  BY DEF Take, WaitFull
<1>4. \A v \in Warp : Due(v)' = Due(v)
  BY <1>3 DEF Due, Chunks
<1>5. PICK there \in {"end", "wait", "burst", "step"} :
        /\ Goto(w, there)
        /\ there = "end" => c[w] >= Chunks(w) /\ fill[w] = None
        /\ there = "burst" => c[w] < Chunks(w) /\ FullNow(w, c[w] % Slots)
  <2>1. CASE Take(w)
    BY <2>1, <1>2 DEF Take
  <2>2. CASE WaitFull(w)
    BY <2>2 DEF WaitFull
  <2>. QED
    BY <2>1, <2>2
<1>6. there = "end" => c[w] = Chunks(w) /\ fill[w] = None
  BY <1>2, <1>5
<1>. QED
  BY <1>1, <1>2, <1>3, <1>4, <1>5, <1>6, QuietStep DEF Typed

LEMMA ReleaseStep ==
  ASSUME IInv, Running, NEW w \in Warp, Release(w)
  PROVE  IInv'
<1>1. Typed /\ Ready
  BY DEF IInv
<1>. DEFINE s == c[w] % Slots
<1>2. c[w] \in Nat /\ Chunks(w) \in Nat /\ Chunks(w) <= MaxChunks /\ c[w] < Chunks(w) /\ s \in Slot
      /\ MaxChunks \in Nat
  <2>1. c[w] \in Nat /\ MaxChunks \in Nat
    BY <1>1, CarryPoolAssumption DEF Typed
  <2>. QED
    BY <1>1, <2>1, PoolFacts, DueTyped DEF Ready, Control, Release, Folding
<1>3. /\ \A v \in Warp : c'[v] = IF v = w THEN c[v] + 1 ELSE c[v]
      /\ UNCHANGED <<chunks, win, fill, fills, full, flight, piece>>
  BY <1>1 DEF Release, Typed
<1>4. \A v \in Warp : pc'[v] = IF v # w THEN pc[v] ELSE
                        IF c[w] + 1 >= Chunks(w) /\ fill[w] = None THEN "end" ELSE "step"
  BY <1>1 DEF Release, Goto, Typed
<1>5. Typed'
  <2>1. takes[w][s] \in 0 .. Wrap - 1 /\ FALSE \in BOOLEAN
    BY <1>1, <1>2 DEF Typed
  <2>2. Bump(takes[w][s], FALSE) \in 0 .. Wrap - 1
    BY <2>1, BumpFlips
  <2>3. takes' = [takes EXCEPT ![w] = [takes[w] EXCEPT ![s] = Bump(takes[w][s], FALSE)]]
    BY DEF Release
  <2>4. takes' \in [Warp -> [Slot -> 0 .. Wrap - 1]]
    BY <1>1, <2>2, <2>3 DEF Typed
  <2>5. empty[s] \in [phase : Nat, arrived : 0 .. Warps - 1]
    BY <1>1, <1>2 DEF Typed
  <2>6. Arrive(empty[s]) \in [phase : Nat, arrived : 0 .. Warps - 1]
    BY <2>5, CarryPoolAssumption DEF Arrive
  <2>7. empty' \in [Slot -> [phase : Nat, arrived : 0 .. Warps - 1]]
    BY <1>1, <2>6 DEF Release, Typed
  <2>8. c' \in [Warp -> 0 .. MaxChunks]
    <3>1. c[w] + 1 \in 0 .. MaxChunks
      BY <1>2
    <3>. QED
      BY <1>1, <3>1 DEF Release, Typed
  <2>9. pc' \in [Warp -> {"prime", "step", "take", "burst", "last", "wait", "end", "exit"}]
    BY <1>1 DEF Release, Goto, Typed
  <2>. QED
    BY <1>1, <1>3, <2>4, <2>7, <2>8, <2>9 DEF Typed
<1>6. Control(w)'
  <2>1. Chunks(w)' = Chunks(w) /\ (fill[w] = None \/ fill[w] < Chunks(w))
    BY <1>1, <1>3 DEF Ready, Control, Release, Chunks
  <2>. QED
    BY <1>2, <1>3, <1>4, <2>1 DEF Control, Folding
<1>7. ASSUME NEW r \in Slot, NEW x \in Nat, About(r, x)  PROVE \E y \in Nat : About(r, y)'
  <2>1. About(r, x)' \/ About(r, x + Slots)'
    BY <1>1, <1>7, TakeKeeps
  <2>. QED
    BY <2>1, NextTurn
<1>. QED
  BY <1>3, <1>4, <1>5, <1>6, <1>7, OneMoves

LEMMA LandStep ==
  ASSUME IInv, Running, NEW m \in flight, Land(m)
  PROVE  IInv'
<1>1. Typed /\ Ready /\ Together /\ m.warp \in Warp /\ m.slot \in Slot
      /\ m.chunk \in (0 .. Windows) \X (0 .. MaxChunks)
  BY DEF IInv, Typed
<1>2. /\ UNCHANGED <<chunks, pc, win, c, fill, fills, takes, empty>>
      /\ flight' = flight \ {m}
  BY DEF Land
<1>3. Typed'
  <2>1. m.chunk \in (None .. Windows) \X (None .. MaxChunks)
    BY <1>1, CarryPoolAssumption DEF None
  <2>2. piece' = [piece EXCEPT ![m.slot] = [piece[m.slot] EXCEPT ![m.warp] = m.chunk]]
    BY DEF Land
  <2>3. piece' \in [Slot -> [Warp -> (None .. Windows) \X (None .. MaxChunks)]]
    BY <1>1, <2>1, <2>2 DEF Typed
  <2>4. full[m.slot] \in [phase : Nat, arrived : 0 .. Warps - 1]
    BY <1>1 DEF Typed
  <2>5. Arrive(full[m.slot]) \in [phase : Nat, arrived : 0 .. Warps - 1]
    BY <2>4, CarryPoolAssumption DEF Arrive
  <2>6. full' \in [Slot -> [phase : Nat, arrived : 0 .. Warps - 1]]
    BY <1>1, <2>5 DEF Land, Typed
  <2>. QED
    BY <1>1, <1>2, <2>3, <2>6 DEF Typed
<1>4. Together' /\ Ready'
  BY <1>1, <1>2 DEF Together, Ready, Control, Chunks, Folding
<1>5. ASSUME NEW s \in Slot  PROVE \E y \in Nat : About(s, y)'
  <2>1. PICK x \in Nat : About(s, x)
    BY DEF IInv
  <2>2. About(s, x)'
    BY <1>1, <2>1, LandKeeps
  <2>. QED
    BY <2>2
<1>. QED
  BY <1>3, <1>4, <1>5 DEF IInv

LEMMA RendezvousStep ==
  ASSUME IInv, Running, Rendezvous
  PROVE  IInv'
<1>1. Typed /\ Ready /\ Together
  BY DEF IInv
<1>2. /\ \A v \in Warp : /\ win'[v] = win[v] + 1 /\ c'[v] = 0 /\ fill'[v] = 0
                         /\ pc'[v] = IF win[v] + 1 < Windows THEN "prime" ELSE "exit"
      /\ UNCHANGED <<chunks, fills, takes, full, empty, flight, piece>>
  BY DEF Rendezvous
<1>3. \A v \in Warp : win[v] \in Nat /\ win[v] < Windows
  BY <1>1, CarryPoolAssumption DEF Typed, Ready
<1>4. Typed'
  <2>1. win' \in [Warp -> 0 .. Windows]
    BY <1>1, <1>3, CarryPoolAssumption DEF Rendezvous, Typed
  <2>2. c' \in [Warp -> 0 .. MaxChunks] /\ fill' \in [Warp -> None .. MaxChunks]
    BY CarryPoolAssumption DEF Rendezvous, None
  <2>3. pc' \in [Warp -> {"prime", "step", "take", "burst", "last", "wait", "end", "exit"}]
    BY DEF Rendezvous
  <2>. QED
    BY <1>1, <1>2, <2>1, <2>2, <2>3 DEF Typed
<1>5. Together'
  BY <1>1, <1>2 DEF Together
<1>6. ASSUME Running'  PROVE Ready'
  <2>1. ASSUME NEW v \in Warp  PROVE win'[v] < Windows /\ Control(v)'
    <3>1. win[v] + 1 < Windows /\ pc'[v] = "prime"
      BY <1>2, <1>6 DEF Running
    <3>2. Chunks(v)' \in Nat
      BY <1>2, <1>3, <1>4, <3>1, CarryPoolAssumption DEF Chunks, Typed
    <3>. QED
      BY <1>2, <3>1, <3>2, CarryPoolAssumption DEF Control, Folding
  <2>. QED
    BY <2>1 DEF Ready
<1>7. ASSUME Running', NEW s \in Slot  PROVE \E y \in Nat : About(s, y)'
  <2>1. PICK x \in Nat : About(s, x)
    BY DEF IInv
  <2>. QED
    BY <1>1, <1>7, <2>1, RendezvousKeeps
<1>. QED
  BY <1>4, <1>5, <1>6, <1>7 DEF IInv

(* After the last window nothing moves but a copy still in the air.        *)
LEMMA ExitStep ==
  ASSUME IInv, ~ Running, Next
  PROVE  IInv'
<1>1. Typed /\ Together
  BY DEF IInv
<1>2. \A w \in Warp : pc[w] = "exit"
  BY <1>1 DEF Running, Together
<1>3. 1 \in Warp
  BY CarryPoolAssumption DEF Warp
<1>4. \A w \in Warp : ~ WarpStep(w)
  BY <1>2 DEF WarpStep, Prime, Primed, Step, Take, Mid, Release, WaitEmpty, WaitFull
<1>5. ~ Rendezvous
  BY <1>2, <1>3 DEF Rendezvous
<1>6. PICK m \in flight : Land(m)
  BY <1>4, <1>5 DEF Next
<1>7. UNCHANGED <<chunks, pc, win, c, fill, fills, takes, empty>> /\ flight' = flight \ {m}
  BY <1>6 DEF Land
<1>8. m.warp \in Warp /\ m.slot \in Slot /\ m.chunk \in (0 .. Windows) \X (0 .. MaxChunks)
  BY <1>1 DEF Typed
<1>9. Typed'
  <2>1. m.chunk \in (None .. Windows) \X (None .. MaxChunks)
    BY <1>8, CarryPoolAssumption DEF None
  <2>2. piece' = [piece EXCEPT ![m.slot] = [piece[m.slot] EXCEPT ![m.warp] = m.chunk]]
    BY <1>6 DEF Land
  <2>3. piece' \in [Slot -> [Warp -> (None .. Windows) \X (None .. MaxChunks)]]
    BY <1>1, <1>8, <2>1, <2>2 DEF Typed
  <2>4. full[m.slot] \in [phase : Nat, arrived : 0 .. Warps - 1]
    BY <1>1, <1>8 DEF Typed
  <2>5. Arrive(full[m.slot]) \in [phase : Nat, arrived : 0 .. Warps - 1]
    BY <2>4, CarryPoolAssumption DEF Arrive
  <2>6. full' \in [Slot -> [phase : Nat, arrived : 0 .. Warps - 1]]
    BY <1>1, <1>6, <2>5 DEF Land, Typed
  <2>. QED
    BY <1>1, <1>7, <2>3, <2>6 DEF Typed
<1>10. Together' /\ ~ Running'
  BY <1>1, <1>2, <1>3, <1>7 DEF Together, Running
<1>. QED
  BY <1>9, <1>10 DEF IInv

(* At the start every slot waits for the chunk of its own number.          *)
LEMMA InitIInv == Init => IInv
<1>. SUFFICES ASSUME Init  PROVE IInv
  OBVIOUS
<1>1. /\ Windows \in Nat \ {0} /\ MaxChunks \in Nat /\ Warps \in Nat \ {0} /\ Slots \in Nat \ {0}
      /\ Wrap \in Nat /\ Wrap > 3
  BY CarryPoolAssumption
<1>2. Typed
  <2>1. 0 \in 0 .. Wrap - 1 /\ 0 \in 0 .. Warps - 1 /\ 0 \in 0 .. MaxChunks /\ 0 \in None .. MaxChunks
        /\ None \in None .. Windows /\ None \in None .. MaxChunks /\ 0 \in 0 .. Windows
    BY <1>1 DEF None
  <2>2. /\ full \in [Slot -> [phase : Nat, arrived : 0 .. Warps - 1]]
        /\ empty \in [Slot -> [phase : Nat, arrived : 0 .. Warps - 1]]
    BY <2>1 DEF Init, Fresh
  <2>3. /\ fills \in [Warp -> [Slot -> 0 .. Wrap - 1]] /\ takes \in [Warp -> [Slot -> 0 .. Wrap - 1]]
    BY <2>1 DEF Init, Zero
  <2>4. piece \in [Slot -> [Warp -> (None .. Windows) \X (None .. MaxChunks)]]
    BY <2>1 DEF Init
  <2>. QED
    BY <2>1, <2>2, <2>3, <2>4 DEF Init, Typed
<1>3. Together
  BY DEF Init, Together
<1>4. ASSUME NEW w \in Warp  PROVE win[w] < Windows /\ Control(w)
  <2>1. Chunks(w) \in Nat
    BY <1>1, <1>2, DueTyped DEF Init
  <2>. QED
    BY <1>1, <2>1 DEF Init, Control, Folding
<1>5. ASSUME NEW s \in Slot  PROVE s \in Nat /\ About(s, s)
  <2>1. s \in Nat /\ s % Slots = s /\ s < Slots
    BY <1>1, PoolFacts DEF Slot
  <2>2. \A w \in Warp : Due(w) = 0 /\ c[w] = 0 /\ ~ Folding(w) /\ fills[w][s] = 0 /\ takes[w][s] = 0
    BY DEF Init, Due, None, Folding, Zero
  <2>3. Arrived(s, s) = {}
    BY <2>1, <2>2 DEF Arrived
  <2>4. Cardinality(Arrived(s, s)) = 0
    BY <2>3, FS_EmptySet
  <2>5. full[s].phase = 0 /\ empty[s].phase = 0 /\ full[s].arrived = 0 /\ empty[s].arrived = 0
        /\ flight = {}
    BY DEF Init, Fresh
  <2>6. Filling(s, s)
    BY <2>1, <2>2, <2>3, <2>4, <2>5 DEF Filling
  <2>. QED
    BY <1>1, <2>1, <2>2, <2>5, <2>6 DEF About
<1>. QED
  BY <1>2, <1>3, <1>4, <1>5 DEF IInv, Ready

LEMMA NextIInv == IInv /\ [Next]_vars => IInv'
<1>1. ASSUME IInv, ~ Running, Next  PROVE IInv'
  BY <1>1, ExitStep
<1>2. ASSUME IInv, Running, NEW w \in Warp, WarpStep(w)  PROVE IInv'
  BY <1>2, PrimeStep, StepStep, TakeStep, ReleaseStep DEF WarpStep
<1>3. ASSUME IInv, Running, NEW m \in flight, Land(m)  PROVE IInv'
  BY <1>3, LandStep
<1>4. ASSUME IInv, Running, Rendezvous  PROVE IInv'
  BY <1>4, RendezvousStep
<1>5. ASSUME IInv, UNCHANGED vars  PROVE IInv'
  <2>1. \A w \in Warp : Due(w)' = Due(w) /\ Folding(w)' = Folding(w) /\ Chunks(w)' = Chunks(w)
    BY <1>5 DEF vars, Due, Folding, Chunks
  <2>2. Typed'
    BY <1>5 DEF IInv, Typed, vars
  <2>3. Together' /\ (Running' <=> Running)
    BY <1>5 DEF IInv, Together, Running, vars
  <2>4. ASSUME Running  PROVE Ready'
    BY <2>1, <2>4, <1>5 DEF IInv, Ready, Control, vars
  <2>5. ASSUME Running, NEW s \in Slot  PROVE \E y \in Nat : About(s, y)'
    <3>1. PICK x \in Nat : About(s, x)
      BY <1>5, <2>5 DEF IInv
    <3>2. UNCHANGED <<win, c, fills, takes, full, empty, flight, piece>>
      BY <1>5 DEF vars
    <3>. QED
      BY <1>5, <2>1, <3>1, <3>2, QuietKeeps DEF IInv
  <2>. QED
    BY <2>2, <2>3, <2>4, <2>5 DEF IInv
<1>. QED
  BY <1>1, <1>2, <1>3, <1>4, <1>5 DEF Next

(* Whatever the schedule and however the counts wrap, each slot is about   *)
(* one chunk (carry_kernel.cuh, PoolCursor and FoldStream).                *)
THEOREM SlotIsAboutOneChunk == Spec => []IInv
BY InitIInv, NextIInv, PTL DEF Spec

(* The variables keep their types; no count outgrows its byte.             *)
THEOREM PoolIsTyped == Spec => []TypeOK
<1>1. IInv => TypeOK
  <2>. SUFFICES ASSUME Typed  PROVE TypeOK
    BY DEF IInv
  <2>. QED
    BY DEF Typed, TypeOK
<1>. QED
  BY <1>1, SlotIsAboutOneChunk, PTL

(* A warp that folds a chunk reads a slot every piece of which has landed  *)
(* and no copy is overwriting.                                             *)
THEOREM NoChunkIsTorn == Spec => []NoTornChunk
<1>1. IInv => NoTornChunk
  <2>. SUFFICES ASSUME IInv, NEW w \in Warp, pc[w] \in {"burst", "last"}
                PROVE  LET s == c[w] % Slots
                       IN /\ \A v \in Warp : piece[s][v] = <<win[w], c[w]>>
                          /\ \A m \in flight : m.slot # s
    BY DEF NoTornChunk
  <2>. DEFINE s == c[w] % Slots
  <2>1. Typed /\ Together /\ Running
    BY DEF IInv, Together, Running
  <2>2. s \in Slot /\ Folding(w)
    <3>1. MaxChunks \in Nat /\ c[w] \in 0 .. MaxChunks
      BY <2>1, CarryPoolAssumption DEF Typed
    <3>2. c[w] \in Nat /\ Folding(w)
      BY <3>1 DEF Folding
    <3>. QED
      BY <3>2, PoolFacts
  <2>3. PICK x \in Nat : About(s, x)
    BY <2>1, <2>2 DEF IInv
  <2>4. Draining(s, x) /\ c[w] = x
    BY <2>2, <2>3 DEF About, Filling, Draining
  <2>5. ASSUME NEW v \in Warp  PROVE piece[s][v] = <<win[w], c[w]>>
    BY <2>1, <2>4 DEF Draining, Together
  <2>. QED
    BY <2>4, <2>5 DEF Draining
<1>. QED
  BY <1>1, SlotIsAboutOneChunk, PTL
=============================================================================
