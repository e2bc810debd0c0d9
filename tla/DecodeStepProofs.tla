-------------------------- MODULE DecodeStepProofs --------------------------
(***************************************************************************)
(* That the gated step advances every batch-head exactly once, for every   *)
(* number of batch-heads, segments, atoms, pool positions and tokens.      *)
(*                                                                         *)
(* The argument has one idea.  What a CTA asks about its batch-head (done  *)
(* flag, table row, cursor) does not change until the head is published,   *)
(* and it is published by the last CTA to arrive: so while a head is Open  *)
(* every CTA's answer IS Answer, whenever it asked.  The rest is who has   *)
(* arrived (Order), what has been deposited by then (Deposits) and what    *)
(* the workspace and the output row hold (Output).                         *)
(***************************************************************************)
EXTENDS DecodeStep, TLAPS, FiniteSetTheorems

At(h, s) == pc[<<h, s>>]
Live(h)  == {s \in Seg : ~ Retires(<<h, s>>)}
Early    == {"prologue", "claim", "walk", "arrive"}
Last     == {"combine", "publish", "tally", "reduce"}

Arrived(h) == {s \in Live(h) : At(h, s) \notin Early}
Open(h)    == \E s \in Live(h) : At(h, s) \in Early \cup {"combine", "publish"}

(* What a CTA of an open head answers.                                     *)
Demand(h)  == IF done[h] THEN {} ELSE write[h] \ resident[h]
Covered(h) == Demand(h) # {} /\ Cardinality(Demand(h)) <= PoolCap - cursor[h]
Needy(h)   == Demand(h) # {} /\ ~ Covered(h)
Question(h) == [done |-> done[h], demand |-> Demand(h), claimed |-> FALSE, needy |-> FALSE]
Answer(h)   == [done |-> done[h], demand |-> Demand(h), claimed |-> Covered(h),
                needy |-> Needy(h)]

(* The CTAs of a head arrive one by one; one of them goes on, alone.       *)
Order(h) ==
  /\ \A s \in Seg \ Live(h) : At(h, s) \in {"prologue", "gone"}
  /\ \A s, r \in Live(h) : At(h, s) \in Last /\ r # s => At(h, r) = "gone"
  /\ ctr[h] = IF NLive(h) > 1 /\ \E s \in Live(h) : At(h, s) \in Early \cup {"combine"}
              THEN Cardinality(Arrived(h)) ELSE 0

(* What they answer, and that what they claim is in the claim row.         *)
Answers(h) ==
  /\ Open(h) => \A s \in Live(h) :
       /\ At(h, s) = "claim" => saw[<<h, s>>] = Question(h)
       /\ At(h, s) \in {"walk", "arrive", "combine", "publish"} =>
            saw[<<h, s>>] = Answer(h) /\ (Covered(h) => Demand(h) \subseteq claimRow[h])
  /\ claimRow[h] \subseteq resident[h] \cup (IF Open(h) /\ Covered(h) THEN Demand(h) ELSE {})
  /\ At(h, 0) \notin {"prologue", "claim"} => atomBits[h] = write[h]
  /\ walk = 2 => IF Open(h) THEN write[h] \subseteq resident[h] ELSE ~ growth[h]

(* The reduction over the batch-heads.                                     *)
Finished   == \A h \in Head : \A s \in Live(h) : At(h, s) = "gone"
Tallied    == {h \in Head : \A s \in Live(h) : At(h, s) \in {"gone", "reduce"}}
Tallies ==
  /\ Finished => /\ growthCtr = 0 /\ growthAny = (\E h \in Head : growth[h])
                 /\ \A h \in Head : done[h] = (growthAny /\ ~ growth[h])
  /\ ~ Finished => /\ growthCtr = Cardinality(Tallied)
                   /\ \A h \in Head : ~ Open(h) => done[h] = ~ growth[h]
  /\ \A h \in Head : \A s \in Live(h) : At(h, s) = "reduce" =>
       \A g \in Head : \A r \in Live(g) : <<g, r>> # <<h, s>> => At(g, r) = "gone"

Sight == [done : BOOLEAN, demand : SUBSET Atom, claimed : BOOLEAN, needy : BOOLEAN]
Typed ==
  /\ resident \in [Head -> SUBSET Atom] /\ claimRow \in [Head -> SUBSET Atom]
  /\ cursor \in [Head -> 0 .. PoolCap]
  /\ done \in [Head -> BOOLEAN] /\ growth \in [Head -> BOOLEAN] /\ growthAny \in BOOLEAN
  /\ ctr \in [Head -> Nat] /\ growthCtr \in Nat
  /\ atomBits \in [Head -> SUBSET Atom] /\ DOMAIN ws = CTA /\ DOMAIN y = Head
  /\ write \in [Head -> SUBSET Atom] /\ units \in [Head -> 0 .. MaxUnits]
  /\ \A h \in Head : Cardinality(write[h]) <= units[h]
  /\ got \in [Cell -> Nat]
  /\ pc \in [CTA -> Early \cup Last \cup {"gone"}]
  /\ saw \in [CTA -> Sight]
  /\ host \in {"ready", "walking", "growing", "returned", "raised"}
  /\ token \in Nat /\ walk \in 0 .. 2

(* Whatever the caller does, also after a refused growth.                  *)
StepInv ==
  /\ Typed
  /\ host = "walking" => walk # 0 /\ Tallies /\ \A h \in Head : Order(h) /\ Answers(h)
  /\ host # "walking" => /\ \A c \in CTA : pc[c] = "gone"
                         /\ growthCtr = 0
                         /\ \A h \in Head : ctr[h] = 0 /\ claimRow[h] \subseteq resident[h]
  /\ host = "growing" => /\ walk = 1
                         /\ \A h \in Head : atomBits[h] = write[h] /\ done[h] = ~ growth[h]
  /\ host = "returned" => ~ growthAny /\ \A h \in Head : ~ done[h] /\ ~ growth[h]

---------------------------------------------------------------------------
(* A caller that repeats a step whose growth was refused (or stops), and   *)
(* does not submit another token in its place.                             *)
NoneAbandoned == [][Submit => host = "ready"]_vars

Full(h)  == {<<Tag, a>> : a \in write[h]}
Part(c)  == {<<Tag, a>> : a \in Own(c)}
Ran(h)   == ~ Open(h) /\ ~ growth[h]

(* The deposits of the token.                                              *)
Deposits(h) ==
  /\ \A a \in Atom \ write[h] : got[<<h, a>>] = 0
  /\ Open(h) /\ done[h] => walk = 2
  /\ Ran(h) => write[h] \subseteq resident[h]
  /\ \A s \in Live(h) : \A a \in Own(<<h, s>>) :
       got[<<h, a>>] = IF Open(h)
                       THEN IF At(h, s) \in {"prologue", "claim", "walk"}
                            THEN (IF done[h] THEN 1 ELSE 0)
                            ELSE (IF Needy(h) THEN 0 ELSE 1)
                       ELSE (IF growth[h] THEN 0 ELSE 1)

(* The partials of the CTAs that have walked, and their combination.       *)
Output(h) ==
  /\ Open(h) /\ ~ Needy(h) => \A s \in Live(h) :
       At(h, s) \notin {"prologue", "claim", "walk"} => ws[<<h, s>>] = Part(<<h, s>>)
  /\ Ran(h) \/ (~ Needy(h) /\ \E s \in Live(h) : At(h, s) = "publish") => y[h] = Full(h)

OnceInv ==
  /\ host = "walking" => \A h \in Head : Deposits(h) /\ Output(h)
  /\ host = "growing" => \A h \in Head : \A a \in Atom :
       got[<<h, a>>] = IF a \in write[h] /\ ~ growth[h] THEN 1 ELSE 0
  /\ host \in {"returned", "ready"} => \A h \in Head : ~ done[h]
  /\ host = "returned" => \A h \in Head :
       y[h] = Full(h) /\ \A a \in Atom : got[<<h, a>>] = IF a \in write[h] THEN 1 ELSE 0

(***************************************************************************)
(* The partition of the walk.                                              *)
(***************************************************************************)
LEMMA DivMod == ASSUME NEW a \in Int, NEW n \in Nat \ {0}
  PROVE a = n * (a \div n) + (a % n) /\ a % n \in 0 .. n - 1 /\ a \div n \in Int
        /\ (a >= 0 => a \div n >= 0)
OBVIOUS

LEMMA Times == ASSUME NEW p \in Int, NEW q \in Int, p <= q, NEW n \in Nat  PROVE n * p <= n * q
<1>1. n * q = n * p + n * (q - p)
  OBVIOUS
<1>2. n * (q - p) >= 0
  OBVIOUS
<1>. QED
  BY <1>1, <1>2

(* The record a CTA keeps of what it asked.                                *)
LEMMA SightEqual ==
  ASSUME NEW p \in Sight, NEW q \in Sight,
         p.done = q.done, p.demand = q.demand, p.claimed = q.claimed, p.needy = q.needy
  PROVE  p = q
BY DEF Sight

LEMMA SightAsked ==
  ASSUME NEW d \in BOOLEAN, NEW S \in SUBSET Atom
  PROVE  [Nothing EXCEPT !.done = d, !.demand = S]
            = [done |-> d, demand |-> S, claimed |-> FALSE, needy |-> FALSE]
<1>. DEFINE p == [Nothing EXCEPT !.done = d, !.demand = S]
            q == [done |-> d, demand |-> S, claimed |-> FALSE, needy |-> FALSE]
<1>1. Nothing \in Sight /\ Nothing.claimed = FALSE /\ Nothing.needy = FALSE
  BY DEF Nothing, Sight
<1>2. p \in Sight /\ p.done = d /\ p.demand = S /\ p.claimed = FALSE /\ p.needy = FALSE
  BY <1>1 DEF Sight
<1>3. q \in Sight /\ q.done = d /\ q.demand = S /\ q.claimed = FALSE /\ q.needy = FALSE
  BY DEF Sight
<1>. HIDE DEF p, q
<1>4. p = q
  BY <1>2, <1>3, SightEqual
<1>. QED
  BY <1>4 DEF p, q

LEMMA SightClaimed ==
  ASSUME NEW p \in Sight, NEW d \in BOOLEAN, NEW e \in BOOLEAN
  PROVE  [p EXCEPT !.claimed = d, !.needy = e]
            = [done |-> p.done, demand |-> p.demand, claimed |-> d, needy |-> e]
<1>. DEFINE q == [p EXCEPT !.claimed = d, !.needy = e]
            r == [done |-> p.done, demand |-> p.demand, claimed |-> d, needy |-> e]
<1>1. q \in Sight /\ q.done = p.done /\ q.demand = p.demand /\ q.claimed = d /\ q.needy = e
  BY DEF Sight
<1>2. r \in Sight /\ r.done = p.done /\ r.demand = p.demand /\ r.claimed = d /\ r.needy = e
  BY DEF Sight
<1>. HIDE DEF q, r
<1>3. q = r
  BY <1>1, <1>2, SightEqual
<1>. QED
  BY <1>3 DEF q, r

LEMMA SegFacts ==
  /\ NSplit \in Nat \ {0} /\ UnitBlock \in Nat \ {0} /\ PoolCap \in Nat /\ MaxUnits \in Nat
  /\ 0 \in Seg /\ Seg \subseteq Nat /\ IsFiniteSet(Head) /\ Head # {} /\ CTA = Head \X Seg
  /\ BH \in Nat
BY StepAssumption, FS_CardinalityType DEF Seg, CTA, BH

(* Blocks of units: the least number of blocks that holds u units.         *)
LEMMA Blocks ==
  ASSUME NEW u \in Nat
  PROVE  LET q == (u + UnitBlock - 1) \div UnitBlock
         IN /\ q \in Nat
            /\ \A i \in Nat : i * UnitBlock < u <=> i < q
<1>. DEFINE q == (u + UnitBlock - 1) \div UnitBlock
            e == (u + UnitBlock - 1) % UnitBlock
<1>1. UnitBlock \in Nat \ {0} /\ u + UnitBlock - 1 \in Int
  BY SegFacts
<1>2. u + UnitBlock - 1 = UnitBlock * q + e /\ e \in 0 .. UnitBlock - 1 /\ q \in Int
  BY <1>1, DivMod
<1>. HIDE DEF q, e
<1>3. UnitBlock * q <= u + UnitBlock - 1 /\ u <= UnitBlock * q
  BY <1>1, <1>2
<1>4. q >= 0
  <2>. SUFFICES ASSUME q <= -1  PROVE FALSE
    BY <1>2
  <2>1. UnitBlock * q <= UnitBlock * (-1) /\ UnitBlock * (-1) = - UnitBlock
    <3>1. -1 \in Int /\ UnitBlock \in Nat
      BY <1>1
    <3>2. UnitBlock * q <= UnitBlock * (-1)
      BY <1>2, <3>1, Times
    <3>. QED
      BY <3>1, <3>2
  <2>2. UnitBlock * q \in Int
    BY <1>1, <1>2
  <2>. QED
    BY <1>1, <1>3, <2>1, <2>2
<1>5. ASSUME NEW i \in Nat, i < q  PROVE i * UnitBlock < u
  <2>1. UnitBlock * i <= UnitBlock * (q - 1)
    BY <1>1, <1>2, <1>5, Times
  <2>2. UnitBlock * (q - 1) = UnitBlock * q - UnitBlock
    BY <1>1, <1>2
  <2>. QED
    BY <1>1, <1>2, <1>3, <2>1, <2>2
<1>6. ASSUME NEW i \in Nat, i >= q  PROVE i * UnitBlock >= u
  <2>1. UnitBlock * q <= UnitBlock * i
    BY <1>1, <1>2, <1>6, Times
  <2>. QED
    BY <1>1, <1>2, <1>3, <2>1
<1>7. q \in Nat
  BY <1>2, <1>4
<1>8. ASSUME NEW i \in Nat  PROVE i * UnitBlock < u <=> i < q
  BY <1>1, <1>5, <1>6, <1>7
<1>. QED
  BY <1>7, <1>8 DEF q

(* The CTAs that do not retire are the first NLive of a head.              *)
LEMMA LiveFacts ==
  ASSUME Typed, NEW h \in Head
  PROVE  /\ Live(h) = 0 .. NLive(h) - 1 /\ NLive(h) \in 1 .. NSplit /\ NLive(h) \in Nat
         /\ Live(h) \subseteq Seg /\ 0 \in Live(h)
         /\ IsFiniteSet(Live(h)) /\ Cardinality(Live(h)) = NLive(h)
<1>. DEFINE u == units[h]
            q == (u + UnitBlock - 1) \div UnitBlock
<1>1. NSplit \in Nat \ {0} /\ UnitBlock \in Nat \ {0} /\ u \in Nat
  BY SegFacts DEF Typed
<1>2. q \in Nat /\ \A i \in Nat : i * UnitBlock < u <=> i < q
  BY <1>1, Blocks
<1>3. NLive(h) = IF q < 1 THEN 1 ELSE IF q > NSplit THEN NSplit ELSE q
  BY DEF NLive
<1>4. \A s \in Seg : Retires(<<h, s>>) <=> s > 0 /\ ~ (s * UnitBlock < u)
  BY <1>1 DEF Retires, Seg
<1>. HIDE DEF q, u
<1>5. NLive(h) \in 1 .. NSplit /\ NLive(h) \in Nat
  BY <1>1, <1>2, <1>3
<1>6. ASSUME NEW s \in Seg  PROVE ~ Retires(<<h, s>>) <=> s \in 0 .. NLive(h) - 1
  <2>1. s \in Nat /\ s < NSplit
    BY <1>1 DEF Seg
  <2>2. ~ Retires(<<h, s>>) <=> s = 0 \/ s < q
    BY <1>2, <1>4, <2>1
  <2>. QED
    BY <1>1, <1>2, <1>3, <2>1, <2>2
<1>7. Live(h) = 0 .. NLive(h) - 1
  BY <1>1, <1>5, <1>6 DEF Live, Seg
<1>8. IsFiniteSet(0 .. NLive(h) - 1) /\ Cardinality(0 .. NLive(h) - 1) = NLive(h)
  BY <1>5, FS_Interval
<1>9. Live(h) \subseteq Seg
  BY DEF Live
<1>10. 0 \in Live(h)
  BY <1>5, <1>7
<1>. QED
  BY <1>5, <1>7, <1>8, <1>9, <1>10

(* Every atom of the write set belongs to one CTA, and that one is live.   *)
LEMMA OwnFacts ==
  ASSUME Typed, NEW h \in Head
  PROVE  /\ \A a \in write[h] : \E s \in Live(h) : a \in Own(<<h, s>>)
         /\ \A s \in Seg : Own(<<h, s>>) \subseteq write[h]
         /\ \A s, r \in Seg : s # r => Own(<<h, s>>) \cap Own(<<h, r>>) = {}
         /\ write[h] \subseteq Atom /\ IsFiniteSet(write[h])
<1>1. NSplit \in Nat \ {0} /\ UnitBlock \in Nat \ {0} /\ units[h] \in Nat /\ Seg = 0 .. NSplit - 1
  BY SegFacts DEF Typed, Seg
<1>2. write[h] \subseteq Atom /\ IsFiniteSet(write[h]) /\ Cardinality(write[h]) <= units[h]
      /\ Cardinality(write[h]) \in Nat
  <2>1. write[h] \subseteq Atom /\ Cardinality(write[h]) <= units[h]
    BY DEF Typed
  <2>2. IsFiniteSet(Atom)
    BY StepAssumption, FS_Interval DEF Atom
  <2>3. IsFiniteSet(write[h])
    BY <2>1, <2>2, FS_Subset
  <2>. QED
    BY <2>1, <2>3, FS_CardinalityType
<1>3. ASSUME NEW a \in write[h]  PROVE \E s \in Live(h) : a \in Own(<<h, s>>)
  <2>. DEFINE lower == {b \in write[h] : b < a}
              b == Rank(h, a) \div UnitBlock
              q == (units[h] + UnitBlock - 1) \div UnitBlock
              s == b % NSplit
  <2>1. IsFiniteSet(lower) /\ Cardinality(lower) <= Cardinality(write[h])
        /\ (Cardinality(lower) = Cardinality(write[h]) => lower = write[h])
    BY <1>2, FS_Subset
  <2>2. lower # write[h]
    BY <1>2, StepAssumption DEF Atom
  <2>3. Rank(h, a) = Cardinality(lower) /\ Cardinality(lower) \in Nat
    BY <2>1, FS_CardinalityType DEF Rank
  <2>4. Rank(h, a) \in Nat /\ Rank(h, a) < units[h]
    BY <1>1, <1>2, <2>1, <2>2, <2>3
  <2>5. b \in Nat /\ b * UnitBlock <= Rank(h, a)
    <3>. DEFINE r == Rank(h, a)
    <3>1. r \in Int /\ r >= 0
      BY <2>4
    <3>. HIDE DEF r
    <3>2. /\ r = UnitBlock * (r \div UnitBlock) + (r % UnitBlock)
          /\ r % UnitBlock \in 0 .. UnitBlock - 1 /\ r \div UnitBlock \in Int
          /\ r \div UnitBlock >= 0
      BY <1>1, <3>1, DivMod
    <3>3. b = r \div UnitBlock
      BY DEF r
    <3>. HIDE DEF b
    <3>4. b \in Nat /\ b * UnitBlock <= r
      BY <1>1, <3>1, <3>2, <3>3
    <3>. QED
      BY <3>4 DEF r
  <2>6. q \in Nat /\ b < q
    <3>1. q \in Nat /\ \A i \in Nat : i * UnitBlock < units[h] <=> i < q
      BY <1>1, Blocks
    <3>. HIDE DEF b, q
    <3>2. b * UnitBlock < units[h]
      BY <1>1, <2>4, <2>5
    <3>. QED
      BY <2>5, <3>1, <3>2
  <2>7. s \in 0 .. NSplit - 1 /\ (b < NSplit => s = b)
    BY <1>1, <2>5
  <2>8. NLive(h) = IF q < 1 THEN 1 ELSE IF q > NSplit THEN NSplit ELSE q
    BY DEF NLive
  <2>9. Own(<<h, s>>) = {x \in write[h] : (Rank(h, x) \div UnitBlock) % NSplit = s}
    BY DEF Own
  <2>10. a \in Own(<<h, s>>)
    BY <2>9
  <2>. HIDE DEF b, q, s
  <2>11. s \in 0 .. NLive(h) - 1
    BY <1>1, <2>5, <2>6, <2>7, <2>8
  <2>. QED
    BY <2>10, <2>11, LiveFacts
<1>4. \A s \in Seg : Own(<<h, s>>) = {x \in write[h] : (Rank(h, x) \div UnitBlock) % NSplit = s}
  BY DEF Own
<1>. QED
  BY <1>2, <1>3, <1>4

(***************************************************************************)
(* A step of one CTA leaves the other batch-heads alone.                   *)
(***************************************************************************)
Still(g) ==
  /\ \A r \in Seg : pc'[<<g, r>>] = pc[<<g, r>>] /\ saw'[<<g, r>>] = saw[<<g, r>>]
  /\ ctr'[g] = ctr[g] /\ done'[g] = done[g] /\ growth'[g] = growth[g]
  /\ resident'[g] = resident[g] /\ claimRow'[g] = claimRow[g] /\ cursor'[g] = cursor[g]
  /\ atomBits'[g] = atomBits[g]

LEMMA SameLive ==
  ASSUME UNCHANGED <<write, units>>, NEW h \in Head
  PROVE  /\ Live(h)' = Live(h) /\ NLive(h)' = NLive(h)
         /\ \A s \in Seg : Own(<<h, s>>)' = Own(<<h, s>>)
<1>1. ASSUME NEW s \in Seg  PROVE Retires(<<h, s>>)' = Retires(<<h, s>>)
  BY DEF Retires
<1>2. ASSUME NEW s \in Seg  PROVE Own(<<h, s>>)' = Own(<<h, s>>)
  BY DEF Own, Rank
<1>. QED
  BY <1>1, <1>2 DEF Live, NLive

LEMMA StillKeeps ==
  ASSUME NEW g \in Head, Still(g), UNCHANGED <<write, units, walk>>, 0 \in Seg
  PROVE  /\ Open(g)' = Open(g) /\ Needy(g)' = Needy(g)
         /\ Order(g) => Order(g)'
         /\ Answers(g) => Answers(g)'
<1>1. Live(g)' = Live(g) /\ NLive(g)' = NLive(g) /\ Live(g) \subseteq Seg
  BY SameLive DEF Live
<1>2. \A r \in Seg : At(g, r)' = At(g, r)
  BY DEF At, Still
<1>3. Demand(g)' = Demand(g) /\ Covered(g)' = Covered(g) /\ Needy(g)' = Needy(g)
  BY DEF Demand, Covered, Needy, Still
<1>4. Open(g)' = Open(g) /\ Arrived(g)' = Arrived(g)
  BY <1>1, <1>2 DEF Open, Arrived
<1>5. Question(g)' = Question(g) /\ Answer(g)' = Answer(g)
  BY <1>3 DEF Question, Answer, Still
<1>6. Order(g) => Order(g)'
  BY <1>1, <1>2, <1>4 DEF Order, Still
<1>7. Answers(g) => Answers(g)'
  BY <1>1, <1>2, <1>3, <1>4, <1>5 DEF Answers, Still
<1>. QED
  BY <1>3, <1>4, <1>6, <1>7

LEMMA HeadStep ==
  ASSUME StepInv, host = "walking", UNCHANGED <<write, units, host, walk>>, NEW h \in Head,
         \A g \in Head : g # h => Still(g),
         Typed', Order(h)', Answers(h)', Tallies'
  PROVE  StepInv'
<1>1. ASSUME NEW g \in Head  PROVE Order(g)' /\ Answers(g)'
  BY StillKeeps, SegFacts DEF StepInv
<1>. QED
  BY <1>1 DEF StepInv

(* The reduction does not see a step inside an open head, nor a retirement *)
LEMMA TalliesKeep ==
  ASSUME NEW h \in Head, Tallies, Order(h)',
         UNCHANGED <<write, units, growthCtr, growthAny>>,
         \A g \in Head : done'[g] = done[g] /\ growth'[g] = growth[g],
         \A g \in Head, r \in Seg : g # h => pc'[<<g, r>>] = pc[<<g, r>>],
         \/ \A r \in Live(h) : At(h, r)' = At(h, r)
         \/ Open(h) /\ Open(h)'
  PROVE  Tallies'
<1>1. \A g \in Head : Live(g)' = Live(g) /\ Live(g) \subseteq Seg
  BY SameLive DEF Live
<1>2. \A g \in Head : g # h => \A r \in Live(g) : At(g, r)' = At(g, r)
  BY <1>1 DEF At
<1>3. CASE \A r \in Live(h) : At(h, r)' = At(h, r)
  <2>1. \A g \in Head : \A r \in Live(g) : At(g, r)' = At(g, r)
    BY <1>2, <1>3
  <2>2. \A g \in Head : Open(g)' = Open(g)
    BY <1>1, <2>1 DEF Open
  <2>3. Tallied' = Tallied /\ Finished' = Finished
    BY <1>1, <2>1 DEF Tallied, Finished
  <2>4. ASSUME NEW g \in Head, NEW r \in Live(g), At(g, r)' = "reduce",
               NEW k \in Head, NEW i \in Live(k), <<k, i>> # <<g, r>>
        PROVE  At(k, i)' = "gone"
    BY <2>1, <2>4 DEF Tallies
  <2>5. ~ Finished => \A g \in Head : ~ Open(g)' => done'[g] = ~ growth'[g]
    BY <2>2 DEF Tallies
  <2>6. Finished => /\ growthAny' = (\E g \in Head : growth'[g])
                    /\ \A g \in Head : done'[g] = (growthAny' /\ ~ growth'[g])
    <3>1. (\E g \in Head : growth'[g]) = (\E g \in Head : growth[g])
      OBVIOUS
    <3>. QED
      BY <3>1 DEF Tallies
  <2>7. /\ Finished' => growthCtr' = 0
        /\ ~ Finished' => growthCtr' = Cardinality(Tallied')
    BY <2>3 DEF Tallies
  <2>8. \A g \in Head : \A r \in Live(g)' : At(g, r)' = "reduce" =>
          \A k \in Head : \A i \in Live(k)' : <<k, i>> # <<g, r>> => At(k, i)' = "gone"
    BY <1>1, <2>4
  <2>9. Finished' => /\ growthAny' = (\E g \in Head : growth'[g])
                     /\ \A g \in Head : done'[g] = (growthAny' /\ ~ growth'[g])
    BY <2>3, <2>6
  <2>10. ~ Finished' => \A g \in Head : ~ Open(g)' => done'[g] = ~ growth'[g]
    BY <2>3, <2>5
  <2>. QED
    BY <2>7, <2>8, <2>9, <2>10 DEF Tallies
<1>4. CASE Open(h) /\ Open(h)'
  <2>1. \A g \in Head : Open(g)' = Open(g)
    BY <1>1, <1>2, <1>4 DEF Open
  <2>2. ~ Finished /\ ~ Finished' /\ h \notin Tallied /\ h \notin Tallied'
    BY <1>4 DEF Open, Finished, Tallied, Early
  <2>3. Tallied' = Tallied
    BY <1>1, <1>2, <2>2 DEF Tallied
  <2>4. ASSUME NEW g \in Head, NEW s \in Live(g), At(g, s)' = "reduce"  PROVE FALSE
    <3>1. CASE g = h
      <4>1. PICK r \in Live(h) : At(h, r)' \in Early \cup {"combine", "publish"}
        BY <1>1, <1>4 DEF Open
      <4>. QED
        BY <4>1, <2>4, <3>1, <1>1 DEF Order, Early, Last
    <3>2. CASE g # h
      <4>1. At(g, s) = "reduce"
        BY <1>2, <2>4, <3>2
      <4>2. \A r \in Live(h) : At(h, r) = "gone"
        BY <3>2, <4>1 DEF Tallies
      <4>. QED
        BY <1>4, <4>2 DEF Open, Early
    <3>. QED
      BY <3>1, <3>2
  <2>. QED
    BY <1>1, <2>1, <2>2, <2>3, <2>4 DEF Tallies
<1>. QED
  BY <1>3, <1>4

(* A CTA that moves is in a walk; it alone moves.                          *)
LEMMA Moved ==
  ASSUME StepInv, NEW h \in Head, NEW s \in Seg, pc[<<h, s>>] # "gone",
         NEW v \in Early \cup Last \cup {"gone"}, pc' = [pc EXCEPT ![<<h, s>>] = v]
  PROVE  /\ host = "walking" /\ Typed /\ Tallies /\ Order(h) /\ Answers(h)
         /\ pc' \in [CTA -> Early \cup Last \cup {"gone"}]
         /\ At(h, s)' = v
         /\ \A r \in Seg : r # s => At(h, r)' = At(h, r)
         /\ \A g \in Head, r \in Seg : g # h => pc'[<<g, r>>] = pc[<<g, r>>]
<1>1. <<h, s>> \in CTA /\ CTA = Head \X Seg
  BY SegFacts
<1>2. host = "walking" /\ Typed /\ Tallies /\ Order(h) /\ Answers(h)
  BY <1>1 DEF StepInv
<1>3. pc \in [CTA -> Early \cup Last \cup {"gone"}]
  BY <1>2 DEF Typed
<1>4. \A g \in Head, r \in Seg : pc'[<<g, r>>] = IF g = h /\ r = s THEN v ELSE pc[<<g, r>>]
  BY <1>1, <1>3
<1>. QED
  BY <1>1, <1>2, <1>3, <1>4 DEF At

LEMMA AskStep ==
  ASSUME StepInv, NEW h \in Head, NEW s \in Seg, Ask(<<h, s>>)
  PROVE  StepInv'
<1>. DEFINE c == <<h, s>>
<1>1. /\ pc[c] = "prologue"
      /\ UNCHANGED <<arena, scratch, input, host, walk, got, y>>
      /\ \/ Retires(c) /\ pc' = [pc EXCEPT ![c] = "gone"] /\ saw' = saw
         \/ /\ ~ Retires(c) /\ pc' = [pc EXCEPT ![c] = "claim"]
            /\ saw' = [saw EXCEPT ![c] = [Nothing EXCEPT !.done = done[h],
                                            !.demand = IF done[h] THEN {} ELSE write[h] \ resident[h]]]
  BY DEF Ask
<1>2. UNCHANGED <<write, units, walk, token, growthCtr, growthAny, ctr, done, growth, resident,
                  claimRow, cursor, atomBits>>
  BY <1>1 DEF arena, scratch, input
<1>3. /\ Live(h)' = Live(h) /\ NLive(h)' = NLive(h) /\ Live(h) \subseteq Seg /\ 0 \in Live(h)
      /\ Demand(h)' = Demand(h) /\ Covered(h)' = Covered(h) /\ Question(h)' = Question(h)
      /\ Answer(h)' = Answer(h) /\ Typed
  BY <1>2, SameLive, LiveFacts DEF Demand, Covered, Question, Answer, Needy, Live, StepInv
<1>4. CASE Retires(c) /\ pc' = [pc EXCEPT ![c] = "gone"] /\ saw' = saw
  <2>. DEFINE v == "gone"
  <2>1. v \in Early \cup Last \cup {"gone"} /\ pc' = [pc EXCEPT ![c] = v] /\ pc[c] # "gone"
    BY <1>1, <1>4
  <2>2. /\ host = "walking" /\ Typed /\ Tallies /\ Order(h) /\ Answers(h)
        /\ pc' \in [CTA -> Early \cup Last \cup {"gone"}]
        /\ At(h, s)' = "gone"
        /\ \A r \in Seg : r # s => At(h, r)' = At(h, r)
        /\ \A g \in Head, r \in Seg : g # h => pc'[<<g, r>>] = pc[<<g, r>>]
    BY <2>1, Moved
  <2>3. s \notin Live(h) /\ \A r \in Live(h) : At(h, r)' = At(h, r)
    BY <1>3, <1>4, <2>2 DEF Live
  <2>4. Open(h)' = Open(h) /\ Arrived(h)' = Arrived(h)
    BY <1>3, <2>3 DEF Open, Arrived
  <2>5. Order(h)'
    BY <1>2, <1>3, <2>2, <2>3, <2>4 DEF Order
  <2>6. Answers(h)'
    BY <1>2, <1>3, <1>4, <2>2, <2>3, <2>4 DEF Answers
  <2>7. Tallies'
    BY <1>2, <2>2, <2>3, <2>5, TalliesKeep
  <2>8. Typed'
    BY <1>1, <1>2, <1>4, <2>2 DEF Typed, scratch
  <2>9. \A g \in Head : g # h => Still(g)
    BY <1>2, <1>4, <2>2 DEF Still
  <2>10. host' = host
    BY <1>1
  <2>. QED
    BY <1>2, <2>2, <2>5, <2>6, <2>7, <2>8, <2>9, <2>10, HeadStep
<1>5. CASE /\ ~ Retires(c) /\ pc' = [pc EXCEPT ![c] = "claim"]
           /\ saw' = [saw EXCEPT ![c] = [Nothing EXCEPT !.done = done[h],
                                           !.demand = IF done[h] THEN {} ELSE write[h] \ resident[h]]]
  <2>. DEFINE v == "claim"
  <2>1. v \in Early \cup Last \cup {"gone"} /\ pc' = [pc EXCEPT ![c] = v] /\ pc[c] # "gone"
    BY <1>1, <1>5 DEF Early
  <2>2. /\ host = "walking" /\ Typed /\ Tallies /\ Order(h) /\ Answers(h)
        /\ pc' \in [CTA -> Early \cup Last \cup {"gone"}]
        /\ At(h, s)' = "claim"
        /\ \A r \in Seg : r # s => At(h, r)' = At(h, r)
        /\ \A g \in Head, r \in Seg : g # h => pc'[<<g, r>>] = pc[<<g, r>>]
    BY <2>1, Moved
  <2>3. At(h, s) = "prologue" /\ s \in Live(h) /\ Open(h) /\ Open(h)' /\ Arrived(h)' = Arrived(h)
    BY <1>1, <1>3, <1>5, <2>2 DEF Live, At, Open, Arrived, Early
  <2>4. saw' = [saw EXCEPT ![c] = Question(h)]
    <3>1. [Nothing EXCEPT !.done = done[h], !.demand = IF done[h] THEN {} ELSE write[h] \ resident[h]]
             = Question(h)
      <4>1. done[h] \in BOOLEAN /\ (IF done[h] THEN {} ELSE write[h] \ resident[h]) \in SUBSET Atom
        BY <2>2 DEF Typed
      <4>. QED
        BY <4>1, SightAsked DEF Question, Demand
    <3>. QED
      BY <1>5, <3>1
  <2>5. c \in CTA /\ CTA = Head \X Seg
    BY SegFacts
  <2>6. saw'[c] = Question(h) /\ \A g \in Head, r \in Seg : <<g, r>> # c => saw'[<<g, r>>] = saw[<<g, r>>]
    BY <2>2, <2>4, <2>5 DEF Typed
  <2>7. Order(h)'
    BY <1>2, <1>3, <2>2, <2>3 DEF Order, Early, Last
  <2>8. Answers(h)'
    <3>1. ASSUME NEW r \in Live(h)
          PROVE  /\ At(h, r)' = "claim" => saw'[<<h, r>>] = Question(h)
                 /\ At(h, r)' \in {"walk", "arrive", "combine", "publish"} =>
                      saw'[<<h, r>>] = Answer(h) /\ (Covered(h) => Demand(h) \subseteq claimRow[h])
      <4>1. CASE r = s
        BY <2>2, <2>6, <4>1
      <4>2. CASE r # s
        BY <1>3, <2>2, <2>3, <2>6, <4>2 DEF Answers
      <4>. QED
        BY <4>1, <4>2
    <3>2. At(h, 0)' \notin {"prologue", "claim"} => At(h, 0) \notin {"prologue", "claim"}
      BY <1>3, <2>2, <2>3
    <3>. QED
      BY <1>2, <1>3, <2>2, <2>3, <3>1, <3>2 DEF Answers
  <2>9. Tallies'
    BY <1>2, <2>2, <2>3, <2>7, TalliesKeep
  <2>10. Typed'
    <3>1. Question(h) \in Sight
      BY <2>2 DEF Question, Demand, Typed, Sight
    <3>. QED
      BY <1>1, <1>2, <2>2, <2>4, <2>5, <3>1 DEF Typed, scratch
  <2>11. \A g \in Head : g # h => Still(g)
    BY <1>2, <2>2, <2>6 DEF Still
  <2>12. host' = host
    BY <1>1
  <2>. QED
    BY <1>2, <2>2, <2>7, <2>8, <2>9, <2>10, <2>11, <2>12, HeadStep
<1>. QED
  BY <1>1, <1>4, <1>5

(* Past the prologue a CTA is live.                                        *)
LEMMA LiveMoves ==
  ASSUME StepInv, NEW h \in Head, NEW s \in Seg, pc[<<h, s>>] \in (Early \cup Last) \ {"prologue"}
  PROVE  s \in Live(h)
<1>1. <<h, s>> \in CTA
  BY SegFacts
<1>2. host = "walking" /\ Order(h)
  BY <1>1 DEF StepInv, Early, Last
<1>. QED
  BY <1>2 DEF Order, At, Early, Last

LEMMA ClaimStep ==
  ASSUME StepInv, NEW h \in Head, NEW s \in Seg, Claim(<<h, s>>)
  PROVE  StepInv'
<1>. DEFINE c == <<h, s>>
            v == "walk"
<1>1. v \in Early \cup Last \cup {"gone"} /\ pc' = [pc EXCEPT ![c] = v] /\ pc[c] # "gone"
      /\ pc[c] = "claim" /\ pc[c] \in (Early \cup Last) \ {"prologue"}
  BY DEF Claim, Early
<1>2. /\ host = "walking" /\ Typed /\ Tallies /\ Order(h) /\ Answers(h)
      /\ pc' \in [CTA -> Early \cup Last \cup {"gone"}]
      /\ At(h, s)' = "walk"
      /\ \A r \in Seg : r # s => At(h, r)' = At(h, r)
      /\ \A g \in Head, r \in Seg : g # h => pc'[<<g, r>>] = pc[<<g, r>>]
  BY <1>1, Moved
<1>3. /\ UNCHANGED <<write, units, walk, token, host, growthCtr, growthAny, ctr, done, growth, resident,
                     cursor, got, y, ws>>
  BY DEF Claim, input
<1>4. /\ Live(h)' = Live(h) /\ NLive(h)' = NLive(h) /\ Live(h) \subseteq Seg /\ 0 \in Live(h)
      /\ Demand(h)' = Demand(h) /\ Covered(h)' = Covered(h) /\ Question(h)' = Question(h)
      /\ Answer(h)' = Answer(h)
  BY <1>2, <1>3, SameLive, LiveFacts DEF Demand, Covered, Question, Answer, Needy, Live
<1>5. At(h, s) = "claim" /\ s \in Live(h) /\ Open(h) /\ Open(h)' /\ Arrived(h)' = Arrived(h)
  <2>1. At(h, s) = "claim" /\ s \in Live(h)
    BY <1>1, LiveMoves DEF At
  <2>2. \A r \in Live(h) : At(h, r)' \in Early <=> At(h, r) \in Early
    BY <1>2, <1>4, <2>1 DEF Early
  <2>. QED
    BY <1>2, <1>4, <2>1, <2>2 DEF Open, Arrived, Early
<1>6. saw[c] = Question(h)
  BY <1>2, <1>5 DEF Answers
<1>7. c \in CTA /\ CTA = Head \X Seg /\ Question(h) \in Sight /\ saw[c].demand = Demand(h)
      /\ saw[c].done = done[h]
  <2>1. c \in CTA /\ CTA = Head \X Seg
    BY SegFacts
  <2>. QED
    BY <1>2, <1>6, <2>1 DEF Typed, Question
<1>8. Covered(h) \in BOOLEAN /\ Needy(h) \in BOOLEAN /\ Demand(h) \in SUBSET Atom
  BY <1>2 DEF Covered, Needy, Demand, Typed
<1>9. /\ saw' = [saw EXCEPT ![c] = Answer(h)]
      /\ claimRow' = IF Covered(h) THEN [claimRow EXCEPT ![h] = @ \cup Demand(h)] ELSE claimRow
      /\ atomBits' = IF s = 0 THEN [atomBits EXCEPT ![h] = write[h]] ELSE atomBits
  <2>1. saw' = [saw EXCEPT ![c] = [saw[c] EXCEPT !.claimed = Covered(h), !.needy = Needy(h)]]
    BY <1>7 DEF Claim, Covered, Needy
  <2>2. [saw[c] EXCEPT !.claimed = Covered(h), !.needy = Needy(h)] = Answer(h)
    <3>1. saw[c] \in Sight
      BY <1>6, <1>7
    <3>. QED
      BY <1>7, <1>8, <3>1, SightClaimed DEF Answer
  <2>. QED
    BY <1>7, <2>1, <2>2 DEF Claim, Covered
<1>10. /\ saw'[c] = Answer(h) /\ \A g \in Head, r \in Seg : <<g, r>> # c => saw'[<<g, r>>] = saw[<<g, r>>]
       /\ claimRow'[h] = claimRow[h] \cup (IF Covered(h) THEN Demand(h) ELSE {})
       /\ \A g \in Head : g # h => claimRow'[g] = claimRow[g] /\ atomBits'[g] = atomBits[g]
       /\ atomBits'[h] = IF s = 0 THEN write[h] ELSE atomBits[h]
  BY <1>2, <1>7, <1>9 DEF Typed
<1>11. Order(h)'
  BY <1>2, <1>3, <1>4, <1>5 DEF Order, Early, Last
<1>12. Answers(h)'
  <2>1. ASSUME NEW r \in Live(h)
        PROVE  /\ At(h, r)' = "claim" => saw'[<<h, r>>] = Question(h)
               /\ At(h, r)' \in {"walk", "arrive", "combine", "publish"} =>
                    saw'[<<h, r>>] = Answer(h) /\ (Covered(h) => Demand(h) \subseteq claimRow'[h])
    <3>1. CASE r = s
      BY <1>2, <1>10, <3>1
    <3>2. CASE r # s
      BY <1>2, <1>4, <1>5, <1>10, <3>2 DEF Answers
    <3>. QED
      BY <3>1, <3>2
  <2>2. At(h, 0)' \notin {"prologue", "claim"} => atomBits'[h] = write[h]
    BY <1>2, <1>4, <1>5, <1>10 DEF Answers
  <2>3. claimRow'[h] \subseteq resident[h] \cup (IF Covered(h) THEN Demand(h) ELSE {})
    BY <1>2, <1>5, <1>10 DEF Answers
  <2>. QED
    BY <1>2, <1>3, <1>4, <1>5, <2>1, <2>2, <2>3 DEF Answers
<1>13. Tallies'
  BY <1>2, <1>3, <1>5, <1>11, TalliesKeep
<1>14. Typed'
  <2>1. Answer(h) \in Sight
    BY <1>2, <1>8 DEF Answer, Sight, Typed
  <2>2. saw' \in [CTA -> Sight]
    BY <1>2, <1>7, <1>9, <2>1 DEF Typed
  <2>3. claimRow' \in [Head -> SUBSET Atom] /\ atomBits' \in [Head -> SUBSET Atom]
    BY <1>2, <1>8, <1>9 DEF Typed
  <2>. QED
    BY <1>2, <1>3, <2>2, <2>3 DEF Typed
<1>15. \A g \in Head : g # h => Still(g)
  BY <1>2, <1>3, <1>10 DEF Still
<1>. QED
  BY <1>2, <1>3, <1>11, <1>12, <1>13, <1>14, <1>15, HeadStep

LEMMA WalkStep ==
  ASSUME StepInv, NEW h \in Head, NEW s \in Seg, Walk(<<h, s>>)
  PROVE  StepInv'
<1>. DEFINE c == <<h, s>>
            v == "arrive"
<1>1. v \in Early \cup Last \cup {"gone"} /\ pc' = [pc EXCEPT ![c] = v] /\ pc[c] # "gone"
      /\ pc[c] = "walk" /\ pc[c] \in (Early \cup Last) \ {"prologue"}
  BY DEF Walk, Early
<1>2. /\ host = "walking" /\ Typed /\ Tallies /\ Order(h) /\ Answers(h)
      /\ pc' \in [CTA -> Early \cup Last \cup {"gone"}]
      /\ At(h, s)' = "arrive"
      /\ \A r \in Seg : r # s => At(h, r)' = At(h, r)
      /\ \A g \in Head, r \in Seg : g # h => pc'[<<g, r>>] = pc[<<g, r>>]
  BY <1>1, Moved
<1>3. /\ UNCHANGED <<write, units, walk, token, host, growthCtr, growthAny, ctr, done, growth, resident,
                     cursor, claimRow, atomBits, y, saw>>
  BY DEF Walk, input, arena
<1>4. /\ Live(h)' = Live(h) /\ NLive(h)' = NLive(h) /\ Live(h) \subseteq Seg /\ 0 \in Live(h)
      /\ Demand(h)' = Demand(h) /\ Covered(h)' = Covered(h) /\ Question(h)' = Question(h)
      /\ Answer(h)' = Answer(h)
  BY <1>2, <1>3, SameLive, LiveFacts DEF Demand, Covered, Question, Answer, Needy, Live
<1>5. At(h, s) = "walk" /\ s \in Live(h) /\ Open(h) /\ Open(h)' /\ Arrived(h)' = Arrived(h)
  <2>1. At(h, s) = "walk" /\ s \in Live(h)
    BY <1>1, LiveMoves DEF At
  <2>2. \A r \in Live(h) : At(h, r)' \in Early <=> At(h, r) \in Early
    BY <1>2, <1>4, <2>1 DEF Early
  <2>. QED
    BY <1>2, <1>4, <2>1, <2>2 DEF Open, Arrived, Early
<1>6. Order(h)'
  BY <1>2, <1>3, <1>4, <1>5 DEF Order, Early, Last
<1>7. Answers(h)'
  <2>1. ASSUME NEW r \in Live(h)
        PROVE  /\ At(h, r)' = "claim" => saw'[<<h, r>>] = Question(h)
               /\ At(h, r)' \in {"walk", "arrive", "combine", "publish"} =>
                    saw'[<<h, r>>] = Answer(h) /\ (Covered(h) => Demand(h) \subseteq claimRow'[h])
    BY <1>2, <1>3, <1>4, <1>5 DEF Answers
  <2>. QED
    BY <1>2, <1>3, <1>4, <1>5, <2>1 DEF Answers
<1>8. Tallies'
  BY <1>2, <1>3, <1>5, <1>6, TalliesKeep
<1>9. Typed'
  <2>1. got' \in [Cell -> Nat]
    BY <1>2 DEF Walk, Typed
  <2>2. DOMAIN ws' = CTA
    BY <1>2 DEF Walk, Typed
  <2>. QED
    BY <1>2, <1>3, <2>1, <2>2 DEF Typed
<1>10. \A g \in Head : g # h => Still(g)
  BY <1>2, <1>3 DEF Still
<1>. QED
  BY <1>2, <1>3, <1>6, <1>7, <1>8, <1>9, <1>10, HeadStep

(* The CTAs that have arrived, counted: the last one is alone.             *)
LEMMA Arrivals ==
  ASSUME StepInv, NEW h \in Head, NEW s \in Live(h), At(h, s) = "arrive", host = "walking"
  PROVE  LET last == NLive(h) = 1 \/ ctr[h] = NLive(h) - 1
         IN /\ Cardinality(Arrived(h) \cup {s}) = Cardinality(Arrived(h)) + 1
            /\ ctr[h] = IF NLive(h) > 1 THEN Cardinality(Arrived(h)) ELSE 0
            /\ Cardinality(Arrived(h)) \in Nat
            /\ \A r \in Live(h) : At(h, r) \notin Last
            /\ last => \A r \in Live(h) : r # s => At(h, r) = "gone"
            /\ ~ last => NLive(h) > 1 /\ \E r \in Live(h) : r # s /\ At(h, r) \in Early
<1>1. Typed /\ Order(h)
  BY DEF StepInv
<1>2. /\ NLive(h) \in Nat /\ NLive(h) \in 1 .. NSplit /\ Live(h) \subseteq Seg
      /\ IsFiniteSet(Live(h)) /\ Cardinality(Live(h)) = NLive(h) /\ Live(h) = 0 .. NLive(h) - 1
  BY <1>1, LiveFacts
<1>3. Arrived(h) \subseteq Live(h) /\ s \notin Arrived(h) /\ Arrived(h) \cup {s} \subseteq Live(h)
  BY DEF Arrived, Early
<1>4. IsFiniteSet(Arrived(h)) /\ Cardinality(Arrived(h)) \in Nat
  BY <1>2, <1>3, FS_Subset, FS_CardinalityType
<1>5. Cardinality(Arrived(h) \cup {s}) = Cardinality(Arrived(h)) + 1
  BY <1>3, <1>4, FS_AddElement
<1>6. ctr[h] = IF NLive(h) > 1 THEN Cardinality(Arrived(h)) ELSE 0
  BY <1>1 DEF Order, Early
<1>7. \A r \in Live(h) : At(h, r) \notin Last
  BY <1>1 DEF Order, Last
<1>8. Cardinality(Arrived(h) \cup {s}) = Cardinality(Live(h)) => Arrived(h) \cup {s} = Live(h)
  BY <1>2, <1>3, FS_Subset
<1>9. ASSUME NLive(h) = 1 \/ ctr[h] = NLive(h) - 1
      PROVE  \A r \in Live(h) : r # s => At(h, r) = "gone"
  <2>1. CASE NLive(h) = 1
    BY <1>2, <2>1
  <2>2. CASE NLive(h) # 1 /\ ctr[h] = NLive(h) - 1
    <3>1. Arrived(h) \cup {s} = Live(h)
      BY <1>2, <1>4, <1>5, <1>6, <1>8, <2>2
    <3>2. \A r \in Live(h) : r # s => At(h, r) \notin Early
      BY <3>1 DEF Arrived
    <3>3. \A r \in Live(h) : At(h, r) \in Early \cup Last \cup {"gone"}
      BY <1>1, <1>2, SegFacts DEF At, Typed
    <3>. QED
      BY <1>7, <3>2, <3>3
  <2>. QED
    BY <1>9, <2>1, <2>2
<1>10. ASSUME ~ (NLive(h) = 1 \/ ctr[h] = NLive(h) - 1)
       PROVE  NLive(h) > 1 /\ \E r \in Live(h) : r # s /\ At(h, r) \in Early
  <2>1. NLive(h) > 1
    BY <1>2, <1>10
  <2>2. Arrived(h) \cup {s} # Live(h)
    <3>. SUFFICES ASSUME Arrived(h) \cup {s} = Live(h)  PROVE FALSE
      OBVIOUS
    <3>1. Cardinality(Arrived(h)) + 1 = NLive(h)
      BY <1>2, <1>5
    <3>2. ctr[h] = NLive(h) - 1
      BY <1>2, <1>4, <1>6, <2>1, <3>1
    <3>. QED
      BY <1>10, <3>2
  <2>. QED
    BY <1>3, <2>1, <2>2 DEF Arrived
<1>. QED
  BY <1>4, <1>5, <1>6, <1>7, <1>9, <1>10

LEMMA ArriveStep ==
  ASSUME StepInv, NEW h \in Head, NEW s \in Seg, Arrive(<<h, s>>)
  PROVE  StepInv'
<1>. DEFINE c == <<h, s>>
            last == NLive(h) = 1 \/ ctr[h] = NLive(h) - 1
            v == IF last THEN "combine" ELSE "gone"
<1>1. v \in Early \cup Last \cup {"gone"} /\ pc' = [pc EXCEPT ![c] = v] /\ pc[c] # "gone"
      /\ pc[c] = "arrive" /\ pc[c] \in (Early \cup Last) \ {"prologue"}
  BY DEF Arrive, Early, Last
<1>. HIDE DEF v
<1>2. /\ host = "walking" /\ Typed /\ Tallies /\ Order(h) /\ Answers(h)
      /\ pc' \in [CTA -> Early \cup Last \cup {"gone"}]
      /\ At(h, s)' = v
      /\ \A r \in Seg : r # s => At(h, r)' = At(h, r)
      /\ \A g \in Head, r \in Seg : g # h => pc'[<<g, r>>] = pc[<<g, r>>]
  BY <1>1, Moved
<1>3. /\ UNCHANGED <<write, units, walk, token, host, growthCtr, growthAny, done, growth, resident,
                     cursor, claimRow, atomBits, y, saw, got, ws>>
      /\ ctr' = IF NLive(h) > 1 THEN [ctr EXCEPT ![h] = @ + 1] ELSE ctr
  BY DEF Arrive, input, arena
<1>4. /\ Live(h)' = Live(h) /\ NLive(h)' = NLive(h) /\ Live(h) \subseteq Seg /\ 0 \in Live(h)
      /\ Demand(h)' = Demand(h) /\ Covered(h)' = Covered(h) /\ Question(h)' = Question(h)
      /\ Answer(h)' = Answer(h)
  BY <1>2, <1>3, SameLive, LiveFacts DEF Demand, Covered, Question, Answer, Needy, Live
<1>5. At(h, s) = "arrive" /\ s \in Live(h) /\ Open(h)
  <2>1. At(h, s) = "arrive" /\ s \in Live(h)
    BY <1>1, LiveMoves DEF At
  <2>. QED
    BY <2>1 DEF Open, Early
<1>6. /\ Cardinality(Arrived(h) \cup {s}) = Cardinality(Arrived(h)) + 1
      /\ ctr[h] = IF NLive(h) > 1 THEN Cardinality(Arrived(h)) ELSE 0
      /\ \A r \in Live(h) : At(h, r) \notin Last
      /\ last => \A r \in Live(h) : r # s => At(h, r) = "gone"
      /\ ~ last => NLive(h) > 1 /\ \E r \in Live(h) : r # s /\ At(h, r) \in Early
  BY <1>2, <1>5, Arrivals
<1>. HIDE DEF last
<1>7. v = IF last THEN "combine" ELSE "gone"
  BY DEF v, last
<1>8. Arrived(h)' = Arrived(h) \cup {s}
  BY <1>2, <1>4, <1>5, <1>7 DEF Arrived, Early
<1>9. \E r \in Live(h) : At(h, r)' \in Early \cup {"combine"}
  <2>1. CASE last
    BY <1>2, <1>5, <1>7, <2>1
  <2>2. CASE ~ last
    BY <1>2, <1>4, <1>6, <2>2
  <2>. QED
    BY <2>1, <2>2
<1>10. Open(h)'
  BY <1>4, <1>9 DEF Open
<1>11. ctr'[h] = IF NLive(h) > 1 THEN Cardinality(Arrived(h)') ELSE 0
  BY <1>2, <1>3, <1>6, <1>8 DEF Typed
<1>12. Order(h)'
  <2>1. \A r \in Seg \ Live(h) : At(h, r)' \in {"prologue", "gone"}
    BY <1>2, <1>5 DEF Order
  <2>2. ASSUME NEW r \in Live(h), NEW q \in Live(h), At(h, r)' \in Last, q # r
        PROVE  At(h, q)' = "gone"
    <3>1. r = s /\ last
      BY <1>2, <1>4, <1>6, <1>7, <2>2 DEF Last
    <3>. QED
      BY <1>2, <1>4, <1>6, <2>2, <3>1
  <2>. QED
    BY <1>4, <1>9, <1>11, <2>1, <2>2 DEF Order
<1>13. Answers(h)'
  <2>1. ASSUME NEW r \in Live(h)
        PROVE  /\ At(h, r)' = "claim" => saw'[<<h, r>>] = Question(h)
               /\ At(h, r)' \in {"walk", "arrive", "combine", "publish"} =>
                    saw'[<<h, r>>] = Answer(h) /\ (Covered(h) => Demand(h) \subseteq claimRow'[h])
    BY <1>2, <1>3, <1>4, <1>5, <1>7 DEF Answers
  <2>2. At(h, 0) \notin {"prologue", "claim"} <=> At(h, 0)' \notin {"prologue", "claim"}
    BY <1>2, <1>4, <1>5, <1>7
  <2>. QED
    BY <1>2, <1>3, <1>4, <1>5, <1>10, <2>1, <2>2 DEF Answers
<1>14. Tallies'
  BY <1>2, <1>3, <1>5, <1>10, <1>12, TalliesKeep
<1>15. Typed'
  <2>1. ctr' \in [Head -> Nat]
    BY <1>2, <1>3 DEF Typed
  <2>. QED
    BY <1>2, <1>3, <2>1 DEF Typed
<1>16. \A g \in Head : g # h => Still(g)
  BY <1>2, <1>3 DEF Still, Typed
<1>. QED
  BY <1>2, <1>3, <1>12, <1>13, <1>14, <1>15, <1>16, HeadStep

(* What the one that goes on finds.                                        *)
LEMMA Alone ==
  ASSUME StepInv, NEW h \in Head, NEW s \in Seg, pc[<<h, s>>] \in Last
  PROVE  /\ s \in Live(h) /\ Typed /\ \A r \in Live(h) : r # s => At(h, r) = "gone"
         /\ At(h, s) = pc[<<h, s>>]
         /\ pc[<<h, s>>] \in {"combine", "publish"} <=> Open(h)
         /\ Open(h) => saw[<<h, s>>] = Answer(h) /\ (Covered(h) => Demand(h) \subseteq claimRow[h])
<1>1. s \in Live(h) /\ At(h, s) = pc[<<h, s>>]
  BY LiveMoves DEF At, Last, Early
<1>2. <<h, s>> \in CTA
  BY SegFacts
<1>3. Typed /\ Order(h) /\ Answers(h)
  BY <1>2 DEF StepInv, Last
<1>4. \A r \in Live(h) : r # s => At(h, r) = "gone"
  BY <1>1, <1>3 DEF Order
<1>5. pc[<<h, s>>] \in {"combine", "publish"} <=> Open(h)
  BY <1>1, <1>4 DEF Open, Last, Early
<1>. QED
  BY <1>1, <1>3, <1>4, <1>5 DEF Answers

LEMMA CombineStep ==
  ASSUME StepInv, NEW h \in Head, NEW s \in Seg, Combine(<<h, s>>)
  PROVE  StepInv'
<1>. DEFINE c == <<h, s>>
            v == "publish"
<1>1. v \in Early \cup Last \cup {"gone"} /\ pc' = [pc EXCEPT ![c] = v] /\ pc[c] # "gone"
      /\ pc[c] = "combine" /\ pc[c] \in Last
  BY DEF Combine, Last
<1>2. /\ host = "walking" /\ Typed /\ Tallies /\ Order(h) /\ Answers(h)
      /\ pc' \in [CTA -> Early \cup Last \cup {"gone"}]
      /\ At(h, s)' = "publish"
      /\ \A r \in Seg : r # s => At(h, r)' = At(h, r)
      /\ \A g \in Head, r \in Seg : g # h => pc'[<<g, r>>] = pc[<<g, r>>]
  BY <1>1, Moved
<1>3. /\ UNCHANGED <<write, units, walk, token, host, growthCtr, growthAny, done, growth, resident,
                     cursor, claimRow, atomBits, saw, got, ws>>
      /\ ctr' = [ctr EXCEPT ![h] = 0] /\ DOMAIN y' = DOMAIN y
  BY DEF Combine, input, arena
<1>4. /\ Live(h)' = Live(h) /\ NLive(h)' = NLive(h) /\ Live(h) \subseteq Seg /\ 0 \in Live(h)
      /\ Demand(h)' = Demand(h) /\ Covered(h)' = Covered(h) /\ Question(h)' = Question(h)
      /\ Answer(h)' = Answer(h)
  BY <1>2, <1>3, SameLive, LiveFacts DEF Demand, Covered, Question, Answer, Needy, Live
<1>5. /\ At(h, s) = "combine" /\ s \in Live(h) /\ Open(h)
      /\ \A r \in Live(h) : r # s => At(h, r) = "gone"
  BY <1>1, Alone
<1>6. /\ Open(h)' /\ \A r \in Live(h) : r # s => At(h, r)' = "gone"
      /\ \A r \in Live(h) : At(h, r)' \notin Early \cup {"combine"}
  BY <1>2, <1>4, <1>5 DEF Open, Early
<1>7. Order(h)'
  BY <1>2, <1>3, <1>4, <1>5, <1>6 DEF Order, Typed
<1>8. Answers(h)'
  <2>1. ASSUME NEW r \in Live(h)
        PROVE  /\ At(h, r)' = "claim" => saw'[<<h, r>>] = Question(h)
               /\ At(h, r)' \in {"walk", "arrive", "combine", "publish"} =>
                    saw'[<<h, r>>] = Answer(h) /\ (Covered(h) => Demand(h) \subseteq claimRow'[h])
    BY <1>2, <1>3, <1>4, <1>5 DEF Answers
  <2>2. At(h, 0) \notin {"prologue", "claim"} <=> At(h, 0)' \notin {"prologue", "claim"}
    BY <1>2, <1>4, <1>5
  <2>. QED
    BY <1>2, <1>3, <1>4, <1>5, <1>6, <2>1, <2>2 DEF Answers
<1>9. Tallies'
  BY <1>2, <1>3, <1>5, <1>6, <1>7, TalliesKeep
<1>10. Typed'
  <2>1. ctr' \in [Head -> Nat]
    BY <1>2, <1>3 DEF Typed
  <2>. QED
    BY <1>2, <1>3, <2>1 DEF Typed
<1>11. \A g \in Head : g # h => Still(g)
  BY <1>2, <1>3 DEF Still, Typed
<1>. QED
  BY <1>2, <1>3, <1>7, <1>8, <1>9, <1>10, <1>11, HeadStep

LEMMA PublishStep ==
  ASSUME StepInv, NEW h \in Head, NEW s \in Seg, Publish(<<h, s>>)
  PROVE  StepInv'
<1>. DEFINE c == <<h, s>>
            v == "tally"
            folded == IF Covered(h) THEN claimRow[h] \ resident[h] ELSE {}
<1>1. v \in Early \cup Last \cup {"gone"} /\ pc' = [pc EXCEPT ![c] = v] /\ pc[c] # "gone"
      /\ pc[c] = "publish" /\ pc[c] \in Last
  BY DEF Publish, Last
<1>2. /\ host = "walking" /\ Typed /\ Tallies /\ Order(h) /\ Answers(h)
      /\ pc' \in [CTA -> Early \cup Last \cup {"gone"}]
      /\ At(h, s)' = "tally"
      /\ \A r \in Seg : r # s => At(h, r)' = At(h, r)
      /\ \A g \in Head, r \in Seg : g # h => pc'[<<g, r>>] = pc[<<g, r>>]
  BY <1>1, Moved
<1>3. /\ At(h, s) = "publish" /\ s \in Live(h) /\ Open(h)
      /\ \A r \in Live(h) : r # s => At(h, r) = "gone"
      /\ saw[c] = Answer(h)
  BY <1>1, Alone
<1>4. saw[c].needy = Needy(h) /\ saw[c].claimed = Covered(h)
  BY <1>3 DEF Answer
<1>5. /\ UNCHANGED <<write, units, walk, token, host, growthCtr, growthAny, ctr, claimRow, atomBits,
                     saw, got, ws, y>>
      /\ resident' = [resident EXCEPT ![h] = resident[h] \cup folded]
      /\ cursor' = [cursor EXCEPT ![h] = cursor[h] + Cardinality(folded)]
      /\ growth' = [growth EXCEPT ![h] = Needy(h)]
      /\ done' = [done EXCEPT ![h] = done[h] \/ ~ Needy(h)]
  BY <1>4 DEF Publish, input
<1>6. /\ Live(h)' = Live(h) /\ NLive(h)' = NLive(h) /\ Live(h) \subseteq Seg /\ 0 \in Live(h)
  BY <1>2, <1>5, SameLive, LiveFacts
<1>7. \A r \in Live(h) : At(h, r)' = IF r = s THEN "tally" ELSE "gone"
  BY <1>2, <1>3, <1>6
<1>8. ~ Open(h)'
  BY <1>6, <1>7 DEF Open, Early
<1>9. Order(h)'
  <2>1. \A r \in Seg \ Live(h) : At(h, r)' \in {"prologue", "gone"}
    BY <1>2, <1>3 DEF Order
  <2>2. ctr[h] = 0
    BY <1>2, <1>3 DEF Order, Early
  <2>3. \A r \in Live(h) : At(h, r)' \notin Early \cup {"combine"}
    BY <1>7 DEF Early
  <2>4. \A r, q \in Live(h) : At(h, r)' \in Last /\ q # r => At(h, q)' = "gone"
    BY <1>7 DEF Last
  <2>5. ctr'[h] = 0 /\ Live(h)' = Live(h)
    BY <1>4, <1>5, <1>6, <2>2
  <2>. QED
    BY <2>1, <2>3, <2>4, <2>5 DEF Order
<1>10. /\ Covered(h) \in BOOLEAN /\ Needy(h) \in BOOLEAN /\ Demand(h) \in SUBSET Atom
       /\ folded \subseteq Demand(h) /\ folded \subseteq Atom
  BY <1>2, <1>3 DEF Covered, Needy, Demand, Typed, Answers
<1>11. cursor[h] + Cardinality(folded) \in 0 .. PoolCap
  <2>1. cursor[h] \in Nat /\ cursor[h] <= PoolCap /\ PoolCap \in Nat
    BY <1>2, SegFacts DEF Typed
  <2>2. CASE Covered(h)
    <3>1. IsFiniteSet(Demand(h))
      <4>1. IsFiniteSet(Atom)
        BY StepAssumption, FS_Interval DEF Atom
      <4>. QED
        BY <1>10, <4>1, FS_Subset
    <3>2. Cardinality(folded) <= Cardinality(Demand(h)) /\ IsFiniteSet(folded)
      BY <1>10, <3>1, FS_Subset
    <3>3. Cardinality(folded) \in Nat /\ Cardinality(Demand(h)) \in Nat
      BY <3>1, <3>2, FS_CardinalityType
    <3>4. Cardinality(Demand(h)) <= PoolCap - cursor[h]
      BY <2>2 DEF Covered
    <3>. HIDE DEF folded
    <3>. QED
      BY <2>1, <3>2, <3>3, <3>4
  <2>3. CASE ~ Covered(h)
    <3>1. Cardinality(folded) = 0
      BY <2>3, FS_EmptySet
    <3>. HIDE DEF folded
    <3>. QED
      BY <2>1, <3>1
  <2>. QED
    BY <2>2, <2>3
<1>12. claimRow[h] \subseteq resident[h] \cup folded
  BY <1>2, <1>3 DEF Answers
<1>. HIDE DEF folded
<1>13. Typed'
  <2>1. resident' \in [Head -> SUBSET Atom]
    BY <1>2, <1>5, <1>10 DEF Typed
  <2>2. cursor' \in [Head -> 0 .. PoolCap]
    BY <1>2, <1>5, <1>11 DEF Typed
  <2>3. growth' \in [Head -> BOOLEAN] /\ done' \in [Head -> BOOLEAN]
    BY <1>2, <1>5, <1>10 DEF Typed
  <2>. QED
    BY <1>2, <1>5, <2>1, <2>2, <2>3 DEF Typed
<1>14. /\ resident'[h] = resident[h] \cup folded /\ growth'[h] = Needy(h)
       /\ done'[h] = ~ Needy(h)
       /\ \A g \in Head : g # h => /\ resident'[g] = resident[g] /\ cursor'[g] = cursor[g]
                                   /\ growth'[g] = growth[g] /\ done'[g] = done[g]
  <2>1. (done[h] \/ ~ Needy(h)) = ~ Needy(h)
    BY <1>2, <1>10 DEF Needy, Demand, Typed
  <2>2. done'[h] = ~ Needy(h)
    BY <1>2, <1>5, <2>1 DEF Typed
  <2>. QED
    BY <1>2, <1>5, <2>2 DEF Typed
<1>15. Answers(h)'
  <2>1. claimRow'[h] \subseteq resident'[h]
    BY <1>5, <1>12, <1>14
  <2>2. At(h, 0)' \notin {"prologue", "claim"} => atomBits'[h] = write'[h]
    <3>1. At(h, 0) \notin {"prologue", "claim"}
      BY <1>3, <1>6
    <3>. QED
      BY <1>2, <1>5, <3>1 DEF Answers
  <2>3. walk = 2 => ~ Needy(h)
    BY <1>2, <1>3 DEF Answers, Needy, Demand
  <2>. QED
    BY <1>5, <1>8, <1>14, <2>1, <2>2, <2>3 DEF Answers
<1>16. Tallies'
  <2>1. \A g \in Head : Live(g)' = Live(g) /\ Live(g) \subseteq Seg
    BY <1>5, SameLive DEF Live
  <2>2. \A g \in Head : g # h => \A r \in Live(g) : At(g, r)' = At(g, r)
    BY <1>2, <2>1 DEF At
  <2>3. ~ Finished /\ ~ Finished' /\ h \notin Tallied /\ h \notin Tallied'
    BY <1>2, <1>3, <1>6 DEF Finished, Tallied
  <2>4. Tallied' = Tallied
    BY <2>1, <2>2, <2>3 DEF Tallied
  <2>5. \A g \in Head : g # h => Open(g)' = Open(g)
    BY <2>1, <2>2 DEF Open
  <2>6. ASSUME NEW g \in Head, ~ Open(g)'  PROVE done'[g] = ~ growth'[g]
    <3>1. CASE g = h
      BY <1>14, <3>1
    <3>2. CASE g # h
      BY <1>2, <1>14, <2>3, <2>5, <2>6, <3>2 DEF Tallies
    <3>. QED
      BY <3>1, <3>2
  <2>7. ASSUME NEW g \in Head, NEW r \in Live(g), At(g, r)' = "reduce"  PROVE FALSE
    <3>1. g # h
      BY <1>7, <2>7
    <3>2. At(g, r) = "reduce"
      BY <2>2, <2>7, <3>1
    <3>3. At(h, s) = "gone"
      BY <1>2, <1>3, <3>1, <3>2 DEF Tallies
    <3>. QED
      BY <1>3, <3>3
  <2>8. growthCtr' = Cardinality(Tallied')
    BY <1>2, <1>5, <2>3, <2>4 DEF Tallies
  <2>9. \A g \in Head : \A r \in Live(g)' : At(g, r)' # "reduce"
    BY <2>1, <2>7
  <2>. QED
    BY <2>3, <2>6, <2>8, <2>9 DEF Tallies
<1>17. \A g \in Head : g # h => Still(g)
  BY <1>2, <1>5, <1>14 DEF Still
<1>. QED
  BY <1>2, <1>5, <1>9, <1>13, <1>15, <1>16, <1>17, HeadStep

(* The last batch-head to be tallied finds all the others gone.            *)
LEMMA TallyStep ==
  ASSUME StepInv, NEW h \in Head, NEW s \in Seg, Tally(<<h, s>>)
  PROVE  StepInv'
<1>. DEFINE c == <<h, s>>
            v == IF growthCtr = BH - 1 THEN "reduce" ELSE "gone"
<1>1. v \in Early \cup Last \cup {"gone"} /\ pc' = [pc EXCEPT ![c] = v] /\ pc[c] # "gone"
      /\ pc[c] = "tally" /\ pc[c] \in Last
  BY DEF Tally, Last
<1>. HIDE DEF v
<1>2. /\ host = "walking" /\ Typed /\ Tallies /\ Order(h) /\ Answers(h)
      /\ pc' \in [CTA -> Early \cup Last \cup {"gone"}]
      /\ At(h, s)' = v
      /\ \A r \in Seg : r # s => At(h, r)' = At(h, r)
      /\ \A g \in Head, r \in Seg : g # h => pc'[<<g, r>>] = pc[<<g, r>>]
  BY <1>1, Moved
<1>3. /\ At(h, s) = "tally" /\ s \in Live(h) /\ ~ Open(h)
      /\ \A r \in Live(h) : r # s => At(h, r) = "gone"
  BY <1>1, Alone
<1>4. /\ UNCHANGED <<write, units, walk, token, host, growthAny, ctr, claimRow, atomBits, resident,
                     cursor, done, growth, saw, got, ws, y>>
      /\ growthCtr' = growthCtr + 1
  BY DEF Tally, input, arena
<1>5. /\ \A g \in Head : Live(g)' = Live(g) /\ NLive(g)' = NLive(g) /\ Live(g) \subseteq Seg
      /\ 0 \in Live(h)
  BY <1>2, <1>4, SameLive, LiveFacts
<1>6. v = "reduce" \/ v = "gone"
  BY DEF v
<1>7. \A r \in Live(h) : At(h, r)' = IF r = s THEN v ELSE "gone"
  BY <1>2, <1>3, <1>5
<1>8. ~ Open(h)'
  BY <1>5, <1>6, <1>7 DEF Open, Early
<1>9. Order(h)'
  <2>1. \A r \in Seg \ Live(h) : At(h, r)' \in {"prologue", "gone"}
    BY <1>2, <1>3 DEF Order
  <2>2. ctr[h] = 0
    BY <1>2, <1>3 DEF Order, Early
  <2>3. \A r \in Live(h) : At(h, r)' \notin Early \cup {"combine"}
    BY <1>7, <1>6 DEF Early
  <2>4. \A r, q \in Live(h) : At(h, r)' \in Last /\ q # r => At(h, q)' = "gone"
    BY <1>7, <1>6 DEF Last
  <2>5. ctr'[h] = 0 /\ Live(h)' = Live(h)
    BY <1>4, <1>5, <1>6, <2>2
  <2>. QED
    BY <2>1, <2>3, <2>4, <2>5 DEF Order
<1>10. Answers(h)'
  <2>1. At(h, 0) \notin {"prologue", "claim"}
    BY <1>3, <1>5
  <2>. QED
    BY <1>2, <1>3, <1>4, <1>8, <2>1 DEF Answers
<1>11. Typed'
  BY <1>2, <1>4 DEF Typed
<1>12. Tallies'
  <2>1. \A g \in Head : g # h => \A r \in Live(g) : At(g, r)' = At(g, r)
    BY <1>2, <1>5 DEF At
  <2>2. ~ Finished /\ h \notin Tallied /\ h \in Head
    BY <1>3 DEF Finished, Tallied
  <2>3. Tallied' = Tallied \cup {h}
    <3>1. h \in Tallied'
      BY <1>5, <1>6, <1>7 DEF Tallied
    <3>2. \A g \in Head : g # h => (g \in Tallied' <=> g \in Tallied)
      BY <1>5, <2>1 DEF Tallied
    <3>. QED
      BY <3>1, <3>2 DEF Tallied
  <2>4. /\ IsFiniteSet(Tallied) /\ Cardinality(Tallied) \in Nat /\ IsFiniteSet(Tallied \cup {h})
        /\ Cardinality(Tallied \cup {h}) = Cardinality(Tallied) + 1
    <3>1. Tallied \subseteq Head /\ IsFiniteSet(Head)
      BY SegFacts DEF Tallied
    <3>2. IsFiniteSet(Tallied)
      BY <3>1, FS_Subset
    <3>. QED
      BY <2>2, <3>2, FS_CardinalityType, FS_AddElement
  <2>5. growthCtr = Cardinality(Tallied)
    BY <1>2, <2>2 DEF Tallies
  <2>6. growthCtr' = Cardinality(Tallied')
    BY <1>4, <2>3, <2>4, <2>5
  <2>7. \A g \in Head : \A r \in Live(g) : At(g, r) # "reduce"
    <3>. SUFFICES ASSUME NEW g \in Head, NEW r \in Live(g), At(g, r) = "reduce"  PROVE FALSE
      OBVIOUS
    <3>1. <<h, s>> # <<g, r>>
      BY <1>3
    <3>2. At(h, s) = "gone"
      BY <1>2, <1>3, <3>1 DEF Tallies
    <3>. QED
      BY <1>3, <3>2
  <2>8. ~ Finished'
    <3>1. CASE v = "reduce"
      BY <1>3, <1>5, <1>7, <3>1 DEF Finished
    <3>2. CASE v = "gone"
      <4>1. growthCtr # BH - 1
        BY <3>2 DEF v
      <4>2. Tallied \cup {h} # Head
        <5>. SUFFICES ASSUME Tallied \cup {h} = Head  PROVE FALSE
          OBVIOUS
        <5>1. Cardinality(Tallied) + 1 = BH
          BY <2>4 DEF BH
        <5>. QED
          BY <2>4, <2>5, <4>1, <5>1
      <4>3. PICK g \in Head : g \notin Tallied'
        BY <2>3, <4>2 DEF Tallied
      <4>. QED
        BY <4>3 DEF Tallied, Finished
    <3>. QED
      BY <1>6, <3>1, <3>2
  <2>9. ASSUME NEW g \in Head, NEW r \in Live(g), At(g, r)' = "reduce",
               NEW k \in Head, NEW i \in Live(k), <<k, i>> # <<g, r>>
        PROVE  At(k, i)' = "gone"
    <3>1. g = h /\ r = s /\ v = "reduce"
      BY <1>7, <2>1, <2>7, <2>9
    <3>2. CASE k = h
      BY <1>7, <2>9, <3>1, <3>2
    <3>3. CASE k # h
      <4>1. growthCtr = BH - 1
        BY <3>1 DEF v
      <4>2. Tallied \cup {h} \subseteq Head /\ Cardinality(Tallied \cup {h}) = Cardinality(Head)
        <5>1. Tallied \cup {h} \subseteq Head
          BY DEF Tallied
        <5>2. Cardinality(Tallied \cup {h}) = BH
          BY <2>4, <2>5, <4>1, SegFacts
        <5>. QED
          BY <5>1, <5>2 DEF BH
      <4>3. Tallied \cup {h} = Head
        BY <4>2, SegFacts, FS_Subset
      <4>4. k \in Tallied
        BY <3>3, <4>3
      <4>5. At(k, i) \in {"gone", "reduce"}
        BY <4>4 DEF Tallied
      <4>. QED
        BY <2>1, <2>7, <3>3, <4>5
    <3>. QED
      BY <3>2, <3>3
  <2>10. \A g \in Head : Open(g)' = Open(g)
    <3>1. \A g \in Head : g # h => Open(g)' = Open(g)
      BY <1>5, <2>1 DEF Open
    <3>2. Open(h)' = Open(h)
      BY <1>3, <1>8 DEF Open
    <3>. QED
      BY <3>1, <3>2
  <2>11. \A g \in Head : ~ Open(g)' => done'[g] = ~ growth'[g]
    BY <1>2, <1>4, <2>2, <2>10 DEF Tallies
  <2>12. \A g \in Head : \A r \in Live(g)' : At(g, r)' = "reduce" =>
          \A k \in Head : \A i \in Live(k)' : <<k, i>> # <<g, r>> => At(k, i)' = "gone"
    BY <1>5, <2>9
  <2>. QED
    BY <2>6, <2>8, <2>11, <2>12 DEF Tallies
<1>13. \A g \in Head : g # h => Still(g)
  BY <1>2, <1>4 DEF Still
<1>. QED
  BY <1>2, <1>4, <1>9, <1>10, <1>11, <1>12, <1>13, HeadStep

LEMMA ReduceStep ==
  ASSUME StepInv, NEW h \in Head, NEW s \in Seg, Reduce(<<h, s>>)
  PROVE  StepInv'
<1>. DEFINE c == <<h, s>>
            v == "gone"
            needed == \E g \in Head : growth[g]
<1>1. v \in Early \cup Last \cup {"gone"} /\ pc' = [pc EXCEPT ![c] = v] /\ pc[c] # "gone"
      /\ pc[c] = "reduce" /\ pc[c] \in Last
  BY DEF Reduce, Last
<1>2. /\ host = "walking" /\ Typed /\ Tallies
      /\ pc' \in [CTA -> Early \cup Last \cup {"gone"}]
      /\ At(h, s)' = "gone"
      /\ \A r \in Seg : r # s => At(h, r)' = At(h, r)
      /\ \A g \in Head, r \in Seg : g # h => pc'[<<g, r>>] = pc[<<g, r>>]
  BY <1>1, Moved
<1>3. At(h, s) = "reduce" /\ s \in Live(h)
  BY <1>1, Alone
<1>4. /\ UNCHANGED <<write, units, walk, token, host, ctr, claimRow, atomBits, resident,
                     cursor, growth, saw, got, ws, y>>
      /\ growthCtr' = 0 /\ growthAny' = needed
      /\ done' = IF needed THEN done ELSE [g \in Head |-> FALSE]
  BY DEF Reduce, input, arena
<1>5. /\ \A g \in Head : Live(g)' = Live(g) /\ NLive(g)' = NLive(g) /\ Live(g) \subseteq Seg
      /\ \A g \in Head : 0 \in Live(g)
  BY <1>2, <1>4, SameLive, LiveFacts
<1>6. \A g \in Head : \A r \in Live(g) : <<g, r>> # c => At(g, r) = "gone"
  BY <1>2, <1>3 DEF Tallies
<1>7. \A g \in Head, r \in Seg : <<g, r>> # c => At(g, r)' = At(g, r)
  BY <1>2 DEF At
<1>8. \A g \in Head : \A r \in Live(g) : At(g, r)' = "gone"
  BY <1>2, <1>5, <1>6, <1>7
<1>9. \A g \in Head : ~ Open(g) /\ ~ Open(g)'
  BY <1>3, <1>5, <1>6, <1>8 DEF Open, Early
<1>10. ~ Finished /\ Finished'
  BY <1>3, <1>5, <1>8 DEF Finished
<1>11. \A g \in Head : done[g] = ~ growth[g]
  BY <1>2, <1>9, <1>10 DEF Tallies
<1>12. done' \in [Head -> BOOLEAN] /\ \A g \in Head : done'[g] = (needed /\ ~ growth[g])
  <2>1. CASE needed
    BY <1>2, <1>4, <1>11, <2>1 DEF Typed
  <2>2. CASE ~ needed
    BY <1>4, <2>2
  <2>. QED
    BY <2>1, <2>2
<1>13. Tallies'
  <2>1. growthAny' = (\E g \in Head : growth'[g])
    BY <1>4
  <2>2. \A g \in Head : done'[g] = (growthAny' /\ ~ growth'[g])
    BY <1>4, <1>12
  <2>3. \A g \in Head : \A r \in Live(g)' : At(g, r)' # "reduce"
    BY <1>5, <1>8
  <2>. QED
    BY <1>4, <1>10, <2>1, <2>2, <2>3 DEF Tallies
<1>14. ASSUME NEW g \in Head  PROVE Order(g)' /\ Answers(g)'
  <2>1. Order(g) /\ Answers(g)
    BY <1>2 DEF StepInv
  <2>2. ctr[g] = 0
    BY <1>3, <1>6, <2>1 DEF Order, Early
  <2>3. \A r \in Seg \ Live(g) : At(g, r)' \in {"prologue", "gone"}
    BY <1>3, <1>7, <2>1 DEF Order
  <2>4. Order(g)'
    BY <1>4, <1>5, <1>8, <2>2, <2>3 DEF Order, Early
  <2>5. claimRow'[g] \subseteq resident'[g] /\ (walk' = 2 => ~ growth'[g])
    BY <1>4, <1>9, <2>1 DEF Answers
  <2>6. At(g, 0) \notin {"prologue", "claim"}
    BY <1>3, <1>5, <1>6
  <2>7. atomBits'[g] = write'[g]
    BY <1>4, <2>1, <2>6 DEF Answers
  <2>. QED
    BY <1>9, <2>4, <2>5, <2>7 DEF Answers
<1>15. Typed'
  <2>1. growthAny' \in BOOLEAN /\ growthCtr' \in Nat
    BY <1>4
  <2>. QED
    BY <1>2, <1>4, <1>12, <2>1 DEF Typed
<1>. QED
  BY <1>2, <1>4, <1>13, <1>14, <1>15 DEF StepInv

LEMMA BlockStep ==
  ASSUME StepInv, NEW c \in CTA, Block(c)
  PROVE  StepInv'
<1>1. c = <<c[1], c[2]>> /\ c[1] \in Head /\ c[2] \in Seg
  BY DEF CTA
<1>2. PICK h \in Head, s \in Seg : c = <<h, s>>
  BY <1>1
<1>. QED
  BY <1>2, AskStep, ClaimStep, WalkStep, ArriveStep, CombineStep, PublishStep, TallyStep, ReduceStep
     DEF Block

(***************************************************************************)
(* The host.                                                               *)
(***************************************************************************)
LEMMA LaunchStep ==
  ASSUME Launch, Typed', host' = "walking", growthCtr' = 0, walk' \in {1, 2},
         \A h \in Head : ctr'[h] = 0 /\ claimRow'[h] \subseteq resident'[h],
         walk' = 2 => \A h \in Head : write'[h] \subseteq resident'[h]
  PROVE  StepInv' /\ \A h \in Head : 0 \in Live(h)' /\ Open(h)'
                                     /\ \A s \in Seg : At(h, s)' = "prologue"
<1>1. \A h \in Head : \A s \in Seg : At(h, s)' = "prologue"
  BY SegFacts DEF Launch, At
<1>2. ASSUME NEW h \in Head  PROVE 0 \in Live(h)' /\ Live(h)' \subseteq Seg
  BY SegFacts DEF Live, Retires
<1>3. \A h \in Head : Open(h)' /\ Arrived(h)' = {}
  BY <1>1, <1>2 DEF Open, Arrived, Early
<1>4. ASSUME NEW h \in Head  PROVE Order(h)'
  <2>1. Cardinality(Arrived(h)') = 0
    BY <1>3, FS_EmptySet
  <2>2. \A s \in Seg : At(h, s)' = "prologue"
    BY <1>1
  <2>3. ctr'[h] = 0
    OBVIOUS
  <2>4. \A s \in Seg \ Live(h)' : At(h, s)' \in {"prologue", "gone"}
    BY <2>2
  <2>5. \A s, r \in Live(h)' : At(h, s)' \in Last /\ r # s => At(h, r)' = "gone"
    BY <1>2, <2>2 DEF Last
  <2>. QED
    BY <2>1, <2>3, <2>4, <2>5 DEF Order
<1>5. ASSUME NEW h \in Head  PROVE Answers(h)'
  <2>1. \A s \in Seg : At(h, s)' = "prologue"
    BY <1>1
  <2>2. At(h, 0)' = "prologue"
    BY <2>1, SegFacts
  <2>. QED
    BY <1>2, <1>3, <2>1, <2>2 DEF Answers
<1>6. Tallies'
  <2>1. ~ Finished' /\ Tallied' = {}
    <3>1. PICK h \in Head : TRUE
      BY SegFacts
    <3>2. ~ Finished'
      BY <1>1, <1>2, <3>1, SegFacts DEF Finished
    <3>3. \A g \in Head : ~ (\A s \in Live(g)' : At(g, s)' \in {"gone", "reduce"})
      BY <1>1, <1>2, SegFacts
    <3>. QED
      BY <3>2, <3>3 DEF Tallied
  <2>2. Cardinality(Tallied') = 0
    BY <2>1, FS_EmptySet
  <2>3. \A g \in Head : \A r \in Live(g)' : At(g, r)' # "reduce"
    BY <1>1, <1>2
  <2>. QED
    BY <1>3, <2>1, <2>2, <2>3 DEF Tallies
<1>. QED
  BY <1>1, <1>2, <1>3, <1>4, <1>5, <1>6 DEF StepInv

LEMMA LaunchTyped ==
  ASSUME Launch
  PROVE  /\ pc' \in [CTA -> Early \cup Last \cup {"gone"}]
         /\ saw' \in [CTA -> Sight]
BY DEF Launch, Early, Nothing, Sight

LEMMA SubmitStep ==
  ASSUME StepInv, Submit
  PROVE  StepInv'
<1>1. host # "walking" /\ Typed /\ growthCtr = 0
      /\ \A h \in Head : ctr[h] = 0 /\ claimRow[h] \subseteq resident[h]
  BY DEF StepInv, Submit
<1>2. /\ UNCHANGED <<resident, claimRow, cursor, done, growth, growthAny, ctr, growthCtr, atomBits, ws, y>>
      /\ host' = "walking" /\ walk' = 1 /\ token' = token + 1 /\ Launch
      /\ write' \in [Head -> SUBSET Atom] /\ units' \in [Head -> 0 .. MaxUnits]
      /\ \A h \in Head : Cardinality(write'[h]) <= units'[h]
      /\ got' = [c \in Cell |-> 0]
  BY DEF Submit, arena, scratch
<1>3. Typed'
  <2>1. got' \in [Cell -> Nat]
    BY <1>2
  <2>2. token' \in Nat /\ walk' \in 0 .. 2
    BY <1>1, <1>2 DEF Typed
  <2>. QED
    BY <1>1, <1>2, <2>1, <2>2, LaunchTyped DEF Typed
<1>. QED
  BY <1>1, <1>2, <1>3, LaunchStep

(* A landed launch has reduced its verdicts.                               *)
LEMMA Landing ==
  ASSUME StepInv, host = "walking", Landed
  PROVE  /\ Typed /\ Finished /\ growthCtr = 0
         /\ \A h \in Head : ~ Open(h) /\ ctr[h] = 0 /\ claimRow[h] \subseteq resident[h]
                            /\ atomBits[h] = write[h] /\ (walk = 2 => ~ growth[h])
         /\ growthAny = (\E h \in Head : growth[h])
         /\ \A h \in Head : done[h] = (growthAny /\ ~ growth[h])
<1>1. Typed /\ Tallies /\ \A h \in Head : Order(h) /\ Answers(h)
  BY DEF StepInv
<1>2. \A h \in Head : \A s \in Seg : At(h, s) = "gone"
  BY SegFacts DEF Landed, At
<1>3. \A h \in Head : Live(h) \subseteq Seg
  BY DEF Live
<1>4. Finished /\ \A h \in Head : ~ Open(h)
  BY <1>2, <1>3 DEF Finished, Open, Early
<1>5. ASSUME NEW h \in Head
      PROVE  ctr[h] = 0 /\ claimRow[h] \subseteq resident[h]
             /\ atomBits[h] = write[h] /\ (walk = 2 => ~ growth[h])
  <2>1. ctr[h] = 0
    BY <1>1, <1>2, <1>3 DEF Order, Early
  <2>2. At(h, 0) = "gone"
    BY <1>2, SegFacts
  <2>. QED
    BY <1>1, <1>4, <2>1, <2>2 DEF Answers
<1>6. /\ growthCtr = 0 /\ growthAny = (\E h \in Head : growth[h])
      /\ \A h \in Head : done[h] = (growthAny /\ ~ growth[h])
  BY <1>1, <1>4 DEF Tallies
<1>. QED
  BY <1>1, <1>4, <1>5, <1>6

LEMMA VerdictStep ==
  ASSUME StepInv, ReadVerdict
  PROVE  StepInv'
<1>1. /\ Typed /\ growthCtr = 0
      /\ \A h \in Head : ctr[h] = 0 /\ claimRow[h] \subseteq resident[h]
                         /\ atomBits[h] = write[h] /\ (walk = 2 => ~ growth[h])
      /\ growthAny = (\E h \in Head : growth[h])
      /\ \A h \in Head : done[h] = (growthAny /\ ~ growth[h])
  BY Landing DEF ReadVerdict
<1>2. /\ UNCHANGED <<resident, claimRow, cursor, done, growth, growthAny, ctr, growthCtr, atomBits, ws,
                     write, units, token, got, y, pc, saw, walk>>
      /\ host' = IF walk = 1 /\ growthAny THEN "growing" ELSE "returned"
      /\ \A c \in CTA : pc[c] = "gone"
  BY DEF ReadVerdict, Landed, arena, scratch, input
<1>3. walk = 1 \/ walk = 2
  BY <1>1 DEF StepInv, ReadVerdict, Typed
<1>4. Typed'
  BY <1>1, <1>2 DEF Typed
<1>5. CASE walk = 1 /\ growthAny
  BY <1>1, <1>2, <1>4, <1>5 DEF StepInv
<1>6. CASE ~ (walk = 1 /\ growthAny)
  <2>1. ~ growthAny /\ \A h \in Head : ~ done[h] /\ ~ growth[h]
    BY <1>1, <1>3, <1>6
  <2>. QED
    BY <1>1, <1>2, <1>4, <1>6, <2>1 DEF StepInv
<1>. QED
  BY <1>5, <1>6

LEMMA AdmitStep ==
  ASSUME StepInv, AdmitGrowth
  PROVE  StepInv'
<1>1. /\ Typed /\ growthCtr = 0
      /\ \A h \in Head : ctr[h] = 0 /\ claimRow[h] \subseteq resident[h] /\ atomBits[h] = write[h]
  BY DEF StepInv, AdmitGrowth
<1>2. /\ UNCHANGED <<claimRow, cursor, done, growth, growthAny, ctr, growthCtr, atomBits, ws,
                     write, units, token, got, y>>
      /\ resident' = [h \in Head |-> resident[h] \cup atomBits[h]]
      /\ host' = "walking" /\ walk' = 2 /\ Launch
  BY DEF AdmitGrowth, scratch, input
<1>3. resident' \in [Head -> SUBSET Atom]
  BY <1>1, <1>2 DEF Typed
<1>4. Typed'
  BY <1>1, <1>2, <1>3, LaunchTyped DEF Typed
<1>5. \A h \in Head : write'[h] \subseteq resident'[h] /\ claimRow'[h] \subseteq resident'[h]
  BY <1>1, <1>2
<1>. QED
  BY <1>1, <1>2, <1>4, <1>5, LaunchStep

LEMMA HostStep ==
  ASSUME StepInv, AdmitRaises \/ Return \/ RefillPool
  PROVE  StepInv'
<1>1. CASE AdmitRaises
  BY <1>1 DEF StepInv, Typed, AdmitRaises, arena, scratch, input
<1>2. CASE Return
  BY <1>2 DEF StepInv, Typed, Return, arena, scratch, input
<1>3. CASE RefillPool
  <2>1. cursor' \in [Head -> 0 .. PoolCap]
    BY <1>3, SegFacts DEF RefillPool
  <2>. QED
    BY <1>3, <2>1 DEF StepInv, Typed, RefillPool, scratch, input
<1>. QED
  BY <1>1, <1>2, <1>3

LEMMA StepInvInit == Init => StepInv
<1>. SUFFICES ASSUME Init  PROVE StepInv
  OBVIOUS
<1>1. IsFiniteSet({}) /\ Cardinality({}) = 0
  BY FS_EmptySet
<1>2. cursor \in [Head -> 0 .. PoolCap]
  <2>1. ASSUME NEW h \in Head  PROVE Cardinality(claimRow[h]) \in 0 .. PoolCap
    <3>1. claimRow[h] \subseteq Atom /\ Cardinality(claimRow[h]) <= PoolCap
      BY DEF Init
    <3>2. IsFiniteSet(claimRow[h])
      <4>1. IsFiniteSet(Atom)
        BY StepAssumption, FS_Interval DEF Atom
      <4>. QED
        BY <3>1, <4>1, FS_Subset
    <3>3. Cardinality(claimRow[h]) \in Nat
      BY <3>2, FS_CardinalityType
    <3>. QED
      BY <3>1, <3>3, SegFacts
  <2>. QED
    BY <2>1 DEF Init
<1>3. saw \in [CTA -> Sight]
  BY DEF Init, Nothing, Sight
<1>4. claimRow \in [Head -> SUBSET Atom] /\ \A h \in Head : claimRow[h] \subseteq resident[h]
  BY DEF Init
<1>5. pc \in [CTA -> Early \cup Last \cup {"gone"}] /\ \A c \in CTA : pc[c] = "gone"
  BY DEF Init
<1>6. Typed
  <2>1. /\ write \in [Head -> SUBSET Atom] /\ units \in [Head -> 0 .. MaxUnits]
        /\ \A h \in Head : write[h] = {} /\ units[h] = 0
    BY SegFacts DEF Init
  <2>2. \A h \in Head : Cardinality(write[h]) <= units[h]
    BY <1>1, <2>1
  <2>3. got \in [Cell -> Nat] /\ ctr \in [Head -> Nat] /\ growthCtr \in Nat
    BY DEF Init
  <2>4. /\ resident \in [Head -> SUBSET Atom] /\ atomBits \in [Head -> SUBSET Atom]
        /\ done \in [Head -> BOOLEAN] /\ growth \in [Head -> BOOLEAN] /\ growthAny \in BOOLEAN
        /\ DOMAIN ws = CTA /\ DOMAIN y = Head
    BY DEF Init
  <2>5. token \in Nat /\ walk \in 0 .. 2 /\ host = "ready"
    BY DEF Init
  <2>. QED
    BY <1>2, <1>3, <1>4, <1>5, <2>1, <2>2, <2>3, <2>4, <2>5 DEF Typed
<1>. QED
  BY <1>4, <1>5, <1>6 DEF Init, StepInv

LEMMA StepInvStep == StepInv /\ [Next]_vars => StepInv'
<1>. SUFFICES ASSUME StepInv, [Next]_vars  PROVE StepInv'
  OBVIOUS
<1>1. ASSUME NEW c \in CTA, Block(c)  PROVE StepInv'
  BY <1>1, BlockStep
<1>2. CASE UNCHANGED vars
  <2>1. UNCHANGED <<resident, claimRow, cursor, done, growth, growthAny, ctr, growthCtr, atomBits, ws,
                    write, units, token, got, y, pc, saw, host, walk>>
    BY <1>2 DEF vars, arena, scratch, input
  <2>2. Typed'
    BY <2>1 DEF StepInv, Typed
  <2>3. CASE host = "walking"
    <3>1. \A h \in Head : Still(h)
      BY <2>1 DEF Still
    <3>2. PICK h \in Head : TRUE
      BY SegFacts
    <3>3. Order(h)' /\ Answers(h)'
      BY <2>1, <2>3, <3>1, StillKeeps, SegFacts DEF StepInv
    <3>4. \A r \in Live(h) : At(h, r)' = At(h, r)
      BY <2>1 DEF At
    <3>5. Tallies'
      BY <2>1, <2>3, <3>3, <3>4, TalliesKeep DEF StepInv
    <3>. QED
      BY <2>1, <2>2, <2>3, <3>1, <3>3, <3>5, HeadStep
  <2>4. CASE host # "walking"
    BY <2>1, <2>2, <2>4 DEF StepInv
  <2>. QED
    BY <2>3, <2>4
<1>. QED
  BY <1>1, <1>2, SubmitStep, VerdictStep, AdmitStep, HostStep DEF Next

(***************************************************************************)
(* The invariant, and what a step leaves behind.                           *)
(***************************************************************************)
(* Whatever the caller does, also after a refused growth: every CTA of a   *)
(* head that is not published answers from the same state, they are        *)
(* counted one by one, and the last of the last head alone reduces.        *)
THEOREM AnswersHold == Spec => []StepInv
<1>. QED
  BY StepInvInit, StepInvStep, PTL DEF Spec

(* "No CTA of a launch can observe a value its own launch wrote": the      *)
(* answers of one batch-head's CTAs (done flag, demand, claim) are equal,  *)
(* although each derived its own and they are not synchronised.            *)
THEOREM OneAnswerPerHead == Spec => []SiblingsAgree
<1>1. StepInv => SiblingsAgree
  <2>. SUFFICES ASSUME StepInv, NEW c \in Asked, NEW d \in Asked, c[1] = d[1]
                PROVE  saw[c] = saw[d]
    BY DEF SiblingsAgree
  <2>1. PICK h \in Head, s \in Seg, r \in Seg : c = <<h, s>> /\ d = <<h, r>>
    <3>1. c \in CTA /\ d \in CTA
      BY DEF Asked
    <3>2. c = <<c[1], c[2]>> /\ d = <<c[1], d[2]>> /\ c[1] \in Head /\ c[2] \in Seg /\ d[2] \in Seg
      BY <3>1 DEF CTA
    <3>. QED
      BY <3>2
  <2>2. pc[<<h, s>>] \in {"walk", "arrive", "combine", "publish"}
        /\ pc[<<h, r>>] \in {"walk", "arrive", "combine", "publish"}
    BY <2>1 DEF Asked
  <2>3. s \in Live(h) /\ r \in Live(h)
    BY <2>2, LiveMoves DEF Early, Last
  <2>4. Open(h)
    BY <2>2, <2>3 DEF Open, At, Early
  <2>5. Answers(h)
    <3>1. <<h, s>> \in CTA
      BY SegFacts
    <3>. QED
      BY <2>2, <3>1 DEF StepInv
  <2>. QED
    BY <2>1, <2>2, <2>3, <2>4, <2>5 DEF Answers, At
<1>. QED
  BY <1>1, AnswersHold, PTL

(* A step that returns has a settled verdict and no done flag: the replay  *)
(* cleared the flags of every head, not of its own only.                   *)
THEOREM NothingLeftBehind == Spec => []RoundSettled
<1>1. StepInv => RoundSettled
  BY DEF StepInv, RoundSettled
<1>. QED
  BY <1>1, AnswersHold, PTL

(***************************************************************************)
(* The deposits and the output, under NoneAbandoned.                       *)
(***************************************************************************)
Unwalked == {"prologue", "claim", "walk"}
Quiet(g) ==
  /\ Open(g)' = Open(g) /\ growth'[g] = growth[g] /\ resident'[g] = resident[g] /\ y'[g] = y[g]
  /\ Open(g) => done'[g] = done[g] /\ Needy(g)' = Needy(g)
  /\ \A s \in Live(g) : /\ At(g, s)' \in Unwalked <=> At(g, s) \in Unwalked
                        /\ At(g, s)' = "publish" <=> At(g, s) = "publish"
                        /\ ws'[<<g, s>>] = ws[<<g, s>>]
  /\ \A a \in Atom : got'[<<g, a>>] = got[<<g, a>>]

LEMMA QuietKeeps ==
  ASSUME NEW g \in Head, Typed, Quiet(g), UNCHANGED <<write, units, token, walk>>,
         Deposits(g), Output(g)
  PROVE  Deposits(g)' /\ Output(g)'
<1>1. /\ Live(g)' = Live(g) /\ Live(g) \subseteq Seg
      /\ \A s \in Seg : Own(<<g, s>>)' = Own(<<g, s>>) /\ Own(<<g, s>>) \subseteq Atom
  BY SameLive, OwnFacts DEF Live
<1>2. Full(g)' = Full(g) /\ \A s \in Live(g) : Part(<<g, s>>)' = Part(<<g, s>>)
  BY <1>1 DEF Full, Part, Tag
<1>3. Ran(g)' = Ran(g)
  BY DEF Ran, Quiet
<1>4. Deposits(g)'
  <2>1. ASSUME NEW s \in Live(g), NEW a \in Own(<<g, s>>)
        PROVE  got'[<<g, a>>] = IF Open(g)'
                       THEN IF At(g, s)' \in {"prologue", "claim", "walk"}
                            THEN (IF done'[g] THEN 1 ELSE 0)
                            ELSE (IF Needy(g)' THEN 0 ELSE 1)
                       ELSE (IF growth'[g] THEN 0 ELSE 1)
    <3>1. got'[<<g, a>>] = got[<<g, a>>]
      BY <1>1 DEF Quiet
    <3>2. got[<<g, a>>] = IF Open(g)
                       THEN IF At(g, s) \in {"prologue", "claim", "walk"}
                            THEN (IF done[g] THEN 1 ELSE 0)
                            ELSE (IF Needy(g) THEN 0 ELSE 1)
                       ELSE (IF growth[g] THEN 0 ELSE 1)
      BY DEF Deposits
    <3>. QED
      BY <3>1, <3>2 DEF Quiet, Unwalked
  <2>2. \A a \in Atom \ write'[g] : got'[<<g, a>>] = 0
    BY DEF Deposits, Quiet
  <2>3. Open(g)' /\ done'[g] => walk' = 2
    BY DEF Deposits, Quiet
  <2>4. Ran(g)' => write'[g] \subseteq resident'[g]
    BY <1>3 DEF Deposits, Quiet
  <2>. QED
    BY <1>1, <2>1, <2>2, <2>3, <2>4 DEF Deposits
<1>5. Output(g)'
  <2>1. Open(g)' /\ ~ Needy(g)' => \A s \in Live(g)' :
          At(g, s)' \notin Unwalked => ws'[<<g, s>>] = Part(<<g, s>>)'
    BY <1>1, <1>2 DEF Output, Quiet, Unwalked
  <2>2. (\E s \in Live(g) : At(g, s) = "publish") => Open(g)
    BY DEF Open
  <2>3. Ran(g)' \/ (~ Needy(g)' /\ \E s \in Live(g)' : At(g, s)' = "publish") => y'[g] = Full(g)'
    BY <1>1, <1>2, <1>3, <2>2 DEF Output, Quiet
  <2>. QED
    BY <2>1, <2>3 DEF Output, Unwalked
<1>. QED
  BY <1>4, <1>5

LEMMA OnceStep ==
  ASSUME OnceInv, StepInv, host = "walking", UNCHANGED <<write, units, token, host, walk>>,
         NEW h \in Head, Deposits(h)' /\ Output(h)', \A g \in Head : g # h => Quiet(g)
  PROVE  OnceInv'
<1>1. ASSUME NEW g \in Head  PROVE Deposits(g)' /\ Output(g)'
  BY QuietKeeps DEF OnceInv, StepInv
<1>. QED
  BY <1>1 DEF OnceInv

(* The heads of the CTAs that do not move.                                 *)
LEMMA OthersQuiet ==
  ASSUME Typed, NEW g \in Head, \A r \in Seg : pc'[<<g, r>>] = pc[<<g, r>>],
         resident'[g] = resident[g], growth'[g] = growth[g], y'[g] = y[g],
         Open(g) => done'[g] = done[g] /\ cursor'[g] = cursor[g],
         UNCHANGED <<write, units>>,
         \A a \in Atom : got'[<<g, a>>] = got[<<g, a>>],
         \A r \in Seg : ws'[<<g, r>>] = ws[<<g, r>>]
  PROVE  Quiet(g)
<1>1. Live(g)' = Live(g) /\ Live(g) \subseteq Seg
  BY SameLive DEF Live
<1>2. \A r \in Seg : At(g, r)' = At(g, r)
  BY DEF At
<1>3. Open(g)' = Open(g)
  BY <1>1, <1>2 DEF Open
<1>4. Open(g) => Needy(g)' = Needy(g)
  BY DEF Needy, Covered, Demand
<1>. QED
  BY <1>1, <1>2, <1>3, <1>4 DEF Quiet

(* What the head of a moving CTA looks like before and after.              *)
LEMMA OneMoves ==
  ASSUME StepInv, NEW h \in Head, NEW s \in Seg, Block(<<h, s>>)
  PROVE  /\ host = "walking" /\ Typed /\ Order(h) /\ Answers(h)
         /\ UNCHANGED <<write, units, token, host, walk>>
         /\ Live(h)' = Live(h) /\ Live(h) \subseteq Seg
         /\ \A r \in Seg : r # s => At(h, r)' = At(h, r)
         /\ \A g \in Head, r \in Seg : g # h => pc'[<<g, r>>] = pc[<<g, r>>]
<1>. DEFINE c == <<h, s>>
<1>1. PICK v \in Early \cup Last \cup {"gone"} : pc' = [pc EXCEPT ![c] = v] /\ pc[c] # "gone"
  <2>1. Ask(c) => \/ pc' = [pc EXCEPT ![c] = "gone"] /\ pc[c] # "gone"
                  \/ pc' = [pc EXCEPT ![c] = "claim"] /\ pc[c] # "gone"
    BY DEF Ask
  <2>2. Claim(c) => pc' = [pc EXCEPT ![c] = "walk"] /\ pc[c] # "gone"
    BY DEF Claim
  <2>3. Walk(c) => pc' = [pc EXCEPT ![c] = "arrive"] /\ pc[c] # "gone"
    BY DEF Walk
  <2>4. Arrive(c) => \/ pc' = [pc EXCEPT ![c] = "gone"] /\ pc[c] # "gone"
                     \/ pc' = [pc EXCEPT ![c] = "combine"] /\ pc[c] # "gone"
    BY DEF Arrive
  <2>5. Combine(c) => pc' = [pc EXCEPT ![c] = "publish"] /\ pc[c] # "gone"
    BY DEF Combine
  <2>6. Publish(c) => pc' = [pc EXCEPT ![c] = "tally"] /\ pc[c] # "gone"
    BY DEF Publish
  <2>7. Tally(c) => \/ pc' = [pc EXCEPT ![c] = "gone"] /\ pc[c] # "gone"
                    \/ pc' = [pc EXCEPT ![c] = "reduce"] /\ pc[c] # "gone"
    BY DEF Tally
  <2>8. Reduce(c) => pc' = [pc EXCEPT ![c] = "gone"] /\ pc[c] # "gone"
    BY DEF Reduce
  <2>9. \/ Ask(c) \/ Claim(c) \/ Walk(c) \/ Arrive(c) \/ Combine(c) \/ Publish(c) \/ Tally(c)
        \/ Reduce(c)
    BY DEF Block
  <2>. HIDE DEF c
  <2>. QED
    BY <2>1, <2>2, <2>3, <2>4, <2>5, <2>6, <2>7, <2>8, <2>9 DEF Early, Last
<1>2. UNCHANGED <<write, units, token, host, walk>>
  BY DEF Block, Ask, Claim, Walk, Arrive, Combine, Publish, Tally, Reduce, input
<1>3. Live(h)' = Live(h) /\ Live(h) \subseteq Seg
  BY <1>2, SameLive DEF Live
<1>. QED
  BY <1>1, <1>2, <1>3, Moved

LEMMA OnceQuiet ==
  ASSUME StepInv, OnceInv, NEW h \in Head, NEW s \in Seg,
         Ask(<<h, s>>) \/ Claim(<<h, s>>) \/ Arrive(<<h, s>>) \/ Tally(<<h, s>>) \/ Reduce(<<h, s>>)
  PROVE  OnceInv'
<1>. DEFINE c == <<h, s>>
<1>1. /\ host = "walking" /\ Typed /\ Order(h) /\ Answers(h)
      /\ UNCHANGED <<write, units, token, host, walk>>
      /\ Live(h)' = Live(h) /\ Live(h) \subseteq Seg
      /\ \A r \in Seg : r # s => At(h, r)' = At(h, r)
      /\ \A g \in Head, r \in Seg : g # h => pc'[<<g, r>>] = pc[<<g, r>>]
  BY OneMoves DEF Block
<1>2. UNCHANGED <<resident, cursor, growth, got, ws, y>>
  BY DEF Ask, Claim, Arrive, Tally, Reduce, arena, scratch
<1>3. pc \in [CTA -> Early \cup Last \cup {"gone"}] /\ c \in CTA
  BY <1>1, SegFacts DEF Typed
<1>4. ASSUME Ask(c) \/ Claim(c) \/ Arrive(c)
      PROVE  Quiet(h) /\ done' = done
  <2>1. UNCHANGED done
    BY <1>4 DEF Ask, Claim, Arrive, scratch
  <2>2. \/ /\ At(h, s) \in Unwalked /\ At(h, s)' \in {"gone", "claim", "walk"}
           /\ At(h, s)' = "gone" <=> s \notin Live(h)
        \/ At(h, s) = "arrive" /\ s \in Live(h) /\ At(h, s)' \in {"combine", "gone"}
    <3>1. CASE Ask(c)
      <4>1. /\ pc[c] = "prologue"
            /\ \/ Retires(c) /\ pc' = [pc EXCEPT ![c] = "gone"]
               \/ ~ Retires(c) /\ pc' = [pc EXCEPT ![c] = "claim"]
        BY <3>1 DEF Ask
      <4>2. \/ Retires(c) /\ pc'[c] = "gone"
            \/ ~ Retires(c) /\ pc'[c] = "claim"
        BY <1>3, <4>1
      <4>3. s \in Live(h) <=> ~ Retires(c)
        BY DEF Live
      <4>. QED
        BY <4>1, <4>2, <4>3 DEF At, Unwalked
    <3>2. CASE Claim(c)
      <4>1. s \in Live(h)
        BY <3>2, LiveMoves DEF Claim, Early
      <4>2. pc[c] = "claim" /\ pc'[c] = "walk"
        BY <1>3, <3>2 DEF Claim
      <4>. QED
        BY <4>1, <4>2 DEF At, Unwalked
    <3>3. CASE Arrive(c)
      <4>1. s \in Live(h)
        BY <3>3, LiveMoves DEF Arrive, Early
      <4>. QED
        BY <1>3, <3>3, <4>1 DEF Arrive, At
    <3>. QED
      BY <1>4, <3>1, <3>2, <3>3
  <2>3. s \in Live(h) => Open(h)
    BY <2>2 DEF Open, Early, Unwalked
  <2>4. Open(h)' = Open(h)
    <3>1. CASE s \notin Live(h)
      BY <1>1, <3>1 DEF Open
    <3>2. CASE At(h, s) \in Unwalked /\ s \in Live(h)
      BY <1>1, <2>2, <2>3, <3>2 DEF Open, Early, Unwalked
    <3>3. CASE Arrive(c) /\ s \in Live(h)
      <4>1. NLive(h) = 1 \/ ctr[h] = NLive(h) - 1 => At(h, s)' = "combine"
        BY <1>3, <3>3 DEF Arrive, At
      <4>2. ~ (NLive(h) = 1 \/ ctr[h] = NLive(h) - 1) => \E r \in Live(h) : r # s /\ At(h, r) \in Early
        <5>1. At(h, s) = "arrive"
          BY <3>3 DEF Arrive, At
        <5>. QED
          BY <1>1, <3>3, <5>1, Arrivals
      <4>3. Open(h)'
        BY <1>1, <3>3, <4>1, <4>2 DEF Open
      <4>. QED
        BY <2>3, <3>3, <4>3 DEF Open
    <3>. QED
      BY <1>4, <2>2, <3>1, <3>2, <3>3 DEF Ask, Claim, At, Unwalked
  <2>5. Needy(h)' = Needy(h)
    BY <1>1, <1>2, <2>1 DEF Needy, Covered, Demand
  <2>6. ASSUME NEW r \in Live(h)
        PROVE  /\ At(h, r)' \in Unwalked <=> At(h, r) \in Unwalked
               /\ At(h, r)' = "publish" <=> At(h, r) = "publish"
    BY <1>1, <2>2 DEF Unwalked
  <2>. QED
    BY <1>2, <2>1, <2>4, <2>5, <2>6 DEF Quiet
<1>5. ASSUME Tally(c) \/ Reduce(c)
      PROVE  Quiet(h) /\ \A g \in Head : Open(g) => done'[g] = done[g]
  <2>1. pc[c] \in {"tally", "reduce"} /\ At(h, s)' \in {"gone", "reduce"}
    BY <1>3, <1>5 DEF Tally, Reduce, At
  <2>2. /\ s \in Live(h) /\ \A r \in Live(h) : r # s => At(h, r) = "gone"
        /\ At(h, s) \in {"tally", "reduce"} /\ ~ Open(h)
    BY <2>1, Alone DEF Last
  <2>3. ~ Open(h)'
    BY <1>1, <2>1, <2>2 DEF Open, Early
  <2>4. Quiet(h)
    BY <1>1, <1>2, <2>1, <2>2, <2>3 DEF Quiet, Unwalked, Open
  <2>5. CASE Tally(c)
    BY <2>4, <2>5 DEF Tally
  <2>6. CASE Reduce(c)
    <3>1. At(h, s) = "reduce" /\ Tallies
      BY <1>1, <2>6 DEF Reduce, At, StepInv
    <3>2. \A g \in Head : \A r \in Live(g) : <<g, r>> # c => At(g, r) = "gone"
      BY <2>2, <3>1 DEF Tallies
    <3>3. \A g \in Head : ~ Open(g)
      BY <2>2, <3>1, <3>2 DEF Open, Early
    <3>. QED
      BY <2>4, <3>3
  <2>. QED
    BY <1>5, <2>5, <2>6
<1>6. Quiet(h) /\ \A g \in Head : Open(g) => done'[g] = done[g]
  BY <1>4, <1>5
<1>7. Deposits(h)' /\ Output(h)'
  BY <1>1, <1>6, QuietKeeps DEF OnceInv
<1>8. ASSUME NEW g \in Head, g # h  PROVE Quiet(g)
  BY <1>1, <1>2, <1>6, <1>8, OthersQuiet
<1>. QED
  BY <1>1, <1>7, <1>8, OnceStep

(* What a CTA reaches when it walks is its whole share.                    *)
LEMMA ReachesAll ==
  ASSUME StepInv, OnceInv, NEW h \in Head, NEW s \in Seg, pc[<<h, s>>] = "walk"
  PROVE  /\ s \in Live(h) /\ Open(h) /\ saw[<<h, s>>] = Answer(h)
         /\ ~ Needy(h) => Reached(<<h, s>>) = Own(<<h, s>>)
         /\ \A a \in Own(<<h, s>>) : got[<<h, a>>] = IF done[h] THEN 1 ELSE 0
<1>. DEFINE c == <<h, s>>
<1>1. s \in Live(h) /\ At(h, s) = "walk"
  BY LiveMoves DEF At, Early
<1>2. Open(h)
  BY <1>1 DEF Open, Early
<1>3. host = "walking" /\ Typed /\ Answers(h) /\ Deposits(h) /\ walk # 0
  <2>1. c \in CTA
    BY SegFacts
  <2>. QED
    BY <2>1 DEF StepInv, OnceInv
<1>4. saw[c] = Answer(h) /\ (Covered(h) => Demand(h) \subseteq claimRow[h])
  BY <1>1, <1>2, <1>3 DEF Answers
<1>5. saw[c].claimed = Covered(h)
  BY <1>4 DEF Answer
<1>6. ASSUME ~ Needy(h)  PROVE Reached(c) = Own(c)
  <2>1. Own(c) \subseteq write[h]
    BY <1>3, OwnFacts
  <2>2. CASE done[h]
    <3>1. write[h] \subseteq resident[h]
      BY <1>2, <1>3, <2>2 DEF Answers, Deposits
    <3>. QED
      BY <2>1, <3>1 DEF Reached
  <2>3. CASE ~ done[h]
    <3>1. write[h] \subseteq resident[h] \cup Demand(h)
      BY <2>3 DEF Demand
    <3>2. Demand(h) = {} \/ Covered(h)
      BY <1>6 DEF Needy
    <3>. QED
      BY <1>4, <1>5, <2>1, <3>1, <3>2 DEF Reached
  <2>. QED
    BY <2>2, <2>3
<1>7. \A a \in Own(c) : got[<<h, a>>] = IF done[h] THEN 1 ELSE 0
  BY <1>1, <1>2, <1>3 DEF Deposits
<1>. QED
  BY <1>1, <1>2, <1>4, <1>6, <1>7

(* The deposits a walking CTA makes: its whole share, or nothing.          *)
New(h, s) == IF Needy(h) \/ done[h] THEN {} ELSE Own(<<h, s>>)

LEMMA WalkDeposits ==
  ASSUME StepInv, OnceInv, NEW h \in Head, NEW s \in Seg, Walk(<<h, s>>)
  PROVE  /\ New(h, s) \subseteq write[h] /\ write[h] \subseteq Atom
         /\ \A a \in New(h, s) : got[<<h, a>>] = 0
         /\ got' = [x \in Cell |-> IF x[1] = h /\ x[2] \in New(h, s) THEN 1 ELSE got[x]]
         /\ \A a \in Own(<<h, s>>) : got'[<<h, a>>] = IF Needy(h) THEN 0 ELSE 1
         /\ ~ Needy(h) => ws' = [ws EXCEPT ![<<h, s>>] = Part(<<h, s>>)]
         /\ Needy(h) => ws' = ws
<1>. DEFINE c == <<h, s>>
<1>1. /\ s \in Live(h) /\ Open(h) /\ saw[c] = Answer(h)
      /\ ~ Needy(h) => Reached(c) = Own(c)
      /\ \A a \in Own(c) : got[<<h, a>>] = IF done[h] THEN 1 ELSE 0
  BY ReachesAll DEF Walk
<1>2. saw[c].needy = Needy(h) /\ saw[c].done = done[h]
  BY <1>1 DEF Answer
<1>3. Typed
  BY DEF StepInv
<1>4. Own(c) \subseteq write[h] /\ write[h] \subseteq Atom
  BY <1>3, OwnFacts
<1>5. New(h, s) = IF saw[c].needy \/ saw[c].done THEN {} ELSE Reached(c)
  BY <1>1, <1>2 DEF New
<1>6. New(h, s) \subseteq Own(c) /\ \A a \in New(h, s) : got[<<h, a>>] = 0
  BY <1>1 DEF New
<1>7. got' = [x \in Cell |-> IF x[1] = c[1] /\ x[2] \in New(h, s) THEN got[x] + 1 ELSE got[x]]
  BY <1>5 DEF Walk
<1>8. got' = [x \in Cell |-> IF x[1] = h /\ x[2] \in New(h, s) THEN 1 ELSE got[x]]
  <2>1. ASSUME NEW x \in Cell
        PROVE  (IF x[1] = c[1] /\ x[2] \in New(h, s) THEN got[x] + 1 ELSE got[x])
                  = (IF x[1] = h /\ x[2] \in New(h, s) THEN 1 ELSE got[x])
    <3>1. x = <<x[1], x[2]>> /\ c[1] = h
      BY DEF Cell
    <3>2. CASE x[1] = h /\ x[2] \in New(h, s)
      <4>1. got[x] = 0
        BY <1>6, <3>1, <3>2
      <4>. QED
        BY <3>1, <3>2, <4>1
    <3>3. CASE ~ (x[1] = h /\ x[2] \in New(h, s))
      BY <3>1, <3>3
    <3>. QED
      BY <3>2, <3>3
  <2>. QED
    BY <1>7, <2>1
<1>9. ASSUME NEW a \in Own(c)  PROVE got'[<<h, a>>] = IF Needy(h) THEN 0 ELSE 1
  <2>1. <<h, a>> \in Cell
    BY <1>4 DEF Cell
  <2>2. got'[<<h, a>>] = IF a \in New(h, s) THEN 1 ELSE got[<<h, a>>]
    BY <1>8, <2>1
  <2>3. got[<<h, a>>] = IF done[h] THEN 1 ELSE 0
    BY <1>1
  <2>4. done[h] => ~ Needy(h)
    BY DEF Needy, Demand
  <2>5. a \in New(h, s) <=> ~ Needy(h) /\ ~ done[h]
    BY DEF New
  <2>. QED
    BY <2>2, <2>3, <2>4, <2>5
<1>10. ASSUME ~ Needy(h)  PROVE ws' = [ws EXCEPT ![c] = Part(c)]
  <2>1. ws' = [ws EXCEPT ![c] = {<<Tag, a>> : a \in {b \in Reached(c) : got'[<<c[1], b>>] = 1}}]
    BY <1>2, <1>10 DEF Walk
  <2>2. {b \in Reached(c) : got'[<<c[1], b>>] = 1} = Own(c)
    BY <1>1, <1>9, <1>10
  <2>. QED
    BY <2>1, <2>2 DEF Part
<1>11. Needy(h) => ws' = ws
  BY <1>2 DEF Walk
<1>. QED
  BY <1>4, <1>6, <1>8, <1>9, <1>10, <1>11

LEMMA OnceWalk ==
  ASSUME StepInv, OnceInv, NEW h \in Head, NEW s \in Seg, Walk(<<h, s>>)
  PROVE  OnceInv'
<1>. DEFINE c == <<h, s>>
<1>1. /\ host = "walking" /\ Typed /\ Order(h) /\ Answers(h)
      /\ UNCHANGED <<write, units, token, host, walk>>
      /\ Live(h)' = Live(h) /\ Live(h) \subseteq Seg
      /\ \A r \in Seg : r # s => At(h, r)' = At(h, r)
      /\ \A g \in Head, r \in Seg : g # h => pc'[<<g, r>>] = pc[<<g, r>>]
  BY OneMoves DEF Block
<1>2. UNCHANGED <<resident, cursor, done, growth, y>>
  BY DEF Walk, arena
<1>3. /\ At(h, s) = "walk" /\ At(h, s)' = "arrive" /\ c \in CTA
      /\ s \in Live(h) /\ Open(h) /\ Deposits(h) /\ Output(h)
  <2>1. pc \in [CTA -> Early \cup Last \cup {"gone"}] /\ c \in CTA
    BY <1>1, SegFacts DEF Typed
  <2>2. At(h, s) = "walk" /\ At(h, s)' = "arrive"
    BY <2>1 DEF Walk, At
  <2>3. s \in Live(h) /\ Open(h)
    BY ReachesAll DEF Walk
  <2>. QED
    BY <1>1, <2>1, <2>2, <2>3 DEF OnceInv
<1>4. Open(h)'
  BY <1>1, <1>3 DEF Open, Early
<1>5. /\ New(h, s) \subseteq write[h] /\ write[h] \subseteq Atom
      /\ got' = [x \in Cell |-> IF x[1] = h /\ x[2] \in New(h, s) THEN 1 ELSE got[x]]
      /\ \A a \in Own(c) : got'[<<h, a>>] = IF Needy(h) THEN 0 ELSE 1
      /\ ~ Needy(h) => ws' = [ws EXCEPT ![c] = Part(c)]
      /\ Needy(h) => ws' = ws
  BY WalkDeposits
<1>6. Needy(h)' = Needy(h) /\ Full(h)' = Full(h)
      /\ \A r \in Seg : Own(<<h, r>>)' = Own(<<h, r>>) /\ Part(<<h, r>>)' = Part(<<h, r>>)
  <2>1. \A r \in Seg : Own(<<h, r>>)' = Own(<<h, r>>)
    BY <1>1, SameLive
  <2>2. Needy(h)' = Needy(h)
    BY <1>1, <1>2 DEF Needy, Covered, Demand
  <2>. QED
    BY <1>1, <2>1, <2>2 DEF Full, Part, Tag
<1>7. \A g \in Head : \A a \in Atom :
        got'[<<g, a>>] = IF g = h /\ a \in New(h, s) THEN 1 ELSE got[<<g, a>>]
  BY <1>5 DEF Cell
<1>8. /\ \A r \in Seg : Own(<<h, r>>) \subseteq write[h]
      /\ \A r \in Seg : r # s => Own(<<h, r>>) \cap Own(c) = {}
      /\ New(h, s) \subseteq Own(c)
  BY <1>1, OwnFacts DEF New
<1>9. Deposits(h)'
  <2>1. \A a \in Atom \ write[h] : got'[<<h, a>>] = 0
    BY <1>3, <1>5, <1>7 DEF Deposits
  <2>2. ASSUME NEW r \in Live(h), NEW a \in Own(<<h, r>>)
        PROVE  got'[<<h, a>>] = IF At(h, r)' \in {"prologue", "claim", "walk"}
                                THEN (IF done[h] THEN 1 ELSE 0)
                                ELSE (IF Needy(h) THEN 0 ELSE 1)
    <3>1. CASE r = s
      BY <1>3, <1>5, <3>1
    <3>2. CASE r # s
      <4>1. got'[<<h, a>>] = got[<<h, a>>]
        BY <1>1, <1>5, <1>7, <1>8, <3>2
      <4>. QED
        BY <1>1, <1>3, <3>2, <4>1 DEF Deposits
    <3>. QED
      BY <3>1, <3>2
  <2>3. Open(h)' /\ done'[h] => walk' = 2
    BY <1>1, <1>2, <1>3 DEF Deposits
  <2>. QED
    BY <1>1, <1>2, <1>4, <1>6, <2>1, <2>2, <2>3 DEF Deposits, Ran
<1>10. Output(h)'
  <2>1. ASSUME ~ Needy(h), NEW r \in Live(h), At(h, r)' \notin {"prologue", "claim", "walk"}
        PROVE  ws'[<<h, r>>] = Part(<<h, r>>)
    <3>1. DOMAIN ws = CTA /\ <<h, r>> \in CTA
      BY <1>1, SegFacts DEF Typed
    <3>2. CASE r = s
      BY <1>3, <1>5, <2>1, <3>1, <3>2
    <3>3. CASE r # s
      <4>1. ws'[<<h, r>>] = ws[<<h, r>>]
        BY <1>5, <2>1, <3>1, <3>3
      <4>. QED
        BY <1>1, <1>3, <2>1, <3>3, <4>1 DEF Output
    <3>. QED
      BY <3>2, <3>3
  <2>2. \A r \in Live(h) : At(h, r)' # "publish"
    <3>1. \A r \in Live(h) : At(h, r) # "publish"
      BY <1>1, <1>3 DEF Order, Last
    <3>. QED
      BY <1>1, <1>3, <3>1
  <2>. QED
    BY <1>1, <1>4, <1>6, <2>1, <2>2 DEF Output, Ran
<1>11. ASSUME NEW g \in Head, g # h  PROVE Quiet(g)
  <2>1. \A a \in Atom : got'[<<g, a>>] = got[<<g, a>>]
    BY <1>7, <1>11
  <2>2. \A r \in Seg : ws'[<<g, r>>] = ws[<<g, r>>]
    <3>1. DOMAIN ws = CTA /\ \A r \in Seg : <<g, r>> \in CTA /\ <<g, r>> # c
      BY <1>1, <1>11, SegFacts DEF Typed
    <3>. QED
      BY <1>5, <3>1
  <2>. QED
    BY <1>1, <1>2, <1>11, <2>1, <2>2, OthersQuiet
<1>. QED
  BY <1>1, <1>9, <1>10, <1>11, OnceStep

LEMMA OnceCombine ==
  ASSUME StepInv, OnceInv, NEW h \in Head, NEW s \in Seg, Combine(<<h, s>>)
  PROVE  OnceInv'
<1>. DEFINE c == <<h, s>>
<1>1. /\ host = "walking" /\ Typed
      /\ UNCHANGED <<write, units, token, host, walk>>
      /\ Live(h)' = Live(h) /\ Live(h) \subseteq Seg
      /\ \A r \in Seg : r # s => At(h, r)' = At(h, r)
      /\ \A g \in Head, r \in Seg : g # h => pc'[<<g, r>>] = pc[<<g, r>>]
  BY OneMoves DEF Block
<1>2. UNCHANGED <<resident, cursor, done, growth, got, ws>>
  BY DEF Combine, arena
<1>3. /\ At(h, s) = "combine" /\ At(h, s)' = "publish" /\ c \in CTA
      /\ s \in Live(h) /\ Open(h) /\ Deposits(h) /\ Output(h)
      /\ \A r \in Live(h) : r # s => At(h, r) = "gone"
      /\ saw[c] = Answer(h)
  <2>1. pc \in [CTA -> Early \cup Last \cup {"gone"}] /\ c \in CTA
    BY <1>1, SegFacts DEF Typed
  <2>2. At(h, s) = "combine" /\ At(h, s)' = "publish" /\ pc[c] \in Last
    BY <2>1 DEF Combine, At, Last
  <2>3. /\ s \in Live(h) /\ \A r \in Live(h) : r # s => At(h, r) = "gone"
        /\ Open(h) <=> pc[c] \in {"combine", "publish"}
        /\ Open(h) => saw[c] = Answer(h)
    BY <2>2, Alone
  <2>4. Open(h)
    BY <2>2, <2>3 DEF At
  <2>. QED
    BY <1>1, <2>1, <2>2, <2>3, <2>4 DEF OnceInv
<1>4. Open(h)'
  BY <1>1, <1>3 DEF Open
<1>5. Needy(h)' = Needy(h) /\ Full(h)' = Full(h)
      /\ \A r \in Seg : Own(<<h, r>>)' = Own(<<h, r>>) /\ Part(<<h, r>>)' = Part(<<h, r>>)
  <2>1. \A r \in Seg : Own(<<h, r>>)' = Own(<<h, r>>)
    BY <1>1, SameLive
  <2>2. Needy(h)' = Needy(h)
    BY <1>1, <1>2 DEF Needy, Covered, Demand
  <2>. QED
    BY <1>1, <2>1, <2>2 DEF Full, Part, Tag
<1>6. DOMAIN y = Head /\ y' = IF Needy(h) THEN y
                             ELSE [y EXCEPT ![h] = UNION {ws[<<h, r>>] : r \in 0 .. NLive(h) - 1}]
  BY <1>1, <1>3 DEF Combine, Answer, Typed
<1>7. ~ Needy(h) => y'[h] = Full(h)
  <2>. SUFFICES ASSUME ~ Needy(h)  PROVE y'[h] = Full(h)
    OBVIOUS
  <2>1. y'[h] = UNION {ws[<<h, r>>] : r \in Live(h)}
    BY <1>1, <1>6, LiveFacts
  <2>2. \A r \in Live(h) : ws[<<h, r>>] = Part(<<h, r>>)
    <3>1. \A r \in Live(h) : At(h, r) \notin {"prologue", "claim", "walk"}
      BY <1>3
    <3>. QED
      BY <1>3, <3>1 DEF Output
  <2>3. \A a \in write[h] : \E r \in Live(h) : a \in Own(<<h, r>>)
    BY <1>1, OwnFacts
  <2>4. \A r \in Live(h) : Own(<<h, r>>) \subseteq write[h]
    BY <1>1, OwnFacts
  <2>5. \A x : x \in y'[h] <=> \E r \in Live(h) : x \in Part(<<h, r>>)
    BY <2>1, <2>2
  <2>6. \A x : x \in Full(h) <=> \E a \in write[h] : x = <<Tag, a>>
    BY DEF Full
  <2>7. \A r \in Live(h) : \A x : x \in Part(<<h, r>>) <=> \E a \in Own(<<h, r>>) : x = <<Tag, a>>
    BY DEF Part
  <2>8. ASSUME NEW x, x \in y'[h]  PROVE x \in Full(h)
    <3>1. PICK r \in Live(h) : x \in Part(<<h, r>>)
      BY <2>5, <2>8
    <3>2. PICK a \in Own(<<h, r>>) : x = <<Tag, a>>
      BY <2>7, <3>1
    <3>. QED
      BY <2>4, <2>6, <3>1, <3>2
  <2>9. ASSUME NEW x, x \in Full(h)  PROVE x \in y'[h]
    <3>1. PICK a \in write[h] : x = <<Tag, a>>
      BY <2>6, <2>9
    <3>2. PICK r \in Live(h) : a \in Own(<<h, r>>)
      BY <2>3
    <3>3. x \in Part(<<h, r>>)
      BY <2>7, <3>1, <3>2
    <3>. QED
      BY <2>5, <3>2, <3>3
  <2>10. \A x : x \in y'[h] <=> x \in Full(h)
    BY <2>8, <2>9
  <2>. QED
    BY <2>10
<1>8. Deposits(h)'
  <2>1. \A r \in Live(h) : At(h, r)' \in {"prologue", "claim", "walk"}
                           <=> At(h, r) \in {"prologue", "claim", "walk"}
    BY <1>1, <1>3
  <2>2. ASSUME NEW r \in Live(h), NEW a \in Own(<<h, r>>)
        PROVE  got'[<<h, a>>] = IF At(h, r)' \in {"prologue", "claim", "walk"}
                                THEN (IF done[h] THEN 1 ELSE 0)
                                ELSE (IF Needy(h) THEN 0 ELSE 1)
    BY <1>2, <1>3, <2>1 DEF Deposits
  <2>3. /\ \A a \in Atom \ write[h] : got[<<h, a>>] = 0
        /\ done[h] => walk = 2
    BY <1>3 DEF Deposits
  <2>. QED
    BY <1>1, <1>2, <1>4, <1>5, <2>2, <2>3 DEF Deposits, Ran
<1>9. Output(h)'
  <2>1. ~ Needy(h) => \A r \in Live(h) : ws[<<h, r>>] = Part(<<h, r>>)
    <3>1. \A r \in Live(h) : At(h, r) \notin {"prologue", "claim", "walk"}
      BY <1>3
    <3>. QED
      BY <1>3, <3>1 DEF Output
  <2>. QED
    BY <1>1, <1>2, <1>4, <1>5, <1>7, <2>1 DEF Output, Ran
<1>10. ASSUME NEW g \in Head, g # h  PROVE Quiet(g)
  <2>1. y'[g] = y[g]
    BY <1>6, <1>10
  <2>. QED
    BY <1>1, <1>2, <1>10, <2>1, OthersQuiet
<1>. QED
  BY <1>1, <1>8, <1>9, <1>10, OnceStep

LEMMA OncePublish ==
  ASSUME StepInv, OnceInv, NEW h \in Head, NEW s \in Seg, Publish(<<h, s>>)
  PROVE  OnceInv'
<1>. DEFINE c == <<h, s>>
<1>1. /\ host = "walking" /\ Typed
      /\ UNCHANGED <<write, units, token, host, walk>>
      /\ Live(h)' = Live(h) /\ Live(h) \subseteq Seg
      /\ \A r \in Seg : r # s => At(h, r)' = At(h, r)
      /\ \A g \in Head, r \in Seg : g # h => pc'[<<g, r>>] = pc[<<g, r>>]
  BY OneMoves DEF Block
<1>2. UNCHANGED <<got, ws, y>>
  BY DEF Publish
<1>3. /\ At(h, s) = "publish" /\ At(h, s)' = "tally" /\ c \in CTA
      /\ s \in Live(h) /\ Open(h) /\ Deposits(h) /\ Output(h) /\ Answers(h)
      /\ \A r \in Live(h) : r # s => At(h, r) = "gone"
      /\ saw[c] = Answer(h) /\ (Covered(h) => Demand(h) \subseteq claimRow[h])
  <2>1. pc \in [CTA -> Early \cup Last \cup {"gone"}] /\ c \in CTA
    BY <1>1, SegFacts DEF Typed
  <2>2. At(h, s) = "publish" /\ At(h, s)' = "tally" /\ pc[c] \in Last
    BY <2>1 DEF Publish, At, Last
  <2>3. /\ s \in Live(h) /\ \A r \in Live(h) : r # s => At(h, r) = "gone"
        /\ Open(h) <=> pc[c] \in {"combine", "publish"}
        /\ Open(h) => saw[c] = Answer(h) /\ (Covered(h) => Demand(h) \subseteq claimRow[h])
    BY <2>2, Alone
  <2>4. Open(h)
    BY <2>2, <2>3 DEF At
  <2>. QED
    BY <1>1, <2>1, <2>2, <2>3, <2>4 DEF OnceInv, StepInv
<1>4. ~ Open(h)'
  BY <1>1, <1>3 DEF Open, Early
<1>5. Full(h)' = Full(h) /\ \A r \in Seg : Own(<<h, r>>)' = Own(<<h, r>>)
  BY <1>1, SameLive DEF Full, Tag
<1>6. saw[c].needy = Needy(h) /\ saw[c].claimed = Covered(h)
  BY <1>3 DEF Answer
<1>7. /\ growth'[h] = Needy(h)
      /\ resident'[h] = resident[h] \cup (IF Covered(h) THEN claimRow[h] \ resident[h] ELSE {})
      /\ \A g \in Head : g # h => /\ growth'[g] = growth[g] /\ done'[g] = done[g]
                                  /\ cursor'[g] = cursor[g] /\ resident'[g] = resident[g]
  BY <1>1, <1>6 DEF Publish, Typed
<1>8. ~ Needy(h) => write[h] \subseteq resident'[h]
  <2>1. CASE done[h]
    <3>1. write[h] \subseteq resident[h]
      BY <1>3, <2>1 DEF Deposits, Answers
    <3>. QED
      BY <1>7, <3>1
  <2>2. CASE ~ done[h]
    <3>1. write[h] \subseteq resident[h] \cup Demand(h)
      BY <2>2 DEF Demand
    <3>2. ~ Needy(h) => Demand(h) = {} \/ Covered(h)
      BY DEF Needy
    <3>. QED
      BY <1>3, <1>7, <3>1, <3>2
  <2>. QED
    BY <2>1, <2>2
<1>9. Deposits(h)'
  <2>1. \A r \in Live(h) : At(h, r) \notin {"prologue", "claim", "walk"}
    BY <1>3
  <2>2. ASSUME NEW r \in Live(h), NEW a \in Own(<<h, r>>)
        PROVE  got'[<<h, a>>] = IF growth'[h] THEN 0 ELSE 1
    <3>1. got[<<h, a>>] = IF Needy(h) THEN 0 ELSE 1
      BY <1>3, <2>1 DEF Deposits
    <3>. QED
      BY <1>2, <1>7, <3>1
  <2>3. \A a \in Atom \ write[h] : got[<<h, a>>] = 0
    BY <1>3 DEF Deposits
  <2>. QED
    BY <1>1, <1>2, <1>4, <1>5, <1>7, <1>8, <2>2, <2>3 DEF Deposits, Ran
<1>10. Output(h)'
  <2>1. ~ Needy(h) => y[h] = Full(h)
    BY <1>3 DEF Output
  <2>2. ~ \E r \in Live(h)' : At(h, r)' = "publish"
    BY <1>1, <1>3
  <2>. QED
    BY <1>2, <1>4, <1>5, <1>7, <2>1, <2>2 DEF Output, Ran
<1>11. ASSUME NEW g \in Head, g # h  PROVE Quiet(g)
  BY <1>1, <1>2, <1>7, <1>11, OthersQuiet
<1>. QED
  BY <1>1, <1>9, <1>10, <1>11, OnceStep

LEMMA OnceBlock ==
  ASSUME StepInv, OnceInv, NEW c \in CTA, Block(c)
  PROVE  OnceInv'
<1>1. c = <<c[1], c[2]>> /\ c[1] \in Head /\ c[2] \in Seg
  BY DEF CTA
<1>2. PICK h \in Head, s \in Seg : c = <<h, s>>
  BY <1>1
<1>. QED
  BY <1>2, OnceQuiet, OnceWalk, OnceCombine, OncePublish DEF Block

(* The host submits when nothing is done and launches again when a head is *)
(* done exactly if its deposits are made.                                  *)
LEMMA OnceLaunch ==
  ASSUME Launch, StepInv', host' = "walking",
         \A h \in Head : 0 \in Live(h)' /\ Open(h)' /\ \A s \in Seg : At(h, s)' = "prologue",
         \A h \in Head : /\ Own(<<h, 0>>)' \subseteq write'[h]
                         /\ \A s \in Seg : Own(<<h, s>>)' \subseteq write'[h]
                         /\ done'[h] => walk' = 2
                         /\ \A a \in Atom : got'[<<h, a>>] = IF a \in write'[h] /\ done'[h] THEN 1 ELSE 0
  PROVE  OnceInv'
<1>1. ASSUME NEW h \in Head  PROVE Deposits(h)' /\ Output(h)'
  <2>1. Live(h)' \subseteq Seg /\ write'[h] \subseteq Atom
    BY DEF Live, StepInv, Typed
  <2>2. \A s \in Live(h)' : At(h, s)' = "prologue"
    BY <2>1
  <2>3. ASSUME NEW s \in Live(h)', NEW a \in Own(<<h, s>>)'
        PROVE  got'[<<h, a>>] = IF done'[h] THEN 1 ELSE 0
    BY <2>1
  <2>4. Deposits(h)'
    BY <2>2, <2>3 DEF Deposits, Ran
  <2>5. Output(h)'
    BY <2>2 DEF Output, Ran
  <2>. QED
    BY <2>4, <2>5
<1>. QED
  BY <1>1 DEF OnceInv

LEMMA OnceHost ==
  ASSUME StepInv, OnceInv, StepInv',
         Submit \/ ReadVerdict \/ AdmitGrowth \/ AdmitRaises \/ Return \/ RefillPool,
         Submit => host = "ready"
  PROVE  OnceInv'
<1>1. CASE Submit
  <2>1. /\ host = "ready" /\ \A h \in Head : ~ done[h]
    BY <1>1 DEF OnceInv
  <2>2. /\ Launch /\ host' = "walking" /\ walk' = 1 /\ got' = [c \in Cell |-> 0]
        /\ UNCHANGED <<done, claimRow, resident, ctr, growthCtr>>
    BY <1>1 DEF Submit, arena, scratch
  <2>3. /\ growthCtr' = 0 /\ Typed'
        /\ \A h \in Head : ctr'[h] = 0 /\ claimRow'[h] \subseteq resident'[h]
    BY <2>1, <2>2 DEF StepInv
  <2>4. \A h \in Head : 0 \in Live(h)' /\ Open(h)' /\ \A s \in Seg : At(h, s)' = "prologue"
    BY <2>2, <2>3, LaunchStep
  <2>5. \A h \in Head : \A s \in Seg : Own(<<h, s>>)' \subseteq write'[h]
    BY DEF Own
  <2>6. ASSUME NEW h \in Head, NEW a \in Atom  PROVE got'[<<h, a>>] = 0
    BY <2>2 DEF Cell
  <2>. QED
    BY <2>1, <2>2, <2>4, <2>5, <2>6, OnceLaunch, SegFacts
<1>2. CASE AdmitGrowth
  <2>1. /\ host = "growing"
        /\ \A h \in Head : done[h] = ~ growth[h]
        /\ \A h \in Head : \A a \in Atom :
             got[<<h, a>>] = IF a \in write[h] /\ ~ growth[h] THEN 1 ELSE 0
    BY <1>2 DEF AdmitGrowth, OnceInv, StepInv
  <2>2. /\ Launch /\ host' = "walking" /\ walk' = 2
        /\ resident' = [h \in Head |-> resident[h] \cup atomBits[h]]
        /\ UNCHANGED <<done, claimRow, ctr, growthCtr, got, write, units>>
    BY <1>2 DEF AdmitGrowth, scratch, input
  <2>3. /\ growthCtr' = 0 /\ Typed'
        /\ \A h \in Head : ctr'[h] = 0 /\ claimRow'[h] \subseteq resident'[h]
        /\ \A h \in Head : write'[h] \subseteq resident'[h]
    BY <2>1, <2>2 DEF StepInv
  <2>4. \A h \in Head : 0 \in Live(h)' /\ Open(h)' /\ \A s \in Seg : At(h, s)' = "prologue"
    BY <2>2, <2>3, LaunchStep
  <2>5. \A h \in Head : \A s \in Seg : Own(<<h, s>>)' \subseteq write'[h]
    BY DEF Own
  <2>. QED
    BY <2>1, <2>2, <2>4, <2>5, OnceLaunch, SegFacts
<1>3. CASE ReadVerdict
  <2>1. /\ Typed /\ \A h \in Head : ~ Open(h) /\ Deposits(h) /\ Output(h)
        /\ host' \in {"growing", "returned"}
        /\ UNCHANGED <<write, units, token, walk, got, y, growth, done>>
    BY <1>3, Landing DEF ReadVerdict, OnceInv, scratch, input
  <2>2. ASSUME NEW h \in Head, NEW a \in Atom
        PROVE  got[<<h, a>>] = IF a \in write[h] /\ ~ growth[h] THEN 1 ELSE 0
    <3>1. CASE a \in write[h]
      <4>1. PICK s \in Live(h) : a \in Own(<<h, s>>)
        BY <2>1, <3>1, OwnFacts
      <4>. QED
        BY <2>1, <3>1, <4>1 DEF Deposits
    <3>2. CASE a \notin write[h]
      BY <2>1, <3>2 DEF Deposits
    <3>. QED
      BY <3>1, <3>2
  <2>3. \A h \in Head : ~ growth[h] => y[h] = Full(h)
    BY <2>1 DEF Output, Ran
  <2>4. \A h \in Head : Full(h)' = Full(h)
    BY <2>1 DEF Full, Tag
  <2>5. host' = "returned" => \A h \in Head : ~ done'[h] /\ ~ growth'[h]
    BY DEF StepInv
  <2>6. host' = "returned" => \A h \in Head :
          y'[h] = Full(h)' /\ \A a \in Atom : got'[<<h, a>>] = IF a \in write'[h] THEN 1 ELSE 0
    BY <2>1, <2>2, <2>3, <2>4, <2>5
  <2>7. host' = "growing" => \A h \in Head : \A a \in Atom :
          got'[<<h, a>>] = IF a \in write'[h] /\ ~ growth'[h] THEN 1 ELSE 0
    BY <2>1, <2>2
  <2>. QED
    BY <2>1, <2>5, <2>6, <2>7 DEF OnceInv
<1>4. CASE AdmitRaises
  BY <1>4 DEF AdmitRaises, OnceInv
<1>5. CASE Return
  BY <1>5 DEF Return, OnceInv, scratch
<1>6. CASE RefillPool
  BY <1>6 DEF RefillPool, OnceInv, scratch
<1>. QED
  BY <1>1, <1>2, <1>3, <1>4, <1>5, <1>6

LEMMA OnceInvInit == Init => OnceInv
BY DEF Init, OnceInv

LEMMA OnceInvStep ==
  OnceInv /\ StepInv /\ StepInv' /\ [Next]_vars /\ [Submit => host = "ready"]_vars => OnceInv'
<1>. SUFFICES ASSUME OnceInv, StepInv, StepInv', [Next]_vars, [Submit => host = "ready"]_vars
              PROVE  OnceInv'
  OBVIOUS
<1>1. ASSUME NEW c \in CTA, Block(c)  PROVE OnceInv'
  BY <1>1, OnceBlock
<1>2. CASE UNCHANGED vars
  <2>1. UNCHANGED <<resident, claimRow, cursor, done, growth, growthAny, ctr, growthCtr, atomBits, ws,
                    write, units, token, got, y, pc, saw, host, walk>>
    BY <1>2 DEF vars, arena, scratch, input
  <2>2. \A h \in Head : Full(h)' = Full(h)
    BY <2>1 DEF Full, Tag
  <2>3. CASE host = "walking"
    <3>1. \A h \in Head : Quiet(h)
      BY <2>1, <2>3, OthersQuiet DEF StepInv
    <3>2. ASSUME NEW h \in Head  PROVE Deposits(h)' /\ Output(h)'
      BY <2>1, <2>3, <3>1, QuietKeeps DEF OnceInv, StepInv
    <3>. QED
      BY <2>1, <2>3, <3>2 DEF OnceInv
  <2>4. CASE host # "walking"
    BY <2>1, <2>2, <2>4 DEF OnceInv
  <2>. QED
    BY <2>3, <2>4
<1>3. ASSUME ~ UNCHANGED vars,
             Submit \/ ReadVerdict \/ AdmitGrowth \/ AdmitRaises \/ Return \/ RefillPool
      PROVE  OnceInv'
  BY <1>3, OnceHost
<1>. QED
  BY <1>1, <1>2, <1>3 DEF Next

(* A token's deposits and its output, wherever the step is, when a refused *)
(* growth is not followed by another token.                                *)
THEOREM DepositsHold == Spec /\ NoneAbandoned => []OnceInv
<1>. QED
  BY OnceInvInit, OnceInvStep, AnswersHold, PTL DEF Spec, NoneAbandoned

(* What the step returns is a sum over every row its token wrote, of       *)
(* partials of the launch that just ended.                                 *)
THEOREM OutputIsWhole == Spec /\ NoneAbandoned => []OutputComplete
<1>1. OnceInv => OutputComplete
  BY DEF OnceInv, OutputComplete, Full
<1>. QED
  BY <1>1, DepositsHold, PTL

(* "EXACTLY ONCE" (decode_step_gated): one deposit in every row of the     *)
(* write set and none in another, after one walk or two.                   *)
THEOREM DepositsAreExact == Spec /\ NoneAbandoned => []ExactlyOnce
<1>1. OnceInv => ExactlyOnce
  <2>. SUFFICES ASSUME OnceInv, host = "returned", NEW c \in Cell
                PROVE  got[c] = IF c \in Written THEN 1 ELSE 0
    BY DEF ExactlyOnce
  <2>1. c = <<c[1], c[2]>> /\ c[1] \in Head /\ c[2] \in Atom
    BY DEF Cell
  <2>2. got[<<c[1], c[2]>>] = IF c[2] \in write[c[1]] THEN 1 ELSE 0
    BY <2>1 DEF OnceInv
  <2>. QED
    BY <2>1, <2>2 DEF Written
<1>. QED
  BY <1>1, DepositsHold, PTL

(***************************************************************************)
(* The refinement: every step of the program is a step of TokenOnce or     *)
(* leaves what the caller sees alone.                                      *)
(***************************************************************************)
Phase == CASE host = "ready"  -> "idle"
           [] host = "raised" -> "raised"
           [] OTHER           -> "busy"

LEMMA OnceInitMaps == Init => Once!Init
BY DEF Init, Once!Init, Written, Cell

LEMMA SameCells ==
  ASSUME UNCHANGED <<write, got>>, Phase' = Phase
  PROVE  UNCHANGED Once!vars
<1>1. Written' = Written
  BY DEF Written
<1>. QED
  BY <1>1 DEF Once!vars, Phase

LEMMA OnceStepMaps ==
  ASSUME OnceInv, StepInv, StepInv', [Next]_vars, [Submit => host = "ready"]_vars
  PROVE  [Once!Next]_(Once!vars)
<1>1. CASE Submit
  <2>1. /\ Phase # "busy" /\ Phase' = "busy" /\ got' = [c \in Cell |-> 0]
    BY <1>1 DEF Submit, Phase
  <2>2. Written' \subseteq Cell
    BY DEF Written
  <2>3. Once!Submit
    BY <2>1, <2>2 DEF Once!Submit, Phase
  <2>. QED
    BY <2>3 DEF Once!Next
<1>2. CASE ReadVerdict \/ AdmitGrowth \/ RefillPool
  <2>1. UNCHANGED <<write, got>> /\ Phase' = Phase
    BY <1>2 DEF ReadVerdict, AdmitGrowth, RefillPool, input, Phase
  <2>. QED
    BY <2>1, SameCells
<1>3. CASE AdmitRaises
  <2>1. UNCHANGED <<write, got>> /\ Phase = "busy" /\ Phase' = "raised" /\ Written' = Written
    BY <1>3 DEF AdmitRaises, input, Phase, Written
  <2>2. Once!Raise
    BY <2>1 DEF Once!Raise, Phase
  <2>. QED
    BY <2>2 DEF Once!Next
<1>4. CASE Return
  <2>1. UNCHANGED <<write, got>> /\ Phase = "busy" /\ Phase' = "idle" /\ Written' = Written
    BY <1>4 DEF Return, input, Phase, Written
  <2>2. ASSUME NEW c \in Cell  PROVE got[c] = IF c \in Written THEN 1 ELSE 0
    <3>1. c = <<c[1], c[2]>> /\ c[1] \in Head /\ c[2] \in Atom
      BY DEF Cell
    <3>2. got[<<c[1], c[2]>>] = IF c[2] \in write[c[1]] THEN 1 ELSE 0
      BY <1>4, <3>1 DEF OnceInv, Return
    <3>. QED
      BY <3>1, <3>2 DEF Written
  <2>3. Once!Return
    BY <2>1, <2>2 DEF Once!Return, Phase
  <2>. QED
    BY <2>3 DEF Once!Next
<1>5. ASSUME NEW c \in CTA, Block(c)  PROVE [Once!Next]_(Once!vars)
  <2>0. c = <<c[1], c[2]>> /\ c[1] \in Head /\ c[2] \in Seg
    BY DEF CTA
  <2>1. PICK h \in Head, s \in Seg : c = <<h, s>>
    BY <2>0
  <2>2. /\ host = "walking" /\ UNCHANGED <<write, host>>
    BY <1>5, <2>1, OneMoves
  <2>3. Phase = "busy" /\ Phase' = Phase /\ Written' = Written
    BY <2>2 DEF Phase, Written
  <2>4. CASE Walk(c)
    <3>. DEFINE D == {x \in Cell : x[1] = h /\ x[2] \in New(h, s)}
    <3>1. /\ New(h, s) \subseteq write[h]
          /\ \A a \in New(h, s) : got[<<h, a>>] = 0
          /\ got' = [x \in Cell |-> IF x[1] = h /\ x[2] \in New(h, s) THEN 1 ELSE got[x]]
      BY <2>1, <2>4, WalkDeposits
    <3>2. ASSUME NEW x \in D  PROVE x \in Written /\ got[x] = 0
      <4>1. x = <<x[1], x[2]>> /\ x \in Cell /\ x[1] = h /\ x[2] \in New(h, s)
        BY DEF Cell
      <4>. QED
        BY <3>1, <4>1 DEF Written
    <3>3. D \in SUBSET {x \in Written : got[x] = 0}
      BY <3>2
    <3>4. got' = [x \in Cell |-> IF x \in D THEN 1 ELSE got[x]]
      BY <3>1
    <3>. HIDE DEF D
    <3>5. Once!Deposit
      BY <2>3, <3>3, <3>4 DEF Once!Deposit, Phase
    <3>. QED
      BY <3>5 DEF Once!Next
  <2>5. CASE ~ Walk(c)
    <3>1. UNCHANGED got
      BY <1>5, <2>5 DEF Block, Ask, Claim, Arrive, Combine, Publish, Tally, Reduce
    <3>. QED
      BY <2>2, <2>3, <3>1, SameCells
  <2>. QED
    BY <2>4, <2>5
<1>6. CASE UNCHANGED vars
  <2>1. UNCHANGED <<write, got>> /\ Phase' = Phase
    BY <1>6 DEF vars, input, Phase
  <2>. QED
    BY <2>1, SameCells
<1>. QED
  BY <1>1, <1>2, <1>3, <1>4, <1>5, <1>6 DEF Next

(* The decode step implements TokenOnce: whatever the CTAs do, no deposit  *)
(* is made twice or outside the write set, and the step returns only when  *)
(* none is missing, or raises.                                             *)
THEOREM TokensOnce == Spec /\ NoneAbandoned => ImplementsOnce
<1>1. OnceInv /\ StepInv /\ StepInv' /\ [Next]_vars /\ [Submit => host = "ready"]_vars
        => [Once!Next]_(Once!vars)
  BY OnceStepMaps
<1>. QED
  BY <1>1, OnceInitMaps, DepositsHold, AnswersHold, PTL DEF Spec, NoneAbandoned, ImplementsOnce, Once!Spec

(* A caller that stops at the first refusal meets the condition: with one  *)
(* token, nothing is submitted in its place.                               *)
THEOREM OneTokenAbandonsNone ==
  ASSUME Tokens = 1
  PROVE  Spec => NoneAbandoned
<1>. DEFINE Fresh == token \in Nat /\ (token = 0 => host = "ready")
<1>1. Init => Fresh
  BY DEF Init
<1>2. ASSUME Fresh, [Next]_vars  PROVE Fresh'
  <2>1. ASSUME NEW c \in CTA, Block(c)  PROVE UNCHANGED <<token, host>>
    BY <2>1 DEF Block, Ask, Claim, Walk, Arrive, Combine, Publish, Tally, Reduce, input
  <2>2. CASE \E c \in CTA : Block(c)
    BY <1>2, <2>1, <2>2
  <2>3. CASE Submit
    BY <1>2, <2>3 DEF Submit
  <2>4. CASE ReadVerdict \/ AdmitGrowth \/ AdmitRaises \/ Return \/ RefillPool
    BY <1>2, <2>4 DEF ReadVerdict, AdmitGrowth, AdmitRaises, Return, RefillPool, input
  <2>5. CASE UNCHANGED vars
    BY <1>2, <2>5 DEF vars, input
  <2>. QED
    BY <1>2, <2>2, <2>3, <2>4, <2>5 DEF Next
<1>3. Fresh => [Submit => host = "ready"]_vars
  BY DEF Submit
<1>. QED
  BY <1>1, <1>2, <1>3, PTL DEF Spec, NoneAbandoned

=============================================================================
