---------------------------- MODULE VmmOwnerProofs ----------------------------
(***************************************************************************)
(* That the owner counts what is mapped, can always undo its growth, and   *)
(* takes nothing from under a user: for every page size, granularity,      *)
(* dense limit and chunk size.                                             *)
(*                                                                         *)
(* The plane is a prefix: the chunks lie one behind another from zero on,  *)
(* each ends where some number of pages, rounded up to the granularity,    *)
(* ends, and what is backed is that prefix, short of at most the one chunk *)
(* whose release has failed.  From it follows that the granules a failed   *)
(* growth unmaps are not backed by anything else, and that a capacity the  *)
(* owner has reported rounds up to the end of the chunk it was reported at *)
(***************************************************************************)
EXTENDS VmmOwner, TLAPS, SequenceTheorems

Gran(v)    == v \div Granularity
Whole(v)   == v \in Nat /\ v = Granularity * Gran(v)
Planned(v) == \E pages \in 1 .. DenseLimit : v = RoundUp(PageBytes * pages)

(* The chunks, in order, up to the mapped bytes.                           *)
Laid ==
  /\ chunks \in Seq([address : Nat, bytes : Nat])
  /\ \A i \in DOMAIN chunks : Whole(chunks[i].address) /\ Planned(End(chunks[i]))
  /\ \A i, j \in DOMAIN chunks : i < j => End(chunks[i]) <= chunks[j].address
  /\ chunks # <<>> => chunks[1].address = 0
  /\ mappedBytes = IF chunks = <<>> THEN 0 ELSE End(chunks[Len(chunks)])
  /\ \A g \in 0 .. Gran(mappedBytes) - 1 :
       \E i \in DOMAIN chunks : g \in Granules(chunks[i].address, chunks[i].bytes)

(* What the driver holds for them.                                         *)
Held ==
  /\ handles = Len(chunks)
  /\ backed \subseteq 0 .. Gran(mappedBytes) - 1
  /\ ~ unreleased => 0 .. Gran(mappedBytes) - 1 \subseteq backed

(* Who may still use it.                                                   *)
Lives ==
  /\ views \in Nat /\ unreleased \in BOOLEAN
  /\ reserved <=> chunks # <<>>
  /\ Callable => reserved
  /\ views > 0 => reserved

OwnerInv == Laid /\ Held /\ Lives

---------------------------------------------------------------------------
(* Division, and the sizes the constants determine.                        *)
LEMMA DivMod == ASSUME NEW a \in Int, NEW n \in Nat \ {0}
  PROVE a = n * (a \div n) + (a % n) /\ a % n \in 0 .. n - 1 /\ a \div n \in Int
        /\ (a >= 0 => a \div n >= 0)
OBVIOUS

LEMMA Times == ASSUME NEW p \in Int, NEW q \in Int, p <= q, NEW n \in Nat  PROVE n * p <= n * q
<1>1. n * q = n * p + n * (q - p)
  OBVIOUS
<1>2. n * (q - p) >= 0
  OBVIOUS
<1>. QED
  BY <1>1, <1>2

(* A product is ordered as its factors are.                                *)
LEMMA TimesLess ==
  ASSUME NEW n \in Nat \ {0}, NEW p \in Int, NEW q \in Int, n * p < n * q  PROVE p < q
<1>. SUFFICES ASSUME q <= p  PROVE FALSE
  OBVIOUS
<1>1. n * q <= n * p
  BY Times
<1>2. n * p \in Int /\ n * q \in Int
  OBVIOUS
<1>. QED
  BY <1>1, <1>2

LEMMA OwnerConstants ==
  /\ PageBytes \in Nat \ {0} /\ Granularity \in Nat \ {0} /\ DenseLimit \in Nat \ {0}
  /\ TargetChunkBytes \in Nat \ {0} /\ MaxViews \in Nat
BY OwnerAssumption

LEMMA Ceiling ==
  ASSUME NEW a \in Nat, NEW b \in Nat \ {0}
  PROVE  /\ CeilDiv(a, b) \in Nat
         /\ b * CeilDiv(a, b) >= a /\ b * CeilDiv(a, b) < a + b
         /\ a > 0 => CeilDiv(a, b) > 0
<1>. DEFINE q == CeilDiv(a, b)
            e == (a + b - 1) % b
<1>1. q = (a + b - 1) \div b /\ a + b - 1 \in Int /\ a + b - 1 >= 0
  BY DEF CeilDiv
<1>2. a + b - 1 = b * q + e /\ e \in 0 .. b - 1 /\ q \in Int /\ q >= 0
  BY <1>1, DivMod
<1>. HIDE DEF q, e
<1>3. b * q \in Int
  BY <1>2
<1>4. b * q >= a /\ b * q < a + b
  BY <1>2, <1>3
<1>5. ASSUME a > 0, q = 0  PROVE FALSE
  <2>1. b * q = 0
    BY <1>5
  <2>. QED
    BY <1>4, <1>5, <2>1
<1>6. q \in Nat /\ (a > 0 => q > 0)
  BY <1>2, <1>5
<1>. QED
  BY <1>4, <1>6 DEF q

LEMMA WholeMultiple ==
  ASSUME NEW k \in Nat
  PROVE  Whole(Granularity * k) /\ Gran(Granularity * k) = k
<1>. DEFINE m == Granularity * k
            d == m \div Granularity
            r == m % Granularity
<1>1. Granularity \in Nat \ {0} /\ m \in Nat /\ m \in Int
  BY OwnerConstants
<1>. HIDE DEF m
<1>2. m = Granularity * d + r /\ r \in 0 .. Granularity - 1 /\ d \in Int
  BY <1>1, DivMod
<1>. HIDE DEF d, r
<1>3. Granularity * k < Granularity * (d + 1) /\ Granularity * d < Granularity * (k + 1)
  <2>1. Granularity * (d + 1) = Granularity * d + Granularity
        /\ Granularity * (k + 1) = Granularity * k + Granularity
    BY <1>1, <1>2
  <2>2. Granularity * d \in Int /\ Granularity * k \in Int
    BY <1>1, <1>2
  <2>. QED
    BY <1>1, <1>2, <2>1, <2>2 DEF m
<1>4. k < d + 1 /\ d < k + 1
  <2>1. k \in Int /\ d + 1 \in Int /\ d \in Int /\ k + 1 \in Int
    BY <1>2
  <2>2. k < d + 1
    BY <1>1, <1>3, <2>1, TimesLess
  <2>3. d < k + 1
    BY <1>1, <1>3, <2>1, TimesLess
  <2>. QED
    BY <2>2, <2>3
<1>5. d = k
  BY <1>2, <1>4
<1>. QED
  BY <1>1, <1>5 DEF Whole, Gran, d, m

LEMMA WholeOrder ==
  ASSUME NEW v, NEW w, Whole(v), Whole(w)
  PROVE  /\ Gran(v) \in Nat /\ Gran(w) \in Nat
         /\ v <= w => Gran(v) <= Gran(w)
         /\ v < w => Gran(v) < Gran(w)
<1>1. Granularity \in Nat \ {0} /\ v \in Nat /\ w \in Nat
  BY OwnerConstants DEF Whole
<1>2. Gran(v) \in Nat /\ Gran(w) \in Nat
  <2>1. v \in Int /\ v >= 0 /\ w \in Int /\ w >= 0
    BY <1>1
  <2>2. v \div Granularity \in Int /\ v \div Granularity >= 0
    BY <1>1, <2>1, DivMod
  <2>3. w \div Granularity \in Int /\ w \div Granularity >= 0
    BY <1>1, <2>1, DivMod
  <2>. QED
    BY <2>2, <2>3 DEF Gran
<1>3. v = Granularity * Gran(v) /\ w = Granularity * Gran(w)
  BY DEF Whole
<1>4. ASSUME v < w  PROVE Gran(v) < Gran(w)
  BY <1>1, <1>2, <1>3, <1>4, TimesLess
<1>5. ASSUME v = w  PROVE Gran(v) = Gran(w)
  BY <1>5
<1>. QED
  BY <1>1, <1>2, <1>4, <1>5

(* RoundUp: the least whole number of granules that holds v.               *)
LEMMA Rounding ==
  ASSUME NEW v \in Nat
  PROVE  /\ Whole(RoundUp(v)) /\ RoundUp(v) \in Nat /\ v <= RoundUp(v)
         /\ \A w : Whole(w) /\ v <= w => RoundUp(v) <= w
<1>. DEFINE q == CeilDiv(v, Granularity)
<1>1. Granularity \in Nat \ {0}
  BY OwnerConstants
<1>2. q \in Nat /\ Granularity * q >= v /\ Granularity * q < v + Granularity
  BY <1>1, Ceiling
<1>. HIDE DEF q
<1>3. RoundUp(v) = Granularity * q
  BY <1>1, <1>2 DEF RoundUp, q
<1>4. Whole(RoundUp(v)) /\ RoundUp(v) \in Nat
  BY <1>1, <1>2, <1>3, WholeMultiple DEF Whole
<1>5. ASSUME NEW w, Whole(w), v <= w  PROVE RoundUp(v) <= w
  <2>. DEFINE k == Gran(w)
  <2>1. k \in Nat /\ w = Granularity * k /\ w \in Nat
    BY <1>5, WholeOrder DEF Whole
  <2>. HIDE DEF k
  <2>2. Granularity * (k + 1) = Granularity * k + Granularity
        /\ Granularity * q \in Int /\ Granularity * k \in Int
    BY <1>1, <1>2, <2>1
  <2>3. Granularity * q < Granularity * (k + 1)
    BY <1>1, <1>2, <1>5, <2>1, <2>2
  <2>4. q \in Int /\ k + 1 \in Int
    BY <1>2, <2>1
  <2>5. q < k + 1
    BY <1>1, <2>3, <2>4, TimesLess
  <2>6. q \in Int /\ k \in Int /\ q <= k /\ Granularity \in Nat
    BY <1>1, <1>2, <2>1, <2>5
  <2>7. Granularity * q <= Granularity * k
    BY <2>6, Times
  <2>. QED
    BY <1>3, <2>1, <2>7
<1>. QED
  BY <1>2, <1>3, <1>4, <1>5

(* Whole pages that fit into so many bytes.                                *)
LEMMA Capacities ==
  ASSUME NEW m \in Nat
  PROVE  /\ CapacityOf(m) \in 0 .. DenseLimit
         /\ PageBytes * CapacityOf(m) <= m
         /\ \A p \in 0 .. DenseLimit : PageBytes * p <= m => p <= CapacityOf(m)
<1>. DEFINE d == m \div PageBytes
            r == m % PageBytes
<1>1. PageBytes \in Nat \ {0} /\ DenseLimit \in Nat /\ m \in Int /\ m >= 0
  BY OwnerConstants
<1>2. m = PageBytes * d + r /\ r \in 0 .. PageBytes - 1 /\ d \in Int /\ d >= 0
  BY <1>1, DivMod
<1>3. CapacityOf(m) = IF d <= DenseLimit THEN d ELSE DenseLimit
  BY DEF CapacityOf, Least
<1>. HIDE DEF d, r
<1>4. CapacityOf(m) \in 0 .. DenseLimit /\ CapacityOf(m) <= d /\ CapacityOf(m) \in Int
  BY <1>1, <1>2, <1>3
<1>5. PageBytes * d \in Int /\ PageBytes * d <= m
  BY <1>1, <1>2
<1>6. PageBytes * CapacityOf(m) <= PageBytes * d
  BY <1>1, <1>2, <1>4, Times
<1>7. PageBytes * CapacityOf(m) \in Int
  BY <1>1, <1>4
<1>8. ASSUME NEW p \in 0 .. DenseLimit, PageBytes * p <= m  PROVE p <= CapacityOf(m)
  <2>1. PageBytes * (d + 1) = PageBytes * d + PageBytes /\ PageBytes * p \in Int
    BY <1>1, <1>2
  <2>2. PageBytes * p < PageBytes * (d + 1)
    BY <1>1, <1>2, <1>5, <1>8, <2>1
  <2>3. p \in Int /\ d + 1 \in Int
    BY <1>2
  <2>4. p < d + 1
    BY <1>1, <2>2, <2>3, TimesLess
  <2>. QED
    BY <1>1, <1>2, <1>3, <2>4
<1>. QED
  BY <1>4, <1>5, <1>6, <1>7, <1>8

LEMMA ChunkSize == ChunkPages \in 1 .. DenseLimit
<1>. DEFINE d == TargetChunkBytes \div PageBytes
            r == TargetChunkBytes % PageBytes
<1>1. PageBytes \in Nat \ {0} /\ DenseLimit \in Nat \ {0} /\ TargetChunkBytes \in Nat
      /\ TargetChunkBytes \in Int /\ TargetChunkBytes >= 0
  BY OwnerConstants
<1>2. TargetChunkBytes = PageBytes * d + r /\ r \in 0 .. PageBytes - 1 /\ d \in Int /\ d >= 0
  BY <1>1, DivMod
<1>3. ChunkPages = Least(DenseLimit, IF TargetChunkBytes < PageBytes THEN 1 ELSE d)
  BY DEF ChunkPages
<1>. HIDE DEF d, r
<1>4. ASSUME ~ TargetChunkBytes < PageBytes  PROVE d >= 1
  <2>. SUFFICES ASSUME d = 0  PROVE FALSE
    BY <1>2
  <2>1. PageBytes * d = 0
    BY <1>1
  <2>. QED
    BY <1>1, <1>2, <1>4, <2>1
<1>. QED
  BY <1>1, <1>2, <1>3, <1>4 DEF Least

(* A growth plans at least the pages it was asked for, within the limit.   *)
LEMMA Targets ==
  ASSUME NEW required \in 1 .. DenseLimit, NEW current
  PROVE  TargetPages(required, current) \in required .. DenseLimit
<1>. DEFINE needed == CeilDiv(required, ChunkPages)
            ahead  == IF current = 0 \/ needed >= CeilDiv(DenseLimit, ChunkPages) THEN 0 ELSE 1
<1>1. ChunkPages \in Nat \ {0} /\ DenseLimit \in Nat /\ required \in Nat
  BY ChunkSize, OwnerConstants
<1>2. needed \in Nat /\ ChunkPages * needed >= required
  BY <1>1, Ceiling
<1>3. ahead \in Nat
  OBVIOUS
<1>4. TargetPages(required, current) = Least(DenseLimit, (needed + ahead) * ChunkPages)
  BY DEF TargetPages
<1>. HIDE DEF needed, ahead
<1>5. ChunkPages * needed <= ChunkPages * (needed + ahead)
  BY <1>1, <1>2, <1>3, Times
<1>6. (needed + ahead) * ChunkPages = ChunkPages * (needed + ahead)
      /\ ChunkPages * (needed + ahead) \in Nat /\ ChunkPages * needed \in Nat
  BY <1>1, <1>2, <1>3
<1>7. (needed + ahead) * ChunkPages >= required /\ (needed + ahead) * ChunkPages \in Nat
  BY <1>1, <1>2, <1>5, <1>6
<1>. QED
  BY <1>1, <1>4, <1>7 DEF Least

LEMMA PlannedFacts ==
  ASSUME NEW v, Planned(v)
  PROVE  /\ Whole(v) /\ v \in Nat /\ v > 0
         /\ RollbackBytes(CapacityOf(v)) = v
         /\ v <= VirtualBytes
<1>1. PICK pages \in 1 .. DenseLimit : v = RoundUp(PageBytes * pages)
  BY DEF Planned
<1>2. PageBytes \in Nat \ {0} /\ DenseLimit \in Nat \ {0} /\ pages \in Nat \ {0}
  BY OwnerConstants
<1>. DEFINE bytes == PageBytes * pages
<1>3. bytes \in Nat /\ bytes > 0
  <2>1. PageBytes * 1 <= PageBytes * pages
    BY <1>2, Times
  <2>. QED
    BY <1>2, <2>1
<1>. HIDE DEF bytes
<1>4. v = RoundUp(bytes)
  BY <1>1 DEF bytes
<1>5. Whole(v) /\ v \in Nat /\ bytes <= v /\ v > 0
  BY <1>3, <1>4, Rounding
<1>6. /\ CapacityOf(v) \in 0 .. DenseLimit /\ PageBytes * CapacityOf(v) <= v
      /\ pages <= CapacityOf(v)
  BY <1>1, <1>2, <1>5, Capacities DEF bytes
<1>. DEFINE back == PageBytes * CapacityOf(v)
<1>7. back \in Nat /\ back <= v /\ bytes <= back
  BY <1>2, <1>6, Times DEF bytes
<1>. HIDE DEF back
<1>8. RoundUp(back) <= v /\ Whole(RoundUp(back)) /\ back <= RoundUp(back) /\ RoundUp(back) \in Nat
  BY <1>5, <1>7, Rounding
<1>9. v <= RoundUp(back)
  <2>1. bytes <= RoundUp(back)
    BY <1>3, <1>7, <1>8
  <2>. QED
    BY <1>3, <1>4, <1>8, <2>1, Rounding
<1>10. RollbackBytes(CapacityOf(v)) = v
  BY <1>5, <1>8, <1>9 DEF RollbackBytes, back
<1>11. v <= VirtualBytes
  <2>. DEFINE all == PageBytes * DenseLimit
  <2>1. all \in Nat /\ bytes <= all
    BY <1>2, Times DEF bytes
  <2>. HIDE DEF all
  <2>2. Whole(RoundUp(all)) /\ all <= RoundUp(all) /\ RoundUp(all) \in Nat
    BY <2>1, Rounding
  <2>3. bytes <= RoundUp(all)
    BY <1>3, <2>1, <2>2
  <2>4. v <= RoundUp(all)
    BY <1>3, <1>4, <2>2, <2>3, Rounding
  <2>. QED
    BY <2>4 DEF VirtualBytes, all
<1>. QED
  BY <1>5, <1>10, <1>11

---------------------------------------------------------------------------
(* The plane.                                                              *)
ChunkRecord == [address : Nat, bytes : Nat]

LEMMA LaidFacts ==
  ASSUME Laid
  PROVE  /\ Whole(mappedBytes) /\ mappedBytes \in Nat /\ Gran(mappedBytes) \in Nat
         /\ Len(chunks) \in Nat /\ DOMAIN chunks = 1 .. Len(chunks)
         /\ \A i \in DOMAIN chunks :
              /\ chunks[i].address \in Nat /\ chunks[i].bytes \in Nat
              /\ Whole(End(chunks[i])) /\ End(chunks[i]) \in Nat /\ End(chunks[i]) <= mappedBytes
              /\ Granules(chunks[i].address, chunks[i].bytes)
                   = Gran(chunks[i].address) .. Gran(End(chunks[i])) - 1
         /\ Gran(0) = 0
<1>1. Len(chunks) \in Nat /\ DOMAIN chunks = 1 .. Len(chunks) /\ (chunks = <<>> <=> Len(chunks) = 0)
  BY DEF Laid
<1>2. \A i \in DOMAIN chunks : Whole(End(chunks[i])) /\ End(chunks[i]) \in Nat
  BY PlannedFacts DEF Laid
<1>3. Whole(0) /\ Gran(0) = 0
  <2>1. Whole(Granularity * 0) /\ Gran(Granularity * 0) = 0
    BY WholeMultiple
  <2>2. Granularity * 0 = 0
    BY OwnerConstants
  <2>. QED
    BY <2>1, <2>2
<1>4. Whole(mappedBytes) /\ mappedBytes \in Nat
  BY <1>1, <1>2, <1>3 DEF Laid
<1>5. Gran(mappedBytes) \in Nat
  BY <1>4, WholeOrder
<1>6. ASSUME NEW i \in DOMAIN chunks
      PROVE  /\ chunks[i].address \in Nat /\ chunks[i].bytes \in Nat
             /\ End(chunks[i]) <= mappedBytes
             /\ Granules(chunks[i].address, chunks[i].bytes)
                  = Gran(chunks[i].address) .. Gran(End(chunks[i])) - 1
  <2>0. chunks \in Seq(ChunkRecord)
    BY DEF Laid, ChunkRecord
  <2>1. chunks[i] \in ChunkRecord
    BY <1>1, <2>0
  <2>2. chunks[i].address \in Nat /\ chunks[i].bytes \in Nat
    BY <2>1 DEF ChunkRecord
  <2>3. End(chunks[i]) <= mappedBytes
    <3>. DEFINE last == Len(chunks)
    <3>1. last \in DOMAIN chunks /\ mappedBytes = End(chunks[last]) /\ last \in Nat /\ i \in 1 .. last
      BY <1>1 DEF Laid
    <3>2. CASE i = last
      BY <1>4, <3>1, <3>2
    <3>3. CASE i # last
      <4>0. \A a, b \in DOMAIN chunks : a < b => End(chunks[a]) <= chunks[b].address
        BY DEF Laid
      <4>1. End(chunks[i]) <= chunks[last].address
        <5>. HIDE DEF last
        <5>1. i < last
          BY <3>1, <3>3
        <5>. QED
          BY <3>1, <4>0, <5>1
      <4>2. chunks[last] \in ChunkRecord
        BY <1>1, <2>0, <3>1
      <4>3. chunks[last].address \in Nat /\ chunks[last].bytes \in Nat
        BY <4>2 DEF ChunkRecord
      <4>4. End(chunks[last]) = chunks[last].address + chunks[last].bytes
        BY DEF End
      <4>. HIDE DEF last
      <4>. QED
        BY <1>2, <3>1, <4>1, <4>3, <4>4
    <3>. QED
      BY <3>2, <3>3
  <2>4. Granules(chunks[i].address, chunks[i].bytes)
          = Gran(chunks[i].address) .. Gran(End(chunks[i])) - 1
    BY DEF Granules, Gran, End
  <2>. QED
    BY <2>2, <2>3, <2>4
<1>. QED
  BY <1>1, <1>2, <1>3, <1>4, <1>5, <1>6

(* A growth adds a chunk that begins where the plane ends.                 *)
LEMMA GrowthFacts ==
  ASSUME Laid, NEW required \in 1 .. DenseLimit, Capacity < required
  PROVE  LET chunk == Growth(required)
         IN /\ chunk \in ChunkRecord /\ chunk.address = mappedBytes
            /\ Planned(End(chunk)) /\ Whole(End(chunk)) /\ End(chunk) \in Nat
            /\ mappedBytes < End(chunk)
            /\ Granules(chunk.address, chunk.bytes) = Gran(mappedBytes) .. Gran(End(chunk)) - 1
<1>. DEFINE pages == TargetPages(required, Capacity)
            bytes == PageBytes * pages
            chunk == Growth(required)
<1>1. Whole(mappedBytes) /\ mappedBytes \in Nat
  BY LaidFacts
<1>2. PageBytes \in Nat \ {0} /\ DenseLimit \in Nat \ {0} /\ required \in Nat
  BY OwnerConstants
<1>3. pages \in required .. DenseLimit
  BY Targets
<1>. HIDE DEF pages
<1>4. pages \in 1 .. DenseLimit /\ pages \in 0 .. DenseLimit /\ pages \in Nat
  BY <1>2, <1>3
<1>5. bytes \in Nat
  BY <1>2, <1>4
<1>6. mappedBytes < bytes
  <2>. SUFFICES ASSUME bytes <= mappedBytes  PROVE FALSE
    BY <1>1, <1>5
  <2>1. pages <= CapacityOf(mappedBytes)
    BY <1>1, <1>4, Capacities
  <2>2. CapacityOf(mappedBytes) < required /\ CapacityOf(mappedBytes) \in 0 .. DenseLimit
    BY <1>1, Capacities DEF Capacity
  <2>. QED
    BY <1>2, <1>3, <2>1, <2>2
<1>. HIDE DEF bytes
<1>7. Whole(RoundUp(bytes)) /\ RoundUp(bytes) \in Nat /\ bytes <= RoundUp(bytes)
  BY <1>5, Rounding
<1>8. chunk = [address |-> mappedBytes, bytes |-> RoundUp(bytes) - mappedBytes]
  BY DEF Growth, bytes, pages
<1>. HIDE DEF chunk
<1>9. RoundUp(bytes) - mappedBytes \in Nat /\ mappedBytes < RoundUp(bytes)
      /\ mappedBytes + (RoundUp(bytes) - mappedBytes) = RoundUp(bytes)
  BY <1>1, <1>5, <1>6, <1>7
<1>10. chunk \in ChunkRecord /\ chunk.address = mappedBytes
       /\ chunk.bytes = RoundUp(bytes) - mappedBytes
  BY <1>1, <1>8, <1>9 DEF ChunkRecord
<1>11. End(chunk) = RoundUp(bytes)
  BY <1>9, <1>10 DEF End
<1>12. Planned(End(chunk))
  BY <1>4, <1>11 DEF Planned, bytes
<1>13. Granules(chunk.address, chunk.bytes) = Gran(chunk.address) .. Gran(End(chunk)) - 1
  BY DEF Granules, Gran, End
<1>. QED
  BY <1>7, <1>9, <1>10, <1>11, <1>12, <1>13 DEF chunk

LEMMA GrowServedStep ==
  ASSUME OwnerInv, NEW required \in 1 .. DenseLimit, GrowServed(required)
  PROVE  OwnerInv'
<1>. DEFINE chunk == Growth(required)
            last  == Len(chunks)
<1>1. /\ Laid /\ Held /\ Lives /\ Callable /\ Capacity < required
      /\ chunks' = Append(chunks, chunk) /\ mappedBytes' = End(chunk) /\ handles' = handles + 1
      /\ backed' = backed \cup Granules(chunk.address, chunk.bytes)
      /\ UNCHANGED <<reserved, closed, held, views, working, unreleased>>
  BY DEF OwnerInv, GrowServed, lifetime
<1>2. /\ chunk \in ChunkRecord /\ chunk.address = mappedBytes
      /\ Planned(End(chunk)) /\ Whole(End(chunk)) /\ End(chunk) \in Nat
      /\ mappedBytes < End(chunk)
      /\ Granules(chunk.address, chunk.bytes) = Gran(mappedBytes) .. Gran(End(chunk)) - 1
  BY <1>1, GrowthFacts
<1>. HIDE DEF chunk
<1>3. /\ Whole(mappedBytes) /\ mappedBytes \in Nat /\ Gran(mappedBytes) \in Nat
      /\ last \in Nat /\ DOMAIN chunks = 1 .. last
      /\ \A i \in DOMAIN chunks : End(chunks[i]) <= mappedBytes
      /\ chunks \in Seq(ChunkRecord)
  BY <1>1, LaidFacts DEF Laid, ChunkRecord
<1>4. /\ chunks' \in Seq(ChunkRecord) /\ chunks' # <<>> /\ Len(chunks') = last + 1
      /\ \A i \in 1 .. last : chunks'[i] = chunks[i]
      /\ chunks'[last + 1] = chunk /\ DOMAIN chunks' = 1 .. last + 1
  BY <1>1, <1>2, <1>3, AppendProperties
<1>. HIDE DEF last
<1>5. Gran(mappedBytes) < Gran(End(chunk)) /\ Gran(End(chunk)) \in Nat
  BY <1>2, <1>3, WholeOrder
<1>6. Laid'
  <2>1. \A i \in DOMAIN chunks' : Whole(chunks'[i].address) /\ Planned(End(chunks'[i]))
    BY <1>1, <1>2, <1>3, <1>4 DEF Laid
  <2>2. ASSUME NEW i \in DOMAIN chunks', NEW j \in DOMAIN chunks', i < j
        PROVE  End(chunks'[i]) <= chunks'[j].address
    <3>1. i \in 1 .. last
      BY <1>3, <1>4, <2>2
    <3>2. CASE j = last + 1
      BY <1>2, <1>3, <1>4, <3>1, <3>2
    <3>3. CASE j \in 1 .. last
      BY <1>1, <1>3, <1>4, <2>2, <3>1, <3>3 DEF Laid
    <3>. QED
      BY <1>3, <1>4, <3>2, <3>3
  <2>3. chunks'[1].address = 0
    <3>1. CASE last = 0
      BY <1>1, <1>2, <1>3, <1>4, <3>1 DEF Laid, last
    <3>2. CASE last # 0
      BY <1>1, <1>3, <1>4, <3>2 DEF Laid, last
    <3>. QED
      BY <3>1, <3>2
  <2>4. ASSUME NEW g \in 0 .. Gran(End(chunk)) - 1
        PROVE  \E i \in DOMAIN chunks' : g \in Granules(chunks'[i].address, chunks'[i].bytes)
    <3>1. CASE g < Gran(mappedBytes)
      <4>1. g \in 0 .. Gran(mappedBytes) - 1
        BY <1>3, <1>5, <3>1
      <4>2. PICK i \in DOMAIN chunks : g \in Granules(chunks[i].address, chunks[i].bytes)
        BY <1>1, <4>1 DEF Laid
      <4>3. i \in DOMAIN chunks' /\ chunks'[i] = chunks[i]
        BY <1>3, <1>4
      <4>. QED
        BY <4>2, <4>3
    <3>2. CASE g >= Gran(mappedBytes)
      <4>1. g \in Granules(chunk.address, chunk.bytes)
        BY <1>2, <1>3, <1>5, <3>2
      <4>2. last + 1 \in DOMAIN chunks'
        BY <1>3, <1>4
      <4>. QED
        BY <1>4, <4>1, <4>2
    <3>. QED
      BY <1>3, <1>5, <3>1, <3>2
  <2>5. mappedBytes' = End(chunks'[Len(chunks')])
    BY <1>1, <1>4
  <2>. QED
    BY <1>1, <1>4, <2>1, <2>2, <2>3, <2>4, <2>5 DEF Laid, ChunkRecord
<1>7. Held'
  <2>0. handles = last
    BY <1>1 DEF Held, last
  <2>1. handles' = Len(chunks')
    <3>1. handles' = handles + 1
      BY <1>1
    <3>2. Len(chunks') = last + 1
      BY <1>4
    <3>. QED
      BY <2>0, <3>1, <3>2
  <2>2. /\ backed \subseteq 0 .. Gran(mappedBytes) - 1
        /\ ~ unreleased => 0 .. Gran(mappedBytes) - 1 \subseteq backed
    BY <1>1 DEF Held
  <2>3. backed' = backed \cup (Gran(mappedBytes) .. Gran(End(chunk)) - 1) /\ unreleased' = unreleased
    BY <1>1, <1>2
  <2>4. ASSUME NEW g \in backed'  PROVE g \in 0 .. Gran(End(chunk)) - 1
    <3>1. g \in 0 .. Gran(mappedBytes) - 1 \/ g \in Gran(mappedBytes) .. Gran(End(chunk)) - 1
      BY <2>2, <2>3, <2>4
    <3>. QED
      BY <1>3, <1>5, <3>1
  <2>5. ASSUME ~ unreleased', NEW g \in 0 .. Gran(End(chunk)) - 1  PROVE g \in backed'
    <3>1. g \in 0 .. Gran(mappedBytes) - 1 \/ g \in Gran(mappedBytes) .. Gran(End(chunk)) - 1
      BY <1>3, <1>5
    <3>. QED
      BY <2>2, <2>3, <2>5, <3>1
  <2>. QED
    BY <1>1, <2>1, <2>4, <2>5 DEF Held
<1>8. Lives'
  BY <1>1, <1>4 DEF Lives, Callable
<1>. QED
  BY <1>6, <1>7, <1>8 DEF OwnerInv

(* A failed growth unmaps what it mapped, and nothing else: its granules   *)
(* begin where the backed ones end.                                        *)
LEMMA GrowFailedStep ==
  ASSUME OwnerInv, NEW required \in 1 .. DenseLimit, NEW call \in {"create", "map", "access"},
         GrowFailed(required, call)
  PROVE  OwnerInv' /\ backed' = backed
<1>. DEFINE chunk == Growth(required)
<1>1. /\ Laid /\ Held /\ Lives /\ Callable /\ Capacity < required
      /\ UNCHANGED <<chunks, mappedBytes, reserved, closed, held, views, working, unreleased>>
  BY DEF OwnerInv, GrowFailed, lifetime
<1>2. handles' = handles
  <2>1. handles \in Nat
    BY <1>1, LaidFacts DEF Held
  <2>. QED
    BY <2>1 DEF GrowFailed
<1>3. Granules(chunk.address, chunk.bytes) = Gran(mappedBytes) .. Gran(End(chunk)) - 1
      /\ Gran(mappedBytes) \in Nat /\ Gran(End(chunk)) \in Nat
  BY <1>1, GrowthFacts, LaidFacts, WholeOrder
<1>4. \A g \in backed : g \in Int /\ g < Gran(mappedBytes)
  BY <1>1, <1>3 DEF Held
<1>5. \A g \in Granules(chunk.address, chunk.bytes) : g \notin backed
  BY <1>3, <1>4
<1>6. backed' = (backed \cup IF call = "access" THEN Granules(chunk.address, chunk.bytes) ELSE {})
                  \ (IF call = "access" THEN Granules(chunk.address, chunk.bytes) ELSE {})
  BY DEF GrowFailed
<1>. HIDE DEF chunk
<1>7. backed' = backed
  BY <1>5, <1>6
<1>8. Laid'
  BY <1>1 DEF Laid
<1>9. Held'
  BY <1>1, <1>2, <1>7 DEF Held
<1>10. Lives'
  BY <1>1 DEF Lives, Callable
<1>. QED
  BY <1>7, <1>8, <1>9, <1>10 DEF OwnerInv

(* The latest chunks removed, down to chunk n.                             *)
LEMMA Removal ==
  ASSUME OwnerInv, NEW n \in DOMAIN chunks, RemovedDownTo(n)
  PROVE  /\ Laid' /\ handles' = Len(chunks') /\ chunks' # <<>>
         /\ mappedBytes' = End(chunks[n]) /\ Gran(mappedBytes') \in Nat
         /\ Gran(mappedBytes') <= Gran(mappedBytes)
<1>1. /\ Laid /\ Held /\ Lives /\ chunks' = SubSeq(chunks, 1, n) /\ mappedBytes' = End(chunks[n])
      /\ handles' = handles - (Len(chunks) - n)
  BY DEF OwnerInv, RemovedDownTo
<1>2. /\ Whole(mappedBytes) /\ mappedBytes \in Nat /\ Gran(mappedBytes) \in Nat
      /\ Len(chunks) \in Nat /\ DOMAIN chunks = 1 .. Len(chunks)
      /\ \A i \in DOMAIN chunks :
           /\ Whole(End(chunks[i])) /\ End(chunks[i]) \in Nat /\ End(chunks[i]) <= mappedBytes
           /\ Whole(chunks[i].address)
           /\ Granules(chunks[i].address, chunks[i].bytes)
                   = Gran(chunks[i].address) .. Gran(End(chunks[i])) - 1
      /\ chunks \in Seq(ChunkRecord)
  BY <1>1, LaidFacts DEF Laid, ChunkRecord
<1>3. /\ chunks' \in Seq(ChunkRecord) /\ Len(chunks') = n /\ n \in Nat \ {0}
      /\ \A i \in 1 .. n : chunks'[i] = chunks[i]
  <2>1. n \in Nat /\ n >= 1 /\ \A i \in 1 .. n : chunks[i] \in ChunkRecord
    BY <1>2
  <2>2. /\ SubSeq(chunks, 1, n) \in Seq(ChunkRecord)
        /\ Len(SubSeq(chunks, 1, n)) = IF 1 <= n THEN n - 1 + 1 ELSE 0
        /\ \A i \in 1 .. n - 1 + 1 : SubSeq(chunks, 1, n)[i] = chunks[1 + i - 1]
    BY <2>1, SubSeqProperties
  <2>3. \A i \in 1 .. n : SubSeq(chunks, 1, n)[i] = chunks[i]
    BY <2>1, <2>2
  <2>. QED
    BY <1>1, <2>1, <2>2, <2>3
<1>4. DOMAIN chunks' = 1 .. n /\ 1 .. n \subseteq DOMAIN chunks /\ chunks' # <<>>
  BY <1>2, <1>3
<1>5. Gran(End(chunks[n])) \in Nat /\ Gran(End(chunks[n])) <= Gran(mappedBytes)
  BY <1>2, WholeOrder
<1>6. ASSUME NEW g \in 0 .. Gran(End(chunks[n])) - 1
      PROVE  \E i \in 1 .. n : g \in Granules(chunks[i].address, chunks[i].bytes)
  <2>1. g \in 0 .. Gran(mappedBytes) - 1
    BY <1>2, <1>5
  <2>2. PICK i \in DOMAIN chunks : g \in Granules(chunks[i].address, chunks[i].bytes)
    BY <1>1, <2>1 DEF Laid
  <2>3. ASSUME n < i  PROVE FALSE
    <3>1. End(chunks[n]) <= chunks[i].address
      BY <1>1, <2>3 DEF Laid
    <3>2. Gran(End(chunks[n])) <= Gran(chunks[i].address) /\ Gran(chunks[i].address) \in Nat
      BY <1>2, <3>1, WholeOrder
    <3>3. g >= Gran(chunks[i].address) /\ g < Gran(End(chunks[n])) /\ g \in Int
      <4>1. Gran(End(chunks[i])) \in Nat
        BY <1>2, WholeOrder
      <4>2. g \in Gran(chunks[i].address) .. Gran(End(chunks[i])) - 1
        BY <1>2, <2>2
      <4>. QED
        BY <1>5, <3>2, <4>1, <4>2
    <3>. QED
      BY <1>5, <3>2, <3>3
  <2>4. i \in 1 .. n
    BY <1>2, <1>3, <2>3
  <2>. QED
    BY <2>2, <2>4
<1>7. Laid'
  <2>1. \A i \in DOMAIN chunks' : Whole(chunks'[i].address) /\ Planned(End(chunks'[i]))
    BY <1>1, <1>3, <1>4 DEF Laid
  <2>2. ASSUME NEW i \in DOMAIN chunks', NEW j \in DOMAIN chunks', i < j
        PROVE  End(chunks'[i]) <= chunks'[j].address
    <3>1. End(chunks[i]) <= chunks[j].address
      BY <1>1, <1>4, <2>2 DEF Laid
    <3>. QED
      BY <1>3, <1>4, <3>1
  <2>3. chunks'[1].address = 0
    <3>1. 1 \in 1 .. n /\ chunks # <<>>
      BY <1>2, <1>3
    <3>2. chunks[1].address = 0
      BY <1>1, <3>1 DEF Laid
    <3>. QED
      BY <1>3, <3>1, <3>2
  <2>4. mappedBytes' = End(chunks'[Len(chunks')])
    BY <1>1, <1>3
  <2>5. \A g \in 0 .. Gran(mappedBytes') - 1 :
          \E i \in DOMAIN chunks' : g \in Granules(chunks'[i].address, chunks'[i].bytes)
    BY <1>1, <1>3, <1>4, <1>6
  <2>. QED
    BY <1>3, <1>4, <2>1, <2>2, <2>3, <2>4, <2>5 DEF Laid, ChunkRecord
<1>8. handles' = Len(chunks')
  BY <1>1, <1>2, <1>3 DEF Held
<1>. QED
  BY <1>1, <1>4, <1>5, <1>7, <1>8

(* What is left of a set of granules below m once those from k on are gone *)
LEMMA Trim ==
  ASSUME NEW m \in Nat, NEW k \in Nat, NEW S, S \subseteq 0 .. m - 1
  PROVE  /\ \A p \in Nat : k <= p => S \ (k .. m - 1) \subseteq 0 .. p - 1
         /\ k <= m /\ 0 .. m - 1 \subseteq S => 0 .. k - 1 \subseteq S \ (k .. m - 1)
<1>1. ASSUME NEW p \in Nat, k <= p, NEW g \in S \ (k .. m - 1)
      PROVE  g \in 0 .. p - 1
  <2>1. g \in 0 .. m - 1 /\ g \notin k .. m - 1
    OBVIOUS
  <2>. QED
    BY <1>1, <2>1
<1>2. ASSUME k <= m, 0 .. m - 1 \subseteq S, NEW g \in 0 .. k - 1
      PROVE  g \in S \ (k .. m - 1)
  <2>1. g \in 0 .. m - 1 /\ g \notin k .. m - 1
    BY <1>2
  <2>. QED
    BY <1>2, <2>1
<1>. QED
  BY <1>1, <1>2

LEMMA RollbackServedStep ==
  ASSUME OwnerInv, NEW target \in 0 .. DenseLimit, RollbackServed(target)
  PROVE  OwnerInv' /\ working' = FALSE
<1>. DEFINE bytes == RollbackBytes(target)
            n     == CHOOSE i \in DOMAIN chunks : End(chunks[i]) = bytes
<1>1. n \in DOMAIN chunks /\ End(chunks[n]) = bytes
  <2>1. \E i \in DOMAIN chunks : End(chunks[i]) = bytes
    BY DEF RollbackServed, RollbackStarts, Restorable
  <2>. HIDE DEF bytes
  <2>. QED
    BY <2>1
<1>2. /\ RemovedDownTo(n) /\ working' = FALSE /\ Callable
      /\ backed' = backed \ Granules(bytes, mappedBytes - bytes)
      /\ UNCHANGED <<reserved, closed, held, views, unreleased>>
  BY DEF RollbackServed, RollbackStarts
<1>. HIDE DEF n
<1>3. /\ Laid' /\ handles' = Len(chunks') /\ chunks' # <<>>
      /\ mappedBytes' = End(chunks[n]) /\ Gran(mappedBytes') \in Nat
      /\ Gran(mappedBytes') <= Gran(mappedBytes)
  BY <1>1, <1>2, Removal
<1>4. /\ Laid /\ Held /\ Lives /\ mappedBytes \in Nat /\ Gran(mappedBytes) \in Nat
      /\ End(chunks[n]) \in Nat
  BY <1>1, LaidFacts DEF OwnerInv
<1>5. Granules(bytes, mappedBytes - bytes) = Gran(mappedBytes') .. Gran(mappedBytes) - 1
  <2>1. bytes + (mappedBytes - bytes) = mappedBytes /\ bytes = mappedBytes'
    BY <1>1, <1>3, <1>4
  <2>. QED
    BY <2>1 DEF Granules, Gran
<1>. HIDE DEF bytes
<1>6. Held'
  <2>1. backed \subseteq 0 .. Gran(mappedBytes) - 1
        /\ (~ unreleased => 0 .. Gran(mappedBytes) - 1 \subseteq backed)
    BY <1>4 DEF Held
  <2>2. backed' = backed \ (Gran(mappedBytes') .. Gran(mappedBytes) - 1) /\ unreleased' = unreleased
    BY <1>2, <1>5
  <2>3. backed' \subseteq 0 .. Gran(mappedBytes') - 1
        /\ (~ unreleased' => 0 .. Gran(mappedBytes') - 1 \subseteq backed')
    <3>1. Gran(mappedBytes') <= Gran(mappedBytes')
      BY <1>3
    <3>2. backed' \subseteq 0 .. Gran(mappedBytes') - 1
      BY <1>3, <1>4, <2>1, <2>2, <3>1, Trim
    <3>3. ASSUME ~ unreleased'  PROVE 0 .. Gran(mappedBytes') - 1 \subseteq backed'
      BY <1>3, <1>4, <2>1, <2>2, <3>3, Trim
    <3>. QED
      BY <3>2, <3>3
  <2>. QED
    BY <1>3, <2>3 DEF Held
<1>7. Lives'
  BY <1>2, <1>3, <1>4 DEF Lives, Callable
<1>. QED
  BY <1>2, <1>3, <1>6, <1>7 DEF OwnerInv

(* A rollback that fails half way leaves a shorter plane; the one chunk    *)
(* whose release failed is on the books and unmapped.                      *)
LEMMA RollbackFailedStep ==
  ASSUME OwnerInv, NEW target \in 0 .. DenseLimit, NEW n \in DOMAIN chunks,
         NEW call \in {"unmap", "release"}, RollbackFailed(target, n, call)
  PROVE  OwnerInv' /\ working' = FALSE
<1>. DEFINE from == IF call = "release" THEN chunks[n].address ELSE End(chunks[n])
<1>1. /\ RemovedDownTo(n) /\ working' = FALSE /\ Callable
      /\ backed' = backed \ Granules(from, mappedBytes - from)
      /\ unreleased' = (unreleased \/ call = "release")
      /\ UNCHANGED <<reserved, closed, held, views>>
  BY DEF RollbackFailed, RollbackStarts
<1>2. /\ Laid' /\ handles' = Len(chunks') /\ chunks' # <<>>
      /\ mappedBytes' = End(chunks[n]) /\ Gran(mappedBytes') \in Nat
      /\ Gran(mappedBytes') <= Gran(mappedBytes)
  BY <1>1, Removal
<1>3. /\ Laid /\ Held /\ Lives /\ mappedBytes \in Nat /\ Gran(mappedBytes) \in Nat
      /\ End(chunks[n]) \in Nat /\ Whole(End(chunks[n]))
      /\ chunks[n].address \in Nat /\ chunks[n].bytes \in Nat /\ Whole(chunks[n].address)
  BY LaidFacts DEF OwnerInv, Laid
<1>4. from \in Nat /\ Gran(from) \in Nat /\ Gran(from) <= Gran(mappedBytes')
  <2>1. chunks[n].address <= End(chunks[n])
    BY <1>3 DEF End
  <2>2. Gran(chunks[n].address) \in Nat /\ Gran(chunks[n].address) <= Gran(End(chunks[n]))
    BY <1>3, <2>1, WholeOrder
  <2>. QED
    BY <1>2, <1>3, <2>2
<1>5. Granules(from, mappedBytes - from) = Gran(from) .. Gran(mappedBytes) - 1
  <2>1. from + (mappedBytes - from) = mappedBytes
    BY <1>3, <1>4
  <2>. QED
    BY <2>1 DEF Granules, Gran
<1>6. call # "release" => from = mappedBytes'
  BY <1>2
<1>. HIDE DEF from
<1>7. Held'
  <2>0. backed \subseteq 0 .. Gran(mappedBytes) - 1
    BY <1>3 DEF Held
  <2>1. backed' \subseteq 0 .. Gran(mappedBytes') - 1
    <3>1. backed' = backed \ (Gran(from) .. Gran(mappedBytes) - 1)
      BY <1>1, <1>5
    <3>2. PICK m \in Nat : m = Gran(mappedBytes)
      BY <1>3
    <3>3. PICK k \in Nat : k = Gran(from)
      BY <1>4
    <3>4. PICK p \in Nat : p = Gran(mappedBytes')
      BY <1>2
    <3>5. k <= p /\ backed \subseteq 0 .. m - 1
      BY <1>4, <2>0, <3>2, <3>3, <3>4
    <3>6. backed \ (k .. m - 1) \subseteq 0 .. p - 1
      BY <3>5, Trim
    <3>. QED
      BY <3>1, <3>2, <3>3, <3>4, <3>6
  <2>2. ~ unreleased' => 0 .. Gran(mappedBytes') - 1 \subseteq backed'
    <3>. SUFFICES ASSUME ~ unreleased'  PROVE 0 .. Gran(mappedBytes') - 1 \subseteq backed'
      OBVIOUS
    <3>1. ~ unreleased /\ from = mappedBytes'
      BY <1>1, <1>6
    <3>. QED
      BY <1>1, <1>2, <1>3, <1>5, <3>1 DEF Held
  <2>. QED
    BY <1>2, <2>1, <2>2 DEF Held
<1>8. Lives'
  BY <1>1, <1>2, <1>3 DEF Lives, Callable
<1>. QED
  BY <1>1, <1>2, <1>7, <1>8 DEF OwnerInv

(* The plane released: nothing is left of it, and nobody had a view.       *)
LEMMA ReleaseStep ==
  ASSUME OwnerInv, Close \/ Destroy
  PROVE  OwnerInv' /\ working' = FALSE
<1>1. /\ chunks' = <<>> /\ mappedBytes' = 0 /\ reserved' = FALSE /\ backed' = {}
      /\ handles' = handles - Len(chunks) /\ views = 0 /\ working' = FALSE
      /\ UNCHANGED <<views, unreleased, held>>
      /\ ~ Callable'
  BY DEF Close, Destroy, ReleasePlane, Callable
<1>2. Laid /\ Held /\ Lives
  BY DEF OwnerInv
<1>3. Len(chunks) \in Nat
  BY <1>2, LaidFacts
<1>4. Gran(0) = 0
  BY <1>2, LaidFacts
<1>5. Laid'
  <2>1. <<>> \in Seq([address : Nat, bytes : Nat]) /\ DOMAIN <<>> = {}
    OBVIOUS
  <2>2. chunks' \in Seq([address : Nat, bytes : Nat]) /\ DOMAIN chunks' = {}
    BY <1>1, <2>1
  <2>3. 0 .. Gran(mappedBytes') - 1 = {}
    BY <1>1, <1>4
  <2>. QED
    BY <1>1, <2>2, <2>3 DEF Laid
<1>6. Held'
  <2>1. handles' = Len(chunks')
    <3>1. handles = Len(chunks) /\ Len(<<>>) = 0
      BY <1>2 DEF Held
    <3>. QED
      BY <1>1, <1>3, <3>1
  <2>2. 0 .. Gran(mappedBytes') - 1 = {}
    BY <1>1, <1>4
  <2>. QED
    BY <1>1, <2>1, <2>2 DEF Held
<1>7. Lives'
  BY <1>1, <1>2 DEF Lives
<1>. QED
  BY <1>1, <1>5, <1>6, <1>7 DEF OwnerInv

LEMMA UserStep ==
  ASSUME OwnerInv, ExportView \/ DropView \/ LaunchWork \/ CompleteWork \/ ReleaseHandle \/ UNCHANGED ownerVars
  PROVE  OwnerInv' /\ backed' = backed
<1>1. /\ UNCHANGED <<chunks, mappedBytes, handles, backed, unreleased, reserved>>
      /\ Laid /\ Held /\ Lives
  BY DEF OwnerInv, ExportView, DropView, LaunchWork, CompleteWork, ReleaseHandle, ownerVars
<1>2. Laid' /\ Held'
  BY <1>1 DEF Laid, Held
<1>3. Lives'
  BY <1>1 DEF Lives, Callable, ExportView, DropView, LaunchWork, CompleteWork, ReleaseHandle, ownerVars
<1>. QED
  BY <1>1, <1>2, <1>3 DEF OwnerInv

LEMMA InitOwnerInv == OwnerInit => OwnerInv
<1>. SUFFICES ASSUME OwnerInit  PROVE OwnerInv
  OBVIOUS
<1>. DEFINE required == Least(DenseLimit, ChunkPages)
            pages == TargetPages(required, 0)
            bytes == PageBytes * pages
            first == RoundUp(bytes)
<1>1. required \in 1 .. DenseLimit
  BY ChunkSize, OwnerConstants DEF Least
<1>2. pages \in required .. DenseLimit
  BY <1>1, Targets
<1>3. /\ chunks = <<[address |-> 0, bytes |-> first]>> /\ mappedBytes = first
      /\ reserved = TRUE /\ closed = FALSE /\ handles = 1 /\ backed = Granules(0, first)
      /\ held = TRUE /\ views = 0 /\ unreleased = FALSE
  BY DEF OwnerInit
<1>. HIDE DEF required, pages
<1>4. pages \in 1 .. DenseLimit /\ pages \in Nat /\ bytes \in Nat
  BY <1>1, <1>2, OwnerConstants
<1>5. Planned(first) /\ first \in Nat /\ Whole(first)
  <2>1. Planned(first)
    BY <1>4 DEF Planned
  <2>. HIDE DEF first
  <2>. QED
    BY <2>1, PlannedFacts
<1>. HIDE DEF first, bytes
<1>6. Whole(0) /\ Gran(0) = 0
  <2>1. Whole(Granularity * 0) /\ Gran(Granularity * 0) = 0
    BY WholeMultiple
  <2>2. Granularity * 0 = 0
    BY OwnerConstants
  <2>. QED
    BY <2>1, <2>2
<1>7. Granules(0, first) = 0 .. Gran(first) - 1
  <2>1. 0 + first = first
    BY <1>5
  <2>. QED
    BY <1>6, <2>1 DEF Granules, Gran
<1>8. /\ chunks \in Seq([address : Nat, bytes : Nat]) /\ DOMAIN chunks = {1} /\ Len(chunks) = 1
      /\ chunks[1] = [address |-> 0, bytes |-> first] /\ chunks # <<>>
  BY <1>3, <1>5
<1>9. chunks[1].address = 0 /\ chunks[1].bytes = first /\ End(chunks[1]) = first
  BY <1>5, <1>8 DEF End
<1>10. Laid
  <2>1. \A i \in DOMAIN chunks : Whole(chunks[i].address) /\ Planned(End(chunks[i]))
    BY <1>5, <1>6, <1>8, <1>9
  <2>2. \A i, j \in DOMAIN chunks : i < j => End(chunks[i]) <= chunks[j].address
    BY <1>8
  <2>3. mappedBytes = IF chunks = <<>> THEN 0 ELSE End(chunks[Len(chunks)])
    BY <1>3, <1>8, <1>9
  <2>4. \A g \in 0 .. Gran(mappedBytes) - 1 :
          \E i \in DOMAIN chunks : g \in Granules(chunks[i].address, chunks[i].bytes)
    <3>1. 1 \in DOMAIN chunks /\ Granules(chunks[1].address, chunks[1].bytes) = 0 .. Gran(first) - 1
      BY <1>7, <1>8, <1>9
    <3>. QED
      BY <1>3, <3>1
  <2>. QED
    BY <1>8, <1>9, <2>1, <2>2, <2>3, <2>4 DEF Laid
<1>11. Held /\ Lives
  BY <1>3, <1>7, <1>8 DEF Held, Lives
<1>. QED
  BY <1>10, <1>11 DEF OwnerInv

(* What a step does to what is mapped.                                     *)
LEMMA OwnerStep ==
  ASSUME OwnerInv, [OwnerNext]_ownerVars
  PROVE  OwnerInv' /\ (backed \ backed' # {} => ~ working')
<1>1. ASSUME NEW r \in 1 .. DenseLimit, GrowServed(r)
      PROVE  OwnerInv' /\ backed \subseteq backed'
  BY <1>1, GrowServedStep DEF GrowServed
<1>2. ASSUME NEW r \in 1 .. DenseLimit, NEW call \in {"create", "map", "access"}, GrowFailed(r, call)
      PROVE  OwnerInv' /\ backed' = backed
  BY <1>2, GrowFailedStep
<1>3. ASSUME NEW t \in 0 .. DenseLimit, RollbackServed(t)
      PROVE  OwnerInv' /\ working' = FALSE
  BY <1>3, RollbackServedStep
<1>4. ASSUME NEW t \in 0 .. DenseLimit, NEW n \in DOMAIN chunks, NEW call \in {"unmap", "release"},
             RollbackFailed(t, n, call)
      PROVE  OwnerInv' /\ working' = FALSE
  BY <1>4, RollbackFailedStep
<1>5. ASSUME Close \/ Destroy  PROVE OwnerInv' /\ working' = FALSE
  BY <1>5, ReleaseStep
<1>6. ASSUME ExportView \/ DropView \/ LaunchWork \/ CompleteWork \/ ReleaseHandle \/ UNCHANGED ownerVars
      PROVE  OwnerInv' /\ backed' = backed
  BY <1>6, UserStep
<1>. QED
  BY <1>1, <1>2, <1>3, <1>4, <1>5, <1>6 DEF OwnerNext

(***************************************************************************)
(* The theorems.                                                           *)
(***************************************************************************)
(* Through growth, failed growth, rollback, failed rollback and the end of *)
(* the owner, the chunks are a prefix and the driver holds just them.      *)
THEOREM PlaneIsPrefix == OwnerSpec => []OwnerInv
<1>1. OwnerInv /\ [OwnerNext]_ownerVars => OwnerInv'
  BY OwnerStep
<1>. QED
  BY <1>1, InitOwnerInv, PTL DEF OwnerSpec

(* "Only the prefix reported by mapped_capacity_pages is mapped and may be *)
(* touched", and a driver call that fails half way leaves nothing behind.  *)
THEOREM CountIsTrue == OwnerSpec => []CountedIsMapped
<1>1. OwnerInv => CountedIsMapped
  <2>. SUFFICES ASSUME OwnerInv  PROVE CountedIsMapped
    OBVIOUS
  <2>1. Laid /\ Held /\ Whole(mappedBytes) /\ mappedBytes \in Nat /\ Gran(mappedBytes) \in Nat
        /\ Gran(0) = 0
    BY LaidFacts DEF OwnerInv
  <2>2. ASSUME ~ unreleased  PROVE PrefixAlwaysMapped
    <3>. DEFINE bytes == PageBytes * Capacity
    <3>1. Capacity \in 0 .. DenseLimit /\ bytes <= mappedBytes
      BY <2>1, Capacities DEF Capacity
    <3>2. bytes \in Nat
      BY <3>1, OwnerConstants
    <3>. HIDE DEF bytes
    <3>3. Whole(RoundUp(bytes)) /\ RoundUp(bytes) \in Nat /\ RoundUp(bytes) <= mappedBytes
      BY <2>1, <3>1, <3>2, Rounding
    <3>4. Gran(RoundUp(bytes)) \in Nat /\ Gran(RoundUp(bytes)) <= Gran(mappedBytes)
      BY <2>1, <3>3, WholeOrder
    <3>5. Granules(0, RoundUp(bytes)) = 0 .. Gran(RoundUp(bytes)) - 1
      <4>1. 0 + RoundUp(bytes) = RoundUp(bytes)
        BY <3>3
      <4>. QED
        BY <2>1, <4>1 DEF Granules, Gran
    <3>6. 0 .. Gran(mappedBytes) - 1 \subseteq backed
      BY <2>1, <2>2 DEF Held
    <3>7. 0 .. Gran(RoundUp(bytes)) - 1 \subseteq 0 .. Gran(mappedBytes) - 1
      BY <2>1, <3>4
    <3>. QED
      BY <3>5, <3>6, <3>7 DEF PrefixAlwaysMapped, bytes
  <2>3. handles = Len(chunks) /\ backed \subseteq 0 .. Gran(mappedBytes) - 1
    BY <2>1 DEF Held
  <2>4. \A g \in 0 .. Gran(mappedBytes) - 1 :
          \E i \in DOMAIN chunks : g \in Granules(chunks[i].address, chunks[i].bytes)
    BY <2>1 DEF Laid
  <2>5. backed \subseteq UNION {Granules(chunks[i].address, chunks[i].bytes) : i \in DOMAIN chunks}
    BY <2>3, <2>4
  <2>. QED
    BY <2>2, <2>3, <2>5 DEF CountedIsMapped
<1>. QED
  BY <1>1, PlaneIsPrefix, PTL

(* Rollback undoes growth, whatever a page leaves over in a chunk: every   *)
(* capacity reported on the way here is one rollback_to restores.          *)
THEOREM GrowthIsUndone == OwnerSpec => []GrowthCanBeUndone
<1>1. OwnerInv => GrowthCanBeUndone
  <2>. SUFFICES ASSUME OwnerInv, NEW i \in DOMAIN chunks
                PROVE  Restorable(CapacityOf(End(chunks[i])))
                       /\ RollbackBytes(CapacityOf(End(chunks[i]))) = End(chunks[i])
    BY DEF GrowthCanBeUndone
  <2>. DEFINE end == End(chunks[i])
              before == CapacityOf(end)
  <2>1. Laid /\ Planned(end)
    BY DEF OwnerInv, Laid
  <2>2. RollbackBytes(before) = end
    BY <2>1, PlannedFacts
  <2>3. end >= chunks[1].bytes
    <3>1. /\ DOMAIN chunks = 1 .. Len(chunks) /\ Len(chunks) \in Nat
          /\ \A j \in DOMAIN chunks : chunks[j].address \in Nat /\ chunks[j].bytes \in Nat
                                      /\ End(chunks[j]) \in Nat
      BY <2>1, LaidFacts
    <3>2. 1 \in DOMAIN chunks /\ chunks # <<>> /\ i \in Nat /\ i >= 1
      BY <3>1
    <3>3. chunks[1].address = 0
      BY <2>1, <3>2 DEF Laid
    <3>4. End(chunks[1]) = chunks[1].bytes
      BY <3>1, <3>2, <3>3 DEF End
    <3>5. CASE i = 1
      BY <3>1, <3>2, <3>4, <3>5
    <3>6. CASE i # 1
      <4>1. \A a, b \in DOMAIN chunks : a < b => End(chunks[a]) <= chunks[b].address
        BY <2>1 DEF Laid
      <4>2. End(chunks[1]) <= chunks[i].address
        BY <3>2, <3>6, <4>1
      <4>3. chunks[i].address <= end
        BY <3>1 DEF End
      <4>. QED
        BY <3>1, <3>2, <3>4, <4>2, <4>3
    <3>. QED
      BY <3>5, <3>6
  <2>. HIDE DEF end
  <2>4. Restorable(before)
    <3>1. \E j \in DOMAIN chunks : End(chunks[j]) = end
      BY DEF end
    <3>. HIDE DEF before
    <3>2. CapacityOf(RollbackBytes(before)) = before
      BY <2>2 DEF before
    <3>. QED
      BY <2>2, <2>3, <3>1, <3>2 DEF Restorable
  <2>. QED
    BY <2>2, <2>4 DEF end
<1>. QED
  BY <1>1, PlaneIsPrefix, PTL

(* A granule is unmapped only when the device is quiet, and what a view    *)
(* points at stays reserved.                                               *)
THEOREM UsersKeepTheirs == OwnerSpec => NothingTakenFromUse
<1>1. OwnerInv /\ [OwnerNext]_ownerVars =>
        [(backed \ backed' # {} => ~ working') /\ (views' > 0 => reserved')]_ownerVars
  BY OwnerStep DEF OwnerInv, Lives
<1>. QED
  BY <1>1, PlaneIsPrefix, PTL DEF OwnerSpec, NothingTakenFromUse

=============================================================================
