--------------------------- MODULE DecodeLattice ---------------------------
(***************************************************************************)
(* How one decode launch reaches the leaves: the (k, m) box of a topology  *)
(* (rola/ops/lattice.py and fill_lattice), the factor tables every CTA     *)
(* derives from the token's digit sets, and the walk over the D + 1 terms  *)
(* (csrc/rola/src/decode/decode_lattice.cuh, decode_step_kernel).          *)
(*                                                                         *)
(* An amplitude row is abstracted to its support, a 32-bit slice to the    *)
(* set of its offsets, an ascending list in shared memory to the set of    *)
(* its entries; levels count from 1, so that level D is the innermost.     *)
(* The CTAs share nothing before the combine (DecodeStep), so a CTA's      *)
(* prologue and walk are one action here.                                  *)
(***************************************************************************)
EXTENDS Integers, FiniteSets
LOCAL INSTANCE Sequences
LOCAL INSTANCE SequencesExt

CONSTANTS
  Widths,        \* the topologies: sequences of level widths
  DigitSets,     \* bound: the supports a level may have, if it is wide enough
  Splits,        \* the values of n_split
  AtomShift,     \* kAtomShift: log2 of the leaves of an atom
  LatticeCap,    \* LATTICE_CAP_BC: the leaves one owner may hold
  MaxSpan,       \* kDecodeMaxSpan: the widest slice
  MaxSpanK,      \* _MAX_SPAN_K: the widest sub-box span
  UnitBlockBits, \* kUnitBlockWarpsBits
  UnitRepeats    \* kUnitRepeats

(* A lawful level is a power of two and at least an atom wide (_admit).    *)
ASSUME LatticeAssumption ==
  /\ {AtomShift, UnitBlockBits} \subseteq Nat
  /\ {LatticeCap, MaxSpan, MaxSpanK, UnitRepeats} \subseteq Nat \ {0}
  /\ Splits \subseteq Nat \ {0}
  /\ \A w \in Widths : \A l \in DOMAIN w : \E e \in AtomShift .. 8 : w[l] = 2 ^ e

VARIABLES
  p,        \* DecodeParams: the topology's box
  n_split,
  R, W,     \* the token's live digits, level by level, per side
  at,       \* [CTA -> "launched", "walked" or "retired"]
  claims,   \* [CTA -> the atoms in the order its claim ranks them]
  visits    \* the slots walked: who, which leaf, read and written?

latticeVars == <<p, n_split, R, W, at, claims, visits>>

---------------------------------------------------------------------------
Shl(x, n)       == x * 2 ^ n
Shr(x, n)       == x \div 2 ^ n
Low(x, n)       == x % 2 ^ n
Log2(n)         == CHOOSE e \in 0 .. n : 2 ^ e = n
CeilLog2(n)     == CHOOSE e \in 0 .. n : 2 ^ e >= n /\ \A f \in 0 .. e - 1 : 2 ^ f < n
Product(q, ls)  == FoldFunctionOnSet(LAMBDA a, b : a * b, 1, q, ls)
Total(q, ls)    == SumFunctionOnSet(q, ls)
PowersTo(n)     == {2 ^ e : e \in 0 .. Log2(n)}

---------------------------------------------------------------------------
(* The box: how the capacity m is distributed over the levels, and which   *)
(* (k, m) a topology gets.                                                 *)
InnerExponent(w, k, m) ==
  LET D     == Len(w)
      j     == Log2(m)
      share == j \div D + (IF j % D = 0 THEN 0 ELSE 1)
      floor == Max({0, AtomShift - Log2(k)})
      ceil  == Max({0} \cup {e \in 1 .. Log2(w[D]) : w[D] % Shl(k, e) = 0})
  IN Min({Max({share, floor}), ceil, j})

Exponents(w, k, m) ==
  LET outer  == Log2(m) - InnerExponent(w, k, m)
      levels == Len(w) - 1
      extra(l) == IF l > levels - (outer % levels) THEN 1 ELSE 0
  IN [l \in DOMAIN w |-> IF l = Len(w) THEN InnerExponent(w, k, m)
                                       ELSE outer \div levels + extra(l)]

Spans(w, k, m) == [l \in DOMAIN w |-> Shl(k, Exponents(w, k, m)[l])]

Admissible(w, k, m) ==
  LET s == Spans(w, k, m)
  IN /\ Total(Exponents(w, k, m), DOMAIN w) = Log2(m)
     /\ \A l \in DOMAIN w : w[l] % s[l] = 0 /\ s[l] <= MaxSpan
     /\ Product(s, DOMAIN w) <= LatticeCap

(* The levels an atom spans: the trailing ones it takes whole, and one in  *)
(* part.                                                                   *)
AtomLevels(s) ==
  LET trail(n) == Product(s, Len(s) - n + 1 .. Len(s))
      whole   == Max({n \in 0 .. Len(s) : trail(n) <= 2 ^ AtomShift})
  IN whole + (IF 2 ^ AtomShift > trail(whole) THEN 1 ELSE 0)

(* The largest box; among those the shallowest atom; then the largest k.   *)
Better(w, b, c) ==
  LET rank(x) == LET s == Spans(w, x[1], x[2])
                 IN <<Product(s, DOMAIN s), 0 - AtomLevels(s), x[1]>>
      x == rank(b)
      y == rank(c)
  IN \E i \in 1 .. 3 : x[i] > y[i] /\ \A h \in 1 .. i - 1 : x[h] = y[h]

DeriveLattice(w) ==
  LET boxes == {b \in PowersTo(MaxSpanK) \X PowersTo(Product(w, DOMAIN w)) :
                  Admissible(w, b[1], b[2])}
  IN CHOOSE b \in boxes : \A c \in boxes : ~ Better(w, c, b)

FillLattice(w) ==
  LET D    == Len(w)
      box  == DeriveLattice(w)
      s    == Spans(w, box[1], box[2])
      g    == [l \in 1 .. D |-> w[l] \div s[l]]
      bits == [l \in 1 .. D |-> Log2(s[l])]
  IN [w |-> w, s |-> s, g |-> g, sbits |-> bits,
      gsuf      |-> [l \in 1 .. D |-> Product(g, l + 1 .. D)],
      run_shift |-> [l \in 1 .. D |-> Total(bits, l + 1 .. D)],
      local     |-> Total(bits, 1 .. D),
      inner     |-> bits[D],
      outer     |-> Total(bits, 1 .. D - 1)]

D     == Len(p.w)
Level == 1 .. D
Outer == 1 .. D - 1
Leaf  == 0 .. Product(p.w, Level) - 1

---------------------------------------------------------------------------
(* The factor tables.  Term 0 is the write product, term l the read leaves *)
(* whose first digit outside the write side is level l's, and term D + 1   *)
(* the write product again, in the order the claim ranks by.               *)
TermKind(term, l) ==
  CASE term \in {0, D + 1}        -> "W"
    [] term \in Level /\ l < term -> "RW"
    [] term \in Level /\ l = term -> "RmW"
    [] OTHER                      -> "R"

KindBits(r, w, kind) ==
  CASE kind = "W"  -> w
    [] kind = "R"  -> r
    [] kind = "RW" -> r \cap w
    [] OTHER       -> r \ w

Digits(term, l) == KindBits(R[l], W[l], TermKind(term, l))
Owners(term, l) == {d \div p.s[l] : d \in Digits(term, l)}

(* A level's field in a term's rank: padded to a power of two, and the     *)
(* innermost level lowest.                                                 *)
Counts(term) ==
  [l \in Level |-> Cardinality(IF term = 0 /\ l < D THEN W[l] ELSE Owners(term, l))]

Fields_OuterLowest(term) ==                    \* mutant: level 1 in the low bits
  LET count == Counts(term)
      width == [l \in Level |-> CeilLog2(count[l])]
  IN [l \in Level |-> [shift |-> Total(width, 1 .. l - 1), width |-> width[l], count |-> count[l]]]
Fields(term) ==
  LET count == Counts(term)
      width == [l \in Level |-> CeilLog2(count[l])]
  IN [l \in Level |-> [shift |-> Total(width, l + 1 .. D), width |-> width[l], count |-> count[l]]]

Units_Unpadded(term) ==                        \* mutant: as many ranks as live entries
  Product(Counts(term), Level) * (IF term = 0 THEN 1 ELSE 2 ^ p.outer)
Units(term) ==
  LET count == Counts(term)
      width == [l \in Level |-> CeilLog2(count[l])]
  IN IF \E l \in Level : count[l] = 0
     THEN 0
     ELSE 2 ^ (Total(width, Level) + (IF term = 0 THEN 0 ELSE p.outer))

UMax  == Max({Units(term) : term \in 0 .. D})
UnitBlockWarps == 2 ^ UnitBlockBits

Index(f, rank)   == Low(Shr(rank, f.shift), f.width)
Valid(fld, rank) == \A l \in Level : Index(fld[l], rank) < fld[l].count
Entry(list, f, rank) ==
  LET i == IF Index(f, rank) < f.count THEN Index(f, rank) ELSE 0
  IN CHOOSE d \in list : Cardinality({e \in list : e < d}) = i
Slice(side, l, o) == {t \in 0 .. p.s[l] - 1 : o * p.s[l] + t \in side[l]}

---------------------------------------------------------------------------
(* The resolvers: from a unit's number to its first leaf and to the        *)
(* offsets of its innermost run that are read and that are written.  Only  *)
(* the write resolver writes; for the candidates' term ResolveUnit answers *)
(* the write run itself, a membership question (resolve_candidate_unit).   *)
OwnerBase(owner, runs) ==
  Shl(Total([l \in Level |-> owner[l] * p.gsuf[l]], Level), p.local) + runs

ResolveUnit(term, fld, local) ==
  LET outer == Low(local, p.outer)
      rank  == Shr(local, p.outer)
      owner == [l \in Level |-> Entry(Owners(term, l), fld[l], rank)]
      digit(l) == owner[l] * p.s[l] + Low(Shr(outer, p.run_shift[l] - p.inner), p.sbits[l])
      alive == Valid(fld, rank) /\ \A l \in Outer : digit(l) \in Digits(term, l)
      run   == KindBits(Slice(R, D, owner[D]), Slice(W, D, owner[D]), TermKind(term, D))
  IN [base  |-> OwnerBase(owner, Shl(outer, p.inner)), valid |-> Valid(fld, rank),
      read  |-> IF alive THEN run ELSE {},
      write |-> {}]

(* The low bits of the number go to the finest outer level's field.        *)
Rotated(fld, unit) ==
  IF D = 1 THEN unit
  ELSE LET n    == Min({fld[D - 1].width, UnitBlockBits})
           m    == fld[D - 1].shift
           mid  == Low(Shr(unit, n), m)
       IN mid + Shl(Low(unit, n), m) + Shl(Shr(unit, n + m), n + m)

ResolveWriteUnit(fld, unit) ==
  LET rank  == Rotated(fld, unit)
      digit == [l \in Outer |-> Entry(W[l], fld[l], rank)]
      owner == [l \in Level |-> IF l = D THEN Entry(Owners(0, D), fld[D], rank)
                                        ELSE Shr(digit[l], p.sbits[l])]
      runs  == Total([l \in Outer |-> Shl(Low(digit[l], p.sbits[l]), p.run_shift[l])], Outer)
      live  == \A l \in Outer : digit[l] \in R[l]
  IN [base  |-> OwnerBase(owner, runs), valid |-> Valid(fld, rank),
      read  |-> IF Valid(fld, rank) /\ live THEN Slice(R, D, owner[D]) ELSE {},
      write |-> IF Valid(fld, rank) THEN Slice(W, D, owner[D]) ELSE {}]

(* The atoms the write side reaches, in the candidates' order.             *)
AtomsPerUnit == IF p.inner > AtomShift THEN p.inner - AtomShift ELSE 0
UnitsPerAtom == IF p.inner < AtomShift THEN AtomShift - p.inner ELSE 0
NoAtom == -1

CandidateAtom(fld, i) ==
  LET a     == Low(i, AtomsPerUnit)
      unit0 == Shl(Shr(i, AtomsPerUnit), UnitsPerAtom)
      unit(q) == ResolveUnit(D + 1, fld, unit0 + q)
      first == Low(Shl(a, AtomShift), p.inner)
      win   == first .. first + 2 ^ Min({p.inner, AtomShift}) - 1
  IN IF \E q \in 0 .. 2 ^ UnitsPerAtom - 1 : unit(q).valid /\ unit(q).read \cap win # {}
     THEN Shr(unit(0).base + Shl(a, AtomShift), AtomShift)
     ELSE NoAtom

Candidates ==
  LET n   == Shl(Shr(Units(D + 1), UnitsPerAtom), AtomsPerUnit)
      fld == Fields(D + 1)
  IN SelectSeq([i \in 1 .. n |-> CandidateAtom(fld, i - 1)], LAMBDA a : a # NoAtom)

---------------------------------------------------------------------------
(* The walk.  Warp (ub, ur) of CTA seg starts at its place in the block    *)
(* and strides over the blocks of the whole launch.                        *)
Segment  == 0 .. n_split - 1
Warp == 0 .. UnitBlockWarps * UnitRepeats - 1

Turns(seg, warp, units) ==
  LET period == n_split * UnitBlockWarps
      start  == seg * UnitBlockWarps + (warp % UnitBlockWarps) + (warp \div UnitBlockWarps) * period
  IN {u \in start .. units - 1 : (u - start) % (period * UnitRepeats) = 0}

Slots(term, fld, unit) ==
  LET u == IF term = 0 THEN ResolveWriteUnit(fld, unit) ELSE ResolveUnit(term, fld, unit)
  IN {[leaf |-> u.base + t, read |-> t \in u.read, write |-> t \in u.write] :
        t \in IF term = 0 THEN u.write ELSE u.read}

TermVisits(seg, term) ==
  LET fld == Fields(term)
      n   == Units(term)
  IN UNION {{[by |-> <<seg, warp, term, unit>>, slot |-> z] : z \in Slots(term, fld, unit)} :
              <<warp, unit>> \in UNION {{warp} \X Turns(seg, warp, n) : warp \in Warp}}

SegmentRetires(seg) == seg > 0 /\ seg * UnitBlockWarps >= UMax
NLiveSegments ==
  LET want == (UMax + UnitBlockWarps - 1) \div UnitBlockWarps
  IN IF want < 1 THEN 1 ELSE IF want > n_split THEN n_split ELSE want

LatticeInit ==
  /\ p \in {FillLattice(w) : w \in Widths}
  /\ n_split \in Splits
  /\ R \in [Level -> DigitSets] /\ \A l \in Level : R[l] \subseteq 0 .. p.w[l] - 1
  /\ W \in [Level -> DigitSets] /\ \A l \in Level : W[l] \subseteq 0 .. p.w[l] - 1
  /\ at = [seg \in Segment |-> "launched"]
  /\ claims = [seg \in Segment |-> <<>>]
  /\ visits = {}

RetireSegment(seg) ==
  /\ at[seg] = "launched" /\ SegmentRetires(seg)
  /\ at' = [at EXCEPT ![seg] = "retired"]
  /\ UNCHANGED <<p, n_split, R, W, claims, visits>>

(* A CTA of a head that is not refused: it ranks its candidates and walks. *)
(* Which of them the table lacks, and a refusal, are DecodeStep's.         *)
WalkSegment(seg) ==
  /\ at[seg] = "launched" /\ ~ SegmentRetires(seg)
  /\ at' = [at EXCEPT ![seg] = "walked"]
  /\ claims' = [claims EXCEPT ![seg] = Candidates]
  /\ visits' = visits \cup UNION {TermVisits(seg, term) : term \in 0 .. D}
  /\ UNCHANGED <<p, n_split, R, W>>

LatticeNext == \E seg \in Segment : RetireSegment(seg) \/ WalkSegment(seg)

LatticeSpec == LatticeInit /\ [][LatticeNext]_latticeVars

---------------------------------------------------------------------------
(* The host's leaf order (lattice.py's permutation): a leaf's lattice      *)
(* index, from its digits.                                                 *)
Permutation(d) ==
  LET o(l) == (d[l] \div p.s[l]) * Product(p.g, l + 1 .. D)
      r(l) == (d[l] % p.s[l]) * Product(p.s, l + 1 .. D)
  IN Total([l \in Level |-> o(l)], Level) * Product(p.s, Level)
       + Total([l \in Level |-> r(l)], Level)
Support(side) ==
  LET digits == UNION {side[l] : l \in Level}
  IN {Permutation(d) : d \in {d \in [Level -> digits] : \A l \in Level : d[l] \in side[l]}}

(* The tables stay within their planes: every CTA and every leaf exists.   *)
LatticeTypeOK ==
  /\ at \in [Segment -> {"launched", "walked", "retired"}]
  /\ claims \in [Segment -> Seq(0 .. Shr(Product(p.w, Level), AtomShift) - 1)]
  /\ \A v \in visits : v.by[1] \in Segment /\ v.slot.leaf \in Leaf

(* No leaf is visited twice in a launch, by whichever terms, warps and     *)
(* CTAs: a deposit has no rival, and a leaf that is written and read is    *)
(* updated and then read in that one visit.  A launch that has walked      *)
(* wrote the product of the write digits and read the product of the read  *)
(* digits, at the leaves where the host's permutation puts them, and as    *)
(* many CTAs stayed as the combine awaits.                                 *)
WalkIsTheSupport ==
  /\ \A v, u \in visits : v.slot.leaf = u.slot.leaf => v = u
  /\ (\A seg \in Segment : at[seg] # "launched") =>
       /\ {v.slot.leaf : v \in {v \in visits : v.slot.write}} = Support(W)
       /\ {v.slot.leaf : v \in {v \in visits : v.slot.read}} = Support(R)
       /\ Cardinality({seg \in Segment : at[seg] = "walked"}) = NLiveSegments

(* The claim's ranks run in ascending atom id over exactly the atoms the   *)
(* write side reaches, once each: siblings that rank by it agree with one  *)
(* another and with the host's order.                                      *)
ClaimsAscend ==
  \A seg \in Segment : at[seg] = "walked" =>
    /\ \A i \in 1 .. Len(claims[seg]) - 1 : claims[seg][i] < claims[seg][i + 1]
    /\ {claims[seg][i] : i \in DOMAIN claims[seg]} = {Shr(x, AtomShift) : x \in Support(W)}
=============================================================================
