---------------------------- MODULE RouteBundle ----------------------------
(***************************************************************************)
(* From the solved levels to the operands of a step: the shipped producer  *)
(* folds the masses off the levels (RouteProducer.forward), a foreign one  *)
(* hands a bundle over; the bundle (RouteFactors) and the decay dials go   *)
(* to the chunk plan, to the one-token step, and to the fp64 recurrence.   *)
(*                                                                         *)
(* An amplitude is a monomial: a function from atoms to their exponents.   *)
(* The atoms are the cells of the levels as their maps left them, the sum  *)
(* (the mass) of a row of cells where it is not 1, the gains and the       *)
(* dials, each with the row (batch by head) and the token it belongs to.   *)
(***************************************************************************)
EXTENDS Operator

CONSTANTS
  Batches, Heads,
  TokenCounts,     \* the numbers of tokens of a call
  Foreigners,      \* foreign bundles: [tokens, opaque, carries, laid]
  Sources,         \* the decay sources: [scope, heads, fits, rounds]
  Unset

ASSUME RouteBundleAssumption ==
  /\ {Batches, Heads} \subseteq Nat \ {0} /\ TokenCounts \subseteq Nat \ {0}
  /\ \A f \in Foreigners : f.tokens \in Nat \ {0} /\ f.opaque \subseteq Nat
  /\ \A f \in Foreigners : f.laid \in {"right", "column", "swapped"}
  /\ \A s \in Sources : s.scope \in {"none", "constant", "global", "state"} /\ s.heads \in Nat

VARIABLES
  bstep,    \* "idle", "built", "ready", "planned", "decoded" or "refused"
  bundle,   \* [tokens, opaque, levels, gain, mass]
  dials,    \* [head -> [level -> [digit -> rate]]], or Unset
  source,   \* the decay source of the layer
  operands  \* what a step computes with: [read, write, deposit, rate, scale]

bvars == <<bstep, bundle, dials, source, operands>>

---------------------------------------------------------------------------
(* Monomials.                                                              *)
Unit        == [a \in {} |-> 0]
Atom(a)     == [x \in {a} |-> 1]
Times(f, g) ==
  LET exp(k) == (IF k \in DOMAIN f THEN f[k] ELSE 0) + (IF k \in DOMAIN g THEN g[k] ELSE 0)
  IN [k \in {k \in DOMAIN f \cup DOMAIN g : exp(k) # 0} |-> exp(k)]
Over(f, g)  == Times(f, [k \in DOMAIN g |-> 0 - g[k]])
Multiply(f) == FoldLeft(Times, Unit, f)

Batch  == 0 .. Batches - 1
HeadOf == 0 .. Heads - 1
Prefix(tokens) == Batch \X (0 .. tokens - 1) \X HeadOf
SolveRow(b, h) == b * Heads + h
Digit(l)       == 0 .. Width(l) - 1

(* A map lands on the simplex or it does not: the read half of a union is  *)
(* a share of one solve, of a foreign map nothing is known.                *)
Cell(side, l, i, bh, t) == Atom(<<"cell", side, l, i, bh, t>>)
LandsOnSimplex(opaque, side, l) == l \notin opaque /\ TorchCell(side, l, 0).part # "read"
MassOf(opaque, side, l, bh, t) ==
  IF LandsOnSimplex(opaque, side, l) THEN Unit ELSE Atom(<<"mass", side, l, 0, bh, t>>)
Summed(opaque, side, l, bh, t, row) ==
  Times(Over(row[0], Cell(side, l, 0, bh, t)), MassOf(opaque, side, l, bh, t))

---------------------------------------------------------------------------
(* The topology's answer, read off the registry row and the routing form.  *)
SimplexOutput_Union(opaque, side, l) == l \notin opaque     \* mutant: the row, whatever the form
SimplexOutput(opaque, side, l) == l \notin opaque /\ (Form(l) = "union" => side = "write")

(* The producer.  A level whose duty is not declared on the simplex gives  *)
(* up its mass: the read side carries it, the write side is divided by it. *)
Fold(side, carry, tokens) ==
  LET solved(bh, t, l) == [i \in Digit(l) |-> Cell(side, l, i, bh, t)]
      skip(l) == SimplexOutput({}, side, l)
      mass(bh, t, l) == IF skip(l) THEN Unit ELSE Summed({}, side, l, bh, t, solved(bh, t, l))
      level(bh, t, l) ==
        [i \in Digit(l) |-> IF carry THEN solved(bh, t, l)[i]
                            ELSE Over(solved(bh, t, l)[i], mass(bh, t, l))]
  IN [levels |-> [x \in Prefix(tokens) |->
                    [l \in Level |-> level(SolveRow(x[1], x[3]), x[2], l)]],
      mass   |-> IF \A l \in Level : skip(l) THEN Unset
                 ELSE [x \in Prefix(tokens) |->
                         Multiply([l \in Level |-> mass(SolveRow(x[1], x[3]), x[2], l)])]]

SideGain(x) == IF gain = 0 THEN Unit ELSE Atom(<<"gain", "write", 0, 0, SolveRow(x[1], x[3]), x[2]>>)

(* What RouteFactors holds any bundle to, whoever built it.                *)
WellFormed(f) ==
  LET prefix == DOMAIN f.levels["read"]
  IN /\ DOMAIN f.levels["write"] = prefix /\ DOMAIN f.gain = prefix
     /\ f.mass # Unset => DOMAIN f.mass = prefix
     /\ \A side \in Side, x \in prefix, l \in Level : DOMAIN f.levels[side][x][l] = Digit(l)

Build(f) ==
  /\ bstep = "idle" /\ step = "idle"
  /\ bundle' = f
  /\ bstep' = IF WellFormed(f) THEN "built" ELSE "refused"
  /\ UNCHANGED <<allvars, ovars, dials, source, operands>>

Produce ==
  /\ stage = "solved" /\ backward = 0 /\ entry = "levels" /\ ~ apart
  /\ \E tokens \in TokenCounts :
       LET read  == Fold("read", TRUE, tokens)
           write == Fold("write", FALSE, tokens)
       IN Build([tokens |-> tokens, opaque |-> {}, mass |-> read.mass,
                 levels |-> [read |-> read.levels, write |-> write.levels],
                 gain   |-> [x \in Prefix(tokens) |->
                               IF write.mass = Unset THEN SideGain(x)
                               ELSE Times(SideGain(x), write.mass[x])]])

(* A foreign producer declares the levels it filled opaque and folds its   *)
(* own mass; it may leave the read side's on, and swap tokens and heads in *)
(* one column or throughout.                                               *)
Foreign ==
  /\ stage = "resolved" /\ entry = "levels" /\ ~ apart
  /\ \E given \in {f \in Foreigners : f.opaque \subseteq Level} :
       LET at(swaps, x)   == IF given.laid \in swaps THEN <<x[1], x[3], x[2]>> ELSE x
           laid(swaps)    == {at(swaps, x) : x \in Prefix(given.tokens)}
           mass(side, l, x) == MassOf(given.opaque, side, l, SolveRow(x[1], x[3]), x[2])
           total(side, x)   == Multiply([l \in Level |-> mass(side, l, x)])
           level(side, l, x) ==
             [i \in Digit(l) |->
                LET cell == Cell(side, l, i, SolveRow(x[1], x[3]), x[2])
                IN IF side = "read" /\ given.carries THEN cell ELSE Over(cell, mass(side, l, x))]
           all == {"swapped"}
           one == {"swapped", "column"}
       IN Build([tokens |-> given.tokens, opaque |-> given.opaque,
                 mass   |-> IF given.carries
                            THEN [y \in laid(all) |-> total("read", at(all, y))] ELSE Unset,
                 levels |-> [side \in Side |-> [y \in laid(all) |->
                               [l \in Level |-> level(side, l, at(all, y))]]],
                 gain   |-> [y \in laid(one) |->
                               Times(SideGain(at(one, y)), total("write", at(one, y)))]])

---------------------------------------------------------------------------
(* The layer takes a decay source, sized for these heads or refused, and   *)
(* its dials: one rate, one a head, or one a head, level and digit.        *)
Dial(s, h, l, i) ==
  CASE s.scope = "constant" -> Atom(<<"dial", "write", 0, 0, 0, 0>>)
    [] s.scope = "global"   -> Atom(<<"dial", "write", 0, 0, h, 0>>)
    [] s.scope = "state"    -> Atom(<<"dial", "write", l, i, h, 0>>)

LeafMassDecay(s) == [h \in HeadOf |-> [l \in Level |-> [i \in Digit(l) |-> Dial(s, h, l, i)]]]

SizedFor(s) == s.fits /\ s.heads = Heads      \* its widths, its heads

Attach ==
  /\ bstep = "built"
  /\ source' \in Sources
  /\ bstep' = IF source'.scope = "none" \/ SizedFor(source') THEN "ready" ELSE "refused"
  /\ dials' = IF source'.scope = "none" \/ ~ SizedFor(source') THEN Unset
              ELSE LeafMassDecay(source')
  /\ UNCHANGED <<allvars, ovars, bundle, operands>>

(* A leaf's digits, the first level's most significant, and its product.   *)
LeafOf(at) == [s \in 0 .. Capacity - 1 |-> Multiply([l \in Level |-> at[l][DigitOf(s, l)]])]

(* The chunk plan packs the levels as they are stored, their mass on them, *)
(* in the solve's row order, and the mass beside them.                     *)
Planned ==
  LET row(bh, t) == <<bh \div Heads, t, bh % Heads>>
      rows == (0 .. Batches * Heads - 1) \X (0 .. bundle.tokens - 1)
  IN [read    |-> [z \in rows |-> LeafOf(bundle.levels["read"][row(z[1], z[2])])],
      write   |-> [z \in rows |-> LeafOf(bundle.levels["write"][row(z[1], z[2])])],
      gain    |-> [z \in rows |-> bundle.gain[row(z[1], z[2])]],
      scale   |-> [z \in rows |-> IF bundle.mass = Unset THEN Unit ELSE bundle.mass[row(z[1], z[2])]]]

(* Refused first: values of another shape than the bundle's, any decay.    *)
PlanChunk ==
  /\ bstep = "ready"
  /\ LET refused == DOMAIN bundle.levels["read"] # Prefix(bundle.tokens) \/ dials # Unset
     IN /\ bstep' = IF refused THEN "refused" ELSE "planned"
        /\ operands' = IF refused THEN operands ELSE Planned
  /\ UNCHANGED <<allvars, ovars, bundle, dials, source>>

---------------------------------------------------------------------------
(* The one-token step.  A block of the launch is one row; it stages the    *)
(* levels of both sides and the row's head of the flat dials, the levels   *)
(* one behind the other, the read levels that need it divided by their sum.*)
NeedsNormalization(l) == bundle.mass # Unset /\ ~ SimplexOutput(bundle.opaque, "read", l)

LevelAt(o) == CHOOSE l \in Level : o \in Cells(l)
Staged(side, bh) ==
  LET x == <<bh \div Heads, 0, bh % Heads>>
  IN [o \in 0 .. LogitWidth - 1 |->
        LET l   == LevelAt(o)
            row == bundle.levels[side][x][l]
            amp == row[o - LevelOffset(l)]
        IN IF side = "read" /\ NeedsNormalization(l)
           THEN Over(amp, Summed(bundle.opaque, side, l, bh, 0, row)) ELSE amp]

(* leaf_rate_dials: [H, sum of the widths], the levels side by side.       *)
FlatDials ==
  [h \in HeadOf |-> [o \in 0 .. LogitWidth - 1 |->
                       dials[h][LevelAt(o)][o - LevelOffset(LevelAt(o))]]]
StagedDials(bh) == FlatDials[bh % Heads]
Gathered(staged) == LeafOf([l \in Level |-> [i \in Digit(l) |-> staged[LevelOffset(l) + i]]])

(* The clock is the stored write allocation; the deposit has the gain.     *)
Deposit_AndClock(amplitude, g) == [clock |-> Times(amplitude, g), weight |-> Times(amplitude, g)]
Deposit(amplitude, g) == [clock |-> amplitude, weight |-> Times(amplitude, g)]

Stepped ==
  LET rows == 0 .. Batches * Heads - 1
      write(bh) == Gathered(Staged("write", bh))
      g(bh)     == bundle.gain[<<bh \div Heads, 0, bh % Heads>>]
  IN [read    |-> [bh \in rows |-> Gathered(Staged("read", bh))],
      deposit |-> [bh \in rows |-> [s \in 0 .. Capacity - 1 |-> Deposit(write(bh)[s], g(bh))]],
      rate    |-> [bh \in rows |-> IF dials = Unset THEN Unset ELSE Gathered(StagedDials(bh))]]

(* Refused before the launch: a dial that is 1 once it is fp32, more than  *)
(* one token, a gradient (drawn).                                          *)
TokensOf(f) == Cardinality({x[2] : x \in DOMAIN f.levels["read"]})
StepRefused(grads) == TokensOf(bundle) # 1 \/ grads \/ (dials # Unset /\ source.rounds)

DecodeOne ==
  /\ bstep = "ready"
  /\ \E grads \in BOOLEAN :
       LET refused == StepRefused(grads)
       IN /\ bstep' = IF refused THEN "refused" ELSE "decoded"
          /\ operands' = IF refused THEN operands ELSE Stepped
  /\ UNCHANGED <<allvars, ovars, bundle, dials, source>>

Handled == bstep \in {"planned", "decoded", "refused"} /\ UNCHANGED <<allvars, ovars, bvars>>

BundleInit ==
  OperatorInit /\ bstep = "idle" /\ bundle = Unset /\ dials = Unset /\ source = Unset /\ operands = Unset
BundleNext ==
  \/ bstep = "idle" /\ OperatorNext /\ UNCHANGED bvars
  \/ Produce \/ Foreign \/ Attach \/ PlanChunk \/ DecodeOne \/ Handled
BundleSpec == BundleInit /\ [][BundleNext]_<<allvars, ovars, bvars>>

---------------------------------------------------------------------------
(* read_simplex, and naive_rola over it.                                   *)
ReadSimplex(x) ==
  [l \in Level |->
     LET row == bundle.levels["read"][x][l]
         sum == Summed(bundle.opaque, "read", l, SolveRow(x[1], x[3]), x[2], row)
     IN [i \in Digit(l) |-> IF NeedsNormalization(l) THEN Over(row[i], sum) ELSE row[i]]]
ValidateInputs ==
  /\ \A side \in Side : DOMAIN bundle.levels[side] = Prefix(bundle.tokens)
  /\ DOMAIN bundle.gain = Prefix(bundle.tokens)
  /\ dials # Unset => DOMAIN dials = HeadOf
ValidateSimplex(side, x, levels) ==
  \A l \in Level :
    Summed(bundle.opaque, side, l, SolveRow(x[1], x[3]), x[2], levels[l]) = Unit
Naive(x) ==
  LET write == LeafOf(bundle.levels["write"][x])
  IN [read  |-> LeafOf(ReadSimplex(x)),
      weight |-> [s \in DOMAIN write |-> Times(bundle.gain[x], write[s])],
      clock |-> write,
      rate  |-> IF dials = Unset THEN Unset ELSE LeafOf(dials[x[3]])]

(* A row's mass is counted once, whoever produced the bundle and whoever   *)
(* takes it: the oracle accepts every bundle, reads a leaf with the        *)
(* product of its normalized cells, and the step and the plan read,        *)
(* deposit, and forget with the oracle's operands of that batch and head,  *)
(* the plan's read scaled by just the mass it hands on for the floor.      *)
MassIsCountedOnce ==
  bstep \in {"planned", "decoded"} =>
    /\ ValidateInputs
    /\ \A x \in Prefix(bundle.tokens) :
        LET bh == SolveRow(x[1], x[3])
            at == <<bh, x[2]>>
            n  == Naive(x)
            normal == [l \in Level |-> [i \in Digit(l) |->
                         Over(Cell("read", l, i, bh, x[2]), MassOf(bundle.opaque, "read", l, bh, x[2]))]]
        IN /\ ValidateSimplex("read", x, ReadSimplex(x))
           /\ ValidateSimplex("write", x, bundle.levels["write"][x])
           /\ n.read = LeafOf(normal)
           /\ bstep = "decoded" =>
                /\ operands.read[bh] = n.read /\ operands.rate[bh] = n.rate
                /\ operands.deposit[bh] =
                     [s \in DOMAIN n.clock |-> [clock |-> n.clock[s], weight |-> n.weight[s]]]
           /\ bstep = "planned" =>
                /\ \A s \in DOMAIN n.read : operands.read[at][s] = Times(operands.scale[at], n.read[s])
                /\ operands.write[at] = n.clock /\ operands.gain[at] = bundle.gain[x]
=============================================================================
