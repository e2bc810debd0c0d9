-------------------------------- MODULE Arms --------------------------------
(***************************************************************************)
(* The carry arms of a build, from the declaration to the binary:          *)
(*   tools/manifests/shipped_set.json   the declared rows                  *)
(*   tools/gen_shards.py                the reader, the units it generates *)
(*   csrc/rola/src/instantiations/      the generated units, checked in    *)
(*   build/generated/carry_selection.inc  the rows this build carries      *)
(*   setup.py                           the builds and their arm checks    *)
(* An arm is named three ways: its index in the declaration names its unit *)
(* and its symbol, the header names indices with their rows, and a call    *)
(* names a row.  The row (D, DV, warps_per_cta) is a number here, numbered *)
(* in canonical order, and indices count from one.                         *)
(***************************************************************************)
EXTENDS Naturals, Sequences, FiniteSets

CONSTANTS Rows,          \* the rows inside the declared domains
          Declarations,  \* what shipped_set.json may say: [head, rows]
          Builder,       \* builds that may be running at once, in one checkout
          MaxBuilds,     \* bound: builds started
          MaxDeclared,   \* bound: edits of the declaration
          Settled,       \* TRUE: nobody edits the declaration while a build runs
          Nothing

ASSUME ArmsAssumption ==
  /\ Rows \subseteq Nat
  /\ \A d \in Declarations : d.head \in BOOLEAN /\ d.rows \in Seq(Nat)
  /\ MaxBuilds \in Nat /\ MaxDeclared \in Nat /\ Settled \in BOOLEAN

VARIABLES decl,     \* shipped_set.json
          units,    \* the checked-in units: an owner's index -> [index, row] it defines
          header,   \* carry_selection.inc, or Nothing
          obj,      \* build/temp: a unit -> what it was compiled to; 0 is the dispatch
          bin,      \* the extension in place: [named, bodies], or Nothing
          build,    \* [Builder -> its process]
          builds, declared

files == <<decl, units, header>>
armsVars == <<files, obj, bin, build, builds, declared>>

-----------------------------------------------------------------------------
(* tools/gen_shards.py. *)

\* _load_shipped_set: schema, family, key and domains as this reader reads
\* them, every row inside its domains, none twice, in canonical order.
Accepts(d) ==
  /\ d.head
  /\ \A i \in DOMAIN d.rows : d.rows[i] \in Rows
  /\ \A i, j \in DOMAIN d.rows : i < j => d.rows[i] < d.rows[j]

KernelKey(row) == row

\* carry_tu_of: the lowest index of the rows that are one kernel.
Owner(t, i) == CHOOSE o \in DOMAIN t :
  /\ KernelKey(t[o]) = KernelKey(t[i])
  /\ \A j \in DOMAIN t : KernelKey(t[j]) = KernelKey(t[i]) => o <= j

Indexed(t, arms) == {<<i, t[i]>> : i \in arms}

\* generated: one unit per group, with the arms of the group.
Units(t) == [o \in {Owner(t, i) : i \in DOMAIN t} |->
               Indexed(t, {i \in DOMAIN t : Owner(t, i) = o})]

\* carry_selection_header, for arms the table has.
Selection(t, arms) ==
  [built |-> arms, count |-> Cardinality(arms), declared |-> Len(t), set |-> Indexed(t, arms)]

\* A header that names exactly these arms of this table.
Names(h, t, arms) ==
  /\ h.built = arms
  /\ h.count = Cardinality(arms) /\ h.declared = Len(t)
  /\ h.set = Indexed(t, arms)

\* gen_shards.py --check: the units on disk, and the header's own schema.
ShardsHold ==
  /\ Accepts(decl)
  /\ units = Units(decl.rows)
  /\ \A arms \in {DOMAIN decl.rows, {}} :
       Names(Selection(decl.rows, arms), decl.rows, arms)

-----------------------------------------------------------------------------
Resting == [pc |-> "idle", table |-> <<>>, want |-> {}, left |-> {}, saw |-> Nothing]

ArmsInit ==
  /\ decl \in {d \in Declarations : Accepts(d)}
  /\ units = Units(decl.rows)
  /\ header = Nothing
  /\ obj = [u \in {} |-> {}]
  /\ bin = Nothing
  /\ build = [b \in Builder |-> Resting]
  /\ builds = 0 /\ declared = 0

Is(b, pc) == build[b].pc = pc
Move(b, pc) == build' = [build EXCEPT ![b].pc = pc]

(* The person at the checkout, and the tools that write beside a build. *)

Declare(d) ==
  /\ declared < MaxDeclared /\ d # decl
  /\ Settled => \A b \in Builder : Is(b, "idle")
  /\ decl' = d /\ declared' = declared + 1
  /\ UNCHANGED <<units, header, obj, bin, build, builds>>

\* gen_shards.py --write: every unit written, every stale one removed.
WriteUnits ==
  /\ Accepts(decl) /\ units # Units(decl.rows)
  /\ units' = Units(decl.rows)
  /\ UNCHANGED <<decl, header, obj, bin, build, builds, declared>>

\* tools/ratify.py: measure_units names every declared arm.
MeasureArms ==
  /\ Accepts(decl)
  /\ header' = Selection(decl.rows, DOMAIN decl.rows) /\ header' # header
  /\ UNCHANGED <<decl, units, obj, bin, build, builds, declared>>

-----------------------------------------------------------------------------
(* setup.py: the arms of one build. *)

\* The table is read at import; ROLA_CARRY_ARMS names some of its rows, and
\* every row when it is unset.
Import(b, want) ==
  /\ Is(b, "idle") /\ builds < MaxBuilds
  /\ Accepts(decl)
  /\ want \subseteq DOMAIN decl.rows
  /\ want = {} => decl.rows = <<>>
  /\ build' = [build EXCEPT ![b] = [Resting EXCEPT
                 !.pc = "shards", !.table = decl.rows, !.want = want]]
  /\ builds' = builds + 1
  /\ UNCHANGED <<files, obj, bin, declared>>

Whole(b) == build[b].want = DOMAIN build[b].table

\* _gate_shards, in a process of its own, which reads the declaration again.
GateShards(b) ==
  /\ Is(b, "shards") /\ ShardsHold
  /\ Move(b, "select")
  /\ UNCHANGED <<files, obj, bin, builds, declared>>

\* _write_carry_selection, before the machine's lock is asked for.
Select(b) ==
  /\ Is(b, "select")
  /\ header' = Selection(build[b].table, build[b].want)
  /\ Move(b, "lock")
  /\ UNCHANGED <<decl, units, obj, bin, builds, declared>>

\* The dispatch (0), and the unit of every selected arm.
SourcesOf(b) == {0} \cup {Owner(build[b].table, i) : i \in build[b].want}

\* A build of every arm holds the machine alone; subset builds share it.
TakeSlots(b) ==
  /\ Is(b, "lock")
  /\ \A c \in Builder \ {b} : Is(c, "compile") => ~Whole(b) /\ ~Whole(c)
  /\ build' = [build EXCEPT ![b].pc = "compile", ![b].left = SourcesOf(b)]
  /\ UNCHANGED <<files, obj, bin, builds, declared>>

\* The dispatch declares the header's set; a unit defines those of its arms
\* that the header selects.
CompileArm(b, u) ==
  /\ Is(b, "compile") /\ u \in build[b].left
  /\ u # 0 => u \in DOMAIN units
  /\ obj' = [v \in DOMAIN obj \cup {u} |->
       IF v # u THEN obj[v]
       ELSE IF u = 0 THEN header.set
       ELSE {a \in units[u] : a[1] \in header.built}]
  /\ build' = [build EXCEPT ![b].left = @ \ {u}]
  /\ UNCHANGED <<files, bin, builds, declared>>

LinkArms(b) ==
  /\ Is(b, "compile") /\ build[b].left = {}
  /\ bin' = [named |-> obj[0], bodies |-> UNION {obj[u] : u \in SourcesOf(b) \ {0}}]
  /\ Move(b, "table")
  /\ UNCHANGED <<files, obj, builds, declared>>

\* Mutant: the header is taken for the binary, which is not asked.
Sweep_Mutant(b) == bin # Nothing

\* _arm_coverage_sweep: the binary loads (no symbol it names is undefined),
\* and the rows it reports are the rows this build selected.
Sweep(b) ==
  /\ {a[1] : a \in bin.named} \subseteq {a[1] : a \in bin.bodies}
  /\ {a[2] : a \in bin.named} = {build[b].table[i] : i \in build[b].want}

\* _post_build_arm_table_check; a failure is fatal: Abandon.
TableCheck(b) ==
  /\ Is(b, "table")
  /\ Accepts(decl) /\ decl.rows = build[b].table
  /\ Names(header, build[b].table, build[b].want)
  /\ Sweep(b)
  /\ build' = [build EXCEPT ![b].pc = "checked", ![b].saw = bin]
  /\ UNCHANGED <<files, obj, bin, builds, declared>>

\* A build ends after its checks, or refuses or is killed at any step.
Abandon(b) ==
  /\ ~Is(b, "idle")
  /\ build' = [build EXCEPT ![b] = Resting]
  /\ UNCHANGED <<files, obj, bin, builds, declared>>

BuildStep(b) ==
  \/ \E want \in SUBSET DOMAIN decl.rows : Import(b, want)
  \/ GateShards(b) \/ Select(b) \/ TakeSlots(b)
  \/ \E u \in build[b].left : CompileArm(b, u)
  \/ LinkArms(b) \/ TableCheck(b) \/ Abandon(b)

ArmsNext ==
  \/ \E d \in Declarations : Declare(d)
  \/ WriteUnits \/ MeasureArms
  \/ \E b \in Builder : BuildStep(b)

ArmsSpec == ArmsInit /\ [][ArmsNext]_armsVars
-----------------------------------------------------------------------------
\* Every variable holds what its file or process may hold.
ArmsTypeOK ==
  /\ decl \in Declarations
  /\ \A o \in DOMAIN units : units[o] \subseteq Nat \X Nat
  /\ header = Nothing \/ header.set \subseteq Nat \X Nat
  /\ \A u \in DOMAIN obj : obj[u] \subseteq Nat \X Nat
  /\ bin = Nothing \/ bin.named \cup bin.bodies \subseteq Nat \X Nat
  /\ build \in [Builder -> [pc : {"idle", "shards", "select", "lock", "compile", "table", "checked"},
                            table : Seq(Nat), want : SUBSET Nat, left : SUBSET Nat,
                            saw : {build[b].saw : b \in Builder}]]
  /\ builds \in 0..MaxBuilds /\ declared \in 0..MaxDeclared

\* A binary that passed its build's arm checks carries exactly the arms the
\* build selected, and the body behind each row is that row's, whatever other
\* builds, measurements and regenerations wrote in the same checkout while it
\* was compiling (setup.py _post_build_arm_table_check).
BinaryIsItsSelection ==
  \A b \in Builder : Is(b, "checked") =>
    LET mine == Indexed(build[b].table, build[b].want)
    IN  build[b].saw.named = mine /\ mine \subseteq build[b].saw.bodies
=============================================================================
