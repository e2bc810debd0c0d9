------------------------------ MODULE Checkout ------------------------------
(***************************************************************************)
(* The files of one checkout that the build and the ratification gate pass *)
(* to each other: the sources, the headers they generate, the incremental  *)
(* build's flags, the measurement cache, the manifests, the derivation     *)
(* record, the built extension, its record and the wheel.                  *)
(*   setup.py              RoLABuildExtension.run and its gates            *)
(*   tools/ratify.py       measure_units, main, the per-unit cache         *)
(*   tools/wheels.py       _clean_commit, _verify, split                   *)
(*   tools/build_lock.py   acquire                                         *)
(*                                                                         *)
(* A compile is the record of what its translation unit read.  One unit    *)
(* stands for every unit that reads what it reads: "carry" the arms, which *)
(* include carry_parts.inc; "decode" the unit whose arms are a -D; "stamp" *)
(* build_stamp.cu, which includes csrc_stamp.inc.  The tree declares one   *)
(* carry arm, so carry_selection.inc has one content and is left out, and  *)
(* an assembler no toolchain record names is refused before any step.      *)
(***************************************************************************)
EXTENDS Naturals, FiniteSets

CONSTANTS Src,       \* versions of the tree under csrc/
          Arch,      \* the ratified architectures
          Proc,      \* invocations that may be running at once
          Jobs,      \* which of AllJobs are started
          MaxJobs,   \* bound: jobs started
          MaxEdits,  \* bound: edits of the tree
          Quiet,     \* TRUE: nobody edits the tree while a job runs
          None

AllJobs == {"install", "strict", "skip", "stub", "subset", "wheel",
            "write", "write one", "check", "self-test", "derive"}
TU == {"carry", "decode", "stamp"}

ASSUME CheckoutAssumption ==
  /\ Src # {} /\ Arch # {}
  /\ Jobs \subseteq AllJobs
  /\ MaxJobs \in Nat /\ MaxEdits \in Nat /\ Quiet \in BOOLEAN

VARIABLES tree,    \* the version of csrc/ on disk
          head,    \* the last commit: [tree, man, der]
          parts,   \* build/generated/carry_parts.inc: "real", "stub" or None
          stamp,   \* build/generated/csrc_stamp.inc: the version it hashes
          ninja,   \* build/temp/build.ninja carries -DROLA_DECODE_ARMS
          cache,   \* build/temp/ratify_cache: a unit's [key, ent], or None
          man,     \* tools/manifests: per architecture [src, ent, shards]
          der,     \* tools/manifests/derivation.json: the version it measured
          so,      \* the extension built in place, a unit -> what it read
          rec,     \* rola_cu13/_build_config.py: [iteration, digest], or None
          wheel,   \* the last wheel: [commit, bin, man], or None
          proc,    \* the running invocations
          jobs, edits

disk == <<parts, stamp, ninja, cache>>
filed == <<man, der>>
made == <<so, rec, wheel>>
desk == <<tree, head, jobs, edits>>
vars == <<disk, filed, made, desk, proc>>

-----------------------------------------------------------------------------
(* What the jobs ask for. *)

Setup == {"install", "strict", "skip", "stub", "subset", "wheel"}
Iteration(job) == job \in {"stub", "subset"}
Strict(job) == job \in {"strict", "wheel"}
ArchsOf(job) == IF job = "write one" THEN {CHOOSE a \in Arch : TRUE} ELSE Arch

\* What a unit reads when it is compiled now, `sub` being the decode flag.
Reads(tu, sub) ==
  CASE tu = "carry"  -> <<tree, parts>>
    [] tu = "decode" -> <<tree, IF sub THEN "subset" ELSE "full">>
    [] tu = "stamp"  -> <<tree, stamp>>

\* What a shipped build of the version s reads.
Shipped(s) == [tu \in TU |-> <<s, CASE tu = "carry"  -> "real"
                                    [] tu = "decode" -> "full"
                                    [] tu = "stamp"  -> s>>]

\* manifest_digest: the entries and the shards, never the source block.
Digest(m) == [a \in Arch |-> [ent |-> m[a].ent, shards |-> m[a].shards]]

\* The manifests load together: one shard membership in all of them.
Loads == \A a, b \in Arch : man[a].shards = man[b].shards

Idle == [pc |-> "idle", job |-> None, left |-> {}, got |-> [tu \in TU |-> None],
         key |-> [tu \in TU |-> None], bin |-> None, want |-> None, commit |-> None]

\* Mutant: the flags are inherited with the subset in them.
InheritsSubset_Mutant == ninja

\* A measurement inherits build.ninja's flags, less the decode subset.
InheritsSubset == FALSE

\* _parse_report and sass_scan: a unit's entries, the report and the bodies of
\* what it assembles to, are a function of what it read.
Entries(tu) == Reads(tu, InheritsSubset)

\* derivation_record: the goldens come from the tree's own addressing header,
\* whatever build or measurement ran before.
Derivation == tree

\* _tu_fingerprint: the argv and the content of every input of the unit.
Fingerprint(p, tu) == <<ArchsOf(proc[p].job), Reads(tu, InheritsSubset)>>

At(p, pc) == proc[p].pc = pc
Goto(p, pc) == proc' = [proc EXCEPT ![p].pc = pc]
Leave(p) == proc' = [proc EXCEPT ![p] = Idle]

-----------------------------------------------------------------------------
Init ==
  /\ tree \in Src
  /\ \E s \in Src :
       /\ man = [a \in Arch |-> [src |-> s, ent |-> Shipped(s), shards |-> "table"]]
       /\ der = s
  /\ head = [tree |-> tree, man |-> man, der |-> der]
  /\ parts = None /\ stamp = None /\ ninja = FALSE
  /\ cache = [tu \in TU |-> None]
  /\ so = None /\ rec = None /\ wheel = None
  /\ proc = [p \in Proc |-> Idle]
  /\ jobs = 0 /\ edits = 0

(* The person at the checkout. *)

Edit ==
  /\ edits < MaxEdits
  /\ Quiet => \A p \in Proc : At(p, "idle")
  /\ tree' \in Src \ {tree} /\ edits' = edits + 1
  /\ UNCHANGED <<disk, filed, made, proc, head, jobs>>

Commit ==
  /\ \A p \in Proc : At(p, "idle")
  /\ head' = [tree |-> tree, man |-> man, der |-> der] /\ head' # head
  /\ UNCHANGED <<disk, filed, made, proc, tree, jobs, edits>>

Clean == head = [tree |-> tree, man |-> man, der |-> der]

\* A wheel is a commit: tools/wheels.py refuses a tree with changes.
Start(p, job) ==
  /\ At(p, "idle") /\ jobs < MaxJobs
  /\ job = "wheel" => Clean
  /\ proc' = [proc EXCEPT ![p] = [Idle EXCEPT
       !.job = job, !.commit = IF job = "wheel" THEN tree ELSE None,
       !.pc = CASE job \in Setup    -> "gates"
                [] job = "derive"   -> "derive"
                [] OTHER            -> "measure parts"]]
  /\ jobs' = jobs + 1
  /\ UNCHANGED <<disk, filed, made, tree, head, edits>>

\* Any step may refuse, raise or be killed; what is on disk stays as it is.
Stop(p) == ~At(p, "idle") /\ Leave(p) /\ UNCHANGED <<disk, filed, made, desk>>

-----------------------------------------------------------------------------
(* setup.py: RoLABuildExtension.run. *)

\* Rules 1, 3 and 5 and the shards; the manifests read here are the record's.
\* The assembler, the vendored pin and the shards may refuse: Stop.
Gates(p) ==
  /\ At(p, "gates")
  /\ Loads
  /\ proc' = [proc EXCEPT ![p].pc = "parts", ![p].want = man]
  /\ UNCHANGED <<disk, filed, made, desk>>

\* Mutant: the parts header is written by the build that stubs only.
WriteParts_Mutant(p) ==
  /\ At(p, "parts")
  /\ parts' = IF proc[p].job = "stub" THEN "stub" ELSE IF parts = None THEN "real" ELSE parts
  /\ Goto(p, "stamp")
  /\ UNCHANGED <<stamp, ninja, cache, filed, made, desk>>

WriteParts(p) ==
  /\ At(p, "parts")
  /\ parts' = IF proc[p].job = "stub" THEN "stub" ELSE "real"
  /\ Goto(p, "stamp")
  /\ UNCHANGED <<stamp, ninja, cache, filed, made, desk>>

WriteStamp(p) ==
  /\ At(p, "stamp")
  /\ stamp' = tree
  /\ Goto(p, "lock")
  /\ UNCHANGED <<parts, ninja, cache, filed, made, desk>>

\* A gate build holds the machine alone; iteration builds share it.
Acquire(p) ==
  /\ At(p, "lock")
  /\ \A q \in Proc \ {p} : At(q, "compile") =>
       Iteration(proc[p].job) /\ Iteration(proc[q].job)
  /\ ninja' = (proc[p].job = "subset")
  /\ proc' = [proc EXCEPT ![p].pc = "compile", ![p].left = TU]
  /\ UNCHANGED <<parts, stamp, cache, filed, made, desk>>

Compile(p, tu) ==
  /\ At(p, "compile") /\ tu \in proc[p].left
  /\ proc' = [proc EXCEPT ![p].left = @ \ {tu},
                          ![p].got[tu] = Reads(tu, proc[p].job = "subset")]
  /\ UNCHANGED <<disk, filed, made, desk>>

Link(p) ==
  /\ At(p, "compile") /\ proc[p].left = {}
  /\ so' = IF proc[p].job = "wheel" THEN so ELSE proc[p].got
  /\ proc' = [proc EXCEPT ![p].pc = "built", ![p].bin = proc[p].got,
                          ![p].got = Idle.got]
  /\ UNCHANGED <<disk, filed, rec, wheel, desk>>

\* _post_build_manifest_check: an iteration build and a skipped one go on,
\* the others run tools/ratify.py as a child.
PostBuild(p) ==
  /\ At(p, "built")
  /\ Goto(p, IF Iteration(proc[p].job) \/ proc[p].job = "skip" THEN "record"
             ELSE "measure parts")
  /\ UNCHANGED <<disk, filed, made, desk>>

\* The record is written beside the sources, and from there into the wheel.
Record(p) ==
  /\ At(p, "record")
  /\ rec' = [iteration |-> Iteration(proc[p].job), digest |-> Digest(proc[p].want)]
  /\ IF proc[p].job = "wheel" THEN Goto(p, "package") ELSE Leave(p)
  /\ UNCHANGED <<disk, filed, so, wheel, desk>>

\* tools/wheels.py: _verify against the manifests on disk, then split.
Package(p) ==
  /\ At(p, "package")
  /\ Loads /\ Digest(proc[p].want) = Digest(man)
  /\ wheel' = [commit |-> proc[p].commit, bin |-> proc[p].bin, man |-> man]
  /\ Leave(p)
  /\ UNCHANGED <<disk, filed, so, rec, desk>>

-----------------------------------------------------------------------------
(* tools/ratify.py: measure_units. *)

MeasureParts(p) ==
  /\ At(p, "measure parts")
  /\ parts' = "real"
  /\ Goto(p, "measure stamp")
  /\ UNCHANGED <<stamp, ninja, cache, filed, made, desk>>

MeasureStamp(p) ==
  /\ At(p, "measure stamp")
  /\ stamp' = tree
  /\ proc' = [proc EXCEPT ![p].pc = "measure", ![p].left = TU]
  /\ UNCHANGED <<parts, ninja, cache, filed, made, desk>>

\* A unit whose record has this fingerprint is not compiled.
Reuse(p, tu) ==
  /\ At(p, "measure") /\ tu \in proc[p].left /\ proc[p].got[tu] = None
  /\ cache[tu] # None /\ cache[tu].key = Fingerprint(p, tu)
  /\ proc' = [proc EXCEPT ![p].left = @ \ {tu}, ![p].got[tu] = cache[tu].ent]
  /\ UNCHANGED <<disk, filed, made, desk>>

\* The others are.  The content hashes are memoized per process, so a unit
\* that had a record is stored under what was hashed to look it up, and one
\* that had none under what is on disk after the compile.
Measure(p, tu) ==
  /\ At(p, "measure") /\ tu \in proc[p].left /\ proc[p].got[tu] = None
  /\ cache[tu] # None => cache[tu].key # Fingerprint(p, tu)
  /\ proc' = [proc EXCEPT
       ![p].got[tu] = Entries(tu),
       ![p].key[tu] = IF cache[tu] # None THEN Fingerprint(p, tu) ELSE None]
  /\ UNCHANGED <<disk, filed, made, desk>>

Store(p, tu) ==
  /\ At(p, "measure") /\ tu \in proc[p].left /\ proc[p].got[tu] # None
  /\ cache' = [cache EXCEPT ![tu] =
       [key |-> IF proc[p].key[tu] # None THEN proc[p].key[tu] ELSE Fingerprint(p, tu),
        ent |-> proc[p].got[tu]]]
  /\ proc' = [proc EXCEPT ![p].left = @ \ {tu}]
  /\ UNCHANGED <<parts, stamp, ninja, filed, made, desk>>

-----------------------------------------------------------------------------
(* tools/ratify.py: main. *)

Measured(p) == At(p, "measure") /\ proc[p].left = {}
Writes(p) == proc[p].job \in {"write", "write one"}

BeginWrite(p) ==
  /\ Measured(p) /\ Writes(p)
  /\ proc' = [proc EXCEPT ![p].pc = "write", ![p].left = ArchsOf(proc[p].job)]
  /\ UNCHANGED <<disk, filed, made, desk>>

\* One manifest: the source digest is taken as the file is written.
WriteManifest(p, a) ==
  /\ At(p, "write") /\ a \in proc[p].left
  /\ \A q \in Proc \ {p} : ~(At(q, "write") /\ proc[q].left # ArchsOf(proc[q].job))
  /\ man' = [man EXCEPT ![a] = [src |-> tree, ent |-> proc[p].got, shards |-> "table"]]
  /\ proc' = [proc EXCEPT ![p].left = @ \ {a},
                          ![p].pc = IF proc[p].left = {a} THEN "derive" ELSE @]
  /\ UNCHANGED <<disk, der, made, desk>>

Derive(p) ==
  /\ At(p, "derive")
  /\ der' = Derivation
  /\ Leave(p)
  /\ UNCHANGED <<disk, man, made, desk>>

Fresh == \A a \in Arch : man[a].src = tree
DerivationHolds == der = Derivation

\* check: the instantiation set is the ratified one.
EntriesHold(p) == \A a \in Arch : man[a].ent["decode"][2] = proc[p].got["decode"][2]

\* The hot loops, the local accesses and the assembled bodies are.
BodiesHold(p) == \A a \in Arch : man[a].ent = proc[p].got

\* Mutant: one architecture's manifest is loaded, and the others go unread.
Holds_Mutant(p) ==
  \E a \in Arch : man[a].src = tree /\ man[a].ent = proc[p].got /\ DerivationHolds

Holds(p) == Loads /\ Fresh /\ DerivationHolds /\ EntriesHold(p) /\ BodiesHold(p)

Verdict(p) ==
  /\ Measured(p) /\ ~Writes(p)
  /\ \/ Holds(p) /\ Goto(p, "passed")
     \/ ~Holds(p) /\ Strict(proc[p].job) /\ Leave(p)
     \/ ~Holds(p) /\ proc[p].job = "install" /\ Goto(p, "record")
     \/ ~Holds(p) /\ proc[p].job = "self-test" /\ Loads /\ Goto(p, "perturb")
     \/ ~Holds(p) /\ proc[p].job = "check" /\ Leave(p)
  /\ UNCHANGED <<disk, filed, made, desk>>

AfterVerdict(p) ==
  /\ At(p, "passed")
  /\ CASE proc[p].job \in Setup      -> Goto(p, "record")
       [] proc[p].job = "self-test"  -> Goto(p, "perturb")
       [] OTHER                      -> Leave(p)
  /\ UNCHANGED <<disk, filed, made, desk>>

\* The self-test files a foreign shard block in the last manifest, sees the
\* load refused and writes the saved text back; a kill in between leaves it.
Last == CHOOSE a \in Arch : a \notin ArchsOf("write one") \/ Arch = ArchsOf("write one")

Perturb(p) ==
  /\ At(p, "perturb")
  /\ man' = [man EXCEPT ![Last].shards = "foreign"]
  /\ proc' = [proc EXCEPT ![p].pc = "restore", ![p].want = man]
  /\ UNCHANGED <<disk, der, made, desk>>

Restore(p) ==
  /\ At(p, "restore")
  /\ man' = [man EXCEPT ![Last] = proc[p].want[Last]]
  /\ Leave(p)
  /\ UNCHANGED <<disk, der, made, desk>>

-----------------------------------------------------------------------------
Step(p) ==
  \/ \E job \in Jobs : Start(p, job)
  \/ Stop(p) \/ Gates(p) \/ WriteParts(p) \/ WriteStamp(p) \/ Acquire(p)
  \/ \E tu \in TU : Compile(p, tu) \/ Reuse(p, tu) \/ Measure(p, tu) \/ Store(p, tu)
  \/ Link(p) \/ PostBuild(p) \/ Record(p) \/ Package(p)
  \/ MeasureParts(p) \/ MeasureStamp(p)
  \/ BeginWrite(p) \/ (\E a \in Arch : WriteManifest(p, a)) \/ Derive(p)
  \/ Verdict(p) \/ AfterVerdict(p) \/ Perturb(p) \/ Restore(p)

Next == Edit \/ Commit \/ \E p \in Proc : Step(p)

Spec == Init /\ [][Next]_vars
-----------------------------------------------------------------------------
(***************************************************************************)
(* Properties.                                                             *)
(***************************************************************************)
Compiles(S) == [TU -> S]
Content == UNION {{s} \X ({"real", "stub", "subset", "full"} \cup Src) : s \in Src}
Manifest == [src : Src, ent : Compiles(Content), shards : {"table", "foreign"}]

TypeOK ==
  /\ tree \in Src /\ der \in Src
  /\ parts \in {None, "real", "stub"} /\ stamp \in Src \cup {None}
  /\ ninja \in BOOLEAN
  /\ man \in [Arch -> Manifest]
  /\ so = None \/ so \in Compiles(Content)

\* A gate that passes has a manifest of this very tree for every
\* architecture, each entry what the shipped build of the tree assembles to.
\* What was built, stubbed, measured, torn or killed before does not matter
\* (ratify.py main: load_manifest to check_sass_bodies).
PassedGateIsTrue ==
  \A p \in Proc : At(p, "passed") =>
    \A a \in Arch : man[a].src = tree /\ man[a].ent = Shipped(tree)

\* "What is replayed is a measurement of an identical compile", and "a
\* manifest is a measurement of a source tree": a unit's record answers to the
\* inputs it was compiled from, and whatever subset or stub was built before
\* it, each manifest holds the shipped arms of the source it names (ratify.py
\* _cache_write, measure_units and main).
FiledIsMeasured ==
  /\ \A tu \in TU : cache[tu] # None => cache[tu].key[2] = cache[tu].ent
  /\ \A a \in Arch : man[a].ent = Shipped(man[a].src)

\* A wheel is its commit: the binary is the shipped build of the committed
\* tree, and the manifests beside it were measured on that tree (wheels.py).
WheelIsItsCommit ==
  wheel # None =>
    /\ wheel.bin = Shipped(wheel.commit)
    /\ \A a \in Arch : wheel.man[a].ent = wheel.bin /\ wheel.man[a].src = wheel.commit
=============================================================================
