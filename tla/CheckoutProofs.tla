--------------------------- MODULE CheckoutProofs ---------------------------
(***************************************************************************)
(* What the checkout's gates let through: commits, the arms of a build,    *)
(* manifests and wheels.                                                   *)
(***************************************************************************)
EXTENDS Checkout, Commits, TLAPS

(***************************************************************************)
(* Commits.  A pin that says it was reviewed was read at the digest it     *)
(* pins, in this lock and in HEAD's, which a new worktree starts from.     *)
(* For any docs, targets and contents, and any number of edits by hand.    *)
(***************************************************************************)
ReadPins(lock) ==
  lock # Nothing => \A k \in DOMAIN lock : lock[k].reviewed => <<k, lock[k].sha>> \in seen

PinsInv == ReadPins(pins) /\ ReadPins(last.pins)

LEMMA SeenGrows ==
  ASSUME NEW lock, ReadPins(lock), seen \subseteq seen'
  PROVE  ReadPins(lock)'
BY DEF ReadPins

LEMMA UnreadHolds == ReadPins(Unread)
<1>. SUFFICES ASSUME NEW k \in DOMAIN Unread, Unread[k].reviewed
              PROVE  <<k, Unread[k].sha>> \in seen
  BY DEF ReadPins
<1>1. Unread[k] = [sha |-> Read(k), reviewed |-> FALSE]
  BY DEF Unread
<1>. QED
  BY <1>1

LEMMA AcceptKeeps ==
  ASSUME NEW d, NEW whole, Accept(d, whole), ReadPins(pins)
  PROVE  ReadPins(pins)'
<1>1. PICK now : now = Accepted(d, whole)
  OBVIOUS
<1>2. /\ pins # Nothing /\ seen' = seen \cup ReadNow(d, whole)
      /\ pins' = [k \in DOMAIN pins \cup now |->
                    IF k \in now THEN [sha |-> Read(k), reviewed |-> TRUE] ELSE pins[k]]
  BY <1>1 DEF Accept
<1>3. ASSUME NEW k \in now  PROVE <<k, Read(k)>> \in seen'
  <2>1. k \in {j \in Cites : j[1] = d /\ (whole \/ j \in New \/ pins[j].sha # Read(j))}
    BY <1>1, <1>3 DEF Accepted
  <2>2. <<k, Read(k)>> \in ReadNow(d, whole)
    BY <2>1 DEF ReadNow
  <2>. QED
    BY <1>2, <2>2
<1>4. ASSUME NEW k \in DOMAIN pins', pins'[k].reviewed
      PROVE  <<k, pins'[k].sha>> \in seen'
  <2>1. CASE k \in now
    <3>1. pins'[k] = [sha |-> Read(k), reviewed |-> TRUE]
      BY <1>2, <2>1
    <3>. QED
      BY <1>3, <2>1, <3>1
  <2>2. CASE k \notin now
    <3>1. k \in DOMAIN pins /\ pins'[k] = pins[k]
      BY <1>2, <2>2
    <3>. QED
      BY <1>2, <1>4, <3>1 DEF ReadPins
  <2>. QED
    BY <2>1, <2>2
<1>. QED
  BY <1>4 DEF ReadPins

LEMMA PruneKeeps ==
  ASSUME Prune, ReadPins(pins)
  PROVE  ReadPins(pins)'
<1>1. pins # Nothing /\ pins' = [k \in DOMAIN pins \cap Cites |-> pins[k]] /\ seen' = seen
  BY DEF Prune
<1>2. ASSUME NEW k \in DOMAIN pins'  PROVE k \in DOMAIN pins /\ pins'[k] = pins[k]
  BY <1>1
<1>. QED
  BY <1>1, <1>2 DEF ReadPins

LEMMA InitPins == CommitsInit => PinsInv
<1>. SUFFICES ASSUME CommitsInit  PROVE PinsInv
  OBVIOUS
<1>1. pins \in {Nothing, Unread} /\ last.pins = pins
  BY DEF CommitsInit, Staged
<1>2. ReadPins(pins)
  BY <1>1, UnreadHolds DEF ReadPins
<1>. QED
  BY <1>1, <1>2 DEF PinsInv

LEMMA NextPins == PinsInv /\ [CommitsNext]_commitVars => PinsInv'
<1>. SUFFICES ASSUME PinsInv, [CommitsNext]_commitVars  PROVE PinsInv'
  OBVIOUS
<1>1. ReadPins(pins) /\ ReadPins(last.pins)
  BY DEF PinsInv
<1>2. CASE DocWork
  <2>1. UNCHANGED last /\ seen \subseteq seen'
    BY <1>2 DEF DocWork, InitRefs, Prune, Accept, EditDoc, EditTarget, DropLock, gateVars
  <2>2. ReadPins(last.pins)'
    BY <1>1, <2>1 DEF ReadPins
  <2>3. CASE InitRefs
    <3>1. pins' = Unread /\ seen' = seen
      BY <2>3 DEF InitRefs
    <3>. QED
      BY <2>2, <3>1, UnreadHolds DEF PinsInv, ReadPins
  <2>4. CASE Prune
    BY <1>1, <2>2, <2>4, PruneKeeps DEF PinsInv
  <2>5. ASSUME NEW s \in Spans, NEW whole \in BOOLEAN, Accept(s.doc, whole)  PROVE PinsInv'
    BY <1>1, <2>2, <2>5, AcceptKeeps DEF PinsInv
  <2>6. ASSUME NEW s \in Spans, EditDoc(s) \/ EditTarget(s.target)  PROVE PinsInv'
    BY <1>1, <2>1, <2>2, <2>6 DEF PinsInv, EditDoc, EditTarget, ReadPins
  <2>7. CASE DropLock
    BY <2>2, <2>7 DEF PinsInv, DropLock, ReadPins
  <2>. QED
    BY <1>2, <2>3, <2>4, <2>5, <2>6, <2>7 DEF DocWork
<1>3. ASSUME UNCHANGED <<pins, seen, last>>  PROVE PinsInv'
  BY <1>1, <1>3 DEF PinsInv, ReadPins
<1>4. CASE LintWork
  BY <1>3, <1>4 DEF LintWork, InitBaseline, Shrink, EditBaseline, EditSource, Rename, docVars, gateVars
<1>5. CASE EnvWork
  BY <1>3, <1>5 DEF EnvWork, ContainerCheck, EditEnv, docVars
<1>6. CASE UnitWork
  BY <1>3, <1>6 DEF UnitWork, docVars, gateVars
<1>7. CASE DevInit
  BY <1>3, <1>7 DEF DevInit, docVars
<1>8. ASSUME NEW byHand \in BOOLEAN, Worktree(byHand)  PROVE PinsInv'
  BY <1>1, <1>8 DEF PinsInv, Worktree, ReadPins
<1>9. CASE GitCommit
  <2>1. last'.pins = pins /\ UNCHANGED <<pins, seen>>
    BY <1>9 DEF GitCommit, Staged, docVars
  <2>. QED
    BY <1>1, <2>1 DEF PinsInv, ReadPins
<1>10. CASE UNCHANGED commitVars
  BY <1>3, <1>10 DEF commitVars, docVars, gateVars
<1>. QED
  BY <1>2, <1>4, <1>5, <1>6, <1>7, <1>8, <1>9, <1>10 DEF CommitsNext, GitWork

(* A pin that says it was reviewed was read at its digest (docrefs.py      *)
(* accept, init and prune), in the lock on disk and in HEAD's.             *)
THEOREM PinsAreRead == CommitsSpec => []PinsInv
BY InitPins, NextPins, PTL DEF CommitsSpec

(* A closed docs pass has read everything cited as it reads today.         *)
THEOREM ClosedHolds == CommitsSpec => []ClosedIsRead
<1>1. PinsInv => ClosedIsRead
  <2>. SUFFICES ASSUME PinsInv, Closing, NEW k \in Cites
                PROVE  Read(k) # Gone /\ <<k, Read(k)>> \in seen
    BY DEF ClosedIsRead
  <2>1. /\ pins # Nothing /\ New = {} /\ Pending = {} /\ Broken(pins) = {}
        /\ \A j \in DOMAIN pins : pins[j].reviewed
    BY DEF Closing, RefsHold
  <2>2. k \in DOMAIN pins
    BY <2>1 DEF New
  <2>3. pins[k].sha # Gone
    BY <2>1, <2>2 DEF Broken
  <2>4. Read(k) = pins[k].sha
    BY <2>1, <2>2, <2>3 DEF Pending
  <2>. QED
    BY <2>1, <2>2, <2>3, <2>4 DEF PinsInv, ReadPins
<1>. QED
  BY <1>1, PinsAreRead, PTL

(* No checkout commits past the hooks once they are wired.                 *)
THEOREM CommitsAreChecked == CommitsSpec => NoCommitUnchecked
<1>1. CommitsInit => wired \in BOOLEAN
  BY DEF CommitsInit
<1>2. wired \in BOOLEAN /\ [CommitsNext]_commitVars => (wired \in BOOLEAN)'
  BY DEF CommitsNext, commitVars, gateVars, DocWork, InitRefs, Prune, Accept, EditDoc, EditTarget,
         DropLock, LintWork, InitBaseline, Shrink, EditBaseline, EditSource, Rename, EnvWork,
         ContainerCheck, EditEnv, UnitWork, GitWork, DevInit, Worktree, GitCommit
<1>3. ASSUME wired \in BOOLEAN, [CommitsNext]_commitVars, last' # last, shared
      PROVE  /\ Cites = DOMAIN last'.pins
             /\ last'.units = Units(last'.decl.rows)
             /\ last'.env = last.env \/ checks[last'.env] = "green"
  <2>1. GitCommit
    BY <1>3 DEF CommitsNext, commitVars, gateVars, DocWork, InitRefs, Prune, Accept, EditDoc,
           EditTarget, DropLock, LintWork, InitBaseline, Shrink, EditBaseline, EditSource, Rename,
           EnvWork, ContainerCheck, EditEnv, UnitWork, GitWork, DevInit, Worktree
  <2>2. HooksPass /\ last' = Staged
    BY <1>3, <2>1 DEF GitCommit
  <2>3. /\ last'.pins = pins /\ last'.units = units /\ last'.decl = decl /\ last'.env = env
    BY <2>2 DEF Staged
  <2>4. Cites = DOMAIN pins
    BY <2>2 DEF HooksPass, RefsHold, New, Stale
  <2>5. units = Units(decl.rows)
    BY <2>2 DEF HooksPass, ShardsHold
  <2>6. env = last.env \/ checks[env] = "green"
    BY <2>2 DEF HooksPass, ContainerGate
  <2>. QED
    BY <2>3, <2>4, <2>5, <2>6
<1>4. wired \in BOOLEAN /\ [CommitsNext]_commitVars
        => [last' # last /\ shared =>
              /\ Cites = DOMAIN last'.pins
              /\ last'.units = Units(last'.decl.rows)
              /\ last'.env = last.env \/ checks[last'.env] = "green"]_commitVars
  BY <1>3
<1>. QED
  BY <1>1, <1>2, <1>4, PTL DEF CommitsSpec, NoCommitUnchecked

(***************************************************************************)
(* The arms of a build.  While a build runs nobody edits the declaration   *)
(* (Settled); other builds, of other selections, measurements and writers  *)
(* of units run beside it and share its header, its objects and the        *)
(* binary.  Whatever they write is of the one table, so what a binary      *)
(* names is some selection of that table; and the sweep, which compares    *)
(* rows, can take no other selection for this one, since no row is twice   *)
(* in an accepted table.  Any number of builds, of arms and of edits.      *)
(***************************************************************************)
Binary  == [named : SUBSET (Nat \X Nat), bodies : SUBSET (Nat \X Nat)]
Process == [pc : {"idle", "shards", "select", "lock", "compile", "table", "checked"},
            table : Seq(Nat), want : SUBSET Nat, left : SUBSET Nat, saw : {Nothing} \cup Binary]

ArmsTyped ==
  /\ decl \in Declarations /\ decl.rows \in Seq(Nat)
  /\ build \in [Builder -> Process] /\ bin \in {Nothing} \cup Binary

Running(b) == ~ Is(b, "idle")
Gated(b)   == build[b].pc \in {"select", "lock", "compile", "table", "checked"}
Chosen(b)  == build[b].pc \in {"lock", "compile", "table"}

(* The header, an object of unit u, and the binary, made from the table t. *)
Headed(t) == \E arms \in SUBSET DOMAIN t : header = Selection(t, arms)
Compiled(u, t) ==
  /\ u \in DOMAIN obj
  /\ u = 0 => \E arms \in SUBSET DOMAIN t : obj[u] = Indexed(t, arms)
  /\ u # 0 => obj[u] \subseteq Indexed(t, DOMAIN t)
Linked(t) ==
  /\ \E arms \in SUBSET DOMAIN t : bin.named = Indexed(t, arms)
  /\ bin.bodies \subseteq Indexed(t, DOMAIN t)

Believed(b) ==
  LET mine == Indexed(build[b].table, build[b].want)
  IN  build[b].saw.named = mine /\ mine \subseteq build[b].saw.bodies

BuildInv(b) ==
  /\ Running(b) => /\ Accepts(decl) /\ build[b].table = decl.rows
                   /\ build[b].want \subseteq DOMAIN decl.rows
  /\ Gated(b) => units = Units(decl.rows)
  /\ Chosen(b) => Headed(decl.rows)
  /\ Is(b, "compile") => \A u \in SourcesOf(b) \ build[b].left : Compiled(u, decl.rows)
  /\ Is(b, "table") => Linked(decl.rows)
  /\ Is(b, "checked") => Believed(b)

ArmsInv == ArmsTyped /\ \A b \in Builder : BuildInv(b)

LEMMA TableTyped ==
  ASSUME ArmsTyped
  PROVE  /\ DOMAIN decl.rows \subseteq Nat
         /\ \A i \in DOMAIN decl.rows : decl.rows[i] \in Nat /\ <<i, decl.rows[i]>> \in Nat \X Nat
<1>1. decl.rows \in Seq(Nat)
  BY DEF ArmsTyped
<1>2. DOMAIN decl.rows = 1 .. Len(decl.rows) /\ Len(decl.rows) \in Nat
  BY <1>1
<1>3. \A i \in 1 .. Len(decl.rows) : decl.rows[i] \in Nat
  BY <1>1
<1>. QED
  BY <1>2, <1>3

LEMMA IndexedTyped ==
  ASSUME ArmsTyped, NEW arms \in SUBSET DOMAIN decl.rows
  PROVE  /\ Indexed(decl.rows, arms) \subseteq Nat \X Nat
         /\ Indexed(decl.rows, arms) \subseteq Indexed(decl.rows, DOMAIN decl.rows)
BY TableTyped DEF Indexed

LEMMA SelectionSet ==
  ASSUME NEW t, NEW arms
  PROVE  Selection(t, arms).set = Indexed(t, arms)
BY DEF Selection

LEMMA UnitIsRows ==
  ASSUME NEW t, NEW u \in DOMAIN Units(t)
  PROVE  Units(t)[u] \subseteq Indexed(t, DOMAIN t)
<1>1. Units(t)[u] = Indexed(t, {i \in DOMAIN t : Owner(t, i) = u})
  BY DEF Units
<1>. QED
  BY <1>1 DEF Indexed

(* An accepted table has no row twice, so its rows tell its indices.       *)
LEMMA RowsTellIndices ==
  ASSUME ArmsTyped, Accepts(decl), NEW i \in DOMAIN decl.rows, NEW j \in DOMAIN decl.rows,
         decl.rows[i] = decl.rows[j]
  PROVE  i = j
<1>1. i \in Nat /\ j \in Nat /\ decl.rows[i] \in Nat /\ decl.rows[j] \in Nat
  BY TableTyped
<1>2. i < j => decl.rows[i] < decl.rows[j]
  BY DEF Accepts
<1>3. j < i => decl.rows[j] < decl.rows[i]
  BY DEF Accepts
<1>. QED
  BY <1>1, <1>2, <1>3

(* In an accepted table every row is a kernel of its own.                  *)
LEMMA OwnerIsItself ==
  ASSUME ArmsTyped, Accepts(decl), NEW i \in DOMAIN decl.rows
  PROVE  Owner(decl.rows, i) = i
<1>. DEFINE Owns(o) == /\ KernelKey(decl.rows[o]) = KernelKey(decl.rows[i])
                       /\ \A j \in DOMAIN decl.rows :
                            KernelKey(decl.rows[j]) = KernelKey(decl.rows[i]) => o <= j
<1>1. ASSUME NEW o \in DOMAIN decl.rows, Owns(o)  PROVE o = i
  BY <1>1, RowsTellIndices DEF KernelKey
<1>2. Owns(i)
  <2>1. ASSUME NEW j \in DOMAIN decl.rows, KernelKey(decl.rows[j]) = KernelKey(decl.rows[i])
        PROVE  i <= j
    <3>1. j = i /\ i \in Nat
      BY <2>1, RowsTellIndices, TableTyped DEF KernelKey
    <3>. QED
      BY <3>1
  <2>. QED
    BY <2>1
<1>3. Owner(decl.rows, i) = CHOOSE o \in DOMAIN decl.rows : Owns(o)
  BY DEF Owner
<1>. HIDE DEF Owns
<1>4. Owner(decl.rows, i) \in DOMAIN decl.rows /\ Owns(Owner(decl.rows, i))
  BY <1>2, <1>3
<1>. QED
  BY <1>1, <1>4

(* One build's record is written, the others' stay.                        *)
LEMMA Wrote ==
  ASSUME ArmsTyped, NEW c \in Builder, NEW r \in Process, build' = [build EXCEPT ![c] = r],
         decl' = decl, bin' \in {Nothing} \cup Binary
  PROVE  /\ ArmsTyped' /\ build'[c] = r
         /\ \A b \in Builder : b # c => build'[b] = build[b]
BY DEF ArmsTyped

LEMMA Moved ==
  ASSUME ArmsTyped, NEW c \in Builder, decl' = decl, bin' \in {Nothing} \cup Binary,
         NEW to \in {"idle", "shards", "select", "lock", "compile", "table", "checked"}, Move(c, to)
  PROVE  /\ ArmsTyped'
         /\ build'[c].pc = to /\ build'[c].table = build[c].table /\ build'[c].want = build[c].want
         /\ build'[c].left = build[c].left /\ build'[c].saw = build[c].saw
         /\ \A b \in Builder : b # c => build'[b] = build[b]
<1>1. PICK r : r = [build[c] EXCEPT !.pc = to]
  OBVIOUS
<1>2. build[c] \in Process
  BY DEF ArmsTyped
<1>3. /\ r \in Process /\ r.pc = to /\ r.table = build[c].table /\ r.want = build[c].want
      /\ r.left = build[c].left /\ r.saw = build[c].saw
  BY <1>1, <1>2 DEF Process
<1>4. build' = [build EXCEPT ![c] = r]
  BY <1>1 DEF Move
<1>. QED
  BY <1>3, <1>4, Wrote

(* A build beside another's step.                                          *)
LEMMA Beside ==
  ASSUME NEW b, BuildInv(b), build'[b] = build[b], decl' = decl,
         units' = units \/ units' = Units(decl.rows),
         Headed(decl.rows) => Headed(decl.rows)',
         \A u : Compiled(u, decl.rows) => Compiled(u, decl.rows)',
         Linked(decl.rows) => Linked(decl.rows)'
  PROVE  BuildInv(b)'
<1>1. /\ Running(b)' = Running(b) /\ Gated(b)' = Gated(b) /\ Chosen(b)' = Chosen(b)
      /\ SourcesOf(b)' = SourcesOf(b) /\ Believed(b)' = Believed(b)
      /\ Is(b, "compile")' = Is(b, "compile") /\ Is(b, "table")' = Is(b, "table")
      /\ Is(b, "checked")' = Is(b, "checked")
  BY DEF Running, Gated, Chosen, SourcesOf, Believed, Is
<1>2. Running(b)' => /\ Accepts(decl)' /\ build'[b].table = decl'.rows
                     /\ build'[b].want \subseteq DOMAIN decl'.rows
  BY <1>1 DEF BuildInv, Accepts
<1>3. Gated(b)' => units' = Units(decl.rows)'
  BY <1>1 DEF BuildInv
<1>4. Chosen(b)' => Headed(decl.rows)'
  BY <1>1 DEF BuildInv
<1>5. Is(b, "compile")' => \A u \in SourcesOf(b)' \ build'[b].left : Compiled(u, decl.rows)'
  BY <1>1 DEF BuildInv
<1>6. (Is(b, "table")' => Linked(decl.rows)') /\ (Is(b, "checked")' => Believed(b)')
  BY <1>1 DEF BuildInv
<1>. QED
  BY <1>2, <1>3, <1>4, <1>5, <1>6 DEF BuildInv

LEMMA ImportKeeps ==
  ASSUME ArmsInv, NEW c \in Builder, NEW want, Import(c, want)
  PROVE  ArmsInv'
<1>1. PICK r : r = [Resting EXCEPT !.pc = "shards", !.table = decl.rows, !.want = want]
  OBVIOUS
<1>2. /\ build' = [build EXCEPT ![c] = r] /\ UNCHANGED <<files, obj, bin>>
      /\ Accepts(decl) /\ want \subseteq DOMAIN decl.rows /\ ArmsTyped
  BY <1>1 DEF Import, ArmsInv
<1>3. r = [pc |-> "shards", table |-> decl.rows, want |-> want, left |-> {}, saw |-> Nothing]
  BY <1>1 DEF Resting
<1>4. r \in Process
  BY <1>2, <1>3, TableTyped DEF Process, ArmsTyped
<1>5. /\ ArmsTyped' /\ build'[c] = r
      /\ \A b \in Builder : b # c => build'[b] = build[b]
  BY <1>2, <1>4, Wrote DEF files, ArmsTyped
<1>6. BuildInv(c)'
  BY <1>2, <1>3, <1>5 DEF BuildInv, Running, Gated, Chosen, Is, files, Accepts
<1>7. ASSUME NEW b \in Builder, b # c  PROVE BuildInv(b)'
  BY <1>2, <1>5, <1>7, Beside DEF ArmsInv, files, Headed, Compiled, Linked
<1>. QED
  BY <1>5, <1>6, <1>7 DEF ArmsInv

LEMMA ShardsKeeps ==
  ASSUME ArmsInv, NEW c \in Builder, GateShards(c)
  PROVE  ArmsInv'
<1>1. /\ ArmsTyped /\ BuildInv(c) /\ Is(c, "shards") /\ Move(c, "select")
      /\ units = Units(decl.rows) /\ UNCHANGED <<files, obj, bin>>
  BY DEF GateShards, ArmsInv, ShardsHold
<1>2. /\ ArmsTyped' /\ build'[c].pc = "select" /\ build'[c].table = build[c].table
      /\ build'[c].want = build[c].want /\ \A b \in Builder : b # c => build'[b] = build[b]
  BY <1>1, Moved DEF files, ArmsTyped
<1>3. BuildInv(c)'
  BY <1>1, <1>2 DEF BuildInv, Running, Gated, Chosen, Is, files, Accepts
<1>4. ASSUME NEW b \in Builder, b # c  PROVE BuildInv(b)'
  BY <1>1, <1>2, <1>4, Beside DEF ArmsInv, files, Headed, Compiled, Linked
<1>. QED
  BY <1>2, <1>3, <1>4 DEF ArmsInv

LEMMA SelectKeeps ==
  ASSUME ArmsInv, NEW c \in Builder, Select(c)
  PROVE  ArmsInv'
<1>1. /\ ArmsTyped /\ BuildInv(c) /\ Is(c, "select") /\ Move(c, "lock")
      /\ header' = Selection(build[c].table, build[c].want)
      /\ UNCHANGED <<decl, units, obj, bin>>
  BY DEF Select, ArmsInv
<1>2. /\ Accepts(decl) /\ build[c].table = decl.rows /\ build[c].want \subseteq DOMAIN decl.rows
      /\ units = Units(decl.rows)
  BY <1>1 DEF BuildInv, Running, Gated, Is
<1>3. /\ ArmsTyped' /\ build'[c].pc = "lock" /\ build'[c].table = build[c].table
      /\ build'[c].want = build[c].want /\ \A b \in Builder : b # c => build'[b] = build[b]
  BY <1>1, Moved DEF ArmsTyped
<1>4. Headed(decl.rows)'
  BY <1>1, <1>2 DEF Headed
<1>5. BuildInv(c)'
  BY <1>1, <1>2, <1>3, <1>4 DEF BuildInv, Running, Gated, Chosen, Is, Accepts
<1>6. ASSUME NEW b \in Builder, b # c  PROVE BuildInv(b)'
  BY <1>1, <1>3, <1>4, <1>6, Beside DEF ArmsInv, Compiled, Linked
<1>. QED
  BY <1>3, <1>5, <1>6 DEF ArmsInv

LEMMA SlotsKeep ==
  ASSUME ArmsInv, NEW c \in Builder, TakeSlots(c)
  PROVE  ArmsInv'
<1>1. PICK r : r = [build[c] EXCEPT !.pc = "compile", !.left = SourcesOf(c)]
  OBVIOUS
<1>2. /\ ArmsTyped /\ BuildInv(c) /\ Is(c, "lock") /\ UNCHANGED <<files, obj, bin>>
      /\ build[c] \in Process
  BY DEF TakeSlots, ArmsInv, ArmsTyped
<1>3. /\ Accepts(decl) /\ build[c].table = decl.rows /\ build[c].want \subseteq DOMAIN decl.rows
      /\ units = Units(decl.rows) /\ Headed(decl.rows)
  BY <1>2 DEF BuildInv, Running, Gated, Chosen, Is
<1>4. SourcesOf(c) \subseteq Nat
  BY <1>2, <1>3, OwnerIsItself, TableTyped DEF SourcesOf
<1>5. /\ r \in Process /\ r.pc = "compile" /\ r.table = build[c].table /\ r.want = build[c].want
      /\ r.left = SourcesOf(c)
  BY <1>1, <1>2, <1>4 DEF Process
<1>6. build' = [build EXCEPT ![c] = r]
  BY <1>1 DEF TakeSlots
<1>7. ArmsTyped' /\ build'[c] = r /\ \A b \in Builder : b # c => build'[b] = build[b]
  BY <1>2, <1>5, <1>6, Wrote DEF files, ArmsTyped
<1>8. SourcesOf(c)' = SourcesOf(c)
  BY <1>5, <1>7 DEF SourcesOf
<1>9. Headed(decl.rows)'
  BY <1>2, <1>3 DEF Headed, files
<1>10. BuildInv(c)'
  BY <1>2, <1>3, <1>5, <1>7, <1>8, <1>9 DEF BuildInv, Running, Gated, Chosen, Is, files, Accepts
<1>11. ASSUME NEW b \in Builder, b # c  PROVE BuildInv(b)'
  BY <1>2, <1>7, <1>9, <1>11, Beside DEF ArmsInv, files, Compiled, Linked
<1>. QED
  BY <1>7, <1>10, <1>11 DEF ArmsInv

LEMMA CompileKeeps ==
  ASSUME ArmsInv, NEW c \in Builder, NEW u \in build[c].left, CompileArm(c, u)
  PROVE  ArmsInv'
<1>1. PICK x : x = IF u = 0 THEN header.set ELSE {a \in units[u] : a[1] \in header.built}
  OBVIOUS
<1>2. PICK r : r = [build[c] EXCEPT !.left = @ \ {u}]
  OBVIOUS
<1>3. /\ ArmsTyped /\ BuildInv(c) /\ Is(c, "compile") /\ UNCHANGED <<files, bin>>
      /\ build[c] \in Process /\ (u # 0 => u \in DOMAIN units)
      /\ obj' = [v \in DOMAIN obj \cup {u} |-> IF v # u THEN obj[v] ELSE x]
      /\ build' = [build EXCEPT ![c] = r]
  BY <1>1, <1>2 DEF CompileArm, ArmsInv, ArmsTyped
<1>4. /\ Accepts(decl) /\ build[c].table = decl.rows /\ build[c].want \subseteq DOMAIN decl.rows
      /\ units = Units(decl.rows) /\ Headed(decl.rows)
      /\ \A v \in SourcesOf(c) \ build[c].left : Compiled(v, decl.rows)
  BY <1>3 DEF BuildInv, Running, Gated, Chosen, Is
<1>5. /\ r \in Process /\ r.pc = "compile" /\ r.table = build[c].table /\ r.want = build[c].want
      /\ r.left = build[c].left \ {u}
  BY <1>2, <1>3 DEF Process, Is
<1>6. ArmsTyped' /\ build'[c] = r /\ \A b \in Builder : b # c => build'[b] = build[b]
  BY <1>3, <1>5, Wrote DEF files, ArmsTyped
<1>7. u = 0 => \E arms \in SUBSET DOMAIN decl.rows : x = Indexed(decl.rows, arms)
  BY <1>1, <1>4, SelectionSet DEF Headed
<1>8. u # 0 => x \subseteq Indexed(decl.rows, DOMAIN decl.rows)
  BY <1>1, <1>3, <1>4, UnitIsRows
<1>9. Compiled(u, decl.rows)'
  BY <1>3, <1>7, <1>8 DEF Compiled, files
<1>10. ASSUME NEW v, Compiled(v, decl.rows)  PROVE Compiled(v, decl.rows)'
  <2>1. CASE v = u
    BY <1>9, <2>1
  <2>2. CASE v # u
    <3>1. v \in DOMAIN obj' /\ obj'[v] = obj[v] /\ decl' = decl
      BY <1>3, <1>10, <2>2 DEF Compiled, files
    <3>. QED
      BY <1>10, <3>1 DEF Compiled
  <2>. QED
    BY <2>1, <2>2
<1>11. SourcesOf(c)' = SourcesOf(c) /\ Headed(decl.rows)'
  BY <1>3, <1>4, <1>5, <1>6 DEF SourcesOf, Headed, files
<1>12. ASSUME NEW v \in SourcesOf(c)' \ build'[c].left  PROVE Compiled(v, decl.rows)'
  BY <1>4, <1>5, <1>6, <1>9, <1>10, <1>11, <1>12
<1>13. BuildInv(c)'
  BY <1>3, <1>4, <1>5, <1>6, <1>11, <1>12 DEF BuildInv, Running, Gated, Chosen, Is, files, Accepts
<1>14. ASSUME NEW b \in Builder, b # c  PROVE BuildInv(b)'
  BY <1>3, <1>6, <1>10, <1>11, <1>14, Beside DEF ArmsInv, files, Linked
<1>. QED
  BY <1>6, <1>13, <1>14 DEF ArmsInv

LEMMA LinkKeeps ==
  ASSUME ArmsInv, NEW c \in Builder, LinkArms(c)
  PROVE  ArmsInv'
<1>1. /\ ArmsTyped /\ BuildInv(c) /\ Is(c, "compile") /\ build[c].left = {} /\ Move(c, "table")
      /\ bin' = [named |-> obj[0], bodies |-> UNION {obj[u] : u \in SourcesOf(c) \ {0}}]
      /\ UNCHANGED <<files, obj>>
  BY DEF LinkArms, ArmsInv
<1>2. /\ Accepts(decl) /\ build[c].table = decl.rows /\ build[c].want \subseteq DOMAIN decl.rows
      /\ units = Units(decl.rows) /\ Headed(decl.rows)
      /\ \A v \in SourcesOf(c) : Compiled(v, decl.rows)
  BY <1>1 DEF BuildInv, Running, Gated, Chosen, Is
<1>3. PICK arms \in SUBSET DOMAIN decl.rows : bin'.named = Indexed(decl.rows, arms)
  BY <1>1, <1>2 DEF Compiled, SourcesOf
<1>4. bin'.bodies \subseteq Indexed(decl.rows, DOMAIN decl.rows)
  BY <1>1, <1>2 DEF Compiled
<1>5. bin' \in Binary
  <2>1. Indexed(decl.rows, arms) \subseteq Nat \X Nat
    BY <1>1, IndexedTyped
  <2>2. Indexed(decl.rows, DOMAIN decl.rows) \subseteq Nat \X Nat
    BY <1>1, IndexedTyped
  <2>. QED
    BY <1>1, <1>3, <1>4, <2>1, <2>2 DEF Binary
<1>6. /\ ArmsTyped' /\ build'[c].pc = "table" /\ build'[c].table = build[c].table
      /\ build'[c].want = build[c].want /\ \A b \in Builder : b # c => build'[b] = build[b]
  BY <1>1, <1>5, Moved DEF files
<1>7. Linked(decl.rows)' /\ Headed(decl.rows)'
  BY <1>1, <1>2, <1>3, <1>4 DEF Linked, Headed, files
<1>8. BuildInv(c)'
  BY <1>1, <1>2, <1>6, <1>7 DEF BuildInv, Running, Gated, Chosen, Is, files, Accepts
<1>9. ASSUME NEW b \in Builder, b # c  PROVE BuildInv(b)'
  BY <1>1, <1>6, <1>7, <1>9, Beside DEF ArmsInv, files, Compiled
<1>. QED
  BY <1>6, <1>8, <1>9 DEF ArmsInv

(* The sweep knows the selection by its rows, a body by its index.         *)
LEMMA SweepBelieved ==
  ASSUME ArmsTyped, Accepts(decl), Linked(decl.rows), NEW c \in Builder, Sweep(c),
         build[c].table = decl.rows, build[c].want \subseteq DOMAIN decl.rows
  PROVE  LET mine == Indexed(decl.rows, build[c].want)
         IN  bin.named = mine /\ mine \subseteq bin.bodies
<1>1. PICK arms \in SUBSET DOMAIN decl.rows : bin.named = Indexed(decl.rows, arms)
  BY DEF Linked
<1>2. PICK want : want = build[c].want
  OBVIOUS
<1>3. {a[2] : a \in bin.named} = {decl.rows[i] : i \in arms}
  <2>1. ASSUME NEW a \in bin.named  PROVE a[2] \in {decl.rows[i] : i \in arms}
    <3>1. PICK i \in arms : a = <<i, decl.rows[i]>>
      BY <1>1 DEF Indexed
    <3>. QED
      BY <3>1
  <2>2. ASSUME NEW i \in arms  PROVE decl.rows[i] \in {a[2] : a \in bin.named}
    <3>1. <<i, decl.rows[i]>> \in bin.named
      BY <1>1 DEF Indexed
    <3>2. <<i, decl.rows[i]>>[2] = decl.rows[i]
      OBVIOUS
    <3>. QED
      BY <3>1, <3>2
  <2>3. {a[2] : a \in bin.named} \subseteq {decl.rows[i] : i \in arms}
    BY <2>1
  <2>4. {decl.rows[i] : i \in arms} \subseteq {a[2] : a \in bin.named}
    BY <2>2
  <2>. QED
    BY <2>3, <2>4
<1>4. {decl.rows[i] : i \in arms} = {decl.rows[i] : i \in want}
  BY <1>2, <1>3 DEF Sweep
<1>5. ASSUME NEW i \in arms  PROVE i \in want
  <2>1. PICK j \in want : decl.rows[i] = decl.rows[j]
    BY <1>4
  <2>. QED
    BY <1>2, <2>1, RowsTellIndices
<1>6. ASSUME NEW i \in want  PROVE i \in arms
  <2>1. PICK j \in arms : decl.rows[i] = decl.rows[j]
    BY <1>4
  <2>. QED
    BY <1>2, <2>1, RowsTellIndices
<1>7. arms = want
  BY <1>5, <1>6
<1>8. ASSUME NEW i \in want  PROVE <<i, decl.rows[i]>> \in bin.bodies
  <2>1. <<i, decl.rows[i]>> \in bin.named
    BY <1>1, <1>7 DEF Indexed
  <2>2. i \in {a[1] : a \in bin.named}
    BY <2>1
  <2>3. PICK a \in bin.bodies : a[1] = i
    BY <2>2 DEF Sweep
  <2>4. PICK j \in DOMAIN decl.rows : a = <<j, decl.rows[j]>>
    BY <2>3 DEF Linked, Indexed
  <2>. QED
    BY <2>3, <2>4
<1>. QED
  BY <1>1, <1>2, <1>7, <1>8 DEF Indexed

LEMMA CheckKeeps ==
  ASSUME ArmsInv, NEW c \in Builder, TableCheck(c)
  PROVE  ArmsInv'
<1>1. PICK r : r = [build[c] EXCEPT !.pc = "checked", !.saw = bin]
  OBVIOUS
<1>2. /\ ArmsTyped /\ BuildInv(c) /\ Is(c, "table") /\ Sweep(c) /\ UNCHANGED <<files, obj, bin>>
      /\ build[c] \in Process /\ build' = [build EXCEPT ![c] = r]
  BY <1>1 DEF TableCheck, ArmsInv, ArmsTyped
<1>3. /\ Accepts(decl) /\ build[c].table = decl.rows /\ build[c].want \subseteq DOMAIN decl.rows
      /\ units = Units(decl.rows) /\ Headed(decl.rows) /\ Linked(decl.rows)
  BY <1>2 DEF BuildInv, Running, Gated, Chosen, Is
<1>4. /\ r \in Process /\ r.pc = "checked" /\ r.table = build[c].table /\ r.want = build[c].want
      /\ r.saw = bin
  BY <1>1, <1>2 DEF Process, ArmsTyped
<1>5. ArmsTyped' /\ build'[c] = r /\ \A b \in Builder : b # c => build'[b] = build[b]
  BY <1>2, <1>4, Wrote DEF files, ArmsTyped
<1>6. Believed(c)'
  BY <1>2, <1>3, <1>4, <1>5, SweepBelieved DEF Believed
<1>7. BuildInv(c)'
  BY <1>2, <1>3, <1>4, <1>5, <1>6 DEF BuildInv, Running, Gated, Chosen, Is, files, Accepts
<1>8. ASSUME NEW b \in Builder, b # c  PROVE BuildInv(b)'
  BY <1>2, <1>5, <1>8, Beside DEF ArmsInv, files, Headed, Compiled, Linked
<1>. QED
  BY <1>5, <1>7, <1>8 DEF ArmsInv

LEMMA AbandonKeeps ==
  ASSUME ArmsInv, NEW c \in Builder, Abandon(c)
  PROVE  ArmsInv'
<1>1. /\ ArmsTyped /\ build' = [build EXCEPT ![c] = Resting] /\ UNCHANGED <<files, obj, bin>>
  BY DEF Abandon, ArmsInv
<1>2. Resting \in Process /\ Resting.pc = "idle"
  <2>1. <<>> \in Seq(Nat)
    OBVIOUS
  <2>. QED
    BY <2>1 DEF Resting, Process
<1>3. ArmsTyped' /\ build'[c] = Resting /\ \A b \in Builder : b # c => build'[b] = build[b]
  BY <1>1, <1>2, Wrote DEF files, ArmsTyped
<1>4. BuildInv(c)'
  BY <1>2, <1>3 DEF BuildInv, Running, Gated, Chosen, Is
<1>5. ASSUME NEW b \in Builder, b # c  PROVE BuildInv(b)'
  BY <1>1, <1>3, <1>5, Beside DEF ArmsInv, files, Headed, Compiled, Linked
<1>. QED
  BY <1>3, <1>4, <1>5 DEF ArmsInv

LEMMA InitArms == ArmsInit => ArmsInv
<1>. SUFFICES ASSUME ArmsInit  PROVE ArmsInv
  OBVIOUS
<1>1. decl \in Declarations /\ decl.rows \in Seq(Nat) /\ bin = Nothing
  BY ArmsAssumption DEF ArmsInit
<1>2. Resting \in Process /\ Resting.pc = "idle"
  <2>1. <<>> \in Seq(Nat)
    OBVIOUS
  <2>. QED
    BY <2>1 DEF Resting, Process
<1>3. build = [b \in Builder |-> Resting]
  BY DEF ArmsInit
<1>4. ASSUME NEW b \in Builder  PROVE BuildInv(b)
  BY <1>2, <1>3 DEF BuildInv, Running, Gated, Chosen, Is
<1>. QED
  BY <1>1, <1>2, <1>3, <1>4 DEF ArmsInv, ArmsTyped

LEMMA NextArms ==
  ASSUME Settled
  PROVE  ArmsInv /\ [ArmsNext]_armsVars => ArmsInv'
<1>. SUFFICES ASSUME ArmsInv, [ArmsNext]_armsVars  PROVE ArmsInv'
  OBVIOUS
<1>1. ASSUME NEW d \in Declarations, Declare(d)  PROVE ArmsInv'
  <2>1. /\ decl' \in Declarations /\ decl'.rows \in Seq(Nat) /\ UNCHANGED <<build, bin>>
        /\ \A b \in Builder : Is(b, "idle")
    BY <1>1, ArmsAssumption DEF Declare
  <2>2. ArmsTyped'
    BY <2>1 DEF ArmsInv, ArmsTyped
  <2>3. ASSUME NEW b \in Builder  PROVE BuildInv(b)'
    BY <2>1 DEF BuildInv, Running, Gated, Chosen, Is
  <2>. QED
    BY <2>2, <2>3 DEF ArmsInv
<1>2. CASE WriteUnits
  <2>1. units' = Units(decl.rows) /\ UNCHANGED <<decl, header, obj, bin, build>>
    BY <1>2 DEF WriteUnits
  <2>2. ASSUME NEW b \in Builder  PROVE BuildInv(b)'
    BY <2>1, Beside DEF ArmsInv, Headed, Compiled, Linked
  <2>. QED
    BY <2>1, <2>2 DEF ArmsInv, ArmsTyped
<1>3. CASE MeasureArms
  <2>1. /\ header' = Selection(decl.rows, DOMAIN decl.rows)
        /\ UNCHANGED <<decl, units, obj, bin, build>>
    BY <1>3 DEF MeasureArms
  <2>2. Headed(decl.rows)'
    BY <2>1 DEF Headed
  <2>3. ASSUME NEW b \in Builder  PROVE BuildInv(b)'
    BY <2>1, <2>2, Beside DEF ArmsInv, Compiled, Linked
  <2>. QED
    BY <2>1, <2>3 DEF ArmsInv, ArmsTyped
<1>4. ASSUME NEW b \in Builder, BuildStep(b)  PROVE ArmsInv'
  BY <1>4, ImportKeeps, ShardsKeeps, SelectKeeps, SlotsKeep, CompileKeeps, LinkKeeps, CheckKeeps,
     AbandonKeeps DEF BuildStep
<1>5. CASE UNCHANGED armsVars
  <2>1. UNCHANGED <<decl, units, header, obj, bin, build>>
    BY <1>5 DEF armsVars, files
  <2>2. ASSUME NEW b \in Builder  PROVE BuildInv(b)'
    BY <2>1, Beside DEF ArmsInv, Headed, Compiled, Linked
  <2>. QED
    BY <2>1, <2>2 DEF ArmsInv, ArmsTyped
<1>. QED
  BY <1>1, <1>2, <1>3, <1>4, <1>5 DEF ArmsNext

(* A running build's table is the declaration, and everything it reads was *)
(* made from that table, by whichever build (setup.py, gen_shards.py).     *)
THEOREM BuildsShareOneTable ==
  ASSUME Settled
  PROVE  ArmsSpec => []ArmsInv
BY InitArms, NextArms, PTL DEF ArmsSpec

(* A binary that passed its checks is what its build selected.             *)
THEOREM BinaryHolds ==
  ASSUME Settled
  PROVE  ArmsSpec => []BinaryIsItsSelection
<1>1. ArmsInv => BinaryIsItsSelection
  BY DEF ArmsInv, BuildInv, Believed, BinaryIsItsSelection
<1>. QED
  BY <1>1, BuildsShareOneTable, PTL

(***************************************************************************)
(* Manifests and wheels, for invocations one at a time and a tree nobody   *)
(* edits meanwhile.  A stub, a subset or a torn measurement may be what    *)
(* the last one left behind; each phase writes what its compile reads      *)
(* before it compiles, so what a phase has collected is of the shipped     *)
(* build of the tree as it stands, and a record that answers to the same   *)
(* inputs says the same.  Any number of versions, architectures and jobs.  *)
(***************************************************************************)
OneAtATime == Quiet /\ \A p, q \in Proc : p = q

(* An invocation's record, and the files' shapes.                          *)
Entry(r) ==
  /\ r = [pc |-> r.pc, job |-> r.job, left |-> r.left, got |-> r.got, key |-> r.key,
          bin |-> r.bin, want |-> r.want, commit |-> r.commit]
  /\ r.got = [tu \in TU |-> r.got[tu]] /\ r.key = [tu \in TU |-> r.key[tu]]

Filing(m) == m = [src |-> m.src, ent |-> m.ent, shards |-> m.shards]

Invoked == proc = [p \in Proc |-> proc[p]] /\ \A p \in Proc : Entry(proc[p])

Shaped ==
  /\ cache = [tu \in TU |-> cache[tu]]
  /\ man = [a \in Arch |-> man[a]] /\ \A a \in Arch : Filing(man[a])

(* Nothing is measured yet, or what a build collected is put away.         *)
Blank(r) ==
  /\ r.pc \in {"gates", "parts", "stamp", "lock", "compile", "built", "measure parts",
               "measure stamp"} => r.key = Idle.key
  /\ r.pc \in {"built", "measure parts", "measure stamp"} => r.got = Idle.got

(* What a measurement has is of the tree.                                  *)
Collected(r) ==
  \A tu \in TU :
    /\ r.got[tu] # None \/ tu \notin r.left => r.got[tu] = Shipped(tree)[tu]
    /\ r.key[tu] # None => r.key[tu][2] = Shipped(tree)[tu]

Measuring(r) ==
  /\ r.pc \in {"measure stamp", "measure"} => parts = "real"
  /\ r.pc = "measure" => stamp = tree /\ Collected(r)
  /\ r.pc = "write" => r.got = Shipped(tree)

(* A self-test has put the measured manifests by; a gate passed on them.   *)
Holding(r) ==
  /\ r.pc = "restore" =>
       \A a \in Arch : Filing(r.want[a]) /\ r.want[a].ent = Shipped(r.want[a].src)
  /\ r.pc = "passed" => \A a \in Arch : man[a].src = tree

(* The wheel in the making is the shipped build of its commit.             *)
Shipping(r) ==
  /\ r.pc = "package" => r.job = "wheel"
  /\ r.job = "wheel" /\ r.pc # "idle" =>
       /\ r.commit = tree
       /\ r.pc \in {"stamp", "lock", "compile"} => parts = "real"
       /\ r.pc \in {"lock", "compile"} => stamp = tree
       /\ r.pc = "compile" => \A tu \in TU \ r.left : r.got[tu] = Shipped(tree)[tu]
       /\ r.pc \in {"built", "measure parts", "measure stamp", "measure", "passed", "record",
                    "package"} => r.bin = Shipped(tree)
       /\ r.pc \in {"record", "package"} => \A a \in Arch : man[a].src = tree

Sound(r) == Blank(r) /\ Measuring(r) /\ Holding(r) /\ Shipping(r)

CheckoutInv ==
  /\ Invoked /\ Shaped /\ FiledIsMeasured /\ WheelIsItsCommit
  /\ \A p \in Proc : Sound(proc[p])

(* A running invocation's own record, and what its step leaves to show.    *)
LEMMA Mine ==
  ASSUME CheckoutInv, NEW p \in Proc
  PROVE  /\ Entry(proc[p]) /\ Blank(proc[p]) /\ Measuring(proc[p]) /\ Holding(proc[p])
         /\ Shipping(proc[p])
         /\ Shaped /\ FiledIsMeasured /\ WheelIsItsCommit
BY DEF CheckoutInv, Invoked, Sound

LEMMA Stepped ==
  ASSUME OneAtATime, CheckoutInv, NEW p \in Proc, NEW r, proc' = [proc EXCEPT ![p] = r],
         Entry(r), Blank(r)', Measuring(r)', Holding(r)', Shipping(r)',
         Shaped', FiledIsMeasured', WheelIsItsCommit'
  PROVE  CheckoutInv'
<1>1. proc = [q \in Proc |-> proc[q]] /\ \A q \in Proc : q = p
  BY DEF OneAtATime, CheckoutInv, Invoked
<1>2. proc' = [q \in Proc |-> proc'[q]] /\ \A q \in Proc : proc'[q] = r
  BY <1>1
<1>3. ASSUME NEW q \in Proc  PROVE Sound(proc[q])'
  <2>1. proc'[q] = r
    BY <1>2
  <2>2. Blank(proc[q])'
    BY <2>1 DEF Blank
  <2>3. Measuring(proc[q])'
    BY <2>1 DEF Measuring, Collected
  <2>4. Holding(proc[q])'
    BY <2>1 DEF Holding
  <2>5. Shipping(proc[q])'
    BY <2>1 DEF Shipping
  <2>. QED
    BY <2>2, <2>3, <2>4, <2>5 DEF Sound
<1>4. Invoked'
  BY <1>2 DEF Invoked, Entry
<1>. QED
  BY <1>3, <1>4 DEF CheckoutInv

LEMMA FilesStay ==
  ASSUME Shaped, FiledIsMeasured, WheelIsItsCommit, UNCHANGED <<cache, man, wheel>>
  PROVE  Shaped' /\ FiledIsMeasured' /\ WheelIsItsCommit'
<1>1. Shaped'
  BY DEF Shaped, Filing
<1>2. FiledIsMeasured'
  BY DEF FiledIsMeasured
<1>3. WheelIsItsCommit'
  BY DEF WheelIsItsCommit
<1>. QED
  BY <1>1, <1>2, <1>3

LEMMA Went ==
  ASSUME NEW r0, Entry(r0), NEW to, NEW r, r = [r0 EXCEPT !.pc = to]
  PROVE  /\ Entry(r) /\ r.pc = to /\ r.job = r0.job /\ r.left = r0.left /\ r.got = r0.got
         /\ r.key = r0.key /\ r.bin = r0.bin /\ r.want = r0.want /\ r.commit = r0.commit
BY DEF Entry

LEMMA IdleShape ==
  /\ Entry(Idle) /\ Idle.pc = "idle" /\ Idle.job = None
  /\ \A tu \in TU : Idle.got[tu] = None /\ Idle.key[tu] = None
BY DEF Entry, Idle

(* With the real parts and the tree's stamp a unit reads what a shipped    *)
(* build reads.                                                            *)
LEMMA ReadsShipped ==
  ASSUME parts = "real", stamp = tree, NEW tu \in TU
  PROVE  Reads(tu, FALSE) = Shipped(tree)[tu]
<1>1. CASE tu = "carry"
  BY <1>1 DEF Reads, Shipped, TU
<1>2. CASE tu = "decode"
  BY <1>2 DEF Reads, Shipped, TU
<1>3. CASE tu = "stamp"
  BY <1>3 DEF Reads, Shipped, TU
<1>. QED
  BY <1>1, <1>2, <1>3 DEF TU

LEMMA LeaveKeeps ==
  ASSUME OneAtATime, CheckoutInv, NEW p \in Proc, Leave(p),
         Shaped', FiledIsMeasured', WheelIsItsCommit'
  PROVE  CheckoutInv'
<1>1. PICK r : r = Idle
  OBVIOUS
<1>2. proc' = [proc EXCEPT ![p] = r] /\ Entry(r) /\ r.pc = "idle"
  BY <1>1, IdleShape DEF Leave
<1>3. Blank(r)' /\ Measuring(r)' /\ Holding(r)' /\ Shipping(r)'
  BY <1>2 DEF Blank, Measuring, Holding, Shipping
<1>. QED
  BY <1>2, <1>3, Stepped

(* A step that only moves on, and leaves the measured files alone.         *)
LEMMA GotoKeeps ==
  ASSUME OneAtATime, CheckoutInv, NEW p \in Proc, NEW to, Goto(p, to),
         UNCHANGED <<cache, man, wheel>>,
         \A r : /\ Entry(r) /\ r.pc = to /\ r.job = proc[p].job /\ r.left = proc[p].left
                /\ r.got = proc[p].got /\ r.key = proc[p].key /\ r.bin = proc[p].bin
                /\ r.want = proc[p].want /\ r.commit = proc[p].commit
                => Blank(r)' /\ Measuring(r)' /\ Holding(r)' /\ Shipping(r)'
  PROVE  CheckoutInv'
<1>1. PICK r0 : r0 = proc[p]
  OBVIOUS
<1>2. PICK r : r = [r0 EXCEPT !.pc = to]
  OBVIOUS
<1>3. Entry(r0)
  BY <1>1, Mine
<1>4. /\ Entry(r) /\ r.pc = to /\ r.job = r0.job /\ r.left = r0.left /\ r.got = r0.got
      /\ r.key = r0.key /\ r.bin = r0.bin /\ r.want = r0.want /\ r.commit = r0.commit
  BY <1>2, <1>3, Went
<1>5. proc' = [proc EXCEPT ![p] = r]
  BY <1>1, <1>2 DEF Goto
<1>6. Blank(r)' /\ Measuring(r)' /\ Holding(r)' /\ Shipping(r)'
  BY <1>1, <1>4
<1>7. Shaped' /\ FiledIsMeasured' /\ WheelIsItsCommit'
  BY Mine, FilesStay
<1>. QED
  BY <1>4, <1>5, <1>6, <1>7, Stepped

LEMMA EditKeeps ==
  ASSUME OneAtATime, CheckoutInv, Edit
  PROVE  CheckoutInv'
<1>1. /\ \A p \in Proc : proc[p].pc = "idle"
      /\ UNCHANGED <<cache, man, wheel>> /\ proc' = proc
  BY DEF Edit, OneAtATime, At, disk, filed, made
<1>2. Shaped' /\ FiledIsMeasured' /\ WheelIsItsCommit'
  BY <1>1, FilesStay DEF CheckoutInv
<1>3. ASSUME NEW p \in Proc  PROVE Sound(proc[p])'
  BY <1>1 DEF Sound, Blank, Measuring, Holding, Shipping
<1>4. Invoked'
  BY <1>1 DEF CheckoutInv, Invoked, Entry
<1>. QED
  BY <1>2, <1>3, <1>4 DEF CheckoutInv

LEMMA SameKeeps ==
  ASSUME CheckoutInv, UNCHANGED <<tree, parts, stamp, cache, man, wheel, proc>>
  PROVE  CheckoutInv'
<1>1. Shaped' /\ FiledIsMeasured' /\ WheelIsItsCommit'
  BY FilesStay DEF CheckoutInv
<1>2. ASSUME NEW p \in Proc  PROVE Sound(proc[p])'
  <2>1. /\ Blank(proc[p]) /\ Measuring(proc[p]) /\ Holding(proc[p]) /\ Shipping(proc[p])
    BY Mine
  <2>2. Blank(proc[p])'
    BY <2>1 DEF Blank
  <2>3. Measuring(proc[p])'
    BY <2>1 DEF Measuring, Collected
  <2>4. Holding(proc[p])'
    BY <2>1 DEF Holding
  <2>5. Shipping(proc[p])'
    BY <2>1 DEF Shipping
  <2>. QED
    BY <2>2, <2>3, <2>4, <2>5 DEF Sound
<1>3. Invoked'
  BY DEF CheckoutInv, Invoked, Entry
<1>. QED
  BY <1>1, <1>2, <1>3 DEF CheckoutInv

LEMMA StartKeeps ==
  ASSUME OneAtATime, CheckoutInv, NEW p \in Proc, NEW job \in Jobs, Start(p, job)
  PROVE  CheckoutInv'
<1>1. PICK to : to = CASE job \in Setup    -> "gates"
                       [] job = "derive"   -> "derive"
                       [] OTHER            -> "measure parts"
  OBVIOUS
<1>2. PICK of : of = IF job = "wheel" THEN tree ELSE None
  OBVIOUS
<1>3. PICK r : r = [Idle EXCEPT !.job = job, !.commit = of, !.pc = to]
  OBVIOUS
<1>4. /\ proc' = [proc EXCEPT ![p] = r] /\ UNCHANGED <<tree, parts, stamp, cache, man, wheel>>
  BY <1>1, <1>2, <1>3 DEF Start, disk, filed, made
<1>5. /\ Entry(r) /\ r.pc = to /\ r.job = job /\ r.commit = of
      /\ r.got = Idle.got /\ r.key = Idle.key
  BY <1>3, IdleShape DEF Entry
<1>6. to \in {"gates", "derive", "measure parts"} /\ (job = "wheel" => to = "gates")
  BY <1>1 DEF Setup
<1>7. Blank(r)' /\ Holding(r)' /\ Measuring(r)'
  BY <1>5, <1>6 DEF Blank, Holding, Measuring, Idle
<1>8. Shipping(r)'
  BY <1>2, <1>4, <1>5, <1>6 DEF Shipping
<1>9. Shaped' /\ FiledIsMeasured' /\ WheelIsItsCommit'
  BY <1>4, Mine, FilesStay
<1>. QED
  BY <1>4, <1>5, <1>7, <1>8, <1>9, Stepped

LEMMA StopKeeps ==
  ASSUME OneAtATime, CheckoutInv, NEW p \in Proc, Stop(p)
  PROVE  CheckoutInv'
<1>1. Leave(p) /\ UNCHANGED <<cache, man, wheel>>
  BY DEF Stop, disk, filed, made
<1>2. Shaped' /\ FiledIsMeasured' /\ WheelIsItsCommit'
  BY <1>1, Mine, FilesStay
<1>. QED
  BY <1>1, <1>2, LeaveKeeps

LEMMA GatesKeep ==
  ASSUME OneAtATime, CheckoutInv, NEW p \in Proc, Gates(p)
  PROVE  CheckoutInv'
<1>1. PICK r0 : r0 = proc[p]
  OBVIOUS
<1>2. PICK r : r = [r0 EXCEPT !.pc = "parts", !.want = man]
  OBVIOUS
<1>3. /\ proc' = [proc EXCEPT ![p] = r] /\ UNCHANGED <<tree, parts, stamp, cache, man, wheel>>
      /\ r0.pc = "gates"
  BY <1>1, <1>2 DEF Gates, At, disk, filed, made, desk
<1>4. Entry(r0) /\ Blank(r0) /\ Shipping(r0)
  BY <1>1, Mine
<1>5. /\ Entry(r) /\ r.pc = "parts" /\ r.job = r0.job /\ r.commit = r0.commit
      /\ r.got = r0.got /\ r.key = r0.key
  BY <1>2, <1>4 DEF Entry
<1>6. Blank(r)' /\ Holding(r)' /\ Measuring(r)'
  BY <1>3, <1>4, <1>5 DEF Blank, Holding, Measuring, Idle
<1>7. Shipping(r)'
  BY <1>3, <1>4, <1>5 DEF Shipping
<1>8. Shaped' /\ FiledIsMeasured' /\ WheelIsItsCommit'
  BY <1>3, Mine, FilesStay
<1>. QED
  BY <1>3, <1>5, <1>6, <1>7, <1>8, Stepped

LEMMA PartsKeep ==
  ASSUME OneAtATime, CheckoutInv, NEW p \in Proc, WriteParts(p)
  PROVE  CheckoutInv'
<1>1. PICK r0 : r0 = proc[p]
  OBVIOUS
<1>2. /\ r0.pc = "parts" /\ Goto(p, "stamp") /\ (r0.job = "wheel" => parts' = "real")
      /\ UNCHANGED <<tree, cache, man, wheel>>
  BY <1>1 DEF WriteParts, At, filed, made, desk
<1>3. Blank(r0) /\ Shipping(r0)
  BY <1>1, Mine
<1>4. ASSUME NEW r, r.pc = "stamp", r.job = r0.job, r.key = r0.key, r.commit = r0.commit
      PROVE  Blank(r)' /\ Measuring(r)' /\ Holding(r)' /\ Shipping(r)'
  <2>1. Blank(r)' /\ Measuring(r)' /\ Holding(r)'
    BY <1>2, <1>3, <1>4 DEF Blank, Measuring, Holding, Idle
  <2>2. Shipping(r)'
    BY <1>2, <1>3, <1>4 DEF Shipping
  <2>. QED
    BY <2>1, <2>2
<1>. QED
  BY <1>1, <1>2, <1>4, GotoKeeps

LEMMA StampKeeps ==
  ASSUME OneAtATime, CheckoutInv, NEW p \in Proc, WriteStamp(p)
  PROVE  CheckoutInv'
<1>1. PICK r0 : r0 = proc[p]
  OBVIOUS
<1>2. /\ r0.pc = "stamp" /\ Goto(p, "lock") /\ stamp' = tree
      /\ UNCHANGED <<tree, parts, cache, man, wheel>>
  BY <1>1 DEF WriteStamp, At, filed, made, desk
<1>3. Blank(r0) /\ Shipping(r0)
  BY <1>1, Mine
<1>4. ASSUME NEW r, r.pc = "lock", r.job = r0.job, r.key = r0.key, r.commit = r0.commit
      PROVE  Blank(r)' /\ Measuring(r)' /\ Holding(r)' /\ Shipping(r)'
  <2>1. Blank(r)' /\ Measuring(r)' /\ Holding(r)'
    BY <1>2, <1>3, <1>4 DEF Blank, Measuring, Holding, Idle
  <2>2. Shipping(r)'
    BY <1>2, <1>3, <1>4 DEF Shipping
  <2>. QED
    BY <2>1, <2>2
<1>. QED
  BY <1>1, <1>2, <1>4, GotoKeeps

LEMMA AcquireKeeps ==
  ASSUME OneAtATime, CheckoutInv, NEW p \in Proc, Acquire(p)
  PROVE  CheckoutInv'
<1>1. PICK r0 : r0 = proc[p]
  OBVIOUS
<1>2. PICK r : r = [r0 EXCEPT !.pc = "compile", !.left = TU]
  OBVIOUS
<1>3. /\ proc' = [proc EXCEPT ![p] = r] /\ UNCHANGED <<tree, parts, stamp, cache, man, wheel>>
      /\ r0.pc = "lock"
  BY <1>1, <1>2 DEF Acquire, At, filed, made, desk
<1>4. Entry(r0) /\ Blank(r0) /\ Shipping(r0)
  BY <1>1, Mine
<1>5. /\ Entry(r) /\ r.pc = "compile" /\ r.job = r0.job /\ r.commit = r0.commit
      /\ r.got = r0.got /\ r.key = r0.key /\ r.left = TU
  BY <1>2, <1>4 DEF Entry
<1>6. Blank(r)' /\ Holding(r)' /\ Measuring(r)'
  BY <1>3, <1>4, <1>5 DEF Blank, Holding, Measuring, Idle
<1>7. Shipping(r)'
  BY <1>3, <1>4, <1>5 DEF Shipping
<1>8. Shaped' /\ FiledIsMeasured' /\ WheelIsItsCommit'
  BY <1>3, Mine, FilesStay
<1>. QED
  BY <1>3, <1>5, <1>6, <1>7, <1>8, Stepped

LEMMA BuildUnitKeeps ==
  ASSUME OneAtATime, CheckoutInv, NEW p \in Proc, NEW tu \in TU, Compile(p, tu)
  PROVE  CheckoutInv'
<1>1. PICK r0 : r0 = proc[p]
  OBVIOUS
<1>2. PICK x : x = Reads(tu, r0.job = "subset")
  OBVIOUS
<1>3. PICK r : r = [r0 EXCEPT !.left = @ \ {tu}, !.got[tu] = x]
  OBVIOUS
<1>4. /\ proc' = [proc EXCEPT ![p] = r] /\ UNCHANGED <<tree, parts, stamp, cache, man, wheel>>
      /\ r0.pc = "compile"
  BY <1>1, <1>2, <1>3 DEF Compile, At, disk, filed, made, desk
<1>5. Entry(r0) /\ Blank(r0) /\ Shipping(r0)
  BY <1>1, Mine
<1>6. /\ Entry(r) /\ r.pc = "compile" /\ r.job = r0.job /\ r.commit = r0.commit
      /\ r.key = r0.key /\ r.left = r0.left \ {tu}
      /\ r.got[tu] = x /\ \A v \in TU \ {tu} : r.got[v] = r0.got[v]
  BY <1>3, <1>4, <1>5 DEF Entry
<1>7. Blank(r)' /\ Holding(r)' /\ Measuring(r)'
  BY <1>4, <1>5, <1>6 DEF Blank, Holding, Measuring, Idle
<1>8. ASSUME r0.job = "wheel", NEW v \in TU \ r.left  PROVE r.got[v] = Shipped(tree)[v]
  <2>1. CASE v = tu
    <3>1. parts = "real" /\ stamp = tree /\ (r0.job = "subset") = FALSE
      BY <1>4, <1>5, <1>8 DEF Shipping
    <3>. QED
      BY <1>2, <1>6, <2>1, <3>1, ReadsShipped
  <2>2. CASE v # tu
    BY <1>4, <1>5, <1>6, <1>8, <2>2 DEF Shipping
  <2>. QED
    BY <2>1, <2>2
<1>9. Shipping(r)'
  BY <1>4, <1>5, <1>6, <1>8 DEF Shipping
<1>10. Shaped' /\ FiledIsMeasured' /\ WheelIsItsCommit'
  BY <1>4, Mine, FilesStay
<1>. QED
  BY <1>4, <1>6, <1>7, <1>9, <1>10, Stepped

LEMMA LinkAllKeeps ==
  ASSUME OneAtATime, CheckoutInv, NEW p \in Proc, Link(p)
  PROVE  CheckoutInv'
<1>1. PICK r0 : r0 = proc[p]
  OBVIOUS
<1>2. PICK r : r = [r0 EXCEPT !.pc = "built", !.bin = r0.got, !.got = Idle.got]
  OBVIOUS
<1>3. /\ proc' = [proc EXCEPT ![p] = r] /\ UNCHANGED <<tree, parts, stamp, cache, man, wheel>>
      /\ r0.pc = "compile" /\ r0.left = {}
  BY <1>1, <1>2 DEF Link, At, disk, filed, desk
<1>4. Entry(r0) /\ Blank(r0) /\ Shipping(r0)
  BY <1>1, Mine
<1>5. /\ Entry(r) /\ r.pc = "built" /\ r.job = r0.job /\ r.commit = r0.commit
      /\ r.key = r0.key /\ r.got = Idle.got /\ r.bin = r0.got
  BY <1>2, <1>4, IdleShape DEF Entry
<1>6. Blank(r)' /\ Holding(r)' /\ Measuring(r)'
  BY <1>3, <1>4, <1>5 DEF Blank, Holding, Measuring
<1>7. ASSUME r0.job = "wheel"  PROVE r0.got = Shipped(tree)
  <2>1. \A tu \in TU : r0.got[tu] = Shipped(tree)[tu]
    BY <1>3, <1>4, <1>7 DEF Shipping
  <2>. QED
    BY <1>4, <2>1 DEF Entry, Shipped
<1>8. Shipping(r)'
  BY <1>3, <1>4, <1>5, <1>7 DEF Shipping
<1>9. Shaped' /\ FiledIsMeasured' /\ WheelIsItsCommit'
  BY <1>3, Mine, FilesStay
<1>. QED
  BY <1>3, <1>5, <1>6, <1>8, <1>9, Stepped

LEMMA PostBuildKeeps ==
  ASSUME OneAtATime, CheckoutInv, NEW p \in Proc, PostBuild(p)
  PROVE  CheckoutInv'
<1>1. PICK r0 : r0 = proc[p]
  OBVIOUS
<1>2. PICK to : to = IF Iteration(r0.job) \/ r0.job = "skip" THEN "record" ELSE "measure parts"
  OBVIOUS
<1>3. /\ r0.pc = "built" /\ Goto(p, to) /\ UNCHANGED <<tree, parts, stamp, cache, man, wheel>>
      /\ to \in {"record", "measure parts"} /\ (r0.job = "wheel" => to = "measure parts")
  BY <1>1, <1>2 DEF PostBuild, Iteration, At, disk, filed, made, desk
<1>4. Blank(r0) /\ Shipping(r0)
  BY <1>1, Mine
<1>5. ASSUME NEW r, r.pc = to, r.job = r0.job, r.key = r0.key, r.got = r0.got, r.bin = r0.bin,
             r.commit = r0.commit
      PROVE  Blank(r)' /\ Measuring(r)' /\ Holding(r)' /\ Shipping(r)'
  <2>1. Blank(r)' /\ Measuring(r)' /\ Holding(r)'
    BY <1>3, <1>4, <1>5 DEF Blank, Measuring, Holding
  <2>2. Shipping(r)'
    BY <1>3, <1>4, <1>5 DEF Shipping
  <2>. QED
    BY <2>1, <2>2
<1>. QED
  BY <1>1, <1>3, <1>5, GotoKeeps

LEMMA RecordKeeps ==
  ASSUME OneAtATime, CheckoutInv, NEW p \in Proc, Record(p)
  PROVE  CheckoutInv'
<1>1. PICK r0 : r0 = proc[p]
  OBVIOUS
<1>2. r0.pc = "record" /\ UNCHANGED <<tree, parts, stamp, cache, man, wheel>>
  BY <1>1 DEF Record, At, disk, filed, desk
<1>3. Shipping(r0)
  BY <1>1, Mine
<1>4. CASE Leave(p)
  <2>1. Shaped' /\ FiledIsMeasured' /\ WheelIsItsCommit'
    BY <1>2, Mine, FilesStay
  <2>. QED
    BY <1>4, <2>1, LeaveKeeps
<1>5. CASE r0.job = "wheel" /\ Goto(p, "package")
  <2>1. ASSUME NEW r, r.pc = "package", r.job = r0.job, r.bin = r0.bin, r.commit = r0.commit
        PROVE  Blank(r)' /\ Measuring(r)' /\ Holding(r)' /\ Shipping(r)'
    <3>1. Blank(r)' /\ Measuring(r)' /\ Holding(r)'
      BY <2>1 DEF Blank, Measuring, Holding
    <3>2. Shipping(r)'
      BY <1>2, <1>3, <1>5, <2>1 DEF Shipping
    <3>. QED
      BY <3>1, <3>2
  <2>. QED
    BY <1>1, <1>2, <1>5, <2>1, GotoKeeps
<1>. QED
  BY <1>1, <1>4, <1>5 DEF Record

LEMMA PackageKeeps ==
  ASSUME OneAtATime, CheckoutInv, NEW p \in Proc, Package(p)
  PROVE  CheckoutInv'
<1>1. PICK r0 : r0 = proc[p]
  OBVIOUS
<1>2. /\ r0.pc = "package" /\ Leave(p) /\ UNCHANGED <<tree, cache, man>>
      /\ wheel' = [commit |-> r0.commit, bin |-> r0.bin, man |-> man]
  BY <1>1 DEF Package, At, disk, filed, desk
<1>3. Shipping(r0) /\ Shaped /\ FiledIsMeasured
  BY <1>1, Mine
<1>4. Shaped' /\ FiledIsMeasured'
  <2>1. Shaped'
    BY <1>2, <1>3 DEF Shaped, Filing
  <2>2. FiledIsMeasured'
    BY <1>2, <1>3 DEF FiledIsMeasured
  <2>. QED
    BY <2>1, <2>2
<1>5. /\ r0.commit = tree /\ r0.bin = Shipped(tree)
      /\ \A a \in Arch : man[a].src = tree
  BY <1>2, <1>3 DEF Shipping
<1>6. \A a \in Arch : man[a].ent = Shipped(tree)
  BY <1>3, <1>5 DEF FiledIsMeasured
<1>7. wheel'.commit = tree /\ wheel'.bin = Shipped(tree) /\ wheel'.man = man
  BY <1>2, <1>5
<1>8. WheelIsItsCommit'
  BY <1>5, <1>6, <1>7 DEF WheelIsItsCommit
<1>. QED
  BY <1>2, <1>4, <1>8, LeaveKeeps

LEMMA MeasurePartsKeep ==
  ASSUME OneAtATime, CheckoutInv, NEW p \in Proc, MeasureParts(p)
  PROVE  CheckoutInv'
<1>1. PICK r0 : r0 = proc[p]
  OBVIOUS
<1>2. /\ r0.pc = "measure parts" /\ Goto(p, "measure stamp") /\ parts' = "real"
      /\ UNCHANGED <<tree, cache, man, wheel>>
  BY <1>1 DEF MeasureParts, At, filed, made, desk
<1>3. Blank(r0) /\ Shipping(r0)
  BY <1>1, Mine
<1>4. ASSUME NEW r, r.pc = "measure stamp", r.job = r0.job, r.key = r0.key, r.got = r0.got,
             r.bin = r0.bin, r.commit = r0.commit
      PROVE  Blank(r)' /\ Measuring(r)' /\ Holding(r)' /\ Shipping(r)'
  <2>1. Blank(r)' /\ Measuring(r)' /\ Holding(r)'
    BY <1>2, <1>3, <1>4 DEF Blank, Measuring, Holding
  <2>2. Shipping(r)'
    BY <1>2, <1>3, <1>4 DEF Shipping
  <2>. QED
    BY <2>1, <2>2
<1>. QED
  BY <1>1, <1>2, <1>4, GotoKeeps

LEMMA MeasureStampKeeps ==
  ASSUME OneAtATime, CheckoutInv, NEW p \in Proc, MeasureStamp(p)
  PROVE  CheckoutInv'
<1>1. PICK r0 : r0 = proc[p]
  OBVIOUS
<1>2. PICK r : r = [r0 EXCEPT !.pc = "measure", !.left = TU]
  OBVIOUS
<1>3. /\ proc' = [proc EXCEPT ![p] = r] /\ UNCHANGED <<tree, parts, cache, man, wheel>>
      /\ r0.pc = "measure stamp" /\ stamp' = tree
  BY <1>1, <1>2 DEF MeasureStamp, At, filed, made, desk
<1>4. Entry(r0) /\ Blank(r0) /\ Measuring(r0) /\ Shipping(r0)
  BY <1>1, Mine
<1>5. /\ Entry(r) /\ r.pc = "measure" /\ r.job = r0.job /\ r.commit = r0.commit
      /\ r.key = r0.key /\ r.got = r0.got /\ r.bin = r0.bin /\ r.left = TU
  BY <1>2, <1>4 DEF Entry
<1>6. \A tu \in TU : r.got[tu] = None /\ r.key[tu] = None
  BY <1>3, <1>4, <1>5, IdleShape DEF Blank
<1>7. Collected(r)'
  BY <1>5, <1>6 DEF Collected
<1>8. Blank(r)' /\ Holding(r)' /\ Measuring(r)'
  BY <1>3, <1>4, <1>5, <1>7 DEF Blank, Holding, Measuring
<1>9. Shipping(r)'
  BY <1>3, <1>4, <1>5 DEF Shipping
<1>10. Shaped' /\ FiledIsMeasured' /\ WheelIsItsCommit'
  BY <1>3, Mine, FilesStay
<1>. QED
  BY <1>3, <1>5, <1>8, <1>9, <1>10, Stepped

(* A measurement that goes on with one unit more collected, or put away.   *)
LEMMA MeasureKeeps ==
  ASSUME OneAtATime, CheckoutInv, NEW p \in Proc, NEW r, proc' = [proc EXCEPT ![p] = r],
         UNCHANGED <<tree, parts, stamp, man, wheel>>, proc[p].pc = "measure",
         Entry(r), r.pc = "measure", r.job = proc[p].job, r.bin = proc[p].bin,
         r.commit = proc[p].commit, Collected(r), Shaped', FiledIsMeasured', WheelIsItsCommit'
  PROVE  CheckoutInv'
<1>1. PICK r0 : r0 = proc[p]
  OBVIOUS
<1>2. Measuring(r0) /\ Shipping(r0)
  BY <1>1, Mine
<1>3. Collected(r)'
  BY DEF Collected
<1>4. Blank(r)' /\ Holding(r)' /\ Measuring(r)'
  BY <1>1, <1>2, <1>3 DEF Blank, Holding, Measuring
<1>5. Shipping(r)'
  BY <1>1, <1>2 DEF Shipping
<1>. QED
  BY <1>4, <1>5, Stepped

LEMMA ReuseKeeps ==
  ASSUME OneAtATime, CheckoutInv, NEW p \in Proc, NEW tu \in TU, Reuse(p, tu)
  PROVE  CheckoutInv'
<1>1. PICK r0 : r0 = proc[p]
  OBVIOUS
<1>2. PICK x : x = cache[tu].ent
  OBVIOUS
<1>3. PICK r : r = [r0 EXCEPT !.left = @ \ {tu}, !.got[tu] = x]
  OBVIOUS
<1>4. /\ proc' = [proc EXCEPT ![p] = r] /\ UNCHANGED <<tree, parts, stamp, cache, man, wheel>>
      /\ r0.pc = "measure" /\ cache[tu] # None /\ cache[tu].key = Fingerprint(p, tu)
  BY <1>1, <1>2, <1>3 DEF Reuse, At, disk, filed, made, desk
<1>5. Entry(r0) /\ Measuring(r0) /\ FiledIsMeasured
  BY <1>1, Mine
<1>6. /\ Entry(r) /\ r.pc = "measure" /\ r.job = r0.job /\ r.commit = r0.commit
      /\ r.key = r0.key /\ r.bin = r0.bin /\ r.left = r0.left \ {tu}
      /\ r.got[tu] = x /\ \A v \in TU \ {tu} : r.got[v] = r0.got[v]
  BY <1>3, <1>4, <1>5 DEF Entry
<1>7. parts = "real" /\ stamp = tree /\ Collected(r0)
  BY <1>4, <1>5 DEF Measuring
<1>8. x = Shipped(tree)[tu]
  <2>1. cache[tu].key[2] = Reads(tu, FALSE)
    BY <1>4 DEF Fingerprint, InheritsSubset
  <2>. QED
    BY <1>2, <1>4, <1>5, <1>7, <2>1, ReadsShipped DEF FiledIsMeasured
<1>9. Collected(r)
  BY <1>6, <1>7, <1>8 DEF Collected
<1>10. Shaped' /\ FiledIsMeasured' /\ WheelIsItsCommit'
  BY <1>4, Mine, FilesStay
<1>. QED
  BY <1>1, <1>4, <1>6, <1>9, <1>10, MeasureKeeps

LEMMA MeasureUnitKeeps ==
  ASSUME OneAtATime, CheckoutInv, NEW p \in Proc, NEW tu \in TU, Measure(p, tu)
  PROVE  CheckoutInv'
<1>1. PICK r0 : r0 = proc[p]
  OBVIOUS
<1>2. PICK x : x = Entries(tu)
  OBVIOUS
<1>3. PICK k : k = IF cache[tu] # None THEN Fingerprint(p, tu) ELSE None
  OBVIOUS
<1>4. PICK r : r = [r0 EXCEPT !.got[tu] = x, !.key[tu] = k]
  OBVIOUS
<1>5. /\ proc' = [proc EXCEPT ![p] = r] /\ UNCHANGED <<tree, parts, stamp, cache, man, wheel>>
      /\ r0.pc = "measure"
  BY <1>1, <1>2, <1>3, <1>4 DEF Measure, At, disk, filed, made, desk
<1>6. Entry(r0) /\ Measuring(r0)
  BY <1>1, Mine
<1>7. /\ Entry(r) /\ r.pc = "measure" /\ r.job = r0.job /\ r.commit = r0.commit
      /\ r.bin = r0.bin /\ r.left = r0.left /\ r.got[tu] = x /\ r.key[tu] = k
      /\ \A v \in TU \ {tu} : r.got[v] = r0.got[v] /\ r.key[v] = r0.key[v]
  BY <1>4, <1>5, <1>6 DEF Entry
<1>8. parts = "real" /\ stamp = tree /\ Collected(r0)
  BY <1>5, <1>6 DEF Measuring
<1>9. x = Shipped(tree)[tu]
  BY <1>2, <1>8, ReadsShipped DEF Entries, InheritsSubset
<1>10. k # None => k[2] = Shipped(tree)[tu]
  <2>1. Fingerprint(p, tu)[2] = Reads(tu, FALSE)
    BY DEF Fingerprint, InheritsSubset
  <2>. QED
    BY <1>3, <1>8, <2>1, ReadsShipped
<1>11. Collected(r)
  BY <1>7, <1>8, <1>9, <1>10 DEF Collected
<1>12. Shaped' /\ FiledIsMeasured' /\ WheelIsItsCommit'
  BY <1>5, Mine, FilesStay
<1>. QED
  BY <1>1, <1>5, <1>7, <1>11, <1>12, MeasureKeeps

(* What is stored answers to the inputs it was compiled from.              *)
LEMMA StoreKeeps ==
  ASSUME OneAtATime, CheckoutInv, NEW p \in Proc, NEW tu \in TU, Store(p, tu)
  PROVE  CheckoutInv'
<1>1. PICK r0 : r0 = proc[p]
  OBVIOUS
<1>2. PICK k : k = IF r0.key[tu] # None THEN r0.key[tu] ELSE Fingerprint(p, tu)
  OBVIOUS
<1>3. PICK r : r = [r0 EXCEPT !.left = @ \ {tu}]
  OBVIOUS
<1>4. /\ proc' = [proc EXCEPT ![p] = r] /\ UNCHANGED <<tree, parts, stamp, man, wheel>>
      /\ r0.pc = "measure" /\ r0.got[tu] # None
      /\ cache' = [cache EXCEPT ![tu] = [key |-> k, ent |-> r0.got[tu]]]
  BY <1>1, <1>2, <1>3 DEF Store, At, filed, made, desk
<1>5. Entry(r0) /\ Measuring(r0) /\ Shaped /\ FiledIsMeasured /\ WheelIsItsCommit
  BY <1>1, Mine
<1>6. /\ Entry(r) /\ r.pc = "measure" /\ r.job = r0.job /\ r.commit = r0.commit
      /\ r.key = r0.key /\ r.got = r0.got /\ r.bin = r0.bin /\ r.left = r0.left \ {tu}
  BY <1>3, <1>4, <1>5 DEF Entry
<1>7. parts = "real" /\ stamp = tree /\ Collected(r0)
  BY <1>4, <1>5 DEF Measuring
<1>8. r0.got[tu] = Shipped(tree)[tu]
  BY <1>4, <1>7 DEF Collected
<1>9. k[2] = Shipped(tree)[tu]
  <2>1. Fingerprint(p, tu)[2] = Reads(tu, FALSE)
    BY DEF Fingerprint, InheritsSubset
  <2>. QED
    BY <1>2, <1>7, <2>1, ReadsShipped DEF Collected
<1>10. Collected(r)
  BY <1>6, <1>7, <1>8 DEF Collected
<1>11. cache'[tu].key[2] = cache'[tu].ent
  BY <1>4, <1>5, <1>8, <1>9 DEF Shaped
<1>12. \A v \in TU \ {tu} : cache'[v] = cache[v]
  BY <1>4, <1>5 DEF Shaped
<1>13. cache' = [v \in TU |-> cache'[v]]
  BY <1>4, <1>5 DEF Shaped
<1>14. Shaped'
  BY <1>4, <1>5, <1>13 DEF Shaped, Filing
<1>15. FiledIsMeasured'
  BY <1>4, <1>5, <1>11, <1>12 DEF FiledIsMeasured
<1>16. WheelIsItsCommit'
  BY <1>4, <1>5 DEF WheelIsItsCommit
<1>. QED
  BY <1>1, <1>4, <1>6, <1>10, <1>14, <1>15, <1>16, MeasureKeeps

LEMMA BeginWriteKeeps ==
  ASSUME OneAtATime, CheckoutInv, NEW p \in Proc, BeginWrite(p)
  PROVE  CheckoutInv'
<1>1. PICK r0 : r0 = proc[p]
  OBVIOUS
<1>2. PICK r : r = [r0 EXCEPT !.pc = "write", !.left = ArchsOf(r0.job)]
  OBVIOUS
<1>3. /\ proc' = [proc EXCEPT ![p] = r] /\ UNCHANGED <<tree, parts, stamp, cache, man, wheel>>
      /\ r0.pc = "measure" /\ r0.left = {} /\ r0.job # "wheel"
  BY <1>1, <1>2 DEF BeginWrite, Measured, Writes, At, disk, filed, made, desk
<1>4. Entry(r0) /\ Measuring(r0)
  BY <1>1, Mine
<1>5. Entry(r) /\ r.pc = "write" /\ r.job = r0.job /\ r.got = r0.got
  BY <1>2, <1>4 DEF Entry
<1>6. r0.got = Shipped(tree)
  <2>1. \A tu \in TU : r0.got[tu] = Shipped(tree)[tu]
    BY <1>3, <1>4 DEF Measuring, Collected
  <2>. QED
    BY <1>4, <2>1 DEF Entry, Shipped
<1>7. Blank(r)' /\ Holding(r)' /\ Measuring(r)' /\ Shipping(r)'
  BY <1>3, <1>5, <1>6 DEF Blank, Holding, Measuring, Shipping
<1>8. Shaped' /\ FiledIsMeasured' /\ WheelIsItsCommit'
  BY <1>3, Mine, FilesStay
<1>. QED
  BY <1>3, <1>5, <1>7, <1>8, Stepped

LEMMA WriteManifestKeeps ==
  ASSUME OneAtATime, CheckoutInv, NEW p \in Proc, NEW a \in Arch, WriteManifest(p, a)
  PROVE  CheckoutInv'
<1>1. PICK r0 : r0 = proc[p]
  OBVIOUS
<1>2. PICK to : to = IF r0.left = {a} THEN "derive" ELSE r0.pc
  OBVIOUS
<1>3. PICK r : r = [r0 EXCEPT !.left = @ \ {a}, !.pc = to]
  OBVIOUS
<1>4. /\ proc' = [proc EXCEPT ![p] = r] /\ UNCHANGED <<tree, parts, stamp, cache, wheel>>
      /\ r0.pc = "write"
      /\ man' = [man EXCEPT ![a] = [src |-> tree, ent |-> r0.got, shards |-> "table"]]
  BY <1>1, <1>2, <1>3 DEF WriteManifest, At, disk, made, desk
<1>5. Entry(r0) /\ Measuring(r0) /\ Shipping(r0) /\ Shaped /\ FiledIsMeasured /\ WheelIsItsCommit
  BY <1>1, Mine
<1>6. /\ Entry(r) /\ r.pc \in {"write", "derive"} /\ r.job = r0.job /\ r.got = r0.got
      /\ r.commit = r0.commit
  BY <1>2, <1>3, <1>4, <1>5 DEF Entry
<1>7. r0.got = Shipped(tree)
  BY <1>4, <1>5 DEF Measuring
<1>8. Blank(r)' /\ Holding(r)' /\ Measuring(r)' /\ Shipping(r)'
  BY <1>4, <1>5, <1>6, <1>7 DEF Blank, Holding, Measuring, Shipping
<1>9. /\ man'[a] = [src |-> tree, ent |-> r0.got, shards |-> "table"]
      /\ man' = [b \in Arch |-> man'[b]] /\ \A b \in Arch \ {a} : man'[b] = man[b]
  BY <1>4, <1>5 DEF Shaped
<1>10. Shaped'
  BY <1>4, <1>5, <1>9 DEF Shaped, Filing
<1>11. FiledIsMeasured'
  BY <1>4, <1>5, <1>7, <1>9 DEF FiledIsMeasured
<1>12. WheelIsItsCommit'
  BY <1>4, <1>5 DEF WheelIsItsCommit
<1>. QED
  BY <1>4, <1>6, <1>8, <1>10, <1>11, <1>12, Stepped

LEMMA DeriveKeeps ==
  ASSUME OneAtATime, CheckoutInv, NEW p \in Proc, Derive(p)
  PROVE  CheckoutInv'
<1>1. Leave(p) /\ UNCHANGED <<cache, man, wheel>>
  BY DEF Derive, disk, made
<1>2. Shaped' /\ FiledIsMeasured' /\ WheelIsItsCommit'
  BY <1>1, Mine, FilesStay
<1>. QED
  BY <1>1, <1>2, LeaveKeeps

LEMMA VerdictKeeps ==
  ASSUME OneAtATime, CheckoutInv, NEW p \in Proc, Verdict(p)
  PROVE  CheckoutInv'
<1>1. PICK r0 : r0 = proc[p]
  OBVIOUS
<1>2. r0.pc = "measure" /\ UNCHANGED <<tree, parts, stamp, cache, man, wheel>>
  BY <1>1 DEF Verdict, Measured, At, disk, filed, made, desk
<1>3. Measuring(r0) /\ Shipping(r0)
  BY <1>1, Mine
<1>4. CASE Leave(p)
  <2>1. Shaped' /\ FiledIsMeasured' /\ WheelIsItsCommit'
    BY <1>2, Mine, FilesStay
  <2>. QED
    BY <1>4, <2>1, LeaveKeeps
<1>5. CASE Holds(p) /\ Goto(p, "passed")
  <2>1. \A a \in Arch : man[a].src = tree
    BY <1>5 DEF Holds, Fresh
  <2>2. ASSUME NEW r, r.pc = "passed", r.job = r0.job, r.bin = r0.bin, r.commit = r0.commit
        PROVE  Blank(r)' /\ Measuring(r)' /\ Holding(r)' /\ Shipping(r)'
    <3>1. Blank(r)' /\ Measuring(r)'
      BY <2>2 DEF Blank, Measuring
    <3>2. Holding(r)'
      BY <1>2, <2>1, <2>2 DEF Holding
    <3>3. Shipping(r)'
      BY <1>2, <1>3, <2>2 DEF Shipping
    <3>. QED
      BY <3>1, <3>2, <3>3
  <2>. QED
    BY <1>1, <1>2, <1>5, <2>2, GotoKeeps
<1>6. ASSUME NEW to \in {"record", "perturb"}, Goto(p, to), r0.job \in {"install", "self-test"}
      PROVE  CheckoutInv'
  <2>1. ASSUME NEW r, r.pc = to, r.job = r0.job
        PROVE  Blank(r)' /\ Measuring(r)' /\ Holding(r)' /\ Shipping(r)'
    BY <1>6, <2>1 DEF Blank, Measuring, Holding, Shipping
  <2>. QED
    BY <1>1, <1>2, <1>6, <2>1, GotoKeeps
<1>. QED
  BY <1>1, <1>4, <1>5, <1>6 DEF Verdict

LEMMA AfterVerdictKeeps ==
  ASSUME OneAtATime, CheckoutInv, NEW p \in Proc, AfterVerdict(p)
  PROVE  CheckoutInv'
<1>1. PICK r0 : r0 = proc[p]
  OBVIOUS
<1>2. r0.pc = "passed" /\ UNCHANGED <<tree, parts, stamp, cache, man, wheel>>
  BY <1>1 DEF AfterVerdict, At, disk, filed, made, desk
<1>3. Holding(r0) /\ Shipping(r0)
  BY <1>1, Mine
<1>4. CASE Leave(p)
  <2>1. Shaped' /\ FiledIsMeasured' /\ WheelIsItsCommit'
    BY <1>2, Mine, FilesStay
  <2>. QED
    BY <1>4, <2>1, LeaveKeeps
<1>5. ASSUME NEW to \in {"record", "perturb"}, Goto(p, to), r0.job = "wheel" => to = "record"
      PROVE  CheckoutInv'
  <2>1. ASSUME NEW r, r.pc = to, r.job = r0.job, r.bin = r0.bin, r.commit = r0.commit
        PROVE  Blank(r)' /\ Measuring(r)' /\ Holding(r)' /\ Shipping(r)'
    <3>1. Blank(r)' /\ Measuring(r)' /\ Holding(r)'
      BY <1>5, <2>1 DEF Blank, Measuring, Holding
    <3>2. Shipping(r)'
      BY <1>2, <1>3, <1>5, <2>1 DEF Shipping, Holding
    <3>. QED
      BY <3>1, <3>2
  <2>. QED
    BY <1>1, <1>2, <1>5, <2>1, GotoKeeps
<1>6. Goto(p, "record") \/ (r0.job = "self-test" /\ Goto(p, "perturb")) \/ Leave(p)
  BY <1>1 DEF AfterVerdict
<1>. QED
  BY <1>4, <1>5, <1>6

(* What the self-test puts by is what was measured.                        *)
LEMMA PerturbKeeps ==
  ASSUME OneAtATime, CheckoutInv, NEW p \in Proc, Perturb(p)
  PROVE  CheckoutInv'
<1>1. PICK r0 : r0 = proc[p]
  OBVIOUS
<1>2. PICK m : m = man
  OBVIOUS
<1>3. PICK r : r = [r0 EXCEPT !.pc = "restore", !.want = m]
  OBVIOUS
<1>4. /\ proc' = [proc EXCEPT ![p] = r] /\ UNCHANGED <<tree, parts, stamp, cache, wheel>>
      /\ r0.pc = "perturb"
      /\ man' = [man EXCEPT ![Last].shards = "foreign"]
  BY <1>1, <1>2, <1>3 DEF Perturb, At, disk, made, desk
<1>5. Entry(r0) /\ Shipping(r0) /\ Shaped /\ FiledIsMeasured /\ WheelIsItsCommit
  BY <1>1, Mine
<1>6. /\ Entry(r) /\ r.pc = "restore" /\ r.job = r0.job /\ r.want = m /\ r.commit = r0.commit
  BY <1>3, <1>4, <1>5 DEF Entry
<1>7. \A a \in Arch : Filing(m[a]) /\ m[a].ent = Shipped(m[a].src)
  BY <1>2, <1>5 DEF Shaped, FiledIsMeasured
<1>8. Blank(r)' /\ Measuring(r)'
  BY <1>6 DEF Blank, Measuring
<1>9. Holding(r)'
  BY <1>6, <1>7 DEF Holding
<1>10. Shipping(r)'
  BY <1>4, <1>5, <1>6 DEF Shipping
<1>11. /\ man' = [b \in Arch |-> man'[b]]
       /\ \A b \in Arch : Filing(man'[b]) /\ man'[b].src = man[b].src /\ man'[b].ent = man[b].ent
  <2>1. man' = [b \in Arch |-> IF b = Last THEN [man[b] EXCEPT !.shards = "foreign"] ELSE man[b]]
    BY <1>4, <1>5 DEF Shaped
  <2>2. ASSUME NEW b \in Arch, NEW m0, m0 = man[b], NEW m1, m1 = [m0 EXCEPT !.shards = "foreign"]
        PROVE  Filing(m1) /\ m1.src = m0.src /\ m1.ent = m0.ent
    <3>1. m0 = [src |-> m0.src, ent |-> m0.ent, shards |-> m0.shards]
      BY <1>5, <2>2 DEF Shaped, Filing
    <3>. QED
      BY <2>2, <3>1 DEF Filing
  <2>3. ASSUME NEW b \in Arch
        PROVE  Filing(man'[b]) /\ man'[b].src = man[b].src /\ man'[b].ent = man[b].ent
    <3>1. CASE b = Last
      <4>1. man'[b] = [man[b] EXCEPT !.shards = "foreign"]
        BY <2>1, <3>1
      <4>. QED
        BY <2>2, <4>1
    <3>2. CASE b # Last
      <4>1. man'[b] = man[b]
        BY <2>1, <3>2
      <4>. QED
        BY <1>5, <4>1 DEF Shaped
    <3>. QED
      BY <3>1, <3>2
  <2>. QED
    BY <2>1, <2>3
<1>12. Shaped'
  BY <1>4, <1>5, <1>11 DEF Shaped, Filing
<1>13. FiledIsMeasured'
  BY <1>4, <1>5, <1>11 DEF FiledIsMeasured
<1>14. WheelIsItsCommit'
  BY <1>4, <1>5 DEF WheelIsItsCommit
<1>. QED
  BY <1>4, <1>6, <1>8, <1>9, <1>10, <1>12, <1>13, <1>14, Stepped

LEMMA RestoreKeeps ==
  ASSUME OneAtATime, CheckoutInv, NEW p \in Proc, Restore(p)
  PROVE  CheckoutInv'
<1>1. PICK r0 : r0 = proc[p]
  OBVIOUS
<1>2. /\ Leave(p) /\ UNCHANGED <<cache, wheel>> /\ r0.pc = "restore"
      /\ man' = [man EXCEPT ![Last] = r0.want[Last]]
  BY <1>1 DEF Restore, At, disk, made, desk
<1>3. Holding(r0) /\ Shaped /\ FiledIsMeasured /\ WheelIsItsCommit
  BY <1>1, Mine
<1>4. /\ man' = [b \in Arch |-> man'[b]]
      /\ \A b \in Arch : man'[b] = man[b] \/ man'[b] = r0.want[b]
  BY <1>2, <1>3 DEF Shaped
<1>5. \A b \in Arch : Filing(r0.want[b]) /\ r0.want[b].ent = Shipped(r0.want[b].src)
  BY <1>2, <1>3 DEF Holding
<1>6. Shaped'
  BY <1>2, <1>3, <1>4, <1>5 DEF Shaped, Filing
<1>7. FiledIsMeasured'
  BY <1>2, <1>3, <1>4, <1>5 DEF FiledIsMeasured
<1>8. WheelIsItsCommit'
  BY <1>2, <1>3 DEF WheelIsItsCommit
<1>. QED
  BY <1>2, <1>6, <1>7, <1>8, LeaveKeeps

LEMMA InitCheckout == Init => CheckoutInv
<1>. SUFFICES ASSUME Init  PROVE CheckoutInv
  OBVIOUS
<1>1. PICK s \in Src : man = [a \in Arch |-> [src |-> s, ent |-> Shipped(s), shards |-> "table"]]
  BY DEF Init
<1>2. /\ cache = [tu \in TU |-> None] /\ wheel = None /\ proc = [p \in Proc |-> Idle]
  BY DEF Init
<1>3. Shaped /\ FiledIsMeasured /\ WheelIsItsCommit
  <2>1. Shaped
    BY <1>1, <1>2 DEF Shaped, Filing
  <2>2. \A a \in Arch : man[a].ent = Shipped(man[a].src)
    BY <1>1
  <2>3. FiledIsMeasured
    BY <1>2, <2>2 DEF FiledIsMeasured
  <2>. QED
    BY <1>2, <2>1, <2>3 DEF WheelIsItsCommit
<1>4. Invoked
  BY <1>2, IdleShape DEF Invoked
<1>5. ASSUME NEW p \in Proc  PROVE Sound(proc[p])
  <2>1. proc[p].pc = "idle"
    BY <1>2, IdleShape
  <2>. QED
    BY <2>1 DEF Sound, Blank, Measuring, Holding, Shipping
<1>. QED
  BY <1>3, <1>4, <1>5 DEF CheckoutInv

LEMMA StepCheckout ==
  ASSUME OneAtATime, CheckoutInv, NEW p \in Proc, Step(p)
  PROVE  CheckoutInv'
<1>1. ASSUME NEW tu \in TU, Compile(p, tu) \/ Reuse(p, tu) \/ Measure(p, tu) \/ Store(p, tu)
      PROVE  CheckoutInv'
  BY <1>1, BuildUnitKeeps, ReuseKeeps, MeasureUnitKeeps, StoreKeeps
<1>2. ASSUME NEW job \in Jobs, Start(p, job)  PROVE CheckoutInv'
  BY <1>2, StartKeeps
<1>3. ASSUME NEW a \in Arch, WriteManifest(p, a)  PROVE CheckoutInv'
  BY <1>3, WriteManifestKeeps
<1>4. CASE Stop(p) \/ Gates(p) \/ WriteParts(p) \/ WriteStamp(p) \/ Acquire(p)
  BY <1>4, StopKeeps, GatesKeep, PartsKeep, StampKeeps, AcquireKeeps
<1>5. CASE Link(p) \/ PostBuild(p) \/ Record(p) \/ Package(p)
  BY <1>5, LinkAllKeeps, PostBuildKeeps, RecordKeeps, PackageKeeps
<1>6. CASE MeasureParts(p) \/ MeasureStamp(p) \/ BeginWrite(p) \/ Derive(p)
  BY <1>6, MeasurePartsKeep, MeasureStampKeeps, BeginWriteKeeps, DeriveKeeps
<1>7. CASE Verdict(p) \/ AfterVerdict(p) \/ Perturb(p) \/ Restore(p)
  BY <1>7, VerdictKeeps, AfterVerdictKeeps, PerturbKeeps, RestoreKeeps
<1>. QED
  BY <1>1, <1>2, <1>3, <1>4, <1>5, <1>6, <1>7 DEF Step

LEMMA NextCheckout ==
  ASSUME OneAtATime
  PROVE  CheckoutInv /\ [Next]_vars => CheckoutInv'
<1>. SUFFICES ASSUME CheckoutInv, [Next]_vars  PROVE CheckoutInv'
  OBVIOUS
<1>1. CASE Edit
  BY <1>1, EditKeeps
<1>2. CASE Commit
  BY <1>2, SameKeeps DEF Commit, disk, filed, made
<1>3. ASSUME NEW p \in Proc, Step(p)  PROVE CheckoutInv'
  BY <1>3, StepCheckout
<1>4. CASE UNCHANGED vars
  BY <1>4, SameKeeps DEF vars, disk, filed, made, desk
<1>. QED
  BY <1>1, <1>2, <1>3, <1>4 DEF Next

(* Whatever a phase has collected is of the tree as it stands, and what    *)
(* the wheel job carries is of its commit (ratify.py measure_units and     *)
(* main, setup.py run).                                                    *)
THEOREM WorkIsOfTheTree ==
  ASSUME OneAtATime
  PROVE  Spec => []CheckoutInv
BY InitCheckout, NextCheckout, PTL DEF Spec

(* Every record answers to what it was compiled from, every manifest holds *)
(* the shipped arms of the source it names.                                *)
THEOREM FiledHolds ==
  ASSUME OneAtATime
  PROVE  Spec => []FiledIsMeasured
<1>1. CheckoutInv => FiledIsMeasured
  BY DEF CheckoutInv
<1>. QED
  BY <1>1, WorkIsOfTheTree, PTL

(* A gate that passes has manifests of this very tree, and each entry is   *)
(* what the shipped build of the tree assembles to.                        *)
THEOREM GateHolds ==
  ASSUME OneAtATime
  PROVE  Spec => []PassedGateIsTrue
<1>1. CheckoutInv => PassedGateIsTrue
  <2>. SUFFICES ASSUME CheckoutInv, NEW p \in Proc, At(p, "passed"), NEW a \in Arch
                PROVE  man[a].src = tree /\ man[a].ent = Shipped(tree)
    BY DEF PassedGateIsTrue
  <2>1. man[a].src = tree
    BY Mine DEF Holding, At
  <2>. QED
    BY <2>1, Mine DEF FiledIsMeasured
<1>. QED
  BY <1>1, WorkIsOfTheTree, PTL

(* A wheel is the shipped build of its commit, with manifests measured on  *)
(* that commit's tree beside it.                                           *)
THEOREM WheelHolds ==
  ASSUME OneAtATime
  PROVE  Spec => []WheelIsItsCommit
<1>1. CheckoutInv => WheelIsItsCommit
  BY DEF CheckoutInv
<1>. QED
  BY <1>1, WorkIsOfTheTree, PTL
=============================================================================
