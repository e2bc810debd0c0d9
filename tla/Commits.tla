------------------------------ MODULE Commits -------------------------------
(***************************************************************************)
(* What a commit of this repository carries, and the tools that decide it: *)
(*   tools/git-hooks/pre-commit, .pre-commit-config.yaml   the hooks       *)
(*   tools/docrefs.py         the docs' references and their pins          *)
(*   tools/lint/ratchet.py    a lint's findings and their baseline         *)
(*   tools/gen_shards.py      the generated units (Arms)                   *)
(*   tools/dev.py             init, worktree, the container and its gate   *)
(* The hooks see the staged tree: pre-commit puts unstaged changes aside,  *)
(* so the files below are those of the commit in the making.  One lint     *)
(* stands for the six; a finding's message and the line it names are one   *)
(* Message; the public and the private lock are one lock.                  *)
(***************************************************************************)
EXTENDS Arms, FiniteSetsExt

CONSTANTS Spans,       \* places a doc can cite from: [doc, target, bare]
          Exists,      \* a target the checks only look for: read as ""
          Gone,        \* a target that resolves to nothing
          ReadsAs,     \* what each target may read as: contents, Exists or Gone
          Files, Messages, MaxCount,
          Envs,        \* contents of the dev environment's inputs
          MaxChanges   \* bound: edits by hand

VARIABLES text,     \* the spans the docs hold
          reads,    \* what each target reads as
          pins,     \* the reference lock: [(doc, target) -> [sha, reviewed]] or Nothing
          found,    \* the lint's findings: [Files \X Messages -> Nat]
          base,     \* its baseline, or Nothing
          env,      \* the environment's inputs
          last,     \* HEAD: a record of all of these, the arms' files among them
          checks,   \* container checks on record: [Envs -> "none", "green", "red"]
          wired,    \* this checkout's hooksPath is the tracked hooks
          shared,   \* the repository's own hook refuses
          seen,     \* history: who cited what, and the content it was read against
          changes

docVars == <<text, reads, pins, seen>>
lintVars == <<found, base>>
gateVars == <<env, checks, wired, shared, last>>
commitVars == <<docVars, lintVars, gateVars, changes, armsVars>>

Targets == {s.target : s \in Spans}
Key(s) == <<s.doc, s.target>>

Changed == changes < MaxChanges /\ changes' = changes + 1

-----------------------------------------------------------------------------
(* tools/docrefs.py: what the docs cite, and the lock against it. *)

\* references: on a mirror page a bare name cites its source's primitive when
\* it is found there, or when it was once pinned.
CitesWith(pinned) == {Key(s) : s \in {s \in text :
  ~s.bare \/ reads[s.target] \notin {Gone, Exists} \/ Key(s) \in pinned}}

Cites == CitesWith(IF pins = Nothing THEN {} ELSE DOMAIN pins)

Read(k) == reads[k[2]]

\* init: everything cited, unread, what is broken with no digest.
Unread == [k \in CitesWith({}) |-> [sha |-> Read(k), reviewed |-> FALSE]]

Broken(lock) == {k \in DOMAIN lock : lock[k].sha = Gone}

New == Cites \ DOMAIN pins
Stale == DOMAIN pins \ Cites
Grown == IF last.pins = Nothing THEN {} ELSE Broken(pins) \ Broken(last.pins)
Pending == {k \in Cites \cap DOMAIN pins : pins[k].sha # Gone /\ Read(k) # pins[k].sha}

RefsHold == pins # Nothing /\ New = {} /\ Stale = {} /\ Grown = {}

\* docrefs.py --closing.
Closing ==
  /\ RefsHold /\ Pending = {} /\ Broken(pins) = {}
  /\ \A k \in DOMAIN pins : pins[k].reviewed

InitRefs ==
  /\ pins = Nothing
  /\ pins' = Unread
  /\ UNCHANGED <<text, reads, seen, lintVars, gateVars, changes, armsVars>>

\* The references of the doc that accept pins: those that are new, those
\* whose target reads otherwise than their pin, all of them with --whole.
Accepted(d, whole) == {k \in Cites : k[1] = d /\ Read(k) # Gone /\
  (k \in New \/ pins[k].sha # Read(k) \/ (whole /\ ~pins[k].reviewed))}

\* What the person who ran it says was read.
ReadNow(d, whole) == {<<k, Read(k)>> : k \in {k \in Cites : k[1] = d /\
  (whole \/ k \in New \/ pins[k].sha # Read(k))}}

\* Mutant: accepting a doc marks its unread pins read.
Accept_Mutant(d, whole) ==
  /\ pins # Nothing
  /\ LET now == {k \in Cites : k[1] = d /\ Read(k) # Gone}
     IN  pins' = [k \in DOMAIN pins \cup now |->
           IF k \in now THEN [sha |-> Read(k), reviewed |-> TRUE] ELSE pins[k]]
  /\ seen' = seen \cup ReadNow(d, whole)
  /\ UNCHANGED <<text, reads, lintVars, gateVars, changes, armsVars>>

Accept(d, whole) ==
  /\ pins # Nothing
  /\ LET now == Accepted(d, whole)
     IN  pins' = [k \in DOMAIN pins \cup now |->
           IF k \in now THEN [sha |-> Read(k), reviewed |-> TRUE] ELSE pins[k]]
  /\ seen' = seen \cup ReadNow(d, whole)
  /\ UNCHANGED <<text, reads, lintVars, gateVars, changes, armsVars>>

Prune ==
  /\ pins # Nothing /\ Stale # {}
  /\ pins' = [k \in DOMAIN pins \cap Cites |-> pins[k]]
  /\ UNCHANGED <<text, reads, seen, lintVars, gateVars, changes, armsVars>>

EditDoc(s) ==
  /\ Changed
  /\ text' = IF s \in text THEN text \ {s} ELSE text \cup {s}
  /\ UNCHANGED <<reads, pins, seen, lintVars, gateVars, armsVars>>

EditTarget(t) ==
  /\ Changed
  /\ \E c \in ReadsAs[t] \ {reads[t]} : reads' = [reads EXCEPT ![t] = c]
  /\ UNCHANGED <<text, pins, seen, lintVars, gateVars, armsVars>>

DropLock ==
  /\ Changed /\ pins # Nothing /\ pins' = Nothing
  /\ UNCHANGED <<text, reads, seen, lintVars, gateVars, armsVars>>

-----------------------------------------------------------------------------
(* tools/lint/ratchet.py. *)

Bags == [Files \X Messages -> 0..MaxCount]

\* Counter subtraction, summed over the files: what `a` has of m beyond `b`.
Beyond(a, b, m) == MapThenSumSet(LAMBDA f : IF a[f, m] > b[f, m] THEN a[f, m] - b[f, m] ELSE 0, Files)

\* Mutant: one finding left behind stands for every arrival of its message.
GrownTo_Mutant(b, old) == {m \in Messages : Beyond(b, old, m) > 0 /\ Beyond(old, b, m) = 0}

\* verdict: entries HEAD's baseline lacks, a finding that left one file and
\* arrived in another being one finding.
GrownTo(b, old) == {m \in Messages : Beyond(b, old, m) > Beyond(old, b, m)}

\* No new finding, no fixed one, and a baseline that did not grow.
RatchetHolds ==
  /\ base # Nothing /\ found = base
  /\ last.base # Nothing => GrownTo(base, last.base) = {}

InitBaseline ==
  /\ base = Nothing /\ base' = found
  /\ UNCHANGED <<found, docVars, gateVars, changes, armsVars>>

Shrink ==
  /\ base # Nothing
  /\ base' = [x \in Files \X Messages |-> IF base[x] < found[x] THEN base[x] ELSE found[x]]
  /\ base' # base
  /\ UNCHANGED <<found, docVars, gateVars, changes, armsVars>>

\* The sources change, a file is renamed, or the baseline is written by hand.
EditSource(x) ==
  /\ Changed
  /\ \E n \in 0..MaxCount \ {found[x]} : found' = [found EXCEPT ![x] = n]
  /\ UNCHANGED <<base, docVars, gateVars, armsVars>>

Rename(f, g) ==
  /\ Changed /\ f # g
  /\ \A m \in Messages : found[f, m] + found[g, m] <= MaxCount
  /\ found' = [x \in Files \X Messages |->
       IF x[1] = f THEN 0 ELSE IF x[1] = g THEN found[x] + found[f, x[2]] ELSE found[x]]
  /\ found' # found
  /\ UNCHANGED <<base, docVars, gateVars, armsVars>>

EditBaseline ==
  /\ Changed /\ \E b \in Bags \cup {Nothing} : b # base /\ base' = b
  /\ UNCHANGED <<found, docVars, gateVars, armsVars>>

-----------------------------------------------------------------------------
(* tools/dev.py. *)

\* The environment's key stands for its content.  A key's record is written
\* over by the next check of it.
ContainerCheck ==
  /\ \E verdict \in {"green", "red"} : checks' = [checks EXCEPT ![env] = verdict]
  /\ checks' # checks
  /\ UNCHANGED <<env, last, wired, shared, docVars, lintVars, changes, armsVars>>

\* Mutant: a key with a record on file is taken as checked.
ContainerGate_Mutant == env # last.env => checks[env] # "none"

ContainerGate == env # last.env => checks[env] = "green"

EditEnv ==
  /\ Changed /\ \E e \in Envs \ {env} : env' = e
  /\ UNCHANGED <<checks, last, wired, shared, docVars, lintVars, armsVars>>

\* cmd_init wires each checkout's gate, then the refusal every other checkout
\* meets; it may stop in between.
DevInit ==
  /\ wired' = TRUE /\ shared' \in {shared, TRUE}
  /\ <<wired', shared'>> # <<wired, shared>>
  /\ UNCHANGED <<env, checks, last, docVars, lintVars, changes, armsVars>>

\* The person goes on in a new worktree of HEAD: made by hand, with no gate
\* of its own, or by cmd_worktree, with its gate wired before anything else.
Worktree(byHand) ==
  /\ Changed
  /\ wired' = ~byHand
  /\ text' = last.text /\ reads' = last.reads /\ pins' = last.pins
  /\ found' = last.found /\ base' = last.base /\ env' = last.env
  /\ decl' = last.decl /\ units' = last.units
  /\ UNCHANGED <<seen, checks, last, shared, header, obj, bin, build, builds, declared>>

-----------------------------------------------------------------------------
Staged == [text |-> text, reads |-> reads, pins |-> pins, found |-> found,
           base |-> base, env |-> env, decl |-> decl, units |-> units]

\* The hooks that read these files.
HooksPass == ShardsHold /\ RatchetHolds /\ RefsHold /\ ContainerGate

\* git runs the hook of the checkout's own path, else the repository's.
GitCommit ==
  /\ IF wired THEN HooksPass ELSE ~shared
  /\ last' = Staged /\ last' # last
  /\ UNCHANGED <<docVars, lintVars, env, checks, wired, shared, changes, armsVars>>

CommitsInit ==
  /\ ArmsInit
  /\ text \in SUBSET Spans
  /\ reads \in {r \in [Targets -> UNION {ReadsAs[t] : t \in Targets}] :
                  \A t \in Targets : r[t] \in ReadsAs[t]}
  /\ pins \in {Nothing, Unread}
  /\ found \in Bags
  /\ base \in {Nothing, found}
  /\ env \in Envs
  /\ last = Staged
  /\ checks = [e \in Envs |-> "none"]
  /\ wired = FALSE /\ shared = FALSE
  /\ seen = {} /\ changes = 0

\* The work on each family of files, by its tools and by hand.
DocWork ==
  \/ InitRefs \/ Prune
  \/ \E s \in Spans, whole \in BOOLEAN : Accept(s.doc, whole)
  \/ \E s \in Spans : EditDoc(s) \/ EditTarget(s.target)
  \/ DropLock

LintWork ==
  \/ InitBaseline \/ Shrink \/ EditBaseline
  \/ \E x \in Files \X Messages : EditSource(x)
  \/ \E f, g \in Files : Rename(f, g)

EnvWork == ContainerCheck \/ EditEnv

UnitWork ==
  /\ (\E d \in Declarations : Declare(d)) \/ WriteUnits
  /\ UNCHANGED <<docVars, lintVars, gateVars, changes>>

GitWork == DevInit \/ (\E byHand \in BOOLEAN : Worktree(byHand)) \/ GitCommit

CommitsNext == DocWork \/ LintWork \/ EnvWork \/ UnitWork \/ GitWork

CommitsSpec == CommitsInit /\ [][CommitsNext]_commitVars
-----------------------------------------------------------------------------
(***************************************************************************)
(* Properties.                                                             *)
(***************************************************************************)
\* Every variable holds what its file may hold; the lock pins real citations.
CommitsTypeOK ==
  /\ ArmsTypeOK
  /\ text \subseteq Spans
  /\ \A t \in Targets : reads[t] \in ReadsAs[t]
  /\ pins # Nothing => \A k \in DOMAIN pins : pins[k].sha \in ReadsAs[k[2]]
  /\ found \in Bags /\ base \in Bags \cup {Nothing}
  /\ env \in Envs /\ checks \in [Envs -> {"none", "green", "red"}]
  /\ wired \in BOOLEAN /\ shared \in BOOLEAN
  /\ seen \subseteq {Key(s) : s \in Spans} \X UNION {ReadsAs[t] : t \in Targets}
  /\ changes \in 0..MaxChanges

\* When the docs pass is closed, every citation of every doc names something
\* that exists, and somebody read it against exactly what it says today,
\* however its target changed, vanished and came back, and whether or not the
\* lock was started anew in between (docrefs.py main, --closing).
ClosedIsRead ==
  Closing => \A k \in Cites : Read(k) # Gone /\ <<k, Read(k)>> \in seen

\* From commit to commit no broken reference joins the backlog, and no
\* message of a lint has more findings in the tree than HEAD's baseline has:
\* files may be renamed and baselines written by hand (docrefs.py verdict,
\* ratchet.py verdict).
BacklogsShrink ==
  [][last' # last /\ shared =>
       /\ last.pins # Nothing => Broken(last'.pins) \subseteq Broken(last.pins)
       /\ last.base # Nothing => \A m \in Messages :
            MapThenSumSet(LAMBDA f : last'.found[f, m], Files)
              <= MapThenSumSet(LAMBDA f : last.base[f, m], Files)]_commitVars

\* Once dev.py init has finished, no checkout makes a commit that the hooks
\* would refuse: what HEAD's docs cite is pinned in HEAD's own lock and only
\* that, the units are those of its declaration, and its environment is the
\* one before or one a container check passed in (dev.py cmd_init).
NoCommitUnchecked ==
  [][last' # last /\ shared =>
       /\ Cites = DOMAIN last'.pins
       /\ last'.units = Units(last'.decl.rows)
       /\ last'.env = last.env \/ checks[last'.env] = "green"]_commitVars
=============================================================================
