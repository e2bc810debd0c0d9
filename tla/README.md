# RoLA in TLA+

RoLA is a recurrent linear-attention layer whose state is a sparse, paged table
of leaves. A Python layer (`rola/`) walks small DAGs of facts for each call; a
CUDA extension (`csrc/rola/`) does the work. Two recipes exist: the **chunk**
recipe (prefill and training, `rola/engine/dags/chunk_dag.py`, the carry kernel)
and the **decode** recipe (one token, `rola/engine/dags/decode_dag.py`,
`decode.cu`). What makes the system hard is not its arithmetic but who may touch
which page, slot, counter and buffer when: the host, two CUDA streams, the
blocks of a decode launch, the warps of a chunk launch, and a driver that may
refuse memory; and, around it, which of many derived things (a column, a mask, a
fact, a manifest) still says the truth when it is used. That is what is modelled
here; numerical content is abstracted to counts of deposits, to which version of
a buffer is read, and to which solve a cell holds.

## The system

| part | source | state it keeps | operations | hard behaviour | correct when |
|---|---|---|---|---|---|
| page arena | `rola/ops/paging.py`, `rola/engine/rules/paging.py` | page table, allocator cursor, slack pool and its cursor, the device's claim row, committed prefix | `plan_exact`, `reset`, `refill_pool`, `materialize` | the device claims slots the host later has to respect; a refused growth; long legal call sequences | no slot has two owners, no slot moves, reads equal the dense state |
| VMM owner | `csrc/rola/src/paging/` | reserved range, mapped chunks, live views | `grow`, `rollback_to`, `base`, `close`, destructor | any driver call may fail half way; work in flight; views outliving the owner | the reported prefix is mapped, nothing leaks, nothing is unmapped under work |
| admission order | `PageArena` over CUDA streams, `engine/facts/nodes.py` | two stream queues, one event | plan, publish, zero, record, join, launch | host runs ahead; publications in flight | a launch finds its admission complete |
| decode step | `csrc/rola/src/decode/`, `decode_dag.py` | done, growth and arrival flags in a reused workspace | gated step, growth, replay | blocks in any order, part of the heads refused, the replay | each head advances once a token, over all its segments |
| chunk kernel | `csrc/rola/src/carry/` | two pool slots, barriers, byte counts, tile counters, snapshot | head, snapshot, readout, fold per window | warps drift apart; parity bits; buffers reused | no torn chunk or tile, every window ends |
| sequence state | `rola/_state.py` | format, plane or arena, decode workspace | bind, commit, clone, drop | lifecycle across calls that raise anywhere | each handle holds its own calls, in order, in every batch-head |
| engine | `rola/engine/runner.py`, `dags/`, `rules/`, `facts/` | fact bag, memo tables | a walk over a recipe, node by node | a node raises and what earlier nodes did stays; memoized and masked facts | the plan, the pages and the launch agree; a returned call is absorbed |
| leaf lattice | `rola/ops/lattice.py`, `decode_lattice.cuh` | none | box of a topology, factor tables, walk | padded, rotated, strided ranks over disjoint products | each live leaf is visited once, at the host's index |
| routing, entmax | `rola/routing`, `csrc/rola/src/entmax` | none between calls | resolve, project, batched solves, backward | three forms of level, one or two streams, gain columns, shared arenas | batched equals unbatched, each column learns once |
| liveness facts | `rola/ops/padding.py`, `engine/facts/liveness.py`, `csrc/rola/src/facts` | none | pad, pack, vote, fold to pages | bits packed over tokens, ANDed over levels, ORed over boxes | no page is skipped that a token touches |
| build and ratification | `setup.py`, `tools/ratify.py`, `tools/wheels.py`, `tools/build_lock.py` | generated headers, flags, cache, manifests, record, wheel | install, write, check, derive, split | files outlive the build that wrote them; any job may be killed | a passed gate, a manifest and a wheel describe what was built |
| carry arms of a build | `tools/gen_shards.py`, `setup.py` | declaration, units, selection header, objects, extension | declare, regenerate, select, compile, link, check | several builds share one checkout; the header is written before the lock | a kept extension serves each selected row by that row's body |
| commit gates | `tools/git-hooks/`, `tools/docrefs.py`, `tools/lint/ratchet.py`, `tools/dev.py` | reference lock, baselines, container records, wiring, HEAD | accept, prune, shrink, check, init, worktree, commit | each compares three versions (HEAD's, the lock's, the tree's) that people edit | closed docs were read, backlogs shrink, no commit goes unchecked |
| prefill, carry, intra, reference | `rola/ops/prefill.py`, `carry.py`, `intra.py`, `naive.py`, their kernels | the state plane | refuse, bind, carry, intra | two kernels share the pairs; boxes, tiles, slabs and pages are skipped | every pair of the recurrence is added once, and the state left is its own |
| other tools, tests, measurement, vendored CUTLASS | `tools/`, `tests/`, `measure/`, `csrc/third_party/` | - | - | - | not the program |

How they interact: a recipe asks the state for its arena (`residency`), which
plans against the table, takes slots from the allocator, grows the VMM owner and
publishes on its own stream; `join` orders the consumer launch after it; the
launch (chunk or decode) reads and writes pages by the table. A decode launch
may claim pool slots itself, folding them into the table; a claim it cannot make
is reported through `growth_any`, the host grows the arena and the step is run
again. What a launch may touch is decided before it: the router's columns are
solved level by level into two planes, the planes are voted into bits, the bits
are folded into the pages to load and to store. `PROJECT.json` lists all parts, the hazards at their lines, and the lines
each definition stands for.

## The modules

**`DenseState`** is what a sequence state means to its readers: a count of
deposits per logical leaf group (atom), cleared by a fresh plan. **`TokenOnce`** is
what a decode token promises: each batch-head advances exactly once per token, or
the step raises and nothing was deposited twice.

**`PageArena`** is the arena and the device's claims against it. `table`, `next`,
`mapped`, `poolSlots`, `poolCursor`, `poolMap` are the fields `_page_table`, the
allocator's cursor, the owner's mapped prefix, `_pool_slots`, `_pool_cursor`,
`_pool_map`; `plane` holds deposits per slot (`Unwritten` marks memory nobody
zeroed). `lost` is a history variable: how many slots were taken since the last reset
for a growth that the driver then refused. `PlanContinue`/`PlanFresh` are `plan_exact`, each with its three
outcomes: served, refused by the allocator, growth refused by the driver;
`DeviceStep` is one batch-head's step, resident or claiming; `RefillPool` has the
same outcomes as a plan. `ResetAfterClaims` says whether a fresh plan may follow
a device claim, the one history after which claim row and table differ.
`ImplementsDense` is the refinement of `DenseState`, with `materialize()` as the
mapping.

**`VmmOwner`** takes a growth apart into its driver calls (create, map, set
access), each of which may fail; rollback, views, close and the destructor are
actions; `working` says a launch may be touching the range. Unmap and release may
fail too, half way through a rollback; `unreleased` is a history variable that
remembers a release that failed after its unmap, the one failure after which the
owner reports more than is mapped.

**`StreamOrder`** keeps the caller's and the arena's streams as queues and runs
host, main and side independently; `nonzero()` is the only place the host stops.
A publication writes its table entries one at a time.

**`DecodeStep`** runs every block (batch-head, segment) of a gated step through
claim, walk, arrival, combination and the head reduction; `AdmitGrowth` is the
host between the two rounds, and `AdmitRaises` the same host when the allocator or
the driver refuses. A run starts anywhere between two steps, with atoms admitted
and pool positions spent by earlier ones. The walk is a count
of deposits; the combination keeps the set of segments whose partials it saw.

**`DecodeLattice`** is what `DecodeStep` takes for granted about the walk: how a
launch gets from a token's live digits to leaves. `DeriveLattice`, `FillLattice`
are the box (`derive_lattice`, `fill_lattice`), `Owners`, `Fields`,
`Units` the tables each CTA derives, `ResolveWriteUnit` and `ResolveUnit` the two
resolvers, `Candidates` the enumeration the claim ranks by, `Turns` the warps'
strides. A support is a set of digits, a 32-bit slice the set of its offsets. The
reference it is checked against is independent of all of that: the products of
the two sides' digits, placed by the host's `permutation`. The CTAs share nothing
before the combine, so a CTA walks in one action.

**`CarryPool`** is the fold of the chunk kernel. Each warp is a process with its
own program counter, its byte-wide counts (`fills`, `takes`) and its owed fill;
`full` and `empty` are mbarriers with a phase and an arrival count, tested by
parity only; a copy in `flight` lands at any time. `Wrap` stands for 256. A count that
wrapped to zero would read as a slot never filled, and the next fill would not wait.

**`CarryWindow`** is the loop around the fold: the head with its three named
barriers, the snapshot by `read_boxes`, the tiles dealt off a shared counter, the
ring of two landing slots. A buffer is represented by the window it was made for,
so reading one too early or too late shows as a wrong number.

**`IntraPipeline`** is the shared memory of one block of the intra kernel: the two slabs,
the values, and the deposit's staging tiles that lie over both (`Spills`). A warp's piece
of a buffer is the tile pair and the stage last stored there, `copies` are those not yet
landed, with the number of commits since (`age`), which is all that `stage_wait` goes by.
`Top`, `Landed`, `Done` are the block's barriers, and between two of them every warp is
at the same pair and stage. Which row tiles a stage has work in is drawn (`rows`,
`coming`), so that every pattern of skipped copies occurs; what the masks then add up is
in `Operator`. `MCOrder` explores it beside `StreamOrder` and `VmmOwner`.

**`SequenceLog`** is what a state handle promises its owner: one sequence, the same
calls in the same order in every batch-head, a clone that starts where its source
stands, nothing left by a dropped handle.

**`Engine`** walks the chunk and the decode recipe one node at a time (`call.at`, over
`Chunk` and `Decode`), with the rules' masks as guards; any node may raise, and what the
nodes before it did to the state (`st`), the scratch memo (`memo`) and the device
(`got`, `written`) stays. The launches appear by their contract: the chunk launch
absorbs its call in every batch-head, the decode launch in those heads whose claim
was served, with the growth round of `DecodeStep` between (`round`). A call is a
member of its sequence by number. `ImplementsLog` is the refinement of
`SequenceLog`, with an open round counted as the call it will complete.

**`Checkout`** is the checkout as the tools see it: `tree`, `head`, the generated
headers (`parts`, `stamp`), the flags ninja kept (`ninja`), the measurement cache,
the manifests and the derivation record, the extension built in place with its
record, and the last wheel. A compile is the record of what its unit read. A job
(`install`, `strict`, `stub`, `subset`, `wheel`, `write`, `check`, `self-test`, `derive`) is a process that runs
step by step and may be killed at any of them; edits of the tree, commits and
reverts are the environment's.

**`Arms`** is how a row of the declaration becomes a kernel in the extension: `decl` is
`shipped_set.json`, `units` the generated sources, `header` the selection of a build,
`obj` and `bin` what was compiled and linked. Each build is a process (`Import`,
`GateShards`, `Select`, `TakeSlots`, `CompileArm`, `LinkArms`, `TableCheck`), beside which
the declaration is edited, the units are regenerated and a measurement writes the
header. `Rows` are numbers in canonical order; `KernelKey` makes rows one kernel.

**`Commits`** is what decides a commit: `docrefs.py` (`pins`, against what the docs' `text`
cites and what its targets read as), the ratchets (`found`, `base`), the container
check and its records, `dev.py init` and `worktree`, and the hooks that git runs, or
does not (`wired`, `shared`). `last` is HEAD. `seen` is a history variable: which content
somebody said a citation was read against. `MCCheckout` puts the three together.

**`Routing`** goes from the packed router to the solved planes and back. Values are
symbolic: a logit is the stream and column it came from, a cell the solve and the
place in it, and a memory cell the set of all that was stored there, so that a
cell left out or written twice shows. `Plan`, `Issue` are the batching of the
solves (`_Plan.add` and its launches), `BackwardLevel` a level of the backward;
the last definitions are the unbatched form it is compared with. Heads, tokens and
the empty launch are left out, and the backward and the hand-over below are
alternatives after the solve.

**`Prefill`** extends it to the activity of the pages: the levels as they arrive
(one plane, two dtypes, tensors of their own, another order), `pad_routes` and
`pack_side`, the vote of a word of tokens, the folds over boxes and pages. What a
solve leaves alive is drawn (`Draws`), from the solve itself, so that equal solves
agree; a softmax may leave a digit at zero (`fades`), which is what bf16 does.

**`Operator`** extends that to the calls over the packed planes. `Refuse` is what each
surface turns down before a launch, `Bind` the geometry and the backing, dense or
paged; `Carry` and `Intra` are the two launches, each the sum of blocks that meet only
in the readout. `BoxAt` is the leaf order of the chunk kernel, declared levels
outermost; `Order`, `Tiles`, `Readout`, `Deposits` are a window, `Block` the die-fast,
the load and the windows in turn, `Gram` the slab-gated product of the intra. A leaf
holds the set of tokens that deposited in it, so a pair of tokens that two places add,
or none, shows. `Recurrence` is `naive_rola` over the unpadded leaves.

**`RouteBundle`** extends that to what a layer hands on: `Produce` is the shipped
producer's fold, `Foreign` a duck-typed one (levels declared opaque, columns laid out
wrong), `Attach` a decay source; the bundle then goes to the chunk plan, to the
one-token step or to the oracle. An amplitude is a monomial over the solved cells, the
sums of rows that are not 1, the gains and the dials, each with its batch, head and
token, so that a mass divided twice or not at all, or a dial of another head, shows.

The modules named `...Proofs` hold the theorems: about `PageArena`, `VmmOwner`,
`DecodeStep`, `StreamOrder` and `IntraPipeline` (`OrderProofs`), `CarryPool`,
`CarryWindow`, `Engine`, and `Checkout` with `Arms` and `Commits` (`CheckoutProofs`).
`MCDecodeStep` and `MCEngine` add the symmetry of their model values, `MCRouting` the
level lists, `MCOrder` the built arms. `MCDecodeStep` (`DecodeStep`, `DecodeLattice`),
`MCOrder` (`StreamOrder`, `IntraPipeline`, `VmmOwner`) and `MCCheckout` put modules side
by side that share no variable: a behaviour is about one of them (`focus`), the rest is
at rest. The other modules need no MC module, since their constants are numbers or
Booleans whose order matters, and are given in the `.cfg`.
An operator whose name extends another's (`Walk_DoneDeposits`, marked "mutant") is that definition with a
plausible bug; `PROJECT.json` pairs it with the property it breaks, and nothing
else uses it.

## The runs

| run | asks | result |
|---|---|---|
| `arena_pooled` | do host plans, device claims, refills and refused growths ever share, move or lose a slot, or deposit half a write set? | no; the arena implements `DenseState` |
| `arena_extents` | how much can be named or lost before alignment makes the arena refuse? | up to (E + 1) / 2E of the dense limit, it serves |
| `arena_total` | is every write set admitted, as the dense limit suggests? | no: one atom, then the rest, is refused |
| `decode_step` | does each head advance once, over all its segments, whatever the order, the refusals and the growth's fate? Does a launch visit each live leaf once, where the host puts it, and rank claims in atom order? | yes |
| `stream_order` | does a launch find its admission done, also after a call that raised? does an intra block multiply what it staged, and deposit where nothing lands? is the mapped prefix real, can every growth be undone, do views keep the range, whatever driver call fails? | yes; for the built arms; until a release fails |
| `carry_pool` | torn chunks, wrapped counts, blocked warps? | none; every window ends |
| `carry_window` | are the head's products, words, counters and ring slots reused safely? | yes; every live tile is read once |
| `carry_first` | does the first window's snapshot cover what its tiles read? | no: a barrier is missing there |
| `engine` | whatever node raises, do plan, pages, run table and history stay those of the calls that returned? | yes; the engine implements `SequenceLog` |
| `engine_refused` | does a state whose calls had one arm keep one decode scratch? | no: a refused call leaves a second |
| `checkout` | does a passed gate, a cached measurement, a manifest, a wheel tell what was built? Does an extension that passed its arm checks serve every row by its own body? Are closed docs read, backlogs shrinking, commits checked? | yes; the first, for one job at a time |
| `routing` | do the batched solves, their backward and the page activity equal the unbatched form, do carry and intra over them add what the recurrence adds, and is a row's mass counted once by whoever takes the bundle? | yes |

The three violations are the findings in `PROJECT.json`. `carry_first` is a race:
`read_boxes` is ORed by all warps after the head's last barrier and, in window 0
only, read before the next one. `engine_refused` is an order: the scratch node runs
before the one that refuses a call of another format, and the scratch it memoized
makes every later growth of the state raise (`_scratch_of`, in `growth_pending` and
`admit_growth`; a `decode_forward` whose token needs no growth still answers).
`arena_total` is arithmetic: `admission()` starts a run that does not fit the open
extent at the next one, so that after a first call of one atom a call for all the
others ends past the capacity, with as many slots free as it asks for. The error text
(`rules/paging.py:55`) and `paging.md:68` take that to be impossible. The run has no
pool and the dense backing; a slack pool, and slots lost with a growth the driver
refused, come on top. What does hold is `SparseIsServed` (`arena_extents`).

More edges show by changing a configuration, or lie where a model's assumptions do:

* `PrefixAlwaysMapped` fails in `StreamOrder.cfg`: a release that fails after its unmap
  leaves the owner reporting pages that are no longer mapped. A rollback whose unmap
  throws half way leaves `committed_bytes_` counting chunks that are gone
  (`committed = mappedBytes` fails).
* The allocator's cursor passes the mapped prefix after a growth the driver
  refuses (`next <= mapped` fails); no table entry names such a slot
  (`NamedSlotsExist`).
* `ClaimRowAgrees` fails with `ResetAfterClaims = TRUE` and a pool: the claim row
  survives a reset, where `docs/internals/ops/decode.md:1246` has the two agree. With
  `ResetAfterClaims = FALSE` it is a conjunct of the arena's invariant and proved
  (`ClaimRowNeverStale`); the run checks what it is needed for, the whole deposit.
* A growth that raised between a round and its replay, followed by another token
  and not by the open one again, loses a deposit (`ExactlyOnce` over two tokens;
  `decode_dag.py:231`).
* A publication fills only absent entries (`paging.py:600`) unless one plan follows
  another with no join between (`ScatterTargetsAbsent`).
* `FiledIsMeasured` fails with two processes: `setup.py` writes its headers without
  the lock, and `ratify.py` releases it before it compiles. `ratify.py --write` takes the
  compile command from ninja's last build (`ratify.py:_ninja_cuda_template`) and records
  the flags of the tree, which differ once `build_flags.py` is edited and nothing
  rebuilt. A wheel build and a failed build overwrite `_build_config.py` while the extension in place stays
  (`setup.py:618`), so the record may describe another build. A self-test killed
  between its perturbation and its restore leaves the foreign shards behind.
* The header may name another build's selection while a subset build compiles, and
  the extension in place may then mix both. Where the header has been written back before
  the build checks it, only the sweep that loads the binary notices (`Sweep_Mutant`).
  `BinaryIsItsSelection` fails with `Settled = FALSE`, where the declaration may be
  edited while a build runs, already with one edit and three builds: the binary is
  linked from the header of a build of the other table, its rows happen to be this
  build's selection, and a third build writes this build's header back before the
  check. The rows agree and the indices do not; a symbol is an index
  (`carry_arm.cuh:54`), and nothing the build checks names the body.
* `docrefs.py` pins the digest of the working tree under HEAD's commit
  (`docrefs.py:_pin`), so `change` may show a difference that was already read.
  Deleting a toolchain record changes the environment's key but is not among the
  staged names `_container_gate` compares (`dev.py:45`), so no check is asked for it.
* `OperandsAreCurrent` fails for an arm that is not built, three levels 16 wide with a
  window of 512: its eight staging tiles (20480 bytes) are longer than its slabs (18432)
  and reach into the values that slower warps still read. The assertion in
  `intra_kernel.cuh:400` adds the values to the room; its message, and
  `docs/internals/intra/intra_kernel.md:338`, have the tiles in the slabs alone.
* `_state.py:259` says `carries` turns true with the first call; the arena is
  assigned while planning, so a call that raises later has turned it.
* `docs/internals/state.md` says of a fresh plane that it is stored whole at exit
  (lines 245 and 289) and needs no prior contents (258), and so does the end of
  `backing`'s docstring (`nodes.py:125`); the kernel stores the pages the call writes
  and no others, and line 150 has a fresh bind zeroed. `Operator` starts a fresh plane at
  zero; with arbitrary contents, the pages not written would keep them.
* `planes.py:147` and `liveness.py:136` take a softmax amplitude never to be zero; in
  bf16 it can be, and then the static mask plans a page too many, never one too few.

### Bounds, and why they are enough

* Arena: two batch-heads of two atoms, extents of one or two, a pool of none or
  one a head. Slots collide pairwise and an extent of two has a boundary and a
  gap. `MaxDeposits` caps deposits per atom; two are enough to tell a lost
  deposit from a doubled one. The theorems hold for all sizes, so also for pools
  of several positions, where ranks matter.
  `arena_extents` has one batch-head of four atoms in two extents, so that runs of one,
  two and three meet an extent half full, a pool that is claimed and refilled between
  them, and growths that are refused; `arena_total` the same without pool and failures.
* VMM owner: page, granularity and chunk sizes chosen so that nothing divides
  anything (3, 4 and a limit of 13); up to two live views.
* Decode: two heads of two atoms in two segments each. A head has fewer units
  than segments, or none, in some steps, so that segments stay empty; a demand
  of one may find one pool position or none, a demand of two never fits. One
  token suffices where runs start between any two steps.
* Lattice: one to three levels; constants scaled so that an atom is two leaves, a
  box at most two atoms, a block two warps that repeat twice. `<<8>>` has two
  atoms to a unit, `<<4, 8>>` three live owners in a field of four and a rotation
  across fields, `<<2, 2, 2>>` an owner that is one digit wide outermost; one to
  three CTAs give strides that repeat and CTAs that retire. `DigitSets` takes
  supports dense, sparse within owners, sparse over owners, and empty.
* Streams: two atoms, at most `MaxCalls` plans (four): one to publish, one to
  race it, and two to see the consequences.
* Intra: the five built arms with their real sizes, so with one, six and eight tiles, one
  and four stages a level, four and eight warps. What can go wrong is between a reader
  and a writer, and fewer warps at a barrier wait for less, so a block's warps are looked
  at in pairs (`Samples`): two of the first row tile, two of the second, one of each. A
  one-tile block has four warps and takes the first pair. Tags of stages past,
  which nothing asks for, are forgotten.
* Engine: two handles, two batch-heads of one atom, two formats, two arms, three
  calls: one to bind, one to collide with, one to see the consequence. A caller
  makes one call at a time, presents an open round again with the same token and
  arm, clones between rounds, and asks for no state it does not pass; planes are
  supplied all or none. The pool is a claim that may fail.
* Checkout: two versions of the sources, two architectures, one process, three
  jobs and two edits, each job killed anywhere: one to leave something behind, one
  to build on it, one to be believed. Edits fall between jobs (`Quiet`).
* Arms: three builds, two at once, so that a third can write back what the first
  reads; declarations of one or two rows, one of which shifts the indices of another,
  out of order, out of the domains, or not readable; one edit (`MaxDeclared`), while
  no build runs (`Settled`; the edge above is why).
* Commits: two citations, one bare and one of a file; a target of two contents, or gone;
  two files with up to two findings of a message; two environments; three edits by hand
  (`MaxChanges`), the tools and commits unbounded. The families of files a commit is
  checked for are disjoint, as are those of builds and arms, so a behaviour is about one
  of them (`focus`) while the rest is at rest; each hook still reads them all.
* Routing: 76 lists of one to three levels: the seven lawful forms alone, in pairs with
  each of three of them (independent, tied, union), on either side, and those three in
  all triples; two to four wide; launches of at most two solves, so that three levels
  alike need a second; no gain column or one.
* Prefill: six or eight tokens in words of two and windows of four, so that a window
  may be partly past the end; pages and boxes of four leaves; levels padded to two or
  four; seven draws that between them have every arrival, dead digits, negative
  zeros, fading softmaxes and the static mask on and off. It is entered without gain
  columns only, which it does not read.
* Operator: tiles of two, slabs of two digits, a block's box two pages, so that an
  owner has a page to skip and a topology several owners. Nine kinds of call: prefill,
  carry and intra on no plane, a fresh one, one read and one advanced, dense and
  paged, with the two orders and different levels declared sparse; one each that the
  surfaces refuse. An intra arm exists at depth two only, four wide, so that the
  other depths are refused and, at depth two, narrower levels are padded or refused.
  A fresh plane starts at zero (see below).
* Bundle: two batches, three heads (so that the two cannot be swapped unnoticed), one or
  two tokens; six foreign bundles, with one, both or no level opaque, the mass left on
  or taken off, tokens and heads swapped in the gain or throughout; each scope of decay
  source, one for other heads, one for other widths, one whose dial rounds to 1. A
  bundle is produced from the two-plane entry and one source stream only.
* Chunk kernel: two warps, the code's two slots, three windows, more chunks than
  slots (`MaxChunks` four), and `Wrap` 4 in place of 256, so that counts wrap
  inside the run; parity and "ever filled" are all the code takes from a count,
  and any even modulus above 3 has both. `MaxTiles` three gives a second warp a
  tile of its own to mint.

`CHECK_DEADLOCK FALSE` stands where the program ends: a closed owner, the last
token, the last plan, the end of a launch. In the two chunk-kernel runs that
matters nothing, since `EveryWindowEnds` rules out stopping early.

Each module or family of modules states its `TypeOK` (`ArmsTypeOK`, `CommitsTypeOK`),
which holds in these configurations too but is left out of the `.cfg` files, whose time
goes to the other invariants; those of `PageArena` and `CarryPool` are theorems.

### Fairness

Only the chunk kernel's specifications state fairness. A launch's warps are
resident together and each is scheduled again and again by the hardware, so each
warp's next step, each barrier's release and each issued copy's landing is weakly
fair. A warp that polls (`Step`, `Take`) is never assumed to find what it polls
for. The host modules state none: nothing obliges a caller to call again.

## What is proved

The theorems hold for every value of the constants that a module's own assumption
admits; a hypothesis beyond that is named. Each rests on an inductive invariant,
checked by TLC on the run's instance before it was proved.

| module | theorem | states | hypothesis |
|---|---|---|---|
| `PageArenaProofs` | `LedgerHolds`, `TypesHold` | `IInv`, `TypeOK` | `ResetAfterClaims = FALSE` |
| | `SlotsNeverShared`, `NamedSlotsAreMapped`, `ClaimRowNeverStale` | `NoSharedSlot`, `NamedSlotsExist`, `ClaimRowAgrees` | the same |
| | `SlotsNeverMove` | `SlotNeverMoves` | the same |
| | `WritesLandWhole`, `PagedIsDense` | `WholeWriteSetDeposited`, `ImplementsDense` | the same |
| | `SparseNeverRefused` | `SparseIsServed` | the same |
| `VmmOwnerProofs` | `PlaneIsPrefix` | `OwnerInv` | |
| | `CountIsTrue`, `GrowthIsUndone`, `UsersKeepTheirs` | `CountedIsMapped`, `GrowthCanBeUndone`, `NothingTakenFromUse` | |
| `DecodeStepProofs` | `AnswersHold` | `StepInv` | |
| | `OneAnswerPerHead`, `NothingLeftBehind` | `SiblingsAgree`, `RoundSettled` | |
| | `DepositsHold`, `OutputIsWhole`, `DepositsAreExact` | `OnceInv`, `OutputComplete`, `ExactlyOnce` | `NoneAbandoned` |
| | `TokensOnce` | `ImplementsOnce` | `NoneAbandoned` |
| | `OneTokenAbandonsNone` | `NoneAbandoned` | `Tokens = 1` |
| `OrderProofs` | `QueuesHold`, `LaunchFindsDense` | `StreamInv`, `LaunchReadsDense` | |
| | `CopiesKeepPace`, `OperandsHold` | `BlockInv`, `OperandsAreCurrent` | `TilesFit` |
| `CarryPoolProofs` | `SlotIsAboutOneChunk`, `PoolIsTyped`, `NoChunkIsTorn` | `IInv`, `TypeOK`, `NoTornChunk` | |
| `CarryWindowProofs` | `SegmentsHold` | `WindowInv` | |
| | `StagesReadCurrent`, `NoTileTwice`, `SnapshotIsWhole` | `ReadsAreCurrent`, `TilesReadOnce`, `SnapshotCoversLater` | |
| `EngineProofs` | `EngineInvariant`, `TypesHold` | `EngineInv`, `TypeOK` | |
| | `PlanHolds`, `RunTableHolds`, `ReturnedHolds` | `PlanIsOneBacking`, `RunTableCovers`, `ReturnedIsAbsorbed` | |
| | `BindingHolds`, `LogHolds` | `BindingIsForGood`, `ImplementsLog` | |
| `CheckoutProofs` | `PinsAreRead`, `ClosedHolds` | `PinsInv`, `ClosedIsRead` | |
| | `CommitsAreChecked` | `NoCommitUnchecked` | |
| | `BuildsShareOneTable`, `BinaryHolds` | `ArmsInv`, `BinaryIsItsSelection` | `Settled` |
| | `WorkIsOfTheTree`, `FiledHolds` | `CheckoutInv`, `FiledIsMeasured` | `OneAtATime` |
| | `GateHolds`, `WheelHolds` | `PassedGateIsTrue`, `WheelIsItsCommit` | the same |

**Page arena.** `NoSharedSlot` is not inductive alone: a plan hands out new slots, so
one must know that every slot anybody names lies below the cursor; a claim hands out
pool slots, so one must know that unspent positions name distinct slots which no table
entry names, and that positions are spent by rank without repetition. `IInv` is the
type invariant with that ledger, and with the agreement of claim row and table.
`ResetAfterClaims` is a hypothesis because without it the claim row does go stale.

`SparseNeverRefused` bounds what alignment costs, for every extent size E, pool and
backing. The allocator fills extents as next fit fills bins: it skips g slots only for a
run longer than g. Its invariant, `Paid`, is (E + 1) times the cursor, plus what is left
of the open extent, within 2E times the slots that are named or lost; a claim moves a
slot from the pool to the table and leaves the sum, a growth the driver refuses moves its
run to `lost`, a reset starts anew. So a demand is served if with it (E + 1) / 2E of the
dense limit or less is named or lost: all of it for E = 1, a little over half for long
extents. The bound is tight: `arena_total` shows one slot more refused, with E = 2 and
four slots. How much refused growths lose is counted, not bounded; each loses at most the
demand it was for.

`PagedIsDense` is the refinement of `DenseState`, initial states and every step, and
`WritesLandWhole` says which step is which deposit. They need `Kept` beside the ledger:
a resident atom's bytes are zeroed or deposited to, an unspent pool slot's are zero, and
a plan's write set stays resident until its launch. A plan then maps atoms onto bytes it
has just zeroed beyond every named slot, a claim onto blank pool slots, and no deposit
reaches another atom or a slot still to be claimed, since no slot has two names.

**VMM owner.** The chunks are a prefix, each ending where a whole number of pages,
rounded up to the granularity, ends, and what the driver holds is that prefix, short
of at most the one chunk whose release failed. So the granules that a failed growth
unmaps are backed by nothing else, and a capacity the owner has reported rounds up to
the end of the chunk it was reported at. No driver call is assumed to succeed.

**Decode step.** What a CTA asks about its head does not change until the head is
published, and the last CTA to arrive publishes it: while a head is open, every CTA's
answer is `Answer`, whenever it asked. `StepInv` adds who has arrived, `OnceInv` what
is deposited by then and what the workspace and the output row hold. `NoneAbandoned`
says that no token is submitted in place of one whose growth was refused; where it is,
a deposit is lost, the edge listed above. A caller that stops at a refusal satisfies
it (`OneTokenAbandonsNone`). `TokensOnce` maps the initial states and every step to
`TokenOnce`.

**Streams.** The host stops at every size read, so the caller's queue holds at most one
launch and, behind it, one clear. Each has a wait in front of it unless the side stream
is idle, and a wait that is passed leaves the side stream idle, because the host admits
nothing while the caller's queue has work. In between, admissions pile up, also from
calls that raised; what they publish and zero belongs to atoms to which nothing is owed,
and so the arena `Holds` what is owed as soon as the side stream is done.

**Intra block.** The barriers keep all warps in one phase of a stage; what a warp has in
flight follows from where it stands, and what it was to have staged by then is in
flight or in place. `TilesFit` is: an arm has one row tile or slabs of 32 digits and
more. `MCOrder` assumes it of the built arms, so that TLC evaluates it; the arm of
the edge above is outside it, and there the theorem would be false.

**Fold's pool.** A warp knows a slot by two parities and two wrapped counts. That is
enough because a slot is at any time about one chunk: either it is being filled, and
then no warp has taken it and none is past its fill, or it is being folded, and then
all have filled it and none fills beyond. The warps, slots, windows, chunks and the
(even) wrap are arbitrary.

**Window loop.** The block's barriers cut a window into segments, and all warps are in
the same one of the same window. What a warp reads of another was made in an earlier
segment and is not made again before a later one; where buffers are two by parity, not
before two windows on. The tile counter is a ledger: below it, a live tile is in exactly
one warp's hands or read.

**Engine.** `EngineInv` has three parts. `BackingInv`: a handle is unbound, or bound
without a backing, or dense, or paged, and what was deposited lies within its pages.
`RoundInv` and `MemoInv`: a round left open has the batch-heads its scratch calls done
one call ahead of the others, and only that scratch asks for pages; without an open
round all batch-heads have absorbed what finished, so the log `ImplementsLog` speaks of
is `hist` in every batch-head, and a step appends to it, copies it to a handle that had
none, clears it, or leaves it. `CallInv`: a fact is given once and never changes, so each
is described by those it was computed from and by the handle, in whichever order and
with whichever of them supplied or ruled out by a mask; as no other call runs during a
walk, no step breaks the description, and at the walk's end every fact is there.
`NoneIsNoValue` says that `None` is none of the values it is compared with.

**Commits.** A pin marked as reviewed was read at the digest it pins; every tool that
marks one reads it, `prune` only drops pins, and a commit carries the same lock to the
next worktree. A pass that closes has a reviewed pin for every citation, none of which
reads otherwise than it is pinned. `NoCommitUnchecked` needs the hooks' own conjuncts
and that no step but a commit changes HEAD.

**Arms.** While nobody edits the declaration, concurrent builds, measurements and
regenerations write the header, the units, the objects and the binary from one accepted
table (`ArmsInv`), though of different selections. The sweep compares rows; as an
accepted table has no row twice, the rows tell the indices, and the binary is this
build's selection and no other. `Settled` is: no edit while a build runs.

**Checkout.** `OneAtATime` is: the checkout is quiet and one invocation runs at a time,
however many there were before it and wherever they were killed. Each phase writes the
headers its compile reads before it compiles, so what it has collected is of the shipped
build of the tree, a cache record with the same inputs says the same, and a manifest is
filed with both (`CheckoutInv`). Between two jobs nothing is assumed of the headers, the
flags, the extension and its record. With two invocations `FiledIsMeasured` is false,
the edge above.

Only model-checked:

* the properties of `DecodeLattice`, `Routing`, `Prefill`, `Operator` and `RouteBundle`,
  which compare what an algorithm computes with a reference over enumerated inputs and
  would need induction over their data;
* `BacklogsShrink` of `Commits`, which compares sums over a baseline and needs induction
  over its entries;
* liveness (`EveryWindowEnds`), which needs fairness and is beyond the prover.

## Not modelled

Arithmetic (the values folded and read out, the entmax solves themselves, decay), the
copies of the sweeps in and out of a chunk launch, shared-memory layouts, most argument
checks, timing and replay tools, what each lint finds, how a doc reference is parsed and
digested, and the vendored library. Two Python threads
using one state are left out: the layer offers no such use. The host-wide build lock
is in a package outside the repository; `build_lock.py` is modelled by how it calls it.

## Plan

What is left, in order:

1. The worktrees of `dev.py` as builds: `cmd_worktree` copies the main checkout's
   extension when the heads are equal although its tree may be dirty
   (`tools/dev.py:477`); edits of the compiler flags in `Checkout`.
2. Proofs of what the checkout's tools keep when two of them run at once, once the
   edges above are closed in the code; the hypotheses `OneAtATime` and `Settled` go then.
