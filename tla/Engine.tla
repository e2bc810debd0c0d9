------------------------------- MODULE Engine --------------------------------
(***************************************************************************)
(* The engine: the runner that walks a recipe of nodes over a bag of facts *)
(* (rola/engine/runner.py), the chunk and the decode recipes it walks      *)
(* (rola/engine/dags), the rules they fold (rola/engine/rules) and the     *)
(* state they bind, grow and step (rola/_state.py).                        *)
(*                                                                         *)
(* A call is one walk, node by node, and any node may raise: what the      *)
(* earlier nodes did to the state and to the memo tables stays.  A call is *)
(* a member of a sequence by its number, a cell is an atom of a batch-head *)
(* and a cell's content is abstracted to whether anything was deposited.   *)
(* The two launches appear by their contract: the chunk launch, which is   *)
(* not in the tree, absorbs its call in every batch-head; the decode       *)
(* launch is DecodeStep's.                                                 *)
(***************************************************************************)
EXTENDS Integers, Sequences, FiniteSets

CONSTANTS
  State,      \* handles a caller may hold
  BatchHead,       \* batch-heads
  Atom,       \* atoms of a batch-head
  Fmt,        \* formats: topology and value width
  Arm,        \* decode arms: with and without decay
  MaxCalls,   \* bound: calls made
  None

Cell == BatchHead \X Atom

(* What a call presents: its number, its format, the cells it reads and    *)
(* those it writes.                                                        *)
Call == [id : 1 .. MaxCalls, fmt : Fmt, read : SUBSET Cell, write : SUBSET Cell]

ASSUME EngineAssumption ==
  /\ IsFiniteSet(BatchHead) /\ BatchHead # {} /\ IsFiniteSet(State)
  /\ MaxCalls \in Nat /\ None \notin State \cup Fmt \cup Arm

(* None is no other value, and a handle is no plane.                       *)
ASSUME NoneIsNoValue ==
  /\ None \notin BOOLEAN /\ None \notin Call \X Arm
  /\ None \notin {"given", "zeros", "M1", "M2", "M3", "M4"}
  /\ {"given", "zeros"} \cap State = {}

VARIABLES
  st,        \* [State -> RoLAState]: fmt, paging, kind, resident
  memo,      \* scratch.memo: <<state, geometry>> -> DecodeScratch
  call,      \* the call being walked: entry, dag, at, facts; or None
  calls,     \* how many were made
  got,       \* [State -> [BatchHead -> calls deposited, in order]]
  written,   \* [State -> cells that hold a deposit]
  round,     \* [State -> the token a gated walk left open, or None]
  hist       \* [State -> calls that finished, in order]

content == <<got, written, round, hist>>
vars    == <<st, memo, call, calls, content>>

Unbound == [fmt |-> None, paging |-> TRUE, kind |-> "none", resident |-> {}]

Init ==
  /\ st = [s \in State |-> Unbound] /\ memo = <<>> /\ call = None /\ calls = 0
  /\ got = [s \in State |-> [h \in BatchHead |-> <<>>]]
  /\ written = [s \in State |-> {}]
  /\ round = [s \in State |-> None] /\ hist = [s \in State |-> <<>>]

Bound(s)   == st[s].fmt # None
Carries(s) == st[s].kind # "none"
Paged(s)   == st[s].kind = "paged"
WantsPages_Asks(s, paging) == paging           \* mutant: the call's wish, not the binding's
WantsPages(s, paging) == IF Bound(s) THEN st[s].paging ELSE paging

---------------------------------------------------------------------------
(* The recipes.                                                            *)
Planes == {"read_plane", "write_plane", "g_write", "read_mass"}

CHUNK_DAG ==
  <<"paging_preference", "topology", "classify_call", "mask", "manifest", "arm",
    "pack_planes", "pack_v", "facts_tables", "residency", "join", "backing",
    "block_bits", "run_table", "build_plan">>
DECODE_STEP ==
  <<"decode_call", "decode_mask", "geometry", "scratch", "decode_backing",
    "state_plane", "decode_plan", "step">>
DECODE_VERDICT == Append(DECODE_STEP, "read_verdict")

gives ==
  [paging_preference |-> {"paging"}, topology |-> {"widths", "d_v"},
   classify_call |-> {"call_class"}, mask |-> {"mask"}, manifest |-> {"manifest"},
   arm |-> {"arm"}, pack_planes |-> Planes, pack_v |-> {"v_packed"},
   facts_tables |-> {"union_table", "atom_bits"}, residency |-> {"state_in", "arena"},
   join |-> {}, backing |-> {"page_table", "state_out"}, block_bits |-> {"block_bits"},
   run_table |-> {"run_table"}, build_plan |-> {"plan"},
   decode_call |-> {"widths", "d_v", "has_decay", "paged"}, decode_mask |-> {"mask"},
   geometry |-> {"geometry"}, scratch |-> {"scratch"},
   decode_backing |-> {"carried_plane", "page_table", "pool"},
   state_plane |-> {"state_plane"}, decode_plan |-> {"plan"}, step |-> {"y"},
   read_verdict |-> {"grow"}]

needs ==
  [paging_preference |-> {"expert"}, topology |-> {"routes", "v"},
   classify_call |-> {"routes", "v", "decay", "state", "given_state_in", "given_arena",
                      "want_state", "paging"},
   mask |-> {"call_class"}, manifest |-> {}, arm |-> {"widths", "manifest"},
   pack_planes |-> {"routes"}, pack_v |-> {"v"},
   facts_tables |-> {"read_plane", "write_plane", "arm", "widths", "mask"},
   residency |-> {"state", "given_state_in", "given_arena", "routes", "d_v", "atom_bits",
                  "paging", "arm"},
   join |-> {"arena"}, backing |-> {"arena", "state_in", "want_state", "routes", "d_v"},
   block_bits |-> {"union_table", "arm", "widths", "routes", "page_table"},
   run_table |-> {"state_in", "state_out", "page_table"},
   build_plan |-> {"call_class", "arm", "widths", "d_v", "v", "v_packed", "routes",
                   "union_table", "block_bits", "page_table", "atom_bits", "state_in",
                   "state_out", "run_table"} \cup Planes,
   decode_call |-> {"routes", "v", "decay", "state"}, decode_mask |-> {"paged"},
   geometry |-> {"routes", "widths", "d_v", "has_decay"},
   scratch |-> {"state", "geometry"}, decode_backing |-> {"state", "routes"},
   state_plane |-> {"v", "geometry", "decay", "carried_plane", "page_table"},
   decode_plan |-> {"geometry", "routes", "v", "decay", "state_plane", "page_table",
                    "scratch", "pool"},
   step |-> {"plan"}, read_verdict |-> {"scratch", "y"}]

Masks(n) ==
  CASE n \in {"residency", "join"} -> {"M2"}
    [] n = "read_verdict"          -> {"M4"}
    [] n \in {DECODE_STEP[i] : i \in DOMAIN DECODE_STEP} -> {"M3", "M4"}
    [] OTHER                       -> {"M1", "M2"}

(* What every recipe is refused for at import: a need that comes later, a  *)
(* second join, a second device-to-host read, and (captured recipes) any.  *)
CHUNK_SEEDS  == {"routes", "v", "decay", "state", "expert", "want_state",
                 "given_state_in", "given_arena"}
DECODE_SEEDS == {"routes", "v", "decay", "state", "expert"}
HostSync     == {"residency", "read_verdict"}
validate_dag(dag, seeds) ==
  LET Count(N) == Cardinality({i \in DOMAIN dag : dag[i] \in N})
      Before(i) == seeds \cup UNION {gives[dag[j]] : j \in 1 .. i - 1}
  IN /\ \A i \in DOMAIN dag : needs[dag[i]] \subseteq Before(i)
     /\ Count({"join"}) <= 1 /\ Count(HostSync) <= 1
validate_capturable(dag) == \A i \in DOMAIN dag : dag[i] \notin HostSync

ASSUME RecipesAreOrdered ==
  /\ validate_dag(CHUNK_DAG, CHUNK_SEEDS)
  /\ validate_dag(DECODE_STEP, DECODE_SEEDS) /\ validate_dag(DECODE_VERDICT, DECODE_SEEDS)
  /\ validate_capturable(DECODE_STEP)

---------------------------------------------------------------------------
(* The runner: one node of the walk.  A node the mask rules out gives      *)
(* None, one whose facts are all there is passed over, one that misses a   *)
(* need ends the call; the others add what they give, over what was there. *)
Walking == call # None /\ call.at <= Len(call.dag)
Done    == call # None /\ call.at > Len(call.dag)
Here    == call.dag[call.at]
Has(x)  == x \in DOMAIN call.facts

Masked ==
  /\ Walking /\ Has("mask")
  /\ call.facts.mask # None /\ call.facts.mask \notin Masks(Here)
Held   == gives[Here] # {} /\ \A x \in gives[Here] : Has(x)
Runs(n) ==
  /\ Walking /\ ~Masked /\ Here = n /\ ~Held /\ \A x \in needs[n] : Has(x)

Update(old, new) ==
  [x \in DOMAIN new \cup DOMAIN old |-> IF x \in DOMAIN new THEN new[x] ELSE old[x]]
Step(facts) == call' = [call EXCEPT !.at = @ + 1, !.facts = Update(@, facts)]
Raise       == call' = None

Pass ==
  /\ Walking /\ (Masked \/ Held)
  /\ IF Masked
     THEN Step([x \in {g \in gives[Here] : ~Has(g)} |-> None])
     ELSE Step(<<>>)
  /\ UNCHANGED <<st, memo, calls, content>>

(* Any node may raise, and so may the launch after the last: an allocator, *)
(* a driver call, a refused operand.                                       *)
Fail ==
  /\ call # None /\ Raise
  /\ UNCHANGED <<st, memo, calls, content>>

---------------------------------------------------------------------------
(* The nodes that only compute.                                            *)
classify_call(f) ==
  [state_in  |-> f.given_state_in # None \/ f.state # None,
   state_out |-> f.want_state,
   paged     |-> f.given_arena # None \/ (f.state # None /\ WantsPages(f.state, f.paging))]

mask(class) == IF class.state_in \/ class.state_out \/ class.paged THEN "M2" ELSE "M1"

(* The exit plane of a continuation is its entry plane; only a fresh dense *)
(* bind allocates one.                                                     *)
backing(f) ==
  [page_table |-> f.arena,
   state_out |-> IF ~f.want_state THEN None
                 ELSE IF f.arena # None THEN f.arena
                 ELSE IF f.state_in # None THEN f.state_in ELSE "zeros"]

(* Which blocks the chunk kernel runs, by what is read (R), written (W)    *)
(* and resident (S) in them.                                               *)
Block == [R : BOOLEAN, W : BOOLEAN, S : BOOLEAN]
run_table_ReadsOnly(f) ==                      \* mutant: a block that is only written is skipped
  LET carries_in == f.state_in # None
      paged      == f.page_table # None
  IN {v \in Block : v.R /\ (v.W \/ (carries_in /\ (paged => v.S)))}
run_table(f) ==
  LET carries_in == f.state_in # None
      stores_out == f.state_out # None
      paged      == f.page_table # None
  IN {v \in Block : \/ v.R /\ (v.W \/ (carries_in /\ (paged => v.S)))
                    \/ stores_out /\ v.W}

(* The StateFormat a call presents, and the check of it against the bound  *)
(* one: any field that differs is a refusal.                               *)
Format(f) == f.routes.fmt
Fits(s, f) == st[s].fmt = Format(f)

(* derive_decode_geometry: frozen by the shape and the decay arm.          *)
Geometry(f) == <<f.widths, f.has_decay>>

Resident(owner) == IF owner \in State THEN st[owner].resident ELSE {}

Computed(n, f) ==
  CASE n = "paging_preference" -> [paging |-> f.expert # "dense"]
    [] n = "topology"      -> [widths |-> Format(f), d_v |-> Format(f)]
    [] n = "classify_call" -> [call_class |-> classify_call(f)]
    [] n = "mask"          -> [mask |-> mask(f.call_class)]
    [] n = "manifest"      -> [manifest |-> "built"]
    [] n = "arm"           -> [arm |-> "built"]
    [] n = "pack_planes"   -> [p \in Planes |-> "packed"]
    [] n = "pack_v"        -> [v_packed |-> "packed"]
    [] n = "facts_tables"  -> [union_table |-> f.routes.read \cup f.routes.write,
                               atom_bits |-> IF f.mask = "M2" THEN f.routes.write ELSE None]
    [] n = "join"          -> <<>>
    [] n = "backing"       -> backing(f)
    [] n = "block_bits"    -> [block_bits |-> Resident(f.page_table)]
    [] n = "run_table"     -> [run_table |-> run_table(f)]
    [] n = "build_plan"    -> [plan |-> "chunk"]
    [] n = "decode_call"   -> [widths |-> Format(f), d_v |-> Format(f),
                               has_decay |-> f.decay, paged |-> Paged(f.state)]
    [] n = "decode_mask"   -> [mask |-> IF f.paged THEN "M4" ELSE "M3"]
    [] n = "geometry"      -> [geometry |-> Geometry(f)]
    [] n = "state_plane"   -> [state_plane |-> f.carried_plane]
    [] n = "decode_plan"   -> [plan |-> "decode"]

Compute ==
  /\ Walking
  /\ Here \notin {"residency", "scratch", "decode_backing", "step", "read_verdict"}
  /\ Runs(Here) /\ Step(Computed(Here, call.facts))
  /\ UNCHANGED <<st, memo, calls, content>>

---------------------------------------------------------------------------
(* residency -> RoLAState._kernel_entry: bind the state or check its       *)
(* format, then commit this call's pages.  The admission may raise once    *)
(* the state is bound.                                                     *)
Bind(s, f) ==
  IF Bound(s) THEN st[s] ELSE [st[s] EXCEPT !.fmt = Format(f), !.paging = f.paging]

Commit_Fresh(b, bits) ==                       \* mutant: every call plans afresh
  [b EXCEPT !.kind = "paged", !.resident = bits]
Commit(b, bits) ==
  [b EXCEPT !.kind = "paged",
            !.resident = IF b.kind = "paged" THEN @ \cup bits ELSE bits]

Residency ==
  LET f == call.facts  s == call.facts.state
  IN /\ Runs("residency")
     /\ IF s = None
        THEN Step([state_in |-> f.given_state_in, arena |-> f.given_arena]) /\ UNCHANGED st
        ELSE IF Bound(s) /\ ~Fits(s, f)
        THEN Raise /\ UNCHANGED st
        ELSE LET b == Bind(s, f)
                 pages == b.kind = "paged" \/ (b.kind = "none" /\ b.paging)
             IN \/ /\ st' = [st EXCEPT ![s] = IF pages THEN Commit(b, f.atom_bits) ELSE b]
                   /\ Step([state_in |-> IF b.kind = "none" THEN None ELSE s,
                            arena    |-> IF pages THEN s ELSE None])
                \/ /\ pages /\ st' = [st EXCEPT ![s] = b] /\ Raise
     /\ UNCHANGED <<memo, calls, content>>

(* The launch of a chunk plan (not in the tree): the call is absorbed in   *)
(* every batch-head, and a fresh dense plane is handed to the state        *)
(* (_kernel_commit).                                                       *)
Absorb(s, id, heads) == [got EXCEPT ![s] = [h \in BatchHead |->
                            IF h \in heads THEN Append(@[h], id) ELSE @[h]]]
ChunkLaunch ==
  LET f == call.facts  s == call.facts.state
  IN /\ Done /\ call.entry = "chunk" /\ Raise
     /\ IF s = None
        THEN UNCHANGED <<st, content>>
        ELSE /\ got' = Absorb(s, f.routes.id, BatchHead)
             /\ written' = [written EXCEPT ![s] = @ \cup f.routes.write]
             /\ hist' = [hist EXCEPT ![s] = Append(@, f.routes.id)]
             /\ st' = [st EXCEPT ![s].kind = IF @ = "none" THEN "dense" ELSE @]
             /\ UNCHANGED round
     /\ UNCHANGED <<memo, calls>>

---------------------------------------------------------------------------
(* The decode nodes.  scratch is memoized by the state and the geometry.   *)
Table(s, g) == <<s, g>>
ScratchesOf(s) == {k \in DOMAIN memo : k[1] = s}

Scratch ==
  LET k == Table(call.facts.state, call.facts.geometry)
  IN /\ Runs("scratch")
     /\ memo' = Update([x \in {k} |-> [done |-> {}, grow |-> FALSE, bits |-> {}]], memo)
     /\ Step([scratch |-> k])
     /\ UNCHANGED <<st, calls, content>>

(* _decode_entry: the step continues a carried state of the same format.   *)
DecodeBacking ==
  LET f == call.facts  s == call.facts.state
  IN /\ Runs("decode_backing")
     /\ IF ~Carries(s) \/ ~Fits(s, f)
        THEN Raise
        ELSE Step([carried_plane |-> s, page_table |-> IF Paged(s) THEN s ELSE None,
                   pool |-> IF Paged(s) THEN s ELSE None])
     /\ UNCHANGED <<st, memo, calls, content>>

(* The launch (DecodeStep): a batch-head advances unless the table misses  *)
(* an atom of its write set and the pool cannot serve it (claimed); one    *)
(* that already did, in the walk before, does not advance again.           *)
Launch ==
  LET f == call.facts  s == call.facts.state
      k == call.facts.scratch
      miss == {h \in BatchHead \ memo[k].done : f.page_table # None /\
                 \E a \in Atom : <<h, a>> \in f.routes.write \ st[s].resident}
  IN /\ Runs("step")
     /\ \E claimed \in SUBSET miss :
          LET needy == miss \ claimed
              new == (BatchHead \ memo[k].done) \ needy
              in(H) == {c \in f.routes.write : c[1] \in H}
          IN /\ got' = Absorb(s, f.routes.id, new)
             /\ written' = [written EXCEPT ![s] = @ \cup in(new)]
             /\ st' = [st EXCEPT ![s].resident = @ \cup in(claimed)]
             /\ memo' = [memo EXCEPT ![k] =
                  [done |-> IF needy = {} THEN {} ELSE BatchHead \ needy,
                   grow |-> needy # {}, bits |-> f.routes.write]]
             /\ round' = [round EXCEPT ![s] =
                            IF needy = {} THEN None ELSE <<f.routes, f.decay>>]
             /\ hist' = [hist EXCEPT ![s] =
                            IF needy = {} THEN Append(@, f.routes.id) ELSE @]
     /\ Step([y |-> "y"])
     /\ UNCHANGED calls

ReadVerdict ==
  /\ Runs("read_verdict") /\ Step([grow |-> memo[call.facts.scratch].grow])
  /\ UNCHANGED <<st, memo, calls, content>>

---------------------------------------------------------------------------
(* The entries.                                                            *)
Seeds(routes, s, arm) == [routes |-> routes, v |-> "v", decay |-> arm, state |-> s]

(* build_chunk_plan.  With a state the caller wants it back; without one   *)
(* it may hand in a plane or an arena of its own, ask for a plane, or      *)
(* supply the packed planes.  A raised caller's round is closed first.     *)
Chunk ==
  /\ call = None /\ calls < MaxCalls /\ calls' = calls + 1
  /\ \E s \in State \cup {None}, fmt \in Fmt, read \in {{}, Cell}, write \in SUBSET Cell,
        expert \in {None, "dense"}, plane, arena \in {None, "given"},
        want \in BOOLEAN, supplied \in {{}, Planes} :
       /\ IF s = None THEN arena = "given" => plane = "given"
          ELSE round[s] = None /\ want /\ plane = None /\ arena = None /\ supplied = {}
       /\ call' = [entry |-> "chunk", dag |-> CHUNK_DAG, at |-> 1,
                   facts |-> Update(
                     [routes |-> [id |-> calls', fmt |-> fmt, read |-> read, write |-> write],
                      v |-> "v", decay |-> None, state |-> s, expert |-> expert,
                      want_state |-> want, given_state_in |-> plane, given_arena |-> arena],
                     [p \in supplied |-> "given"])]
  /\ UNCHANGED <<st, memo, content>>

(* decode_step_gated and decode_forward.  A round left open is presented   *)
(* again, as it was; otherwise the token is new.                           *)
Walk(entry, dag, s, token) ==
  call' = [entry |-> entry, dag |-> dag, at |-> 1, facts |-> Seeds(token[1], s, token[2])]
Decode ==
  /\ call = None
  /\ \E s \in State, entry \in {"gated", "forward"} :
       LET dag == IF entry = "gated" THEN DECODE_STEP ELSE DECODE_VERDICT
       IN /\ Carries(s)
          /\ \/ /\ round[s] # None /\ Walk(entry, dag, s, round[s])
                /\ UNCHANGED calls
             \/ /\ round[s] = None /\ calls < MaxCalls /\ calls' = calls + 1
                /\ \E fmt \in Fmt, write \in SUBSET Cell, arm \in Arm :
                     Walk(entry, dag, s, <<[id |-> calls', fmt |-> fmt, read |-> {},
                                            write |-> write], arm>>)
  /\ UNCHANGED <<st, memo, content>>

Returns ==
  /\ Done /\ Raise
  /\ \/ call.entry \in {"gated", "again"}
     \/ call.entry = "forward" /\ call.facts.grow \in {FALSE, None}
  /\ UNCHANGED <<st, memo, calls, content>>

(* admit_growth: the pages the one live scratch asks for.                  *)
Admitted(s) ==
  LET k == CHOOSE k \in ScratchesOf(s) : TRUE
  IN [st EXCEPT ![s].resident = @ \cup memo[k].bits]

(* decode_forward's own growth: admit, and walk the step again.            *)
Regrow_SameFacts ==                            \* mutant: the second walk keeps the first one's facts
  /\ Done /\ call.entry = "forward" /\ call.facts.grow = TRUE
  /\ IF Cardinality(ScratchesOf(call.facts.state)) > 1
     THEN Raise /\ UNCHANGED st
     ELSE /\ st' = Admitted(call.facts.state)
          /\ call' = [call EXCEPT !.entry = "again", !.dag = DECODE_STEP, !.at = 1]
  /\ UNCHANGED <<memo, calls, content>>
Regrow ==
  /\ Done /\ call.entry = "forward" /\ call.facts.grow = TRUE
  /\ IF Cardinality(ScratchesOf(call.facts.state)) > 1
     THEN Raise /\ UNCHANGED st
     ELSE /\ st' = Admitted(call.facts.state)
          /\ Walk("again", DECODE_STEP, call.facts.state,
                  <<call.facts.routes, call.facts.decay>>)
  /\ UNCHANGED <<memo, calls, content>>

(* growth_pending and admit_growth, by the caller of the gated step; both  *)
(* raise when the state has more than one scratch.                         *)
AdmitGrowth ==
  /\ call = None
  /\ \E s \in State :
       /\ Cardinality(ScratchesOf(s)) = 1 /\ Paged(s)
       /\ \E k \in ScratchesOf(s) : memo[k].grow
       /\ st' = Admitted(s)
  /\ UNCHANGED <<memo, call, calls, content>>

---------------------------------------------------------------------------
(* The handles.  A clone copies the state and not its scratch; the caller  *)
(* takes it between two rounds.  A handle that is dropped takes its memo   *)
(* entries with it (the table is weak), whatever it was in the middle of.  *)
Clone ==
  /\ call = None
  /\ \E s, t \in State :
       /\ Bound(s) /\ round[s] = None /\ ~Bound(t)
       /\ st' = [st EXCEPT ![t] = st[s]]
       /\ got' = [got EXCEPT ![t] = got[s]] /\ hist' = [hist EXCEPT ![t] = hist[s]]
       /\ written' = [written EXCEPT ![t] = written[s]]
  /\ UNCHANGED <<memo, call, calls, round>>

Forget_Nothing(s) == memo                      \* mutant: a strong table
Forget(s) == [k \in DOMAIN memo \ ScratchesOf(s) |-> memo[k]]
Drop ==
  /\ call = None
  /\ \E s \in State :
       /\ Bound(s)
       /\ st' = [st EXCEPT ![s] = Unbound] /\ memo' = Forget(s)
       /\ got' = [got EXCEPT ![s] = [h \in BatchHead |-> <<>>]]
       /\ written' = [written EXCEPT ![s] = {}] /\ round' = [round EXCEPT ![s] = None]
       /\ hist' = [hist EXCEPT ![s] = <<>>]
  /\ UNCHANGED <<call, calls>>

Next ==
  \/ Pass \/ Fail \/ Compute \/ Residency \/ ChunkLaunch
  \/ Scratch \/ DecodeBacking \/ Launch \/ ReadVerdict
  \/ Chunk \/ Decode \/ Returns \/ Regrow \/ AdmitGrowth \/ Clone \/ Drop

Spec == Init /\ [][Next]_vars

---------------------------------------------------------------------------
(* Every variable has its type.                                            *)
TypeOK ==
  /\ st \in [State -> [fmt : Fmt \cup {None}, paging : BOOLEAN,
                       kind : {"none", "dense", "paged"}, resident : SUBSET Cell]]
  /\ \A k \in DOMAIN memo : k[1] \in State /\ memo[k].done \subseteq BatchHead
  /\ calls \in 0 .. MaxCalls
  /\ written \in [State -> SUBSET Cell]
  /\ \A s \in State : (round[s] # None) => Paged(s)

(* What the owner of a state relies on: SequenceLog, where a call whose    *)
(* round is still open has not happened.  Growth, retries after a raise,   *)
(* clones, dropped handles and other sequences' calls add or lose nothing. *)
Sequences == INSTANCE SequenceLog
  WITH Calls <- 1 .. MaxCalls,
       log <- [s \in State |-> IF round[s] = None THEN got[s]
                               ELSE [h \in BatchHead |-> hist[s]]]
ImplementsLog == Sequences!Spec

(* A step that returns has been taken: decode_forward answers only when    *)
(* its token is absorbed, in whichever of its walks.                       *)
Settled ==
  /\ Done
  /\ call.entry = "again" \/ (call.entry = "forward" /\ call.facts.grow # TRUE)
ReturnedIsAbsorbed ==
  Settled =>
    LET s == call.facts.state
    IN round[s] = None /\ hist[s] # <<>> /\ hist[s][Len(hist[s])] = call.facts.routes.id

(* A plan's facts are one answer (chunk_dag.py): it has a page table       *)
(* exactly when the call was classed as paged, an exit plane exactly when  *)
(* one is wanted, a continuation's entry and exit are one plane, and a     *)
(* call without a state names nobody's.                                    *)
Planned == Done /\ call.entry = "chunk"
PlanIsOneBacking ==
  Planned =>
    LET f == call.facts
    IN /\ (f.page_table # None) = f.call_class.paged
       /\ (f.state_out # None) = f.want_state
       /\ (f.state # None /\ f.state_in # None) => f.state_out = f.state_in
       /\ f.state = None => {f.page_table, f.state_in, f.state_out} \cap State = {}
       /\ f.state # None => {f.page_table, f.state_in} \subseteq {None, f.state}
       /\ (f.state # None /\ hist[f.state] # <<>>) => f.state_in = f.state
       /\ f.mask = "M1" => {f.page_table, f.state_in, f.state_out, f.atom_bits} = {None}
       /\ \E where \in {"given", "packed"} : \A p \in Planes : f[p] = where

(* A block the run table leaves out has nothing to say: it is not read     *)
(* where a deposit stands or is being made, and not written for a state    *)
(* that is kept.                                                           *)
RunTableCovers ==
  Planned =>
    LET f == call.facts
        Bits(c) == [R |-> c \in f.routes.read, W |-> c \in f.routes.write,
                    S |-> c \in f.block_bits]
        Stands(c) == f.state # None /\ c \in written[f.state]
        Matters(c) == \/ c \in f.routes.read /\ (c \in f.routes.write \/ Stands(c))
                      \/ c \in f.routes.write /\ f.want_state
    IN \A c \in Cell : Matters(c) => Bits(c) \in f.run_table

(* Binding is for good (RoLAState.bound): until the handle is dropped no   *)
(* call, finished or raised, changes the format, the backing or the wish   *)
(* for pages, nor takes a page back.                                       *)
Rebinds(s) ==
  /\ Bound(s) /\ st'[s] # Unbound
  /\ \/ st'[s].fmt # st[s].fmt \/ st'[s].paging # st[s].paging
     \/ Carries(s) /\ st'[s].kind # st[s].kind
     \/ ~(st[s].resident \subseteq st'[s].resident)
BindingIsForGood == [][\A s \in State : ~Rebinds(s)]_vars

(* "A second one means the decay arm changed between two steps of the      *)
(* same sequence" (_scratch_of): with one arm there is one scratch.        *)
OneScratch == Cardinality(Arm) = 1 => \A s \in State : Cardinality(ScratchesOf(s)) <= 1

=============================================================================
