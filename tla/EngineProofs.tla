---------------------------- MODULE EngineProofs ----------------------------
(***************************************************************************)
(* What a handle holds and what a plan says, for any number of handles,    *)
(* batch-heads, atoms, formats, arms and calls, and whichever node raises. *)
(*                                                                         *)
(* Between two steps a handle is unbound, or bound without a backing, or   *)
(* dense, or paged, and what was deposited lies within its pages.  A round *)
(* left open has the batch-heads its scratch calls done one call ahead of  *)
(* the others, and only that scratch asks for pages.  The facts of a walk  *)
(* are given once and never change, so each may be described by those it   *)
(* was computed from and by the handle; no other call runs in between, and *)
(* the steps of this one keep the description true.  At the end of a walk  *)
(* every fact is there, and the properties can be read off.                *)
(***************************************************************************)
EXTENDS Engine, TLAPS, FiniteSetTheorems, SequenceTheorems

(***************************************************************************)
(* What a handle holds between any two steps.  A round left open has some  *)
(* batch-heads a call ahead of the others; its scratch says which.         *)
(***************************************************************************)
Handle == [fmt : Fmt \cup {None}, paging : BOOLEAN, kind : {"none", "dense", "paged"},
           resident : SUBSET Cell]

Key(r, s)  == <<s, <<r[1].fmt, r[2]>>>>
Ahead(s)   == memo[Key(round[s], s)].done

Typed ==
  /\ st \in [State -> Handle] /\ calls \in 0 .. MaxCalls
  /\ got \in [State -> [BatchHead -> Seq(1 .. MaxCalls)]]
  /\ written \in [State -> SUBSET Cell]
  /\ round \in [State -> {None} \cup (Call \X Arm)]
  /\ hist \in [State -> Seq(1 .. MaxCalls)]
  /\ IsFiniteSet(DOMAIN memo) /\ DOMAIN memo \subseteq State \X (Fmt \X Arm)
  /\ memo \in [DOMAIN memo -> [done : SUBSET BatchHead, grow : BOOLEAN, bits : SUBSET Cell]]

BackingInv == \A s \in State :
  /\ Carries(s) => Bound(s)
  /\ st[s].kind = "paged" => st[s].paging
  /\ st[s].kind = "dense" => ~st[s].paging
  /\ IF Paged(s) THEN written[s] \subseteq st[s].resident ELSE st[s].resident = {}
  /\ ~Carries(s) => hist[s] = <<>> /\ written[s] = {} /\ round[s] = None

RoundInv == \A s \in State :
  /\ round[s] = None => \A h \in BatchHead : got[s][h] = hist[s]
  /\ round[s] # None =>
       /\ Paged(s) /\ Key(round[s], s) \in DOMAIN memo /\ round[s][1].fmt = st[s].fmt
       /\ \A h \in BatchHead :
            got[s][h] = IF h \in Ahead(s) THEN Append(hist[s], round[s][1].id) ELSE hist[s]

MemoInv == \A k \in DOMAIN memo :
  /\ memo[k].grow <=> (round[k[1]] # None /\ k = Key(round[k[1]], k[1]))
  /\ ~memo[k].grow => memo[k].done = {}

HandleInv == BackingInv /\ RoundInv /\ MemoInv

(***************************************************************************)
(* What the facts of a walk say, whichever of them are there yet.          *)
(***************************************************************************)
Joint(f, X) == X \subseteq DOMAIN f \/ X \cap DOMAIN f = {}

ChunkSeeded(f) ==
  /\ CHUNK_SEEDS \subseteq DOMAIN f
  /\ f.routes \in Call /\ f.state \in State \cup {None} /\ f.want_state \in BOOLEAN
  /\ f.given_state_in \in {None, "given"} /\ f.given_arena \in {None, "given"}
  /\ f.state # None => /\ round[f.state] = None /\ f.want_state
                       /\ f.given_state_in = None /\ f.given_arena = None

(* What the chunk recipe's nodes say of one another: the class of the      *)
(* call, the backing residency settled on, and the plan made over it.      *)
ClassRight(f) == "paging" \in DOMAIN f /\ f.call_class = classify_call(f)
MaskRight(f)  == "call_class" \in DOMAIN f /\ f.mask = mask(f.call_class)
BitsRight(f)  ==
  "mask" \in DOMAIN f /\ f.atom_bits = IF f.mask = "M2" THEN f.routes.write ELSE None
Entered(f) ==
  /\ "mask" \in DOMAIN f
  /\ f.mask = "M1" => f.state_in = None /\ f.arena = None
  /\ f.mask = "M2" /\ f.state = None => f.state_in = f.given_state_in /\ f.arena = f.given_arena
  /\ f.mask = "M2" /\ f.state # None =>
       LET s == f.state
       IN /\ Bound(s) /\ f.arena = (IF Paged(s) THEN s ELSE None) /\ f.state_in \in {None, s}
          /\ f.state_in = None => written[s] = {} /\ hist[s] = <<>> /\ st[s].kind # "dense"
          /\ ~Carries(s) => f.state_in = None /\ ~st[s].paging
          /\ Paged(s) => f.routes.write \subseteq st[s].resident
PlaneRight(f) ==
  "arena" \in DOMAIN f /\ f.page_table = f.arena /\ f.state_out = backing(f).state_out
BlocksRight(f) == "page_table" \in DOMAIN f /\ f.block_bits = Resident(f.page_table)
RunRight(f)    == "page_table" \in DOMAIN f /\ f.run_table = run_table(f)

ChunkFacts(f) ==
  /\ Joint(f, {"widths", "d_v"}) /\ Joint(f, {"union_table", "atom_bits"})
  /\ Joint(f, {"state_in", "arena"}) /\ Joint(f, {"page_table", "state_out"})
  /\ Joint(f, Planes)
  /\ "paging" \in DOMAIN f => f.paging \in BOOLEAN
  /\ "call_class" \in DOMAIN f => ClassRight(f)
  /\ "mask" \in DOMAIN f => MaskRight(f)
  /\ "atom_bits" \in DOMAIN f => BitsRight(f)
  /\ "arena" \in DOMAIN f => Entered(f)
  /\ "page_table" \in DOMAIN f => PlaneRight(f)
  /\ "block_bits" \in DOMAIN f => BlocksRight(f)
  /\ "run_table" \in DOMAIN f => RunRight(f)
  /\ \E where \in {"given", "packed"} : \A p \in Planes \cap DOMAIN f : f[p] = where

DecodeSeeded(f, again) ==
  /\ {"routes", "v", "decay", "state"} \subseteq DOMAIN f
  /\ f.routes \in Call /\ f.decay \in Arm /\ f.state \in State /\ Carries(f.state)
  /\ round[f.state] \in {None, <<f.routes, f.decay>>}
  /\ again => f.routes.write \subseteq st[f.state].resident

(* What the decode recipes' nodes say of one another and of the handle.    *)
ArmRight(f) ==
  f.paged = Paged(f.state) /\ f.widths = f.routes.fmt /\ f.has_decay = f.decay
GateRight(f)    == "paged" \in DOMAIN f /\ f.mask = IF f.paged THEN "M4" ELSE "M3"
ShapeRight(f)   == f.geometry = <<f.routes.fmt, f.decay>>
ScratchRight(f) == f.scratch = <<f.state, <<f.routes.fmt, f.decay>>>> /\ f.scratch \in DOMAIN memo
PagesRight(f)   == f.page_table = (IF Paged(f.state) THEN f.state ELSE None) /\ Fits(f.state, f)
Stepped(f, again) ==
  /\ {"plan", "mask"} \subseteq DOMAIN f
  /\ memo[f.scratch].bits = f.routes.write
  /\ IF round[f.state] = None
     THEN hist[f.state] # <<>> /\ hist[f.state][Len(hist[f.state])] = f.routes.id
     ELSE ~again
VerdictRight(f) ==
  "y" \in DOMAIN f /\ (f.grow = memo[f.scratch].grow \/ (f.grow = None /\ ~Paged(f.state)))

DecodeFacts(f, again) ==
  /\ Joint(f, {"widths", "d_v", "has_decay", "paged"})
  /\ Joint(f, {"carried_plane", "page_table", "pool"})
  /\ "paged" \in DOMAIN f => ArmRight(f)
  /\ "mask" \in DOMAIN f => GateRight(f)
  /\ "geometry" \in DOMAIN f => ShapeRight(f)
  /\ "scratch" \in DOMAIN f => ScratchRight(f)
  /\ "page_table" \in DOMAIN f => PagesRight(f)
  /\ "plan" \in DOMAIN f => {"page_table", "scratch"} \subseteq DOMAIN f
  /\ "y" \in DOMAIN f => Stepped(f, again)
  /\ "grow" \in DOMAIN f => VerdictRight(f)

FactsInv(c) ==
  \/ /\ c.entry = "chunk" /\ c.dag = CHUNK_DAG
     /\ ChunkSeeded(c.facts) /\ ChunkFacts(c.facts)
  \/ /\ <<c.entry, c.dag>> \in {<<"gated", DECODE_STEP>>, <<"again", DECODE_STEP>>,
                                <<"forward", DECODE_VERDICT>>}
     /\ DecodeSeeded(c.facts, c.entry = "again") /\ DecodeFacts(c.facts, c.entry = "again")

(* A walk has given what the nodes behind it give.                         *)
WalkInv(c) ==
  /\ c = [entry |-> c.entry, dag |-> c.dag, at |-> c.at, facts |-> c.facts]
  /\ c.at \in 1 .. Len(c.dag) + 1
  /\ \A i \in 1 .. c.at - 1 : gives[c.dag[i]] \subseteq DOMAIN c.facts

CallInv == call # None => WalkInv(call) /\ FactsInv(call)

EngineInv == Typed /\ HandleInv /\ CallInv

(***************************************************************************)
(* The runner.                                                             *)
(***************************************************************************)
LEMMA UpdateIs ==
  ASSUME NEW old, NEW new
  PROVE  /\ DOMAIN Update(old, new) = DOMAIN old \cup DOMAIN new
         /\ \A x \in DOMAIN new : Update(old, new)[x] = new[x]
         /\ \A x \in DOMAIN old : x \notin DOMAIN new => Update(old, new)[x] = old[x]
  BY DEF Update

LEMMA StepIs ==
  ASSUME NEW c, NEW new, c = [entry |-> c.entry, dag |-> c.dag, at |-> c.at, facts |-> c.facts],
         c = call, Step(new)
  PROVE  call' = [entry |-> c.entry, dag |-> c.dag, at |-> c.at + 1,
                  facts |-> Update(c.facts, new)]
  BY DEF Step

(***************************************************************************)
(* A fact that is right stays right when others are added.                 *)
(***************************************************************************)
Extends(g, f) == DOMAIN f \subseteq DOMAIN g /\ \A x \in DOMAIN f : g[x] = f[x]

LEMMA ChunkFactsStay ==
  ASSUME NEW f, NEW g, Extends(g, f), ChunkSeeded(f), ChunkFacts(f)
  PROVE  /\ ChunkSeeded(g)
         /\ "paging" \in DOMAIN f => g.paging \in BOOLEAN
         /\ "call_class" \in DOMAIN f => ClassRight(g)
         /\ "mask" \in DOMAIN f => MaskRight(g)
         /\ "atom_bits" \in DOMAIN f => BitsRight(g)
         /\ "arena" \in DOMAIN f => Entered(g)
         /\ "page_table" \in DOMAIN f => PlaneRight(g)
         /\ "block_bits" \in DOMAIN f => BlocksRight(g)
         /\ "run_table" \in DOMAIN f => RunRight(g)
         /\ \E where \in {"given", "packed"} : \A p \in Planes \cap DOMAIN f : g[p] = where
<1>1. \A x \in CHUNK_SEEDS : x \in DOMAIN f /\ x \in DOMAIN g /\ g[x] = f[x]
  BY DEF Extends, ChunkSeeded
<1>2. /\ g.routes = f.routes /\ g.state = f.state /\ g.want_state = f.want_state
      /\ g.given_state_in = f.given_state_in /\ g.given_arena = f.given_arena
  BY <1>1 DEF CHUNK_SEEDS
<1>3. ChunkSeeded(g)
  BY <1>1, <1>2 DEF ChunkSeeded
<1>4. "paging" \in DOMAIN f => g.paging = f.paging /\ "paging" \in DOMAIN g
  BY DEF Extends
<1>5. "call_class" \in DOMAIN f =>
        ClassRight(g) /\ g.call_class = f.call_class /\ "call_class" \in DOMAIN g
  <2>1. "call_class" \in DOMAIN f => g.call_class = f.call_class /\ "call_class" \in DOMAIN g
    BY DEF Extends
  <2>. QED
    BY <1>2, <1>4, <2>1 DEF ChunkFacts, ClassRight, classify_call
<1>6. "mask" \in DOMAIN f => MaskRight(g) /\ g.mask = f.mask /\ "mask" \in DOMAIN g
  <2>1. "mask" \in DOMAIN f => g.mask = f.mask /\ "mask" \in DOMAIN g
    BY DEF Extends
  <2>. QED
    BY <1>5, <2>1 DEF ChunkFacts, MaskRight
<1>7. "atom_bits" \in DOMAIN f => BitsRight(g)
  <2>1. "atom_bits" \in DOMAIN f => g.atom_bits = f.atom_bits
    BY DEF Extends
  <2>. QED
    BY <1>2, <1>6, <2>1 DEF ChunkFacts, BitsRight
<1>8. "arena" \in DOMAIN f => Entered(g) /\ g.arena = f.arena /\ g.state_in = f.state_in
                              /\ "arena" \in DOMAIN g
  <2>. SUFFICES ASSUME "arena" \in DOMAIN f
                PROVE  Entered(g) /\ g.arena = f.arena /\ g.state_in = f.state_in
                       /\ "arena" \in DOMAIN g
    OBVIOUS
  <2>1. "state_in" \in DOMAIN f
    BY DEF ChunkFacts, Joint
  <2>2. g.arena = f.arena /\ g.state_in = f.state_in /\ "arena" \in DOMAIN g
    BY <2>1 DEF Extends
  <2>3. Entered(f)
    BY DEF ChunkFacts
  <2>4. g.mask = f.mask /\ "mask" \in DOMAIN g
    BY <1>6, <2>3 DEF Entered
  <2>. QED
    BY <1>2, <2>2, <2>3, <2>4 DEF Entered
<1>9. "page_table" \in DOMAIN f =>
        /\ PlaneRight(g) /\ g.page_table = f.page_table /\ g.state_out = f.state_out
        /\ "page_table" \in DOMAIN g /\ g.state_in = f.state_in
  <2>. SUFFICES ASSUME "page_table" \in DOMAIN f
                PROVE  /\ PlaneRight(g) /\ g.page_table = f.page_table /\ g.state_out = f.state_out
                       /\ "page_table" \in DOMAIN g /\ g.state_in = f.state_in
    OBVIOUS
  <2>1. "state_out" \in DOMAIN f /\ PlaneRight(f)
    BY DEF ChunkFacts, Joint
  <2>2. g.page_table = f.page_table /\ g.state_out = f.state_out /\ "page_table" \in DOMAIN g
    BY <2>1 DEF Extends
  <2>3. g.arena = f.arena /\ g.state_in = f.state_in /\ "arena" \in DOMAIN g
    BY <1>8, <2>1 DEF PlaneRight
  <2>. QED
    BY <1>2, <2>1, <2>2, <2>3 DEF PlaneRight, backing
<1>10. "block_bits" \in DOMAIN f => BlocksRight(g)
  <2>1. "block_bits" \in DOMAIN f => g.block_bits = f.block_bits
    BY DEF Extends
  <2>. QED
    BY <1>9, <2>1 DEF ChunkFacts, BlocksRight
<1>11. "run_table" \in DOMAIN f => RunRight(g)
  <2>1. "run_table" \in DOMAIN f => g.run_table = f.run_table
    BY DEF Extends
  <2>. QED
    BY <1>9, <2>1 DEF ChunkFacts, RunRight, run_table
<1>12. \E where \in {"given", "packed"} : \A p \in Planes \cap DOMAIN f : g[p] = where
  BY DEF ChunkFacts, Extends
<1>. QED
  BY <1>3, <1>4, <1>5, <1>6, <1>7, <1>8, <1>9, <1>10, <1>11, <1>12 DEF ChunkFacts

LEMMA FreshFacts ==
  ASSUME NEW f, NEW new, DOMAIN new \cap DOMAIN f = {}
  PROVE  LET g == Update(f, new)
         IN /\ Extends(g, f) /\ DOMAIN g = DOMAIN f \cup DOMAIN new
            /\ \A x \in DOMAIN new : g[x] = new[x]
  BY UpdateIs DEF Extends

(* So a walk's facts are right again once those a node adds are.           *)
Whole(N, X) == X \subseteq N \/ X \cap N = {}

LEMMA ChunkFactsGrow ==
  ASSUME NEW f, NEW g, NEW N, Extends(g, f), ChunkSeeded(f), ChunkFacts(f),
         DOMAIN g = DOMAIN f \cup N,
         Whole(N, {"widths", "d_v"}), Whole(N, {"union_table", "atom_bits"}),
         Whole(N, {"state_in", "arena"}), Whole(N, {"page_table", "state_out"}),
         Planes \cap N = {},
         "paging" \in N => g.paging \in BOOLEAN,
         "call_class" \in N => ClassRight(g),
         "mask" \in N => MaskRight(g),
         "atom_bits" \in N => BitsRight(g),
         "arena" \in N => Entered(g),
         "page_table" \in N => PlaneRight(g),
         "block_bits" \in N => BlocksRight(g),
         "run_table" \in N => RunRight(g)
  PROVE  ChunkSeeded(g) /\ ChunkFacts(g)
<1>1. \A X : Whole(N, X) /\ Joint(f, X) => Joint(g, X)
  BY DEF Whole, Joint
<1>2. Joint(g, Planes) /\ Planes \cap DOMAIN g = Planes \cap DOMAIN f
  BY DEF ChunkFacts, Joint
<1>3. /\ Joint(g, {"widths", "d_v"}) /\ Joint(g, {"union_table", "atom_bits"})
      /\ Joint(g, {"state_in", "arena"}) /\ Joint(g, {"page_table", "state_out"})
  BY <1>1 DEF ChunkFacts
<1>4. /\ ChunkSeeded(g)
      /\ "paging" \in DOMAIN f => g.paging \in BOOLEAN
      /\ "call_class" \in DOMAIN f => ClassRight(g)
      /\ "mask" \in DOMAIN f => MaskRight(g)
      /\ "atom_bits" \in DOMAIN f => BitsRight(g)
      /\ "arena" \in DOMAIN f => Entered(g)
      /\ "page_table" \in DOMAIN f => PlaneRight(g)
      /\ "block_bits" \in DOMAIN f => BlocksRight(g)
      /\ "run_table" \in DOMAIN f => RunRight(g)
      /\ \E where \in {"given", "packed"} : \A p \in Planes \cap DOMAIN f : g[p] = where
  BY ChunkFactsStay
<1>5. /\ "paging" \in DOMAIN g => g.paging \in BOOLEAN
      /\ "call_class" \in DOMAIN g => ClassRight(g)
      /\ "mask" \in DOMAIN g => MaskRight(g)
      /\ "atom_bits" \in DOMAIN g => BitsRight(g)
      /\ "arena" \in DOMAIN g => Entered(g)
      /\ "page_table" \in DOMAIN g => PlaneRight(g)
      /\ "block_bits" \in DOMAIN g => BlocksRight(g)
      /\ "run_table" \in DOMAIN g => RunRight(g)
  BY <1>4
<1>. QED
  BY <1>2, <1>3, <1>4, <1>5 DEF ChunkFacts

(***************************************************************************)
(* Nodes that only compute add facts, and what they add is right.          *)
(***************************************************************************)
Computing(dag) == {dag[i] : i \in DOMAIN dag} \
                  {"residency", "scratch", "decode_backing", "step", "read_verdict"}

LEMMA ChunkNode ==
  ASSUME NEW f, NEW n \in Computing(CHUNK_DAG), ChunkSeeded(f), ChunkFacts(f),
         needs[n] \subseteq DOMAIN f,
         gives[n] = {} \/ ~(gives[n] \subseteq DOMAIN f)
  PROVE  /\ gives[n] \subseteq DOMAIN Update(f, Computed(n, f))
         /\ ChunkSeeded(Update(f, Computed(n, f))) /\ ChunkFacts(Update(f, Computed(n, f)))
<1>. DEFINE new == Computed(n, f)
            g   == Update(f, new)
<1>1. n \in {"paging_preference", "topology", "classify_call", "mask", "manifest", "arm",
             "pack_planes", "pack_v", "facts_tables", "join", "backing", "block_bits",
             "run_table", "build_plan"}
  BY DEF Computing, CHUNK_DAG
<1>2. /\ Joint(f, {"widths", "d_v"}) /\ Joint(f, {"union_table", "atom_bits"})
      /\ Joint(f, {"state_in", "arena"}) /\ Joint(f, {"page_table", "state_out"})
      /\ Joint(f, Planes)
  BY DEF ChunkFacts
<1>3. ASSUME DOMAIN new \cap DOMAIN f = {}
      PROVE  /\ DOMAIN g = DOMAIN f \cup DOMAIN new /\ \A x \in DOMAIN new : g[x] = new[x]
             /\ Extends(g, f) /\ ChunkSeeded(g)
  BY <1>3, FreshFacts, ChunkFactsStay
<1>4. CASE n = "paging_preference"
  <2>1. new = [paging |-> f.expert # "dense"]
    BY <1>4 DEF Computed
  <2>2. DOMAIN new = {"paging"} /\ gives[n] = DOMAIN new
    BY <1>4, <2>1 DEF gives
  <2>3. DOMAIN new \cap DOMAIN f = {}
    BY <1>2, <2>2 DEF Joint
  <2>. HIDE DEF g, new
  <2>4. g.paging = (f.expert # "dense")
    BY <1>3, <2>1, <2>2, <2>3
  <2>9. DOMAIN g = DOMAIN f \cup {"paging"}
    BY <1>3, <2>2, <2>3
  <2>10. gives[n] \subseteq DOMAIN g /\ ChunkSeeded(g) /\ ChunkFacts(g)
    BY <1>3, <2>2, <2>3, <2>4, <2>9, ChunkFactsGrow DEF Whole, Planes
  <2>. QED
    BY <2>10 DEF g, new
<1>5. CASE n = "topology"
  <2>1. new = [widths |-> Format(f), d_v |-> Format(f)]
    BY <1>5 DEF Computed
  <2>2. DOMAIN new = {"widths", "d_v"} /\ gives[n] = DOMAIN new
    BY <1>5, <2>1 DEF gives
  <2>3. DOMAIN new \cap DOMAIN f = {}
    BY <1>2, <2>2 DEF Joint
  <2>. HIDE DEF g, new
  <2>9. DOMAIN g = DOMAIN f \cup {"widths", "d_v"}
    BY <1>3, <2>2, <2>3
  <2>10. gives[n] \subseteq DOMAIN g /\ ChunkSeeded(g) /\ ChunkFacts(g)
    BY <1>3, <2>2, <2>3, <2>9, ChunkFactsGrow DEF Whole, Planes
  <2>. QED
    BY <2>10 DEF g, new
<1>6. CASE n = "classify_call"
  <2>1. new = [call_class |-> classify_call(f)]
    BY <1>6 DEF Computed
  <2>2. DOMAIN new = {"call_class"} /\ gives[n] = DOMAIN new
    BY <1>6, <2>1 DEF gives
  <2>3. DOMAIN new \cap DOMAIN f = {}
    BY <1>2, <2>2 DEF Joint
  <2>. HIDE DEF g, new
  <2>5. needs[n] \cap {"paging"} = {"paging"}
    BY <1>6 DEF needs
  <2>6. g.paging = f.paging /\ "paging" \in DOMAIN g
    BY <1>3, <2>3, <2>5 DEF Extends
  <2>7. g.call_class = new.call_class
    BY <1>3, <2>1, <2>2, <2>3
  <2>8. \A x \in CHUNK_SEEDS : g[x] = f[x]
    BY <1>3, <2>3 DEF Extends, ChunkSeeded
  <2>4. ClassRight(g)
    BY <2>1, <2>6, <2>7, <2>8 DEF ClassRight, classify_call, CHUNK_SEEDS
  <2>9. DOMAIN g = DOMAIN f \cup {"call_class"}
    BY <1>3, <2>2, <2>3
  <2>10. gives[n] \subseteq DOMAIN g /\ ChunkSeeded(g) /\ ChunkFacts(g)
    BY <1>3, <2>2, <2>3, <2>4, <2>9, ChunkFactsGrow DEF Whole, Planes
  <2>. QED
    BY <2>10 DEF g, new
<1>7. CASE n = "mask"
  <2>1. new = [mask |-> mask(f.call_class)]
    BY <1>7 DEF Computed
  <2>2. DOMAIN new = {"mask"} /\ gives[n] = DOMAIN new
    BY <1>7, <2>1 DEF gives
  <2>3. DOMAIN new \cap DOMAIN f = {}
    BY <1>2, <2>2 DEF Joint
  <2>. HIDE DEF g, new
  <2>5. needs[n] \cap {"call_class"} = {"call_class"}
    BY <1>7 DEF needs
  <2>6. g.call_class = f.call_class /\ "call_class" \in DOMAIN g
    BY <1>3, <2>3, <2>5 DEF Extends
  <2>7. g.mask = new.mask
    BY <1>3, <2>1, <2>2, <2>3
  <2>8. \A x \in CHUNK_SEEDS : g[x] = f[x]
    BY <1>3, <2>3 DEF Extends, ChunkSeeded
  <2>4. MaskRight(g)
    BY <2>1, <2>6, <2>7, <2>8 DEF MaskRight, CHUNK_SEEDS
  <2>9. DOMAIN g = DOMAIN f \cup {"mask"}
    BY <1>3, <2>2, <2>3
  <2>10. gives[n] \subseteq DOMAIN g /\ ChunkSeeded(g) /\ ChunkFacts(g)
    BY <1>3, <2>2, <2>3, <2>4, <2>9, ChunkFactsGrow DEF Whole, Planes
  <2>. QED
    BY <2>10 DEF g, new
<1>8. CASE n = "manifest"
  <2>1. new = [manifest |-> "built"]
    BY <1>8 DEF Computed
  <2>2. DOMAIN new = {"manifest"} /\ gives[n] = DOMAIN new
    BY <1>8, <2>1 DEF gives
  <2>3. DOMAIN new \cap DOMAIN f = {}
    BY <1>2, <2>2 DEF Joint
  <2>. HIDE DEF g, new
  <2>9. DOMAIN g = DOMAIN f \cup {"manifest"}
    BY <1>3, <2>2, <2>3
  <2>10. gives[n] \subseteq DOMAIN g /\ ChunkSeeded(g) /\ ChunkFacts(g)
    BY <1>3, <2>2, <2>3, <2>9, ChunkFactsGrow DEF Whole, Planes
  <2>. QED
    BY <2>10 DEF g, new
<1>9. CASE n = "arm"
  <2>1. new = [arm |-> "built"]
    BY <1>9 DEF Computed
  <2>2. DOMAIN new = {"arm"} /\ gives[n] = DOMAIN new
    BY <1>9, <2>1 DEF gives
  <2>3. DOMAIN new \cap DOMAIN f = {}
    BY <1>2, <2>2 DEF Joint
  <2>. HIDE DEF g, new
  <2>9. DOMAIN g = DOMAIN f \cup {"arm"}
    BY <1>3, <2>2, <2>3
  <2>10. gives[n] \subseteq DOMAIN g /\ ChunkSeeded(g) /\ ChunkFacts(g)
    BY <1>3, <2>2, <2>3, <2>9, ChunkFactsGrow DEF Whole, Planes
  <2>. QED
    BY <2>10 DEF g, new
<1>10. CASE n = "pack_planes"
  <2>1. new = [p \in Planes |-> "packed"] /\ gives[n] = Planes
    BY <1>10 DEF Computed, gives
  <2>2. DOMAIN new = Planes /\ DOMAIN new \cap DOMAIN f = {}
    BY <1>2, <2>1 DEF Joint, Planes
  <2>3. \A p \in Planes : g[p] = "packed"
    BY <1>3, <2>1, <2>2
  <2>4. DOMAIN g = DOMAIN f \cup Planes /\ Extends(g, f)
    BY <1>3, <2>2
  <2>. HIDE DEF g, new
  <2>5. /\ Joint(g, Planes)
        /\ \A X : X \cap Planes = {} /\ Joint(f, X) => Joint(g, X)
    BY <2>4 DEF Joint
  <2>6. \A X : X \subseteq {"widths", "d_v", "union_table", "atom_bits", "state_in", "arena",
               "page_table", "state_out"} => X \cap Planes = {}
    BY DEF Planes
  <2>7. /\ Joint(g, {"widths", "d_v"}) /\ Joint(g, {"union_table", "atom_bits"})
        /\ Joint(g, {"state_in", "arena"}) /\ Joint(g, {"page_table", "state_out"})
    BY <1>2, <2>5, <2>6
  <2>8. \A x \in {"paging", "call_class", "mask", "atom_bits", "arena", "page_table",
                  "block_bits", "run_table"} : x \in DOMAIN g => x \in DOMAIN f
    BY <2>4 DEF Planes
  <2>9. /\ "paging" \in DOMAIN g => g.paging \in BOOLEAN
        /\ "call_class" \in DOMAIN g => ClassRight(g)
        /\ "mask" \in DOMAIN g => MaskRight(g)
        /\ "atom_bits" \in DOMAIN g => BitsRight(g)
        /\ "arena" \in DOMAIN g => Entered(g)
        /\ "page_table" \in DOMAIN g => PlaneRight(g)
        /\ "block_bits" \in DOMAIN g => BlocksRight(g)
        /\ "run_table" \in DOMAIN g => RunRight(g)
    BY <2>4, <2>8, ChunkFactsStay
  <2>10. gives[n] \subseteq DOMAIN g /\ ChunkSeeded(g)
    BY <1>3, <2>1, <2>2, <2>4
  <2>11. ChunkFacts(g)
    BY <2>3, <2>5, <2>7, <2>9 DEF ChunkFacts
  <2>. QED
    BY <2>10, <2>11 DEF g, new
<1>11. CASE n = "pack_v"
  <2>1. new = [v_packed |-> "packed"]
    BY <1>11 DEF Computed
  <2>2. DOMAIN new = {"v_packed"} /\ gives[n] = DOMAIN new
    BY <1>11, <2>1 DEF gives
  <2>3. DOMAIN new \cap DOMAIN f = {}
    BY <1>2, <2>2 DEF Joint
  <2>. HIDE DEF g, new
  <2>9. DOMAIN g = DOMAIN f \cup {"v_packed"}
    BY <1>3, <2>2, <2>3
  <2>10. gives[n] \subseteq DOMAIN g /\ ChunkSeeded(g) /\ ChunkFacts(g)
    BY <1>3, <2>2, <2>3, <2>9, ChunkFactsGrow DEF Whole, Planes
  <2>. QED
    BY <2>10 DEF g, new
<1>12. CASE n = "facts_tables"
  <2>1. new = [union_table |-> f.routes.read \cup f.routes.write,
                atom_bits |-> IF f.mask = "M2" THEN f.routes.write ELSE None]
    BY <1>12 DEF Computed
  <2>2. DOMAIN new = {"union_table", "atom_bits"} /\ gives[n] = DOMAIN new
    BY <1>12, <2>1 DEF gives
  <2>3. DOMAIN new \cap DOMAIN f = {}
    BY <1>2, <2>2 DEF Joint
  <2>. HIDE DEF g, new
  <2>5. needs[n] \cap {"mask"} = {"mask"}
    BY <1>12 DEF needs
  <2>6. g.mask = f.mask /\ "mask" \in DOMAIN g
    BY <1>3, <2>3, <2>5 DEF Extends
  <2>7. g.atom_bits = new.atom_bits
    BY <1>3, <2>1, <2>2, <2>3
  <2>8. \A x \in CHUNK_SEEDS : g[x] = f[x]
    BY <1>3, <2>3 DEF Extends, ChunkSeeded
  <2>4. BitsRight(g)
    BY <2>1, <2>6, <2>7, <2>8 DEF BitsRight, CHUNK_SEEDS
  <2>9. DOMAIN g = DOMAIN f \cup {"union_table", "atom_bits"}
    BY <1>3, <2>2, <2>3
  <2>10. gives[n] \subseteq DOMAIN g /\ ChunkSeeded(g) /\ ChunkFacts(g)
    BY <1>3, <2>2, <2>3, <2>4, <2>9, ChunkFactsGrow DEF Whole, Planes
  <2>. QED
    BY <2>10 DEF g, new
<1>13. CASE n = "join"
  <2>1. new = <<>>
    BY <1>13 DEF Computed
  <2>2. DOMAIN new = {} /\ gives[n] = DOMAIN new
    BY <1>13, <2>1 DEF gives
  <2>3. DOMAIN new \cap DOMAIN f = {}
    BY <1>2, <2>2 DEF Joint
  <2>. HIDE DEF g, new
  <2>9. DOMAIN g = DOMAIN f \cup {}
    BY <1>3, <2>2, <2>3
  <2>10. gives[n] \subseteq DOMAIN g /\ ChunkSeeded(g) /\ ChunkFacts(g)
    BY <1>3, <2>2, <2>3, <2>9, ChunkFactsGrow DEF Whole, Planes
  <2>. QED
    BY <2>10 DEF g, new
<1>14. CASE n = "backing"
  <2>1. new = backing(f)
    BY <1>14 DEF Computed
  <2>2. DOMAIN new = {"page_table", "state_out"} /\ gives[n] = DOMAIN new
    BY <1>14, <2>1 DEF gives, backing
  <2>3. DOMAIN new \cap DOMAIN f = {}
    BY <1>2, <2>2 DEF Joint
  <2>. HIDE DEF g, new
  <2>5. needs[n] \cap {"arena", "state_in"} = {"arena", "state_in"}
    BY <1>14 DEF needs
  <2>6. /\ g.arena = f.arena /\ "arena" \in DOMAIN g /\ g.state_in = f.state_in
        /\ "state_in" \in DOMAIN g
    BY <1>3, <2>3, <2>5 DEF Extends
  <2>7. g.page_table = new.page_table /\ g.state_out = new.state_out
    BY <1>3, <2>1, <2>2, <2>3
  <2>8. \A x \in CHUNK_SEEDS : g[x] = f[x]
    BY <1>3, <2>3 DEF Extends, ChunkSeeded
  <2>4. PlaneRight(g)
    BY <2>1, <2>6, <2>7, <2>8 DEF PlaneRight, backing, CHUNK_SEEDS
  <2>9. DOMAIN g = DOMAIN f \cup {"page_table", "state_out"}
    BY <1>3, <2>2, <2>3
  <2>10. gives[n] \subseteq DOMAIN g /\ ChunkSeeded(g) /\ ChunkFacts(g)
    BY <1>3, <2>2, <2>3, <2>4, <2>9, ChunkFactsGrow DEF Whole, Planes
  <2>. QED
    BY <2>10 DEF g, new
<1>15. CASE n = "block_bits"
  <2>1. new = [block_bits |-> Resident(f.page_table)]
    BY <1>15 DEF Computed
  <2>2. DOMAIN new = {"block_bits"} /\ gives[n] = DOMAIN new
    BY <1>15, <2>1 DEF gives
  <2>3. DOMAIN new \cap DOMAIN f = {}
    BY <1>2, <2>2 DEF Joint
  <2>. HIDE DEF g, new
  <2>5. needs[n] \cap {"page_table"} = {"page_table"}
    BY <1>15 DEF needs
  <2>6. g.page_table = f.page_table /\ "page_table" \in DOMAIN g
    BY <1>3, <2>3, <2>5 DEF Extends
  <2>7. g.block_bits = new.block_bits
    BY <1>3, <2>1, <2>2, <2>3
  <2>8. \A x \in CHUNK_SEEDS : g[x] = f[x]
    BY <1>3, <2>3 DEF Extends, ChunkSeeded
  <2>4. BlocksRight(g)
    BY <2>1, <2>6, <2>7, <2>8 DEF BlocksRight, CHUNK_SEEDS
  <2>9. DOMAIN g = DOMAIN f \cup {"block_bits"}
    BY <1>3, <2>2, <2>3
  <2>10. gives[n] \subseteq DOMAIN g /\ ChunkSeeded(g) /\ ChunkFacts(g)
    BY <1>3, <2>2, <2>3, <2>4, <2>9, ChunkFactsGrow DEF Whole, Planes
  <2>. QED
    BY <2>10 DEF g, new
<1>16. CASE n = "run_table"
  <2>1. new = [run_table |-> run_table(f)]
    BY <1>16 DEF Computed
  <2>2. DOMAIN new = {"run_table"} /\ gives[n] = DOMAIN new
    BY <1>16, <2>1 DEF gives
  <2>3. DOMAIN new \cap DOMAIN f = {}
    BY <1>2, <2>2 DEF Joint
  <2>. HIDE DEF g, new
  <2>5. needs[n] \cap {"page_table", "state_in", "state_out"} = {"page_table", "state_in", "state_out"}
    BY <1>16 DEF needs
  <2>6. /\ g.page_table = f.page_table /\ "page_table" \in DOMAIN g /\ g.state_in = f.state_in
        /\ "state_in" \in DOMAIN g /\ g.state_out = f.state_out /\ "state_out" \in DOMAIN g
    BY <1>3, <2>3, <2>5 DEF Extends
  <2>7. g.run_table = new.run_table
    BY <1>3, <2>1, <2>2, <2>3
  <2>8. \A x \in CHUNK_SEEDS : g[x] = f[x]
    BY <1>3, <2>3 DEF Extends, ChunkSeeded
  <2>4. RunRight(g)
    BY <2>1, <2>6, <2>7, <2>8 DEF RunRight, run_table, CHUNK_SEEDS
  <2>9. DOMAIN g = DOMAIN f \cup {"run_table"}
    BY <1>3, <2>2, <2>3
  <2>10. gives[n] \subseteq DOMAIN g /\ ChunkSeeded(g) /\ ChunkFacts(g)
    BY <1>3, <2>2, <2>3, <2>4, <2>9, ChunkFactsGrow DEF Whole, Planes
  <2>. QED
    BY <2>10 DEF g, new
<1>17. CASE n = "build_plan"
  <2>1. new = [plan |-> "chunk"]
    BY <1>17 DEF Computed
  <2>2. DOMAIN new = {"plan"} /\ gives[n] = DOMAIN new
    BY <1>17, <2>1 DEF gives
  <2>3. DOMAIN new \cap DOMAIN f = {}
    BY <1>2, <2>2 DEF Joint
  <2>. HIDE DEF g, new
  <2>9. DOMAIN g = DOMAIN f \cup {"plan"}
    BY <1>3, <2>2, <2>3
  <2>10. gives[n] \subseteq DOMAIN g /\ ChunkSeeded(g) /\ ChunkFacts(g)
    BY <1>3, <2>2, <2>3, <2>9, ChunkFactsGrow DEF Whole, Planes
  <2>. QED
    BY <2>10 DEF g, new
<1>. QED
  BY <1>1, <1>4, <1>5, <1>6, <1>7, <1>8, <1>9, <1>10, <1>11, <1>12, <1>13, <1>14, <1>15, <1>16, <1>17

(***************************************************************************)
(* The same for the decode recipes.                                        *)
(***************************************************************************)
LEMMA DecodeFactsStay ==
  ASSUME NEW f, NEW g, NEW again, Extends(g, f), DecodeSeeded(f, again), DecodeFacts(f, again)
  PROVE  /\ DecodeSeeded(g, again)
         /\ "paged" \in DOMAIN f => ArmRight(g)
         /\ "mask" \in DOMAIN f => GateRight(g)
         /\ "geometry" \in DOMAIN f => ShapeRight(g)
         /\ "scratch" \in DOMAIN f => ScratchRight(g)
         /\ "page_table" \in DOMAIN f => PagesRight(g)
         /\ "plan" \in DOMAIN f => {"page_table", "scratch"} \subseteq DOMAIN g
         /\ "y" \in DOMAIN f => Stepped(g, again)
         /\ "grow" \in DOMAIN f => VerdictRight(g)
<1>1. /\ {"routes", "v", "decay", "state"} \subseteq DOMAIN g
      /\ g.routes = f.routes /\ g.state = f.state /\ g.decay = f.decay
  BY DEF Extends, DecodeSeeded
<1>2. DecodeSeeded(g, again)
  BY <1>1 DEF DecodeSeeded
<1>3. "paged" \in DOMAIN f => ArmRight(g) /\ g.paged = f.paged /\ "paged" \in DOMAIN g
  <2>1. "paged" \in DOMAIN f => /\ {"widths", "has_decay", "paged"} \subseteq DOMAIN f
                                /\ ArmRight(f)
    BY DEF DecodeFacts, Joint
  <2>2. "paged" \in DOMAIN f => /\ g.paged = f.paged /\ g.widths = f.widths
                                /\ g.has_decay = f.has_decay /\ "paged" \in DOMAIN g
    BY <2>1 DEF Extends
  <2>. QED
    BY <1>1, <2>1, <2>2 DEF ArmRight
<1>4. "mask" \in DOMAIN f => GateRight(g) /\ "mask" \in DOMAIN g
  <2>1. "mask" \in DOMAIN f => g.mask = f.mask /\ "mask" \in DOMAIN g
    BY DEF Extends
  <2>. QED
    BY <1>3, <2>1 DEF DecodeFacts, GateRight
<1>5. "geometry" \in DOMAIN f => ShapeRight(g)
  <2>1. "geometry" \in DOMAIN f => g.geometry = f.geometry
    BY DEF Extends
  <2>. QED
    BY <1>1, <2>1 DEF DecodeFacts, ShapeRight
<1>6. "scratch" \in DOMAIN f => ScratchRight(g) /\ g.scratch = f.scratch /\ "scratch" \in DOMAIN g
  <2>1. "scratch" \in DOMAIN f => g.scratch = f.scratch /\ "scratch" \in DOMAIN g
    BY DEF Extends
  <2>. QED
    BY <1>1, <2>1 DEF DecodeFacts, ScratchRight
<1>7. "page_table" \in DOMAIN f => PagesRight(g) /\ "page_table" \in DOMAIN g
  <2>1. "page_table" \in DOMAIN f => g.page_table = f.page_table /\ "page_table" \in DOMAIN g
    BY DEF Extends
  <2>. QED
    BY <1>1, <2>1 DEF DecodeFacts, PagesRight, Fits, Format
<1>8. "plan" \in DOMAIN f => /\ {"page_table", "scratch"} \subseteq DOMAIN g
                             /\ {"page_table", "scratch"} \subseteq DOMAIN f /\ "plan" \in DOMAIN g
  BY DEF DecodeFacts, Extends
<1>9. "y" \in DOMAIN f => Stepped(g, again) /\ "y" \in DOMAIN g /\ g.scratch = f.scratch
  <2>. SUFFICES ASSUME "y" \in DOMAIN f
                PROVE  Stepped(g, again) /\ "y" \in DOMAIN g /\ g.scratch = f.scratch
    OBVIOUS
  <2>1. Stepped(f, again)
    BY DEF DecodeFacts
  <2>2. "plan" \in DOMAIN f /\ "mask" \in DOMAIN f
    BY <2>1 DEF Stepped
  <2>3. g.scratch = f.scratch
    BY <1>6, <1>8, <2>2
  <2>4. "y" \in DOMAIN g
    BY DEF Extends
  <2>. QED
    BY <1>1, <1>4, <1>8, <2>1, <2>2, <2>3, <2>4 DEF Stepped
<1>10. "grow" \in DOMAIN f => VerdictRight(g)
  <2>1. "grow" \in DOMAIN f => g.grow = f.grow
    BY DEF Extends
  <2>. QED
    BY <1>1, <1>9, <2>1 DEF DecodeFacts, VerdictRight
<1>. QED
  BY <1>2, <1>3, <1>4, <1>5, <1>6, <1>7, <1>8, <1>9, <1>10

LEMMA DecodeFactsGrow ==
  ASSUME NEW f, NEW g, NEW again, NEW N, Extends(g, f),
         DecodeSeeded(f, again), DecodeFacts(f, again),
         DOMAIN g = DOMAIN f \cup N,
         Whole(N, {"widths", "d_v", "has_decay", "paged"}),
         Whole(N, {"carried_plane", "page_table", "pool"}),
         "paged" \in N => ArmRight(g),
         "mask" \in N => GateRight(g),
         "geometry" \in N => ShapeRight(g),
         "scratch" \in N => ScratchRight(g),
         "page_table" \in N => PagesRight(g),
         "plan" \in N => {"page_table", "scratch"} \subseteq DOMAIN g,
         "y" \in N => Stepped(g, again),
         "grow" \in N => VerdictRight(g)
  PROVE  DecodeSeeded(g, again) /\ DecodeFacts(g, again)
<1>1. \A X : Whole(N, X) /\ Joint(f, X) => Joint(g, X)
  BY DEF Whole, Joint
<1>2. /\ Joint(g, {"widths", "d_v", "has_decay", "paged"})
      /\ Joint(g, {"carried_plane", "page_table", "pool"})
  BY <1>1 DEF DecodeFacts
<1>3. /\ DecodeSeeded(g, again)
      /\ "paged" \in DOMAIN f => ArmRight(g)
      /\ "mask" \in DOMAIN f => GateRight(g)
      /\ "geometry" \in DOMAIN f => ShapeRight(g)
      /\ "scratch" \in DOMAIN f => ScratchRight(g)
      /\ "page_table" \in DOMAIN f => PagesRight(g)
      /\ "plan" \in DOMAIN f => {"page_table", "scratch"} \subseteq DOMAIN g
      /\ "y" \in DOMAIN f => Stepped(g, again)
      /\ "grow" \in DOMAIN f => VerdictRight(g)
  BY DecodeFactsStay
<1>4. /\ "paged" \in DOMAIN g => ArmRight(g)
      /\ "mask" \in DOMAIN g => GateRight(g)
      /\ "geometry" \in DOMAIN g => ShapeRight(g)
      /\ "scratch" \in DOMAIN g => ScratchRight(g)
      /\ "page_table" \in DOMAIN g => PagesRight(g)
      /\ "plan" \in DOMAIN g => {"page_table", "scratch"} \subseteq DOMAIN g
      /\ "y" \in DOMAIN g => Stepped(g, again)
      /\ "grow" \in DOMAIN g => VerdictRight(g)
  BY <1>3
<1>. QED
  BY <1>2, <1>3, <1>4 DEF DecodeFacts

LEMMA DecodeNode ==
  ASSUME NEW f, NEW again, NEW n \in Computing(DECODE_VERDICT),
         DecodeSeeded(f, again), DecodeFacts(f, again),
         needs[n] \subseteq DOMAIN f,
         gives[n] = {} \/ ~(gives[n] \subseteq DOMAIN f)
  PROVE  /\ gives[n] \subseteq DOMAIN Update(f, Computed(n, f))
         /\ DecodeSeeded(Update(f, Computed(n, f)), again)
         /\ DecodeFacts(Update(f, Computed(n, f)), again)
<1>. DEFINE new == Computed(n, f)
            g   == Update(f, new)
<1>1. n \in {"decode_call", "decode_mask", "geometry", "state_plane", "decode_plan"}
  BY DEF Computing, DECODE_VERDICT, DECODE_STEP
<1>2. /\ Joint(f, {"widths", "d_v", "has_decay", "paged"})
      /\ Joint(f, {"carried_plane", "page_table", "pool"})
  BY DEF DecodeFacts
<1>3. ASSUME DOMAIN new \cap DOMAIN f = {}
      PROVE  /\ DOMAIN g = DOMAIN f \cup DOMAIN new /\ \A x \in DOMAIN new : g[x] = new[x]
             /\ Extends(g, f) /\ DecodeSeeded(g, again)
  BY <1>3, FreshFacts, DecodeFactsStay
<1>4. CASE n = "decode_call"
  <2>1. new = [widths |-> Format(f), d_v |-> Format(f), has_decay |-> f.decay,
                paged |-> Paged(f.state)]
    BY <1>4 DEF Computed, Geometry
  <2>2. DOMAIN new = {"widths", "d_v", "has_decay", "paged"} /\ gives[n] = DOMAIN new
    BY <1>4, <2>1 DEF gives
  <2>3. DOMAIN new \cap DOMAIN f = {}
    BY <1>2, <2>2 DEF Joint
  <2>. HIDE DEF g, new
  <2>9. DOMAIN g = DOMAIN f \cup {"widths", "d_v", "has_decay", "paged"}
    BY <1>3, <2>2, <2>3
  <2>7. g.widths = new.widths /\ g.has_decay = new.has_decay /\ g.paged = new.paged
    BY <1>3, <2>1, <2>2, <2>3
  <2>8. g.routes = f.routes /\ g.state = f.state /\ g.decay = f.decay
    BY <1>3, <2>3 DEF Extends, DecodeSeeded
  <2>4. ArmRight(g)
    BY <2>1, <2>7, <2>8 DEF ArmRight, Format
  <2>11. gives[n] \subseteq DOMAIN g /\ DecodeSeeded(g, again) /\ DecodeFacts(g, again)
    BY <1>3, <2>2, <2>3, <2>4, <2>9, DecodeFactsGrow DEF Whole
  <2>. QED
    BY <2>11 DEF g, new
<1>5. CASE n = "decode_mask"
  <2>1. new = [mask |-> IF f.paged THEN "M4" ELSE "M3"]
    BY <1>5 DEF Computed, Geometry
  <2>2. DOMAIN new = {"mask"} /\ gives[n] = DOMAIN new
    BY <1>5, <2>1 DEF gives
  <2>3. DOMAIN new \cap DOMAIN f = {}
    BY <1>2, <2>2 DEF Joint
  <2>. HIDE DEF g, new
  <2>9. DOMAIN g = DOMAIN f \cup {"mask"}
    BY <1>3, <2>2, <2>3
  <2>5. needs[n] \cap {"paged"} = {"paged"}
    BY <1>5 DEF needs
  <2>6. g.paged = f.paged /\ "paged" \in DOMAIN f /\ "paged" \in DOMAIN g
    BY <1>3, <2>3, <2>5 DEF Extends
  <2>7. g.mask = new.mask
    BY <1>3, <2>1, <2>2, <2>3
  <2>8. g.routes = f.routes /\ g.state = f.state /\ g.decay = f.decay
    BY <1>3, <2>3 DEF Extends, DecodeSeeded
  <2>4. GateRight(g)
    BY <2>1, <2>6, <2>7, <2>8 DEF GateRight
  <2>11. gives[n] \subseteq DOMAIN g /\ DecodeSeeded(g, again) /\ DecodeFacts(g, again)
    BY <1>3, <2>2, <2>3, <2>4, <2>9, DecodeFactsGrow DEF Whole
  <2>. QED
    BY <2>11 DEF g, new
<1>6. CASE n = "geometry"
  <2>1. new = [geometry |-> <<f.widths, f.has_decay>>]
    BY <1>6 DEF Computed, Geometry
  <2>2. DOMAIN new = {"geometry"} /\ gives[n] = DOMAIN new
    BY <1>6, <2>1 DEF gives
  <2>3. DOMAIN new \cap DOMAIN f = {}
    BY <1>2, <2>2 DEF Joint
  <2>. HIDE DEF g, new
  <2>9. DOMAIN g = DOMAIN f \cup {"geometry"}
    BY <1>3, <2>2, <2>3
  <2>5. needs[n] \cap {"widths", "has_decay"} = {"widths", "has_decay"}
    BY <1>6 DEF needs
  <2>6. /\ g.widths = f.widths /\ "widths" \in DOMAIN f /\ "widths" \in DOMAIN g
        /\ g.has_decay = f.has_decay /\ "has_decay" \in DOMAIN f /\ "has_decay" \in DOMAIN g
    BY <1>3, <2>3, <2>5 DEF Extends
  <2>7. g.geometry = new.geometry
    BY <1>3, <2>1, <2>2, <2>3
  <2>8. g.routes = f.routes /\ g.state = f.state /\ g.decay = f.decay
    BY <1>3, <2>3 DEF Extends, DecodeSeeded
  <2>10. "paged" \in DOMAIN f /\ ArmRight(f)
    BY <1>2, <2>6 DEF Joint, DecodeFacts
  <2>4. ShapeRight(g)
    BY <2>1, <2>6, <2>7, <2>8, <2>10 DEF ShapeRight, ArmRight
  <2>11. gives[n] \subseteq DOMAIN g /\ DecodeSeeded(g, again) /\ DecodeFacts(g, again)
    BY <1>3, <2>2, <2>3, <2>4, <2>9, DecodeFactsGrow DEF Whole
  <2>. QED
    BY <2>11 DEF g, new
<1>7. CASE n = "state_plane"
  <2>1. new = [state_plane |-> f.carried_plane]
    BY <1>7 DEF Computed, Geometry
  <2>2. DOMAIN new = {"state_plane"} /\ gives[n] = DOMAIN new
    BY <1>7, <2>1 DEF gives
  <2>3. DOMAIN new \cap DOMAIN f = {}
    BY <1>2, <2>2 DEF Joint
  <2>. HIDE DEF g, new
  <2>9. DOMAIN g = DOMAIN f \cup {"state_plane"}
    BY <1>3, <2>2, <2>3
  <2>11. gives[n] \subseteq DOMAIN g /\ DecodeSeeded(g, again) /\ DecodeFacts(g, again)
    BY <1>3, <2>2, <2>3, <2>9, DecodeFactsGrow DEF Whole
  <2>. QED
    BY <2>11 DEF g, new
<1>8. CASE n = "decode_plan"
  <2>1. new = [plan |-> "decode"]
    BY <1>8 DEF Computed, Geometry
  <2>2. DOMAIN new = {"plan"} /\ gives[n] = DOMAIN new
    BY <1>8, <2>1 DEF gives
  <2>3. DOMAIN new \cap DOMAIN f = {}
    BY <1>2, <2>2 DEF Joint
  <2>. HIDE DEF g, new
  <2>9. DOMAIN g = DOMAIN f \cup {"plan"}
    BY <1>3, <2>2, <2>3
  <2>5. needs[n] \cap {"page_table", "scratch"} = {"page_table", "scratch"}
    BY <1>8 DEF needs
  <2>6. /\ g.page_table = f.page_table /\ "page_table" \in DOMAIN f /\ "page_table" \in DOMAIN g
        /\ g.scratch = f.scratch /\ "scratch" \in DOMAIN f /\ "scratch" \in DOMAIN g
    BY <1>3, <2>3, <2>5 DEF Extends
  <2>4. {"page_table", "scratch"} \subseteq DOMAIN g
    BY <2>1, <2>6
  <2>11. gives[n] \subseteq DOMAIN g /\ DecodeSeeded(g, again) /\ DecodeFacts(g, again)
    BY <1>3, <2>2, <2>3, <2>4, <2>9, DecodeFactsGrow DEF Whole
  <2>. QED
    BY <2>11 DEF g, new
<1>. QED
  BY <1>1, <1>4, <1>5, <1>6, <1>7, <1>8

(***************************************************************************)
(* One step of a walk.                                                     *)
(***************************************************************************)
LEMMA ChunkStill ==
  ASSUME NEW f, UNCHANGED <<st, round, written, hist>>
  PROVE  (ChunkSeeded(f)' <=> ChunkSeeded(f)) /\ (ChunkFacts(f)' <=> ChunkFacts(f))
<1>1. ChunkSeeded(f)' <=> ChunkSeeded(f)
  BY DEF ChunkSeeded
<1>2. (ClassRight(f)' <=> ClassRight(f)) /\ (MaskRight(f)' <=> MaskRight(f))
  <2>1. classify_call(f)' = classify_call(f)
    BY DEF classify_call, WantsPages, Bound
  <2>. QED
    BY <2>1 DEF ClassRight, MaskRight
<1>3. BitsRight(f)' <=> BitsRight(f)
  BY DEF BitsRight
<1>4. Entered(f)' <=> Entered(f)
  BY DEF Entered, Bound, Carries, Paged
<1>5. (PlaneRight(f)' <=> PlaneRight(f)) /\ (RunRight(f)' <=> RunRight(f))
  BY DEF PlaneRight, RunRight
<1>6. BlocksRight(f)' <=> BlocksRight(f)
  BY DEF BlocksRight, Resident
<1>7. ChunkFacts(f)' <=> ChunkFacts(f)
  BY <1>2, <1>3, <1>4, <1>5, <1>6 DEF ChunkFacts
<1>. QED
  BY <1>1, <1>7

LEMMA DecodeStill ==
  ASSUME NEW f, NEW again, UNCHANGED <<st, memo, round, hist>>
  PROVE  /\ DecodeSeeded(f, again)' <=> DecodeSeeded(f, again)
         /\ DecodeFacts(f, again)' <=> DecodeFacts(f, again)
<1>1. DecodeSeeded(f, again)' <=> DecodeSeeded(f, again)
  BY DEF DecodeSeeded, Carries
<1>2. (ArmRight(f)' <=> ArmRight(f)) /\ (GateRight(f)' <=> GateRight(f))
  BY DEF ArmRight, GateRight, Paged
<1>3. (ShapeRight(f)' <=> ShapeRight(f)) /\ (ScratchRight(f)' <=> ScratchRight(f))
  BY DEF ShapeRight, ScratchRight
<1>4. PagesRight(f)' <=> PagesRight(f)
  BY DEF PagesRight, Paged, Fits
<1>5. Stepped(f, again)' <=> Stepped(f, again)
  BY DEF Stepped
<1>6. VerdictRight(f)' <=> VerdictRight(f)
  BY DEF VerdictRight, Paged
<1>7. DecodeFacts(f, again)' <=> DecodeFacts(f, again)
  BY <1>2, <1>3, <1>4, <1>5, <1>6 DEF DecodeFacts
<1>. QED
  BY <1>1, <1>7

LEMMA FactsStill ==
  ASSUME NEW d, UNCHANGED <<st, memo, content>>, FactsInv(d)
  PROVE  FactsInv(d)'
<1>1. UNCHANGED <<st, memo, round, written, hist>>
  BY DEF content
<1>2. CASE d.entry = "chunk" /\ d.dag = CHUNK_DAG /\ ChunkSeeded(d.facts) /\ ChunkFacts(d.facts)
  <2>1. ChunkSeeded(d.facts)' /\ ChunkFacts(d.facts)'
    BY <1>1, <1>2, ChunkStill
  <2>. QED
    BY <1>2, <2>1 DEF FactsInv
<1>3. CASE /\ <<d.entry, d.dag>> \in {<<"gated", DECODE_STEP>>, <<"again", DECODE_STEP>>,
                                      <<"forward", DECODE_VERDICT>>}
           /\ DecodeSeeded(d.facts, d.entry = "again") /\ DecodeFacts(d.facts, d.entry = "again")
  <2>1. DecodeSeeded(d.facts, d.entry = "again")' /\ DecodeFacts(d.facts, d.entry = "again")'
    BY <1>1, <1>3, DecodeStill
  <2>. QED
    BY <1>3, <2>1 DEF FactsInv
<1>. QED
  BY <1>2, <1>3 DEF FactsInv

LEMMA HandlesStill ==
  ASSUME Typed, HandleInv, UNCHANGED <<st, memo, calls, content>>
  PROVE  Typed' /\ HandleInv'
  BY DEF Typed, HandleInv, BackingInv, RoundInv, MemoInv, content, Ahead, Bound, Carries, Paged

LEMMA Recipes ==
  Len(CHUNK_DAG) = 15 /\ Len(DECODE_STEP) = 8 /\ Len(DECODE_VERDICT) = 9
  BY DEF CHUNK_DAG, DECODE_STEP, DECODE_VERDICT

LEMMA WalkOn ==
  ASSUME NEW c, NEW new, c = call, WalkInv(c), FactsInv(c), Walking, Step(new),
         gives[Here] \subseteq DOMAIN Update(c.facts, new)
  PROVE  /\ WalkInv(call')
         /\ call'.entry = c.entry /\ call'.dag = c.dag /\ call'.facts = Update(c.facts, new)
<1>1. call' = [entry |-> c.entry, dag |-> c.dag, at |-> c.at + 1,
               facts |-> Update(c.facts, new)]
  BY StepIs DEF WalkInv
<1>2. Len(c.dag) \in Nat
  BY Recipes DEF FactsInv
<1>3. c.at \in 1 .. Len(c.dag) /\ c.at + 1 \in 1 .. Len(c.dag) + 1
  <2>1. c.at \in 1 .. Len(c.dag) + 1
    BY DEF WalkInv
  <2>2. c.at <= Len(c.dag)
    BY DEF Walking
  <2>. QED
    BY <1>2, <2>1, <2>2
<1>4. DOMAIN c.facts \subseteq DOMAIN Update(c.facts, new)
  BY DEF Update
<1>5. ASSUME NEW i \in 1 .. c.at
      PROVE  gives[c.dag[i]] \subseteq DOMAIN Update(c.facts, new)
  <2>1. CASE i = c.at
    BY <2>1 DEF Here
  <2>2. CASE i # c.at
    <3>1. i \in 1 .. c.at - 1
      BY <1>3, <2>2
    <3>. QED
      BY <1>4, <3>1 DEF WalkInv
  <2>. QED
    BY <2>1, <2>2
<1>. QED
  BY <1>1, <1>3, <1>5 DEF WalkInv

LEMMA QuietStep ==
  ASSUME EngineInv, NEW c, NEW new, c = call, Walking, Step(new),
         UNCHANGED <<st, memo, calls, content>>,
         gives[Here] \subseteq DOMAIN Update(c.facts, new),
         \A d : d.entry = c.entry /\ d.dag = c.dag /\ d.facts = Update(c.facts, new)
                  => FactsInv(d)
  PROVE  EngineInv'
<1>1. WalkInv(c) /\ FactsInv(c)
  BY DEF EngineInv, CallInv, Walking
<1>2. PICK d : d = call'
  OBVIOUS
<1>3. WalkInv(d) /\ FactsInv(d)
  BY <1>1, <1>2, WalkOn
<1>4. FactsInv(d)'
  BY <1>3, FactsStill
<1>5. WalkInv(call)' /\ FactsInv(call)'
  BY <1>2, <1>3, <1>4 DEF WalkInv, FactsInv
<1>. QED
  BY <1>5, HandlesStill DEF EngineInv, CallInv

LEMMA ComputeKeeps ==
  ASSUME EngineInv, Compute
  PROVE  EngineInv'
<1>1. PICK c : c = call
  OBVIOUS
<1>. DEFINE n == Here
            f == c.facts
            g == Update(f, Computed(n, f))
<1>2. WalkInv(c) /\ FactsInv(c) /\ Walking /\ n = c.dag[c.at]
  BY <1>1 DEF EngineInv, CallInv, Compute, Walking, Here
<1>3. /\ needs[n] \subseteq DOMAIN f /\ (gives[n] = {} \/ ~(gives[n] \subseteq DOMAIN f))
      /\ Step(Computed(n, f)) /\ UNCHANGED <<st, memo, calls, content>>
      /\ n \notin {"residency", "scratch", "decode_backing", "step", "read_verdict"}
  BY <1>1 DEF Compute, Runs, Held, Has
<1>4. c.at \in DOMAIN c.dag
  <2>1. c.at \in 1 .. Len(c.dag) + 1 /\ c.at <= Len(c.dag)
    BY <1>1, <1>2 DEF WalkInv, Walking
  <2>2. Len(c.dag) \in Nat /\ DOMAIN c.dag = 1 .. Len(c.dag)
    BY <1>2, Recipes DEF FactsInv, CHUNK_DAG, DECODE_STEP, DECODE_VERDICT
  <2>. QED
    BY <2>1, <2>2
<1>5. n \in Computing(c.dag)
  BY <1>2, <1>3, <1>4 DEF Computing
<1>6. /\ gives[n] \subseteq DOMAIN g
      /\ \A d : d.entry = c.entry /\ d.dag = c.dag /\ d.facts = g => FactsInv(d)
  <2>1. CASE c.entry = "chunk" /\ c.dag = CHUNK_DAG /\ ChunkSeeded(f) /\ ChunkFacts(f)
    <3>1. gives[n] \subseteq DOMAIN g /\ ChunkSeeded(g) /\ ChunkFacts(g)
      BY <1>3, <1>5, <2>1, ChunkNode
    <3>. QED
      BY <2>1, <3>1 DEF FactsInv
  <2>2. CASE /\ <<c.entry, c.dag>> \in {<<"gated", DECODE_STEP>>, <<"again", DECODE_STEP>>,
                                        <<"forward", DECODE_VERDICT>>}
             /\ DecodeSeeded(f, c.entry = "again") /\ DecodeFacts(f, c.entry = "again")
    <3>1. Computing(c.dag) \subseteq Computing(DECODE_VERDICT)
      BY <2>2 DEF Computing, DECODE_STEP, DECODE_VERDICT
    <3>2. PICK again \in BOOLEAN : again = (c.entry = "again")
      OBVIOUS
    <3>3. DecodeSeeded(f, again) /\ DecodeFacts(f, again)
      BY <2>2, <3>2
    <3>4. gives[n] \subseteq DOMAIN g /\ DecodeSeeded(g, again) /\ DecodeFacts(g, again)
      BY <1>3, <1>5, <3>1, <3>3, DecodeNode
    <3>. QED
      BY <2>2, <3>2, <3>4 DEF FactsInv
  <2>. QED
    BY <1>2, <2>1, <2>2 DEF FactsInv
<1>. QED
  BY <1>1, <1>2, <1>3, <1>6, QuietStep

(* A node that is ruled out gives None, one whose facts are there nothing. *)
LEMMA PassKeeps ==
  ASSUME EngineInv, Pass
  PROVE  EngineInv'
<1>1. PICK c : c = call
  OBVIOUS
<1>. DEFINE n == Here
            f == c.facts
            g(new) == Update(f, new)
<1>2. WalkInv(c) /\ FactsInv(c) /\ Walking /\ n = c.dag[c.at]
  BY <1>1 DEF EngineInv, CallInv, Pass, Walking, Here
<1>3. UNCHANGED <<st, memo, calls, content>>
  BY DEF Pass
<1>4. c.at \in DOMAIN c.dag /\ c.at \in 1 .. Len(c.dag)
  <2>1. c.at \in 1 .. Len(c.dag) + 1 /\ c.at <= Len(c.dag)
    BY <1>1, <1>2 DEF WalkInv, Walking
  <2>2. Len(c.dag) \in Nat /\ DOMAIN c.dag = 1 .. Len(c.dag)
    BY <1>2, Recipes DEF FactsInv, CHUNK_DAG, DECODE_STEP, DECODE_VERDICT
  <2>. QED
    BY <2>1, <2>2
<1>5. CASE Masked
  <2>. DEFINE N   == {x \in gives[n] : x \notin DOMAIN f}
              new == [x \in N |-> None]
  <2>1. Step(new)
    <3>1. {x \in gives[Here] : ~Has(x)} = N
      BY <1>1 DEF Has
    <3>. QED
      BY <1>5, <3>1 DEF Pass
  <2>2. "mask" \in DOMAIN f /\ f.mask \notin Masks(n)
    BY <1>1, <1>5 DEF Masked, Has
  <2>3. DOMAIN new = N /\ DOMAIN new \cap DOMAIN f = {} /\ \A x \in N : new[x] = None
    OBVIOUS
  <2>. HIDE DEF N, new
  <2>4. PICK e : e = g(new)
    OBVIOUS
  <2>5. Extends(e, f) /\ DOMAIN e = DOMAIN f \cup N /\ \A x \in N : e[x] = None
    BY <2>3, <2>4 DEF Update, Extends
  <2>6. gives[Here] \subseteq DOMAIN g(new)
    BY <2>5, <2>4 DEF N
  <2>7. ASSUME c.entry = "chunk", c.dag = CHUNK_DAG, ChunkSeeded(f), ChunkFacts(f)
        PROVE  ChunkSeeded(e) /\ ChunkFacts(e)
    <3>1. "call_class" \in DOMAIN f /\ f.mask = mask(f.call_class)
      BY <2>2, <2>7 DEF ChunkFacts, MaskRight
    <3>2. n \in {CHUNK_DAG[i] : i \in DOMAIN CHUNK_DAG}
      BY <1>2, <1>4, <2>7
    <3>3. n \in {"residency", "join"} /\ f.mask = "M1"
      BY <2>2, <3>1, <3>2 DEF mask, Masks, CHUNK_DAG, DECODE_STEP
    <3>4. N \in {{}, {"state_in", "arena"}}
      BY <2>7, <3>3 DEF N, gives, ChunkFacts, Joint
    <3>5. "arena" \in N => Entered(e)
      <4>1. e.mask = "M1" /\ "mask" \in DOMAIN e
        BY <2>2, <2>5, <2>4, <3>3 DEF Extends
      <4>2. "arena" \in N => e.arena = None /\ e.state_in = None
        BY <2>5, <2>4, <3>4
      <4>. QED
        BY <4>1, <4>2 DEF Entered
    <3>. QED
      BY <2>5, <2>7, <3>4, <3>5, ChunkFactsGrow DEF Whole, Planes
  <2>8. ASSUME NEW again, again = (c.entry = "again"),
               <<c.entry, c.dag>> \in {<<"gated", DECODE_STEP>>, <<"again", DECODE_STEP>>,
                                       <<"forward", DECODE_VERDICT>>},
               DecodeSeeded(f, again), DecodeFacts(f, again)
        PROVE  DecodeSeeded(e, again) /\ DecodeFacts(e, again)
    <3>1. "paged" \in DOMAIN f /\ (f.mask = IF f.paged THEN "M4" ELSE "M3") /\ f.paged = Paged(f.state)
      BY <2>2, <2>8 DEF DecodeFacts, GateRight, ArmRight
    <3>2. n \in {DECODE_VERDICT[i] : i \in DOMAIN DECODE_VERDICT}
          /\ (n = "read_verdict" => c.dag = DECODE_VERDICT /\ c.at = 9)
      <4>1. CASE c.dag = DECODE_STEP
        BY <1>2, <1>4, <4>1 DEF DECODE_VERDICT, DECODE_STEP
      <4>2. CASE c.dag = DECODE_VERDICT
        BY <1>2, <1>4, <4>2 DEF DECODE_VERDICT, DECODE_STEP
      <4>. QED
        BY <2>8, <4>1, <4>2
    <3>3. n = "read_verdict" /\ f.mask = "M3"
      BY <2>2, <3>1, <3>2 DEF Masks, DECODE_VERDICT, DECODE_STEP
    <3>4. N \in {{}, {"grow"}}
      BY <3>3 DEF N, gives
    <3>5. "y" \in DOMAIN f
      <4>1. c.dag = DECODE_VERDICT /\ c.at = 9
        BY <3>2, <3>3
      <4>2. gives[c.dag[8]] \subseteq DOMAIN f
        BY <1>2, <4>1 DEF WalkInv
      <4>. QED
        BY <4>1, <4>2 DEF gives, DECODE_VERDICT, DECODE_STEP
    <3>6. "grow" \in N => VerdictRight(e)
      <4>1. "y" \in DOMAIN e /\ e.state = f.state
        BY <2>5, <2>4, <2>8, <3>5 DEF Extends, DecodeSeeded
      <4>2. "grow" \in N => e.grow = None
        BY <2>5, <2>4
      <4>3. ~Paged(f.state)
        BY <3>1, <3>3
      <4>. QED
        BY <4>1, <4>2, <4>3 DEF VerdictRight
    <3>. QED
      BY <2>5, <2>8, <3>4, <3>6, DecodeFactsGrow DEF Whole
  <2>9. \A d : d.entry = c.entry /\ d.dag = c.dag /\ d.facts = Update(f, new) => FactsInv(d)
    <3>1. PICK again : again = (c.entry = "again")
      OBVIOUS
    <3>. QED
      BY <1>2, <2>4, <2>7, <2>8, <3>1 DEF FactsInv
  <2>. QED
    BY <1>1, <1>2, <1>3, <2>1, <2>6, <2>9, QuietStep
<1>6. CASE ~Masked /\ Held
  <2>1. Step(<<>>)
    BY <1>6 DEF Pass
  <2>2. PICK e : e = g(<<>>)
    OBVIOUS
  <2>3. Extends(e, f) /\ DOMAIN e = DOMAIN f
    <3>1. DOMAIN <<>> = {}
      OBVIOUS
    <3>. QED
      BY <2>2, <3>1 DEF Update, Extends
  <2>4. gives[Here] \subseteq DOMAIN Update(f, <<>>)
    <3>1. \A x \in gives[Here] : x \in DOMAIN f
      BY <1>1, <1>6 DEF Held, Has
    <3>. QED
      BY <3>1 DEF Update
  <2>. DEFINE N == {}
  <2>5. DOMAIN e = DOMAIN f \cup N /\ (\A x : x \notin N) /\ \A X : Whole(N, X)
    BY <2>3 DEF Whole
  <2>6. Planes \cap N = {}
    OBVIOUS
  <2>. HIDE DEF N
  <2>7. ASSUME ChunkSeeded(f), ChunkFacts(f)
        PROVE  ChunkSeeded(e) /\ ChunkFacts(e)
    BY <2>3, <2>5, <2>6, <2>7, ChunkFactsGrow
  <2>8. ASSUME NEW again, DecodeSeeded(f, again), DecodeFacts(f, again)
        PROVE  DecodeSeeded(e, again) /\ DecodeFacts(e, again)
    BY <2>3, <2>5, <2>8, DecodeFactsGrow
  <2>9. \A d : d.entry = c.entry /\ d.dag = c.dag /\ d.facts = Update(f, <<>>) => FactsInv(d)
    BY <1>2, <2>2, <2>7, <2>8 DEF FactsInv
  <2>. QED
    BY <1>1, <1>2, <1>3, <2>1, <2>4, <2>9, QuietStep
<1>. QED
  BY <1>5, <1>6 DEF Pass

(* A call that ends leaves the rest as it is.                              *)
LEMMA EndKeeps ==
  ASSUME EngineInv, call' = None, UNCHANGED <<st, memo, calls, content>>
  PROVE  EngineInv'
  BY HandlesStill DEF EngineInv, CallInv

(* A walk of a decode recipe, at a node that runs.                         *)
LEMMA DecodeWalk ==
  ASSUME EngineInv, NEW c, c = call, NEW n, Runs(n),
         n \in {"scratch", "decode_backing", "step", "read_verdict"}
  PROVE  /\ WalkInv(c) /\ FactsInv(c) /\ Walking /\ Here = n /\ n = c.dag[c.at]
         /\ needs[n] \subseteq DOMAIN c.facts /\ ~(gives[n] \subseteq DOMAIN c.facts)
         /\ <<c.entry, c.dag>> \in {<<"gated", DECODE_STEP>>, <<"again", DECODE_STEP>>,
                                    <<"forward", DECODE_VERDICT>>}
         /\ DecodeSeeded(c.facts, c.entry = "again") /\ DecodeFacts(c.facts, c.entry = "again")
         /\ n = "step" => c.at = 8
<1>1. WalkInv(c) /\ FactsInv(c) /\ Walking /\ Here = n /\ n = c.dag[c.at]
  BY DEF EngineInv, CallInv, Runs, Walking, Here
<1>2. needs[n] \subseteq DOMAIN c.facts /\ ~(gives[n] \subseteq DOMAIN c.facts)
  <2>1. gives[n] # {}
    BY DEF gives
  <2>. QED
    BY <1>1, <2>1 DEF Runs, Held, Has
<1>3. c.at \in 1 .. Len(c.dag)
  <2>1. c.at \in 1 .. Len(c.dag) + 1 /\ c.at <= Len(c.dag)
    BY <1>1 DEF WalkInv, Walking
  <2>2. Len(c.dag) \in Nat
    BY <1>1, Recipes DEF FactsInv
  <2>. QED
    BY <2>1, <2>2
<1>4. ~(c.entry = "chunk" /\ c.dag = CHUNK_DAG)
  <2>1. CASE c.dag = CHUNK_DAG
    <3>1. c.at \in 1 .. 15
      BY <1>3, <2>1, Recipes
    <3>. QED
      BY <1>1, <2>1, <3>1 DEF CHUNK_DAG
  <2>. QED
    BY <2>1
<1>5. /\ <<c.entry, c.dag>> \in {<<"gated", DECODE_STEP>>, <<"again", DECODE_STEP>>,
                                 <<"forward", DECODE_VERDICT>>}
      /\ DecodeSeeded(c.facts, c.entry = "again") /\ DecodeFacts(c.facts, c.entry = "again")
  BY <1>1, <1>4 DEF FactsInv
<1>6. n = "step" => c.at = 8
  <2>1. CASE c.dag = DECODE_STEP
    BY <1>1, <1>3, <2>1, Recipes DEF DECODE_STEP
  <2>2. CASE c.dag = DECODE_VERDICT
    BY <1>1, <1>3, <2>2, Recipes DEF DECODE_VERDICT, DECODE_STEP
  <2>. QED
    BY <1>5, <2>1, <2>2
<1>. QED
  BY <1>1, <1>2, <1>5, <1>6

Adds(e, f, new) == e = Update(f, new) /\ DOMAIN new \cap DOMAIN f = {}

LEMMA Added ==
  ASSUME NEW f, NEW new, NEW e, Adds(e, f, new)
  PROVE  Extends(e, f) /\ Extends(e, new) /\ DOMAIN e = DOMAIN f \cup DOMAIN new
<1>1. e = [x \in DOMAIN new \cup DOMAIN f |-> IF x \in DOMAIN new THEN new[x] ELSE f[x]]
  BY DEF Adds, Update
<1>2. DOMAIN new \cap DOMAIN f = {}
  BY DEF Adds
<1>3. DOMAIN e = DOMAIN f \cup DOMAIN new
  BY <1>1
<1>4. \A x \in DOMAIN new : e[x] = new[x]
  BY <1>1
<1>5. ASSUME NEW x \in DOMAIN f
      PROVE  e[x] = f[x] /\ x \in DOMAIN e
  BY <1>1, <1>2
<1>6. Extends(e, f)
  BY <1>5 DEF Extends
<1>7. Extends(e, new)
  BY <1>3, <1>4 DEF Extends
<1>. QED
  BY <1>3, <1>6, <1>7

LEMMA DecodeQuiet ==
  ASSUME EngineInv, NEW c, c = call, NEW n, NEW f, f = c.facts, NEW new, NEW e, e = Update(f, new),
         NEW again, again = (c.entry = "again"),
         n \in {"scratch", "decode_backing", "step", "read_verdict"},
         Runs(n), Step(new), UNCHANGED <<st, memo, calls, content>>,
         gives[n] \subseteq DOMAIN e, DecodeSeeded(e, again), DecodeFacts(e, again)
  PROVE  EngineInv'
<1>1. /\ Walking /\ Here = n
      /\ <<c.entry, c.dag>> \in {<<"gated", DECODE_STEP>>, <<"again", DECODE_STEP>>,
                                 <<"forward", DECODE_VERDICT>>}
  BY DecodeWalk
<1>2. \A d : d.entry = c.entry /\ d.dag = c.dag /\ d.facts = Update(c.facts, new) => FactsInv(d)
  BY <1>1 DEF FactsInv
<1>. QED
  BY <1>1, <1>2, QuietStep

LEMMA DecodeBackingKeeps ==
  ASSUME EngineInv, DecodeBacking
  PROVE  EngineInv'
<1>. DEFINE n == "decode_backing"
<1>1. PICK c : c = call
  OBVIOUS
<1>2. PICK f : f = c.facts
  OBVIOUS
<1>3. PICK again : again = (c.entry = "again")
  OBVIOUS
<1>4. Runs(n) /\ UNCHANGED <<st, memo, calls, content>>
  BY DEF DecodeBacking
<1>5. CASE ~Carries(f.state) \/ ~Fits(f.state, f)
  BY <1>1, <1>2, <1>4, <1>5, EndKeeps DEF DecodeBacking, Raise
<1>6. CASE Carries(f.state) /\ Fits(f.state, f)
  <2>1. PICK new : new = [carried_plane |-> f.state,
                          page_table |-> IF Paged(f.state) THEN f.state ELSE None,
                          pool |-> IF Paged(f.state) THEN f.state ELSE None]
    OBVIOUS
  <2>2. Step(new)
    BY <1>1, <1>2, <1>6, <2>1 DEF DecodeBacking
  <2>3. ~(gives[n] \subseteq DOMAIN f) /\ DecodeSeeded(f, again) /\ DecodeFacts(f, again)
    BY <1>1, <1>2, <1>3, <1>4, DecodeWalk
  <2>4. gives[n] = {"carried_plane", "page_table", "pool"} /\ DOMAIN new = gives[n]
    BY <2>1 DEF gives
  <2>5. DOMAIN new \cap DOMAIN f = {}
    BY <2>3, <2>4 DEF DecodeFacts, Joint
  <2>6. PICK e : e = Update(f, new)
    OBVIOUS
  <2>7. Adds(e, f, new)
    BY <2>5, <2>6 DEF Adds
  <2>8. /\ Extends(e, f) /\ DOMAIN e = DOMAIN f \cup {"carried_plane", "page_table", "pool"}
        /\ e.page_table = IF Paged(f.state) THEN f.state ELSE None
    <3>1. Extends(e, f) /\ DOMAIN e = DOMAIN f \cup DOMAIN new
      BY <2>7, Added
    <3>2. \A x \in DOMAIN new : e[x] = new[x]
      <4>1. Extends(e, new)
        BY <2>7, Added
      <4>. QED
        BY <4>1 DEF Extends
    <3>. QED
      BY <2>1, <2>4, <3>1, <3>2
  <2>9. PagesRight(e)
    <3>1. e.state = f.state /\ e.routes = f.routes
      BY <2>3, <2>8 DEF Extends, DecodeSeeded
    <3>. QED
      BY <1>6, <2>8, <3>1 DEF PagesRight, Fits, Format
  <2>10. DecodeSeeded(e, again) /\ DecodeFacts(e, again)
    <3>. DEFINE N == {"carried_plane", "page_table", "pool"}
    <3>1. /\ Whole(N, {"widths", "d_v", "has_decay", "paged"})
          /\ Whole(N, {"carried_plane", "page_table", "pool"})
          /\ {"paged", "mask", "geometry", "scratch", "plan", "y", "grow"} \cap N = {}
      BY DEF Whole
    <3>2. DOMAIN e = DOMAIN f \cup N
      BY <2>8
    <3>. HIDE DEF N
    <3>. QED
      BY <2>3, <2>8, <2>9, <3>1, <3>2, DecodeFactsGrow
  <2>11. gives[n] \subseteq DOMAIN e
    BY <2>4, <2>8
  <2>. HIDE DEF n
  <2>. QED
    BY <1>1, <1>2, <1>3, <1>4, <2>2, <2>6, <2>10, <2>11, DecodeQuiet DEF n
<1>. QED
  BY <1>5, <1>6

LEMMA ReadVerdictKeeps ==
  ASSUME EngineInv, ReadVerdict
  PROVE  EngineInv'
<1>. DEFINE n == "read_verdict"
<1>1. PICK c : c = call
  OBVIOUS
<1>2. PICK f : f = c.facts
  OBVIOUS
<1>3. PICK again : again = (c.entry = "again")
  OBVIOUS
<1>4. Runs(n) /\ UNCHANGED <<st, memo, calls, content>>
  BY DEF ReadVerdict
<1>5. PICK new : new = [grow |-> memo[f.scratch].grow]
  OBVIOUS
<1>6. Step(new)
  BY <1>1, <1>2, <1>5 DEF ReadVerdict
<1>7. /\ needs[n] \subseteq DOMAIN f /\ ~(gives[n] \subseteq DOMAIN f)
      /\ DecodeSeeded(f, again) /\ DecodeFacts(f, again)
  BY <1>1, <1>2, <1>3, <1>4, DecodeWalk
<1>8. gives[n] = {"grow"} /\ DOMAIN new = gives[n] /\ {"scratch", "y"} \subseteq DOMAIN f
  BY <1>5, <1>7 DEF gives, needs
<1>9. PICK e : e = Update(f, new)
  OBVIOUS
<1>10. DOMAIN new \cap DOMAIN f = {}
  BY <1>7, <1>8
<1>11. Adds(e, f, new)
  BY <1>9, <1>10 DEF Adds
<1>12. /\ Extends(e, f) /\ DOMAIN e = DOMAIN f \cup {"grow"}
       /\ e.grow = memo[f.scratch].grow
  <2>1. Extends(e, f) /\ DOMAIN e = DOMAIN f \cup DOMAIN new
    BY <1>11, Added
  <2>2. \A x \in DOMAIN new : e[x] = new[x]
    <3>1. Extends(e, new)
      BY <1>11, Added
    <3>. QED
      BY <3>1 DEF Extends
  <2>. QED
    BY <1>5, <1>8, <2>1, <2>2
<1>13. VerdictRight(e)
  <2>1. e.scratch = f.scratch /\ "y" \in DOMAIN e
    BY <1>8, <1>12 DEF Extends
  <2>2. e.grow = memo[e.scratch].grow
    BY <1>12, <2>1
  <2>. QED
    BY <2>1, <2>2 DEF VerdictRight
<1>14. DecodeSeeded(e, again) /\ DecodeFacts(e, again)
  <2>. DEFINE N == {"grow"}
  <2>1. /\ Whole(N, {"widths", "d_v", "has_decay", "paged"})
        /\ Whole(N, {"carried_plane", "page_table", "pool"})
        /\ {"paged", "mask", "geometry", "scratch", "page_table", "plan", "y"} \cap N = {}
    BY DEF Whole
  <2>2. DOMAIN e = DOMAIN f \cup N
    BY <1>12
  <2>. HIDE DEF N
  <2>. QED
    BY <1>7, <1>12, <1>13, <2>1, <2>2, DecodeFactsGrow
<1>15. gives[n] \subseteq DOMAIN e
  BY <1>8, <1>12
<1>. HIDE DEF n
<1>. QED
  BY <1>1, <1>2, <1>3, <1>4, <1>6, <1>9, <1>14, <1>15, DecodeQuiet DEF n

LEMMA DecodeOn ==
  ASSUME EngineInv, NEW c, c = call, NEW n, NEW f, f = c.facts, NEW new, NEW e, e = Update(f, new),
         NEW again, again = (c.entry = "again"),
         n \in {"scratch", "decode_backing", "step", "read_verdict"},
         Runs(n), Step(new), gives[n] \subseteq DOMAIN e,
         Typed', HandleInv', DecodeSeeded(e, again)', DecodeFacts(e, again)'
  PROVE  EngineInv'
<1>1. /\ WalkInv(c) /\ FactsInv(c) /\ Walking /\ Here = n
      /\ <<c.entry, c.dag>> \in {<<"gated", DECODE_STEP>>, <<"again", DECODE_STEP>>,
                                 <<"forward", DECODE_VERDICT>>}
  BY DecodeWalk
<1>2. PICK d : d = call'
  OBVIOUS
<1>3. /\ WalkInv(d) /\ d.entry = c.entry /\ d.dag = c.dag /\ d.facts = e
  BY <1>1, <1>2, WalkOn
<1>4. FactsInv(d)'
  BY <1>1, <1>3 DEF FactsInv
<1>5. WalkInv(call)' /\ FactsInv(call)'
  BY <1>2, <1>3, <1>4 DEF WalkInv, FactsInv
<1>. QED
  BY <1>5 DEF EngineInv, CallInv

(* A scratch is made when its handle and geometry have none.               *)
LEMMA ScratchKeepsHandles ==
  ASSUME Typed, HandleInv, NEW k \in State \X (Fmt \X Arm),
         memo' = Update([x \in {k} |-> [done |-> {}, grow |-> FALSE, bits |-> {}]], memo),
         UNCHANGED <<st, calls, content>>
  PROVE  /\ Typed' /\ HandleInv' /\ k \in DOMAIN memo'
         /\ DOMAIN memo \subseteq DOMAIN memo' /\ \A x \in DOMAIN memo : memo'[x] = memo[x]
<1>. DEFINE z == [done |-> {}, grow |-> FALSE, bits |-> {}]
<1>1. /\ DOMAIN memo' = DOMAIN memo \cup {k}
      /\ \A x \in DOMAIN memo : memo'[x] = memo[x]
      /\ k \notin DOMAIN memo => memo'[k] = z
      /\ memo' = [x \in DOMAIN memo' |-> memo'[x]]
  BY DEF Update
<1>2. /\ z \in [done : SUBSET BatchHead, grow : BOOLEAN, bits : SUBSET Cell]
      /\ ~z.grow /\ z.done = {}
  OBVIOUS
<1>. HIDE DEF z
<1>3. Typed'
  <2>1. /\ IsFiniteSet(DOMAIN memo') /\ DOMAIN memo' \subseteq State \X (Fmt \X Arm)
    <3>1. IsFiniteSet(DOMAIN memo) /\ DOMAIN memo \subseteq State \X (Fmt \X Arm)
      BY DEF Typed
    <3>2. IsFiniteSet(DOMAIN memo \cup {k})
      BY <3>1, FS_AddElement
    <3>. QED
      BY <1>1, <3>1, <3>2
  <2>2. \A x \in DOMAIN memo' :
          memo'[x] \in [done : SUBSET BatchHead, grow : BOOLEAN, bits : SUBSET Cell]
    <3>1. \A x \in DOMAIN memo :
            memo[x] \in [done : SUBSET BatchHead, grow : BOOLEAN, bits : SUBSET Cell]
      BY DEF Typed
    <3>2. ASSUME NEW x \in DOMAIN memo', x \notin DOMAIN memo
          PROVE  memo'[x] = z
      BY <1>1, <3>2
    <3>. DEFINE Scratches == [done : SUBSET BatchHead, grow : BOOLEAN, bits : SUBSET Cell]
    <3>3. z \in Scratches
      BY <1>2
    <3>4. \A x \in DOMAIN memo : memo[x] \in Scratches
      BY <3>1
    <3>. HIDE DEF Scratches
    <3>5. \A x \in DOMAIN memo' : memo'[x] \in Scratches
      BY <1>1, <3>2, <3>3, <3>4
    <3>. QED
      BY <3>5 DEF Scratches
  <2>3. memo' \in [DOMAIN memo' -> [done : SUBSET BatchHead, grow : BOOLEAN, bits : SUBSET Cell]]
    BY <1>1, <2>2
  <2>. QED
    BY <2>1, <2>3 DEF Typed, content
<1>4. BackingInv'
  BY DEF HandleInv, BackingInv, content, Carries, Bound, Paged
<1>5. RoundInv'
  <2>1. UNCHANGED <<st, got, round, hist>>
    BY DEF content
  <2>2. ASSUME NEW s \in State, round[s] # None
        PROVE  /\ Paged(s)' /\ Key(round[s], s) \in DOMAIN memo' /\ round[s][1].fmt = st[s].fmt
               /\ Ahead(s)' = Ahead(s)
    <3>1. Paged(s) /\ Key(round[s], s) \in DOMAIN memo /\ round[s][1].fmt = st[s].fmt
      BY <2>2 DEF HandleInv, RoundInv
    <3>2. Paged(s)' /\ Key(round[s], s)' = Key(round[s], s)
      BY <2>1, <3>1 DEF Paged, Key
    <3>3. Ahead(s)' = Ahead(s)
      BY <1>1, <3>1, <3>2 DEF Ahead
    <3>. QED
      BY <1>1, <3>1, <3>2, <3>3
  <2>3. ASSUME NEW s \in State, NEW h \in BatchHead
        PROVE  /\ round[s] = None => got[s][h] = hist[s]
               /\ round[s] # None =>
                    got[s][h] = IF h \in Ahead(s) THEN Append(hist[s], round[s][1].id) ELSE hist[s]
    BY DEF HandleInv, RoundInv
  <2>. QED
    BY <2>1, <2>2, <2>3 DEF RoundInv, Key
<1>6. MemoInv'
  <2>1. ASSUME NEW x \in DOMAIN memo
        PROVE  /\ memo'[x].grow <=> (round'[x[1]] # None /\ x = Key(round'[x[1]], x[1]))
               /\ ~memo'[x].grow => memo'[x].done = {}
    BY <1>1 DEF HandleInv, MemoInv, content, Key
  <2>2. ASSUME k \notin DOMAIN memo
        PROVE  /\ memo'[k].grow <=> (round'[k[1]] # None /\ k = Key(round'[k[1]], k[1]))
               /\ ~memo'[k].grow => memo'[k].done = {}
    <3>1. ~memo'[k].grow /\ memo'[k].done = {}
      BY <1>1, <1>2, <2>2
    <3>2. ~(round[k[1]] # None /\ k = Key(round[k[1]], k[1]))
      BY <2>2 DEF HandleInv, RoundInv
    <3>. QED
      BY <3>1, <3>2 DEF content, Key
  <2>. QED
    BY <1>1, <2>1, <2>2 DEF MemoInv, Key
<1>. QED
  BY <1>1, <1>3, <1>4, <1>5, <1>6 DEF HandleInv

LEMMA ScratchKeeps ==
  ASSUME EngineInv, Scratch
  PROVE  EngineInv'
<1>. DEFINE n == "scratch"
<1>1. PICK c : c = call
  OBVIOUS
<1>2. PICK f : f = c.facts
  OBVIOUS
<1>3. PICK again : again = (c.entry = "again")
  OBVIOUS
<1>4. PICK k : k = <<f.state, f.geometry>>
  OBVIOUS
<1>5. PICK new : new = [scratch |-> k]
  OBVIOUS
<1>6. /\ Runs(n) /\ Step(new) /\ UNCHANGED <<st, calls, content>>
      /\ memo' = Update([x \in {k} |-> [done |-> {}, grow |-> FALSE, bits |-> {}]], memo)
  BY <1>1, <1>2, <1>4, <1>5 DEF Scratch, Table
<1>7. /\ needs[n] \subseteq DOMAIN f /\ ~(gives[n] \subseteq DOMAIN f)
      /\ DecodeSeeded(f, again) /\ DecodeFacts(f, again)
  BY <1>1, <1>2, <1>3, <1>6, DecodeWalk
<1>8. gives[n] = {"scratch"} /\ DOMAIN new = gives[n] /\ {"state", "geometry"} \subseteq DOMAIN f
  BY <1>5, <1>7 DEF gives, needs
<1>9. PICK e : e = Update(f, new)
  OBVIOUS
<1>10. DOMAIN new \cap DOMAIN f = {}
  BY <1>7, <1>8
<1>11. Adds(e, f, new)
  BY <1>9, <1>10 DEF Adds
<1>12. Extends(e, f) /\ DOMAIN e = DOMAIN f \cup {"scratch"} /\ e.scratch = k
  <2>1. Extends(e, f) /\ DOMAIN e = DOMAIN f \cup DOMAIN new
    BY <1>11, Added
  <2>2. \A x \in DOMAIN new : e[x] = new[x]
    <3>1. Extends(e, new)
      BY <1>11, Added
    <3>. QED
      BY <3>1 DEF Extends
  <2>. QED
    BY <1>5, <1>8, <2>1, <2>2
<1>13. /\ k = <<f.state, <<f.routes.fmt, f.decay>>>> /\ k \in State \X (Fmt \X Arm)
       /\ e.state = f.state /\ e.routes = f.routes /\ e.decay = f.decay
  <2>1. f.geometry = <<f.routes.fmt, f.decay>>
    BY <1>7, <1>8 DEF DecodeFacts, ShapeRight
  <2>2. f.routes \in Call /\ f.decay \in Arm /\ f.state \in State
    BY <1>7 DEF DecodeSeeded
  <2>3. f.routes.fmt \in Fmt
    BY <2>2 DEF Call
  <2>4. e.state = f.state /\ e.routes = f.routes /\ e.decay = f.decay
    BY <1>7, <1>12 DEF Extends, DecodeSeeded
  <2>. QED
    BY <1>4, <2>1, <2>2, <2>3, <2>4
<1>14. Typed' /\ HandleInv' /\ k \in DOMAIN memo'
  BY <1>6, <1>13, ScratchKeepsHandles DEF EngineInv
<1>15. ScratchRight(e)'
  BY <1>12, <1>13, <1>14 DEF ScratchRight
<1>16. {"plan", "y", "grow"} \cap DOMAIN e = {}
  <2>1. "scratch" \notin DOMAIN f
    BY <1>7, <1>8
  <2>2. "plan" \notin DOMAIN f
    BY <1>7, <2>1 DEF DecodeFacts
  <2>3. "y" \notin DOMAIN f
    BY <1>7, <2>2 DEF DecodeFacts, Stepped
  <2>4. "grow" \notin DOMAIN f
    BY <1>7, <2>3 DEF DecodeFacts, VerdictRight
  <2>. QED
    BY <1>12, <2>2, <2>3, <2>4
<1>17. DecodeSeeded(e, again)'
  <2>1. DecodeSeeded(e, again)
    BY <1>7, <1>12, DecodeFactsStay
  <2>. QED
    BY <1>6, <2>1 DEF DecodeSeeded, content, Carries
<1>18. DecodeFacts(e, again)'
  <2>1. /\ "paged" \in DOMAIN e => ArmRight(e)
        /\ "mask" \in DOMAIN e => GateRight(e)
        /\ "geometry" \in DOMAIN e => ShapeRight(e)
        /\ "page_table" \in DOMAIN e => PagesRight(e)
    <3>1. \A x \in {"paged", "mask", "geometry", "page_table"} : x \in DOMAIN e => x \in DOMAIN f
      BY <1>12
    <3>. QED
      BY <1>7, <1>12, <3>1, DecodeFactsStay
  <2>2. /\ Joint(e, {"widths", "d_v", "has_decay", "paged"})
        /\ Joint(e, {"carried_plane", "page_table", "pool"})
    BY <1>7, <1>12 DEF DecodeFacts, Joint
  <2>3. /\ "paged" \in DOMAIN e => ArmRight(e)'
        /\ "mask" \in DOMAIN e => GateRight(e)'
        /\ "geometry" \in DOMAIN e => ShapeRight(e)'
        /\ "page_table" \in DOMAIN e => PagesRight(e)'
    BY <1>6, <2>1 DEF ArmRight, GateRight, ShapeRight, PagesRight, Paged, Fits, Format
  <2>4. "plan" \notin DOMAIN e /\ "y" \notin DOMAIN e /\ "grow" \notin DOMAIN e
    BY <1>16
  <2>. QED
    BY <1>15, <2>2, <2>3, <2>4 DEF DecodeFacts, Joint
<1>19. gives[n] \subseteq DOMAIN e
  BY <1>8, <1>12
<1>. HIDE DEF n
<1>. QED
  BY <1>1, <1>2, <1>3, <1>6, <1>9, <1>14, <1>17, <1>18, <1>19, DecodeOn DEF n

(***************************************************************************)
(* The decode launch.                                                      *)
(***************************************************************************)
LEMMA OpenOrNot ==
  ASSUME Typed, HandleInv, NEW s \in State, NEW r, NEW arm, NEW k, k = <<s, <<r.fmt, arm>>>>,
         k \in DOMAIN memo, round[s] \in {None, <<r, arm>>}
  PROVE  /\ memo[k].done \subseteq BatchHead
         /\ \A h \in BatchHead :
              got[s][h] = IF h \in memo[k].done THEN Append(hist[s], r.id) ELSE hist[s]
         /\ \A x \in DOMAIN memo : x[1] = s /\ x # k => ~memo[x].grow
         /\ memo[k].grow => round[s] # None
<1>1. memo[k].done \subseteq BatchHead
  BY DEF Typed
<1>2. \A x \in DOMAIN memo : x[1] = s /\ x # k => ~memo[x].grow
  BY DEF HandleInv, MemoInv, Key
<1>3. memo[k].grow <=> round[s] # None
  <2>1. memo[k].grow <=> (round[s] # None /\ k = Key(round[s], s))
    BY DEF HandleInv, MemoInv
  <2>. QED
    BY <2>1 DEF Key
<1>4. ASSUME NEW h \in BatchHead
      PROVE  got[s][h] = IF h \in memo[k].done THEN Append(hist[s], r.id) ELSE hist[s]
  <2>1. CASE round[s] = None
    <3>1. memo[k].done = {}
      BY <1>3, <2>1 DEF HandleInv, MemoInv
    <3>. QED
      BY <2>1, <3>1 DEF HandleInv, RoundInv
  <2>2. CASE round[s] # None
    <3>1. round[s] = <<r, arm>> /\ Key(round[s], s) = k /\ round[s][1] = r
      BY <2>2 DEF Key
    <3>. QED
      BY <2>2, <3>1 DEF HandleInv, RoundInv, Ahead
  <2>. QED
    BY <2>1, <2>2
<1>. QED
  BY <1>1, <1>2, <1>3, <1>4

(* What a launch finds of its handle, which batch-heads a table may leave  *)
(* needy or serve from the pool, and what the launch does.                 *)
LaunchFrom(f) ==
  /\ f.routes \in Call /\ f.decay \in Arm /\ f.state \in State /\ Carries(f.state)
  /\ f.scratch = <<f.state, <<f.routes.fmt, f.decay>>>> /\ f.scratch \in DOMAIN memo
  /\ st[f.state].fmt = f.routes.fmt /\ round[f.state] \in {None, <<f.routes, f.decay>>}

Serves(f, claimed, needy) ==
  /\ claimed \subseteq BatchHead /\ needy \subseteq BatchHead \ memo[f.scratch].done
  /\ ~Paged(f.state) => needy = {} /\ claimed = {}
  /\ Paged(f.state) =>
       \A h \in ((BatchHead \ memo[f.scratch].done) \ needy) \ claimed : \A a \in Atom :
         <<h, a>> \in f.routes.write => <<h, a>> \in st[f.state].resident

Launched(f, claimed, needy) ==
  LET s == f.state  k == f.scratch  new == (BatchHead \ memo[k].done) \ needy
  IN /\ got' = Absorb(s, f.routes.id, new)
     /\ written' = [written EXCEPT ![s] = @ \cup {x \in f.routes.write : x[1] \in new}]
     /\ st' = [st EXCEPT ![s].resident = @ \cup {x \in f.routes.write : x[1] \in claimed}]
     /\ memo' = [memo EXCEPT ![k] = [done |-> IF needy = {} THEN {} ELSE BatchHead \ needy,
                                     grow |-> needy # {}, bits |-> f.routes.write]]
     /\ round' = [round EXCEPT ![s] = IF needy = {} THEN None ELSE <<f.routes, f.decay>>]
     /\ hist' = [hist EXCEPT ![s] = IF needy = {} THEN Append(@, f.routes.id) ELSE @]

LEMMA LaunchHandles ==
  ASSUME Typed, HandleInv, NEW f, NEW claimed, NEW needy, LaunchFrom(f),
         Serves(f, claimed, needy), Launched(f, claimed, needy), UNCHANGED calls
  PROVE  Typed' /\ HandleInv'
<1>01. PICK s \in State : s = f.state
  BY DEF LaunchFrom
<1>02. PICK r \in Call : r = f.routes
  BY DEF LaunchFrom
<1>03. PICK arm \in Arm : arm = f.decay
  BY DEF LaunchFrom
<1>04. PICK k : k = f.scratch
  OBVIOUS
<1>05. PICK new : new = (BatchHead \ memo[k].done) \ needy
  OBVIOUS
<1>06. /\ k = <<s, <<r.fmt, arm>>>> /\ k \in DOMAIN memo
       /\ round[s] \in {None, <<r, arm>>} /\ Carries(s) /\ st[s].fmt = r.fmt
  BY <1>01, <1>02, <1>03, <1>04 DEF LaunchFrom
<1>07. /\ claimed \subseteq BatchHead /\ needy \subseteq BatchHead \ memo[k].done
       /\ ~Paged(s) => needy = {} /\ claimed = {}
       /\ Paged(s) => \A h \in new \ claimed : \A a \in Atom :
                       <<h, a>> \in r.write => <<h, a>> \in st[s].resident
  BY <1>01, <1>02, <1>04, <1>05 DEF Serves
<1>08. /\ got' = Absorb(s, r.id, new)
       /\ written' = [written EXCEPT ![s] = @ \cup {x \in r.write : x[1] \in new}]
       /\ st' = [st EXCEPT ![s].resident = @ \cup {x \in r.write : x[1] \in claimed}]
       /\ memo' = [memo EXCEPT ![k] = [done |-> IF needy = {} THEN {} ELSE BatchHead \ needy,
                                       grow |-> needy # {}, bits |-> r.write]]
       /\ round' = [round EXCEPT ![s] = IF needy = {} THEN None ELSE <<r, arm>>]
       /\ hist' = [hist EXCEPT ![s] = IF needy = {} THEN Append(@, r.id) ELSE @]
  BY <1>01, <1>02, <1>03, <1>04, <1>05 DEF Launched
<1>. DEFINE D == memo[k].done
<1>1. /\ D \subseteq BatchHead
      /\ \A h \in BatchHead : got[s][h] = IF h \in D THEN Append(hist[s], r.id) ELSE hist[s]
      /\ \A x \in DOMAIN memo : x[1] = s /\ x # k => ~memo[x].grow
  <2>1. k = <<s, <<r.fmt, arm>>>> /\ k \in DOMAIN memo /\ round[s] \in {None, <<r, arm>>}
    BY <1>06
  <2>. QED
    BY <2>1, OpenOrNot
<1>. USE <1>05, <1>06, <1>07, <1>08
<1>2. r.id \in 1 .. MaxCalls /\ r.fmt \in Fmt /\ r.write \subseteq Cell
  BY DEF Call
<1>3. /\ st[s] \in Handle /\ got[s] \in [BatchHead -> Seq(1 .. MaxCalls)]
      /\ written[s] \subseteq Cell /\ hist[s] \in Seq(1 .. MaxCalls)
  BY DEF Typed
<1>4. /\ \A t \in State : t # s => /\ st'[t] = st[t] /\ got'[t] = got[t] /\ hist'[t] = hist[t]
                                   /\ written'[t] = written[t] /\ round'[t] = round[t]
      /\ DOMAIN memo' = DOMAIN memo /\ \A x \in DOMAIN memo : x # k => memo'[x] = memo[x]
  BY DEF Typed, Absorb
<1>5. /\ st'[s] = [st[s] EXCEPT !.resident = @ \cup {x \in r.write : x[1] \in claimed}]
      /\ written'[s] = written[s] \cup {x \in r.write : x[1] \in new}
      /\ round'[s] = IF needy = {} THEN None ELSE <<r, arm>>
      /\ hist'[s] = IF needy = {} THEN Append(hist[s], r.id) ELSE hist[s]
      /\ memo'[k] = [done |-> IF needy = {} THEN {} ELSE BatchHead \ needy,
                     grow |-> needy # {}, bits |-> r.write]
  BY DEF Typed
<1>6. /\ st'[s] \in Handle /\ st'[s].fmt = st[s].fmt /\ st'[s].paging = st[s].paging
      /\ st'[s].kind = st[s].kind
      /\ st'[s].resident = st[s].resident \cup {x \in r.write : x[1] \in claimed}
  <2>1. st[s] \in Handle /\ {x \in r.write : x[1] \in claimed} \subseteq Cell
    BY <1>2, <1>3
  <2>2. PICK X : X = {x \in r.write : x[1] \in claimed}
    OBVIOUS
  <2>3. X \subseteq Cell /\ st'[s] = [st[s] EXCEPT !.resident = @ \cup X]
    BY <1>5, <2>1, <2>2
  <2>4. /\ st'[s] \in Handle /\ st'[s].fmt = st[s].fmt /\ st'[s].paging = st[s].paging
        /\ st'[s].kind = st[s].kind /\ st'[s].resident = st[s].resident \cup X
    BY <2>1, <2>3 DEF Handle
  <2>. QED
    BY <2>2, <2>4
<1>7. \A h \in BatchHead : got'[s][h] = IF h \in new THEN Append(got[s][h], r.id) ELSE got[s][h]
  BY DEF Typed, Absorb
<1>8. \A h \in BatchHead :
        got'[s][h] = IF h \notin needy THEN Append(hist[s], r.id) ELSE hist[s]
  BY <1>1, <1>7
<1>9. Typed'
  <2>1. st' \in [State -> Handle]
    <3>1. \A t \in State : st'[t] \in Handle
      BY <1>4, <1>6 DEF Typed
    <3>. QED
      BY <3>1 DEF Typed
  <2>2. got' \in [State -> [BatchHead -> Seq(1 .. MaxCalls)]]
    <3>1. [h \in BatchHead |-> IF h \in new THEN Append(got[s][h], r.id) ELSE got[s][h]]
             \in [BatchHead -> Seq(1 .. MaxCalls)]
      <4>1. ASSUME NEW h \in BatchHead
            PROVE  got[s][h] \in Seq(1 .. MaxCalls) /\ Append(got[s][h], r.id) \in Seq(1 .. MaxCalls)
        <5>1. got[s][h] \in Seq(1 .. MaxCalls)
          BY <1>3
        <5>. QED
          BY <1>2, <5>1
      <4>. QED
        BY <4>1
    <3>. QED
      BY <3>1 DEF Typed, Absorb
  <2>3. written' \in [State -> SUBSET Cell]
    BY <1>2 DEF Typed
  <2>4. round' \in [State -> {None} \cup (Call \X Arm)]
    BY DEF Typed
  <2>5. hist' \in [State -> Seq(1 .. MaxCalls)]
    <3>1. Append(hist[s], r.id) \in Seq(1 .. MaxCalls)
      BY <1>2, <1>3
    <3>. QED
      BY <1>3, <3>1 DEF Typed
  <2>6. memo' \in [DOMAIN memo' -> [done : SUBSET BatchHead, grow : BOOLEAN, bits : SUBSET Cell]]
    <3>1. [done |-> IF needy = {} THEN {} ELSE BatchHead \ needy, grow |-> needy # {},
           bits |-> r.write] \in [done : SUBSET BatchHead, grow : BOOLEAN, bits : SUBSET Cell]
      BY <1>2
    <3>. QED
      BY <1>4, <3>1 DEF Typed
  <2>. QED
    BY <1>4, <2>1, <2>2, <2>3, <2>4, <2>5, <2>6 DEF Typed
<1>10. BackingInv'
  <2>. SUFFICES ASSUME NEW t \in State
                PROVE  /\ Carries(t)' => Bound(t)'
                       /\ st'[t].kind = "paged" => st'[t].paging
                       /\ st'[t].kind = "dense" => ~st'[t].paging
                       /\ IF Paged(t)' THEN written'[t] \subseteq st'[t].resident
                          ELSE st'[t].resident = {}
                       /\ ~Carries(t)' => hist'[t] = <<>> /\ written'[t] = {} /\ round'[t] = None
    BY DEF BackingInv
  <2>1. CASE t # s
    BY <1>4, <2>1 DEF HandleInv, BackingInv, Carries, Bound, Paged
  <2>2. CASE t = s
    <3>1. /\ Carries(s) => Bound(s)
          /\ st[s].kind = "paged" => st[s].paging
          /\ st[s].kind = "dense" => ~st[s].paging
          /\ IF Paged(s) THEN written[s] \subseteq st[s].resident ELSE st[s].resident = {}
      BY DEF HandleInv, BackingInv
    <3>2. Carries(s)' /\ Bound(s)' /\ (Paged(s)' <=> Paged(s))
      BY <1>6, <3>1 DEF Carries, Bound, Paged
    <3>3. CASE Paged(s)
      <4>1. ASSUME NEW x \in r.write, x[1] \in new
            PROVE  x \in st'[s].resident
        <5>1. x = <<x[1], x[2]>> /\ x[2] \in Atom
          BY <1>2 DEF Cell
        <5>2. CASE x[1] \in claimed
          BY <1>6, <5>2
        <5>3. CASE x[1] \notin claimed
          BY <1>6, <3>3, <4>1, <5>1, <5>3
        <5>. QED
          BY <5>2, <5>3
      <4>2. written'[s] \subseteq st'[s].resident
        BY <1>5, <1>6, <3>1, <3>3, <4>1
      <4>. QED
        BY <1>6, <2>2, <3>1, <3>2, <3>3, <4>2
    <3>4. CASE ~Paged(s)
      <4>1. st'[s].resident = {}
        BY <1>6, <3>1, <3>4
      <4>. QED
        BY <1>6, <2>2, <3>1, <3>2, <3>4, <4>1
    <3>. QED
      BY <3>3, <3>4
  <2>. QED
    BY <2>1, <2>2
<1>11. RoundInv'
  <2>. SUFFICES ASSUME NEW t \in State
                PROVE  /\ round'[t] = None => \A h \in BatchHead : got'[t][h] = hist'[t]
                       /\ round'[t] # None =>
                            /\ Paged(t)' /\ Key(round'[t], t) \in DOMAIN memo'
                            /\ round'[t][1].fmt = st'[t].fmt
                            /\ \A h \in BatchHead :
                                 got'[t][h] = IF h \in memo'[Key(round'[t], t)].done
                                              THEN Append(hist'[t], round'[t][1].id) ELSE hist'[t]
    BY DEF RoundInv, Ahead, Key
  <2>1. CASE t # s
    <3>1. Key(round[t], t) # k
      BY <2>1 DEF Key
    <3>2. /\ round'[t] = round[t] /\ got'[t] = got[t] /\ hist'[t] = hist[t] /\ st'[t] = st[t]
      BY <1>4, <2>1
    <3>3. CASE round[t] = None
      <4>1. \A h \in BatchHead : got[t][h] = hist[t]
        BY <3>3 DEF HandleInv, RoundInv
      <4>. QED
        BY <3>2, <3>3, <4>1
    <3>4. CASE round[t] # None
      <4>1. /\ Paged(t) /\ Key(round[t], t) \in DOMAIN memo /\ round[t][1].fmt = st[t].fmt
            /\ \A h \in BatchHead : got[t][h] = IF h \in memo[Key(round[t], t)].done
                                              THEN Append(hist[t], round[t][1].id) ELSE hist[t]
        BY <3>4 DEF HandleInv, RoundInv, Ahead
      <4>2. Paged(t)'
        BY <3>2, <4>1 DEF Paged
      <4>3. Key(round'[t], t) = Key(round[t], t)
        BY <3>2
      <4>4. /\ Key(round[t], t) \in DOMAIN memo'
            /\ memo'[Key(round[t], t)] = memo[Key(round[t], t)]
        BY <1>4, <3>1, <4>1
      <4>. QED
        BY <3>2, <3>4, <4>1, <4>2, <4>3, <4>4
    <3>. QED
      BY <3>3, <3>4
  <2>2. CASE t = s /\ needy = {}
    BY <1>5, <1>8, <2>2
  <2>3. CASE t = s /\ needy # {}
    <3>1. round'[s] = <<r, arm>> /\ Key(round'[s], s) = k /\ round'[s][1] = r
      BY <1>5, <2>3 DEF Key
    <3>2. Paged(s)'
      BY <1>6, <2>3 DEF Paged
    <3>3. /\ memo'[k].done = BatchHead \ needy /\ hist'[s] = hist[s]
          /\ k \in DOMAIN memo'
      BY <1>4, <1>5, <2>3
    <3>4. st'[s].fmt = r.fmt
      BY <1>6
    <3>5. \A h \in BatchHead :
            got'[s][h] = IF h \in memo'[Key(round'[s], s)].done
                         THEN Append(hist'[s], round'[s][1].id) ELSE hist'[s]
      BY <1>8, <3>1, <3>3
    <3>6. round'[s] # None => /\ Paged(s)' /\ Key(round'[s], s) \in DOMAIN memo'
                              /\ round'[s][1].fmt = st'[s].fmt
      BY <3>1, <3>2, <3>3, <3>4
    <3>7. round'[s] # None
      BY <3>1, NoneIsNoValue
    <3>. QED
      BY <2>3, <3>5, <3>6, <3>7
  <2>. QED
    BY <2>1, <2>2, <2>3
<1>12. MemoInv'
  <2>. SUFFICES ASSUME NEW x \in DOMAIN memo
                PROVE  /\ memo'[x].grow <=> (round'[x[1]] # None /\ x = Key(round'[x[1]], x[1]))
                       /\ ~memo'[x].grow => memo'[x].done = {}
    BY <1>4 DEF MemoInv, Key
  <2>0. x[1] \in State
    BY DEF Typed
  <2>1. CASE x = k
    <3>1. memo'[k].grow <=> needy # {}
      BY <1>5
    <3>2. needy = {} => memo'[k].done = {}
      BY <1>5
    <3>3. <<r, arm>> # None
      BY NoneIsNoValue
    <3>. QED
      BY <1>5, <2>1, <3>1, <3>2, <3>3 DEF Key
  <2>2. CASE x # k /\ x[1] = s
    <3>1. ~memo[x].grow /\ memo'[x] = memo[x] /\ memo[x].done = {}
      BY <1>1, <1>4, <2>2 DEF HandleInv, MemoInv
    <3>2. ~(round'[s] # None /\ x = Key(round'[s], s))
      BY <1>5, <2>2 DEF Key
    <3>. QED
      BY <2>2, <3>1, <3>2
  <2>3. CASE x[1] # s
    BY <1>4, <2>0, <2>3 DEF HandleInv, MemoInv
  <2>. QED
    BY <2>1, <2>2, <2>3
<1>. QED
  BY <1>9, <1>10, <1>11, <1>12 DEF HandleInv

(* What a launch finds, and what it does.                                  *)
LEMMA LaunchFinds ==
  ASSUME EngineInv, Launch, NEW c, c = call, NEW f, f = c.facts,
         NEW again, again = (c.entry = "again")
  PROVE  /\ Runs("step") /\ DecodeSeeded(f, again) /\ DecodeFacts(f, again)
         /\ {"plan", "mask", "scratch", "page_table"} \subseteq DOMAIN f
         /\ {"y", "grow"} \cap DOMAIN f = {}
         /\ f.routes \in Call /\ f.decay \in Arm /\ f.state \in State /\ Carries(f.state)
         /\ f.scratch = <<f.state, <<f.routes.fmt, f.decay>>>> /\ f.scratch \in DOMAIN memo
         /\ f.page_table = (IF Paged(f.state) THEN f.state ELSE None)
         /\ st[f.state].fmt = f.routes.fmt /\ round[f.state] \in {None, <<f.routes, f.decay>>}
<1>. DEFINE n == "step"
<1>1. Runs(n)
  BY DEF Launch
<1>2. /\ WalkInv(c) /\ n = c.dag[c.at] /\ c.at = 8 /\ needs[n] \subseteq DOMAIN f
      /\ ~(gives[n] \subseteq DOMAIN f) /\ DecodeSeeded(f, again) /\ DecodeFacts(f, again)
      /\ <<c.entry, c.dag>> \in {<<"gated", DECODE_STEP>>, <<"again", DECODE_STEP>>,
                                 <<"forward", DECODE_VERDICT>>}
  BY <1>1, DecodeWalk
<1>3. "plan" \in DOMAIN f /\ "y" \notin DOMAIN f
  BY <1>2 DEF needs, gives
<1>4. {"scratch", "page_table"} \subseteq DOMAIN f
  BY <1>2, <1>3 DEF DecodeFacts
<1>5. "grow" \notin DOMAIN f
  BY <1>2, <1>3 DEF DecodeFacts, VerdictRight
<1>6. "mask" \in DOMAIN f
  <2>1. gives[c.dag[2]] \subseteq DOMAIN f
    BY <1>2 DEF WalkInv
  <2>2. c.dag[2] = "decode_mask"
    BY <1>2 DEF DECODE_STEP, DECODE_VERDICT
  <2>. QED
    BY <2>1, <2>2 DEF gives
<1>7. ScratchRight(f) /\ PagesRight(f)
  BY <1>2, <1>4 DEF DecodeFacts
<1>8. /\ f.routes \in Call /\ f.decay \in Arm /\ f.state \in State /\ Carries(f.state)
      /\ round[f.state] \in {None, <<f.routes, f.decay>>}
  BY <1>2 DEF DecodeSeeded
<1>. QED
  BY <1>1, <1>2, <1>3, <1>4, <1>5, <1>6, <1>7, <1>8 DEF ScratchRight, PagesRight, Fits, Format

LEMMA LaunchDoes ==
  ASSUME Launch, NEW f, f = call.facts
  PROVE  /\ Step([y |-> "y"]) /\ UNCHANGED calls
         /\ \E miss \in SUBSET (BatchHead \ memo[f.scratch].done) : \E claimed \in SUBSET miss :
              /\ \A h \in (BatchHead \ memo[f.scratch].done) : h \in miss <=>
                    f.page_table # None /\
                    \E a \in Atom : <<h, a>> \in f.routes.write \ st[f.state].resident
              /\ Launched(f, claimed, miss \ claimed)
<1>. DEFINE miss == {h \in BatchHead \ memo[f.scratch].done : f.page_table # None /\
                       \E a \in Atom : <<h, a>> \in f.routes.write \ st[f.state].resident}
<1>1. Step([y |-> "y"]) /\ UNCHANGED calls
  BY DEF Launch
<1>2. \E claimed \in SUBSET miss : Launched(f, claimed, miss \ claimed)
  <2>. DEFINE g == call.facts
              lack == {h \in BatchHead \ memo[g.scratch].done : g.page_table # None /\
                         \E a \in Atom : <<h, a>> \in g.routes.write \ st[g.state].resident}
  <2>1. \E claimed \in SUBSET lack : Launched(g, claimed, lack \ claimed)
    BY Zenon DEF Launch, Launched
  <2>2. lack = miss
    OBVIOUS
  <2>. HIDE DEF lack, miss
  <2>. QED
    BY <2>1, <2>2
<1>3. miss \in SUBSET (BatchHead \ memo[f.scratch].done)
  OBVIOUS
<1>4. \A h \in (BatchHead \ memo[f.scratch].done) : h \in miss <=>
        f.page_table # None /\
        \E a \in Atom : <<h, a>> \in f.routes.write \ st[f.state].resident
  OBVIOUS
<1>. HIDE DEF miss
<1>. QED
  BY <1>1, <1>2, <1>3, <1>4

LEMMA LaunchKeeps ==
  ASSUME EngineInv, Launch
  PROVE  EngineInv'
<1>. DEFINE n == "step"
<1>1. PICK c : c = call
  OBVIOUS
<1>2. PICK f : f = c.facts
  OBVIOUS
<1>3. PICK again \in BOOLEAN : again = (c.entry = "again")
  OBVIOUS
<1>4. PICK new : new = [y |-> "y"]
  OBVIOUS
<1>5. /\ Runs(n) /\ DecodeSeeded(f, again) /\ DecodeFacts(f, again)
      /\ {"plan", "mask", "scratch", "page_table"} \subseteq DOMAIN f
      /\ {"y", "grow"} \cap DOMAIN f = {}
      /\ f.routes \in Call /\ f.decay \in Arm /\ f.state \in State /\ Carries(f.state)
      /\ f.scratch = <<f.state, <<f.routes.fmt, f.decay>>>> /\ f.scratch \in DOMAIN memo
      /\ f.page_table = (IF Paged(f.state) THEN f.state ELSE None)
      /\ st[f.state].fmt = f.routes.fmt /\ round[f.state] \in {None, <<f.routes, f.decay>>}
  BY <1>1, <1>2, <1>3, LaunchFinds
<1>6. /\ Step(new) /\ UNCHANGED calls
      /\ \E miss \in SUBSET (BatchHead \ memo[f.scratch].done) : \E claimed \in SUBSET miss :
           /\ \A h \in (BatchHead \ memo[f.scratch].done) : h \in miss <=>
                 f.page_table # None /\
                 \E a \in Atom : <<h, a>> \in f.routes.write \ st[f.state].resident
           /\ Launched(f, claimed, miss \ claimed)
  BY <1>1, <1>2, <1>4, LaunchDoes
<1>61. PICK miss \in SUBSET (BatchHead \ memo[f.scratch].done) : \E claimed \in SUBSET miss :
           /\ \A h \in (BatchHead \ memo[f.scratch].done) : h \in miss <=>
                 f.page_table # None /\
                 \E a \in Atom : <<h, a>> \in f.routes.write \ st[f.state].resident
           /\ Launched(f, claimed, miss \ claimed)
  BY <1>6
<1>7. PICK claimed \in SUBSET miss :
           /\ \A h \in (BatchHead \ memo[f.scratch].done) : h \in miss <=>
                 f.page_table # None /\
                 \E a \in Atom : <<h, a>> \in f.routes.write \ st[f.state].resident
           /\ Launched(f, claimed, miss \ claimed)
  BY <1>61
<1>8. PICK needy : needy = miss \ claimed
  OBVIOUS
<1>9. PICK fresh : fresh = (BatchHead \ memo[f.scratch].done) \ needy
  OBVIOUS
<1>10. /\ ~Paged(f.state) => miss = {}
       /\ Paged(f.state) => \A h \in fresh \ claimed : \A a \in Atom :
                       <<h, a>> \in f.routes.write => <<h, a>> \in st[f.state].resident
       /\ again => miss = {}
  <2>1. ~Paged(f.state) => miss = {}
    BY <1>5, <1>7
  <2>2. ASSUME Paged(f.state), NEW h \in fresh \ claimed, NEW a \in Atom,
               <<h, a>> \in f.routes.write
        PROVE  <<h, a>> \in st[f.state].resident
    <3>1. h \in BatchHead \ memo[f.scratch].done /\ h \notin miss
      BY <1>8, <1>9
    <3>2. f.page_table # None
      BY <1>5, <2>2, EngineAssumption
    <3>. QED
      BY <1>7, <2>2, <3>1, <3>2
  <2>3. again => miss = {}
    <3>1. again => f.routes.write \subseteq st[f.state].resident
      BY <1>5 DEF DecodeSeeded
    <3>. QED
      BY <1>7, <3>1
  <2>. QED
    BY <2>1, <2>2, <2>3
<1>11. Launched(f, claimed, needy)
  BY <1>7, <1>8
<1>12. LaunchFrom(f) /\ Serves(f, claimed, needy)
  <2>1. LaunchFrom(f)
    BY <1>5 DEF LaunchFrom
  <2>2. claimed \subseteq BatchHead /\ needy \subseteq BatchHead \ memo[f.scratch].done
    BY <1>7, <1>8
  <2>3. ~Paged(f.state) => needy = {} /\ claimed = {}
    BY <1>7, <1>8, <1>10
  <2>. QED
    BY <1>9, <1>10, <2>1, <2>2, <2>3 DEF Serves
<1>13. Typed /\ HandleInv
  BY DEF EngineInv
<1>14. Typed' /\ HandleInv'
  BY <1>6, <1>11, <1>12, <1>13, LaunchHandles
<1>15. PICK e : e = Update(f, new)
  OBVIOUS
<1>16. Extends(e, f) /\ DOMAIN e = DOMAIN f \cup {"y"}
  <2>1. DOMAIN new = {"y"}
    BY <1>4
  <2>2. Adds(e, f, new)
    BY <1>5, <1>15, <2>1 DEF Adds
  <2>. QED
    BY <2>1, <2>2, Added
<1>17. /\ e.state = f.state /\ e.routes = f.routes /\ e.decay = f.decay
       /\ e.scratch = f.scratch
       /\ {"routes", "v", "decay", "state", "plan", "mask", "scratch"} \subseteq DOMAIN e
  BY <1>5, <1>16 DEF Extends, DecodeSeeded
<1>18. /\ st'[f.state].fmt = st[f.state].fmt /\ st'[f.state].kind = st[f.state].kind
       /\ st[f.state].resident \subseteq st'[f.state].resident
       /\ round'[f.state] = (IF needy = {} THEN None ELSE <<f.routes, f.decay>>)
       /\ hist'[f.state] = (IF needy = {} THEN Append(hist[f.state], f.routes.id)
                            ELSE hist[f.state])
       /\ DOMAIN memo' = DOMAIN memo /\ memo'[f.scratch].bits = f.routes.write
       /\ hist[f.state] \in Seq(1 .. MaxCalls) /\ f.routes.id \in 1 .. MaxCalls
  BY <1>5, <1>11, <1>13 DEF Launched, Typed, Handle, Call
<1>19. DecodeSeeded(e, again)'
  <2>1. Carries(f.state)' /\ round'[f.state] \in {None, <<f.routes, f.decay>>}
    BY <1>5, <1>18 DEF Carries
  <2>2. again => f.routes.write \subseteq st'[f.state].resident
    BY <1>5, <1>18 DEF DecodeSeeded
  <2>. QED
    BY <1>5, <1>17, <2>1, <2>2 DEF DecodeSeeded, Carries
<1>20. Stepped(e, again)'
  <2>1. needy = {} => /\ hist'[f.state] # <<>>
                      /\ hist'[f.state][Len(hist'[f.state])] = f.routes.id
    BY <1>18
  <2>2. needy # {} => ~again /\ round'[f.state] # None
    <3>1. needy # {} => ~again
      BY <1>8, <1>10
    <3>2. <<f.routes, f.decay>> # None
      BY <1>5, NoneIsNoValue
    <3>. QED
      BY <1>18, <3>1, <3>2
  <2>. QED
    BY <1>17, <1>18, <2>1, <2>2 DEF Stepped
<1>21. DecodeFacts(e, again)'
  <2>1. /\ "paged" \in DOMAIN f => ArmRight(e)
        /\ "mask" \in DOMAIN f => GateRight(e)
        /\ "geometry" \in DOMAIN f => ShapeRight(e)
        /\ "scratch" \in DOMAIN f => ScratchRight(e)
        /\ "page_table" \in DOMAIN f => PagesRight(e)
        /\ "plan" \in DOMAIN f => {"page_table", "scratch"} \subseteq DOMAIN e
    BY <1>5, <1>16, DecodeFactsStay
  <2>2. \A x \in {"paged", "mask", "geometry", "scratch", "page_table", "plan", "grow"} :
           x \in DOMAIN e => x \in DOMAIN f
    BY <1>16
  <2>3. /\ Joint(e, {"widths", "d_v", "has_decay", "paged"})
        /\ Joint(e, {"carried_plane", "page_table", "pool"})
    BY <1>5, <1>16 DEF DecodeFacts, Joint
  <2>4. Paged(f.state)' <=> Paged(f.state)
    BY <1>18 DEF Paged
  <2>5. "paged" \in DOMAIN e => ArmRight(e)'
    <3>1. "paged" \in DOMAIN e => ArmRight(e)
      BY <2>1, <2>2
    <3>2. Paged(f.state)' = Paged(f.state)
      BY <1>18 DEF Paged
    <3>. QED
      BY <1>17, <3>1, <3>2 DEF ArmRight, Paged
  <2>6. /\ "mask" \in DOMAIN e => GateRight(e)'
        /\ "geometry" \in DOMAIN e => ShapeRight(e)'
        /\ "plan" \in DOMAIN e => {"page_table", "scratch"} \subseteq DOMAIN e
    BY <2>1, <2>2 DEF GateRight, ShapeRight
  <2>7. "scratch" \in DOMAIN e => ScratchRight(e)'
    BY <1>18, <2>1, <2>2 DEF ScratchRight
  <2>8. "page_table" \in DOMAIN e => PagesRight(e)'
    BY <1>17, <1>18, <2>1, <2>2, <2>4 DEF PagesRight, Fits, Format, Paged
  <2>9. "grow" \notin DOMAIN e
    BY <1>5, <2>2
  <2>. QED
    BY <1>20, <2>3, <2>5, <2>6, <2>7, <2>8, <2>9 DEF DecodeFacts, Joint
<1>22. gives[n] \subseteq DOMAIN e
  BY <1>16 DEF gives
<1>. HIDE DEF n
<1>. QED
  BY <1>1, <1>2, <1>3, <1>5, <1>6, <1>14, <1>15, <1>19, <1>21, <1>22, DecodeOn DEF n

(***************************************************************************)
(* Residency: a handle is bound, or checked, and its pages are committed.  *)
(***************************************************************************)
LEMMA BoundHandles ==
  ASSUME Typed, HandleInv, NEW s \in State, NEW b \in Handle, round[s] = None,
         st' = [st EXCEPT ![s] = b], UNCHANGED <<memo, calls, content>>,
         b.kind # "none" => b.fmt # None,
         b.kind = "paged" => b.paging, b.kind = "dense" => ~b.paging,
         IF b.kind = "paged" THEN written[s] \subseteq b.resident ELSE b.resident = {},
         b.kind = "none" => ~Carries(s)
  PROVE  Typed' /\ HandleInv'
<1>1. st'[s] = b /\ \A t \in State : t # s => st'[t] = st[t]
  BY DEF Typed
<1>2. Typed'
  <2>1. st' \in [State -> Handle]
    BY DEF Typed
  <2>. QED
    BY <2>1 DEF Typed, content
<1>3. BackingInv'
  <2>. SUFFICES ASSUME NEW t \in State
                PROVE  /\ Carries(t)' => Bound(t)'
                       /\ st'[t].kind = "paged" => st'[t].paging
                       /\ st'[t].kind = "dense" => ~st'[t].paging
                       /\ IF Paged(t)' THEN written'[t] \subseteq st'[t].resident
                          ELSE st'[t].resident = {}
                       /\ ~Carries(t)' => hist'[t] = <<>> /\ written'[t] = {} /\ round'[t] = None
    BY DEF BackingInv
  <2>1. CASE t # s
    BY <1>1, <2>1 DEF HandleInv, BackingInv, Carries, Bound, Paged, content
  <2>2. CASE t = s
    <3>1. ~Carries(s) => hist[s] = <<>> /\ written[s] = {} /\ round[s] = None
      BY DEF HandleInv, BackingInv
    <3>. QED
      BY <1>1, <2>2, <3>1 DEF Carries, Bound, Paged, content
  <2>. QED
    BY <2>1, <2>2
<1>4. RoundInv'
  <2>. SUFFICES ASSUME NEW t \in State
                PROVE  /\ round'[t] = None => \A h \in BatchHead : got'[t][h] = hist'[t]
                       /\ round'[t] # None =>
                            /\ Paged(t)' /\ Key(round'[t], t) \in DOMAIN memo'
                            /\ round'[t][1].fmt = st'[t].fmt
                            /\ \A h \in BatchHead :
                                 got'[t][h] = IF h \in memo'[Key(round'[t], t)].done
                                              THEN Append(hist'[t], round'[t][1].id) ELSE hist'[t]
    BY DEF RoundInv, Ahead, Key
  <2>1. round[t] = None => \A h \in BatchHead : got[t][h] = hist[t]
    BY DEF HandleInv, RoundInv
  <2>2. ASSUME round[t] # None
        PROVE  /\ Paged(t)' /\ Key(round[t], t) \in DOMAIN memo /\ round[t][1].fmt = st'[t].fmt
               /\ \A h \in BatchHead : got[t][h] = IF h \in memo[Key(round[t], t)].done
                                                   THEN Append(hist[t], round[t][1].id) ELSE hist[t]
    <3>1. st'[t] = st[t]
      BY <1>1, <2>2
    <3>2. /\ Paged(t) /\ Key(round[t], t) \in DOMAIN memo /\ round[t][1].fmt = st[t].fmt
          /\ \A h \in BatchHead : got[t][h] = IF h \in memo[Key(round[t], t)].done
                                              THEN Append(hist[t], round[t][1].id) ELSE hist[t]
      BY <2>2 DEF HandleInv, RoundInv, Ahead
    <3>. QED
      BY <3>1, <3>2 DEF Paged
  <2>. QED
    BY <2>1, <2>2 DEF content, Key
<1>5. MemoInv'
  BY DEF HandleInv, MemoInv, content, Key
<1>. QED
  BY <1>2, <1>3, <1>4, <1>5 DEF HandleInv

LEMMA ResidencyFinds ==
  ASSUME EngineInv, Runs("residency"), NEW c, c = call, NEW f, f = c.facts
  PROVE  /\ WalkInv(c) /\ FactsInv(c) /\ Walking /\ Here = "residency"
         /\ c.entry = "chunk" /\ c.dag = CHUNK_DAG /\ ChunkSeeded(f) /\ ChunkFacts(f)
         /\ {"mask", "atom_bits", "paging"} \subseteq DOMAIN f
         /\ f.mask = "M2" /\ f.atom_bits = f.routes.write /\ f.paging \in BOOLEAN
         /\ {"arena", "state_in", "page_table", "state_out", "block_bits", "run_table"}
              \cap DOMAIN f = {}
<1>1. WalkInv(c) /\ FactsInv(c) /\ Walking /\ Here = "residency" /\ c.dag[c.at] = "residency"
  BY DEF EngineInv, CallInv, Runs, Walking, Here
<1>2. needs["residency"] \subseteq DOMAIN f /\ ~(gives["residency"] \subseteq DOMAIN f)
  <2>1. gives["residency"] # {}
    BY DEF gives
  <2>. QED
    BY <1>1, <2>1 DEF Runs, Held, Has
<1>3. c.at \in 1 .. Len(c.dag)
  <2>1. c.at \in 1 .. Len(c.dag) + 1 /\ c.at <= Len(c.dag)
    BY <1>1 DEF WalkInv, Walking
  <2>2. Len(c.dag) \in Nat
    BY <1>1, Recipes DEF FactsInv
  <2>. QED
    BY <2>1, <2>2
<1>4. c.entry = "chunk" /\ c.dag = CHUNK_DAG /\ ChunkSeeded(f) /\ ChunkFacts(f)
  <2>1. c.dag # DECODE_STEP
    <3>1. ASSUME c.dag = DECODE_STEP
          PROVE  FALSE
      <4>1. c.at \in 1 .. 8
        BY <1>3, <3>1, Recipes
      <4>. QED
        BY <1>1, <3>1, <4>1 DEF DECODE_STEP
    <3>. QED
      BY <3>1
  <2>2. c.dag # DECODE_VERDICT
    <3>1. ASSUME c.dag = DECODE_VERDICT
          PROVE  FALSE
      <4>1. c.at \in 1 .. 9
        BY <1>3, <3>1, Recipes
      <4>. QED
        BY <1>1, <3>1, <4>1 DEF DECODE_STEP, DECODE_VERDICT
    <3>. QED
      BY <3>1
  <2>. QED
    BY <1>1, <2>1, <2>2 DEF FactsInv
<1>5. {"atom_bits", "paging"} \subseteq DOMAIN f /\ ~({"arena", "state_in"} \subseteq DOMAIN f)
  BY <1>2 DEF needs, gives
<1>6. "mask" \in DOMAIN f /\ f.atom_bits = (IF f.mask = "M2" THEN f.routes.write ELSE None)
  BY <1>4, <1>5 DEF ChunkFacts, BitsRight
<1>7. f.mask = "M2"
  <2>1. f.mask \in {"M1", "M2"}
    BY <1>4, <1>6 DEF ChunkFacts, MaskRight, mask
  <2>2. f.mask # None
    BY <2>1, NoneIsNoValue
  <2>3. f.mask \in Masks("residency")
    BY <1>1, <1>6, <2>2 DEF Runs, Masked, Has
  <2>. QED
    BY <2>1, <2>3 DEF Masks, DECODE_STEP
<1>8. "arena" \notin DOMAIN f /\ "state_in" \notin DOMAIN f
  BY <1>4, <1>5 DEF ChunkFacts, Joint
<1>9. "page_table" \notin DOMAIN f
  BY <1>4, <1>8 DEF ChunkFacts, PlaneRight
<1>10. "state_out" \notin DOMAIN f /\ "block_bits" \notin DOMAIN f /\ "run_table" \notin DOMAIN f
  BY <1>4, <1>9 DEF ChunkFacts, Joint, BlocksRight, RunRight
<1>. QED
  BY <1>1, <1>4, <1>5, <1>6, <1>7, <1>8, <1>9, <1>10 DEF ChunkFacts

LEMMA ResidencyOn ==
  ASSUME EngineInv, Runs("residency"), NEW c, c = call, NEW f, f = c.facts,
         NEW new, DOMAIN new = {"state_in", "arena"}, Step(new),
         Typed', HandleInv', UNCHANGED content,
         f.state \in State => WantsPages(f.state, f.paging)' = WantsPages(f.state, f.paging),
         \A e : Extends(e, f) /\ e.state_in = new.state_in /\ e.arena = new.arena
                /\ "mask" \in DOMAIN e => Entered(e)'
  PROVE  EngineInv'
<1>1. /\ WalkInv(c) /\ FactsInv(c) /\ Walking /\ Here = "residency"
      /\ c.entry = "chunk" /\ c.dag = CHUNK_DAG /\ ChunkSeeded(f) /\ ChunkFacts(f)
      /\ {"mask", "atom_bits", "paging"} \subseteq DOMAIN f
      /\ {"arena", "state_in", "page_table", "state_out", "block_bits", "run_table"}
           \cap DOMAIN f = {}
  BY ResidencyFinds
<1>2. PICK e : e = Update(f, new)
  OBVIOUS
<1>3. Extends(e, f) /\ DOMAIN e = DOMAIN f \cup {"state_in", "arena"}
      /\ e.state_in = new.state_in /\ e.arena = new.arena
  <2>1. Adds(e, f, new)
    BY <1>1, <1>2 DEF Adds
  <2>2. Extends(e, f) /\ DOMAIN e = DOMAIN f \cup DOMAIN new
    BY <2>1, Added
  <2>3. Extends(e, new)
    BY <2>1, Added
  <2>. QED
    BY <2>2, <2>3 DEF Extends
<1>4. /\ ChunkSeeded(e)
      /\ "paging" \in DOMAIN f => e.paging \in BOOLEAN
      /\ "call_class" \in DOMAIN f => ClassRight(e)
      /\ "mask" \in DOMAIN f => MaskRight(e)
      /\ "atom_bits" \in DOMAIN f => BitsRight(e)
      /\ \E where \in {"given", "packed"} : \A p \in Planes \cap DOMAIN f : e[p] = where
  BY <1>1, <1>3, ChunkFactsStay
<1>5. /\ e.state = f.state /\ e.paging = f.paging /\ "mask" \in DOMAIN e
      /\ f.state \in State \cup {None}
  <2>1. "state" \in DOMAIN f /\ f.state \in State \cup {None}
    BY <1>1 DEF ChunkSeeded, CHUNK_SEEDS
  <2>. QED
    BY <1>1, <1>3, <2>1 DEF Extends
<1>6. ChunkSeeded(e)'
  BY <1>4 DEF ChunkSeeded, content
<1>7. classify_call(e)' = classify_call(e)
  <2>1. CASE f.state = None
    BY <1>5, <2>1 DEF classify_call
  <2>2. CASE f.state \in State
    <3>1. WantsPages(e.state, e.paging)' = WantsPages(e.state, e.paging)
      BY <1>5, <2>2 DEF WantsPages, Bound
    <3>. QED
      BY <3>1 DEF classify_call
  <2>. QED
    BY <1>5, <2>1, <2>2
<1>8. ChunkFacts(e)'
  <2>1. /\ Joint(e, {"widths", "d_v"}) /\ Joint(e, {"union_table", "atom_bits"})
        /\ Joint(e, {"state_in", "arena"}) /\ Joint(e, {"page_table", "state_out"})
    BY <1>1, <1>3 DEF ChunkFacts, Joint
  <2>2. Joint(e, Planes) /\ Planes \cap DOMAIN e = Planes \cap DOMAIN f
    BY <1>1, <1>3 DEF ChunkFacts, Joint, Planes
  <2>3. \A x \in {"paging", "call_class", "mask", "atom_bits", "page_table", "block_bits",
                  "run_table"} : x \in DOMAIN e => x \in DOMAIN f
    BY <1>3
  <2>4. /\ "page_table" \notin DOMAIN e /\ "block_bits" \notin DOMAIN e
        /\ "run_table" \notin DOMAIN e
    BY <1>1, <2>3
  <2>5. "call_class" \in DOMAIN e => ClassRight(e)'
    BY <1>4, <1>7, <2>3 DEF ClassRight
  <2>6. /\ "paging" \in DOMAIN e => e.paging \in BOOLEAN
        /\ "mask" \in DOMAIN e => MaskRight(e)'
        /\ "atom_bits" \in DOMAIN e => BitsRight(e)'
    BY <1>4, <2>3 DEF MaskRight, BitsRight
  <2>7. Entered(e)'
    BY <1>3, <1>5
  <2>8. \E where \in {"given", "packed"} : \A p \in Planes \cap DOMAIN e : e[p] = where
    BY <1>4, <2>2
  <2>. QED
    BY <2>1, <2>2, <2>4, <2>5, <2>6, <2>7, <2>8 DEF ChunkFacts, Joint
<1>9. gives[Here] \subseteq DOMAIN Update(c.facts, new)
  BY <1>1, <1>2, <1>3 DEF gives
<1>10. PICK d : d = call'
  OBVIOUS
<1>11. WalkInv(d) /\ d.entry = c.entry /\ d.dag = c.dag /\ d.facts = e
  BY <1>1, <1>2, <1>9, <1>10, WalkOn
<1>12. FactsInv(d)'
  BY <1>1, <1>6, <1>8, <1>11 DEF FactsInv
<1>13. WalkInv(call)' /\ FactsInv(call)'
  BY <1>10, <1>11, <1>12 DEF WalkInv, FactsInv
<1>. QED
  BY <1>13 DEF EngineInv, CallInv

LEMMA ResidencyKeeps ==
  ASSUME EngineInv, Residency
  PROVE  EngineInv'
<1>1. PICK c : c = call
  OBVIOUS
<1>2. PICK f : f = c.facts
  OBVIOUS
<1>3. Runs("residency") /\ UNCHANGED <<memo, calls, content>>
  BY DEF Residency
<1>4. /\ ChunkSeeded(f) /\ f.mask = "M2" /\ f.atom_bits = f.routes.write /\ f.paging \in BOOLEAN
      /\ "mask" \in DOMAIN f
  BY <1>1, <1>2, <1>3, ResidencyFinds
<1>5. /\ f.routes \in Call /\ f.state \in State \cup {None} /\ {"routes", "state"} \subseteq DOMAIN f
      /\ {"given_state_in", "given_arena"} \subseteq DOMAIN f
      /\ f.state # None => round[f.state] = None
  BY <1>4 DEF ChunkSeeded, CHUNK_SEEDS
<1>6. Typed /\ HandleInv
  BY DEF EngineInv
<1>7. CASE f.state = None
  <2>1. PICK new : new = [state_in |-> f.given_state_in, arena |-> f.given_arena]
    OBVIOUS
  <2>2. Step(new) /\ UNCHANGED st
    BY <1>1, <1>2, <1>7, <2>1 DEF Residency
  <2>3. Typed' /\ HandleInv'
    BY <1>3, <1>6, <2>2, HandlesStill
  <2>4. ASSUME NEW e, Extends(e, f), e.state_in = new.state_in, e.arena = new.arena,
               "mask" \in DOMAIN e
        PROVE  Entered(e)'
    <3>1. /\ e.mask = "M2" /\ e.state = None
          /\ e.given_state_in = f.given_state_in /\ e.given_arena = f.given_arena
      BY <1>4, <1>5, <1>7, <2>4 DEF Extends
    <3>2. e.state_in = e.given_state_in /\ e.arena = e.given_arena
      BY <2>1, <2>4, <3>1
    <3>. QED
      BY <2>4, <3>1, <3>2 DEF Entered
  <2>5. DOMAIN new = {"state_in", "arena"} /\ UNCHANGED content
    BY <1>3, <2>1
  <2>6. f.state \notin State
    BY <1>7, EngineAssumption
  <2>. QED
    BY <1>1, <1>2, <1>3, <2>2, <2>3, <2>4, <2>5, <2>6, ResidencyOn
<1>8. CASE f.state # None /\ Bound(f.state) /\ ~Fits(f.state, f)
  BY <1>1, <1>2, <1>3, <1>8, EndKeeps DEF Residency, Raise
<1>9. CASE f.state # None /\ ~(Bound(f.state) /\ ~Fits(f.state, f))
  <2>1. PICK s \in State : s = f.state
    BY <1>5, <1>9
  <2>2. PICK b : b = Bind(s, f)
    OBVIOUS
  <2>3. PICK pages \in BOOLEAN : pages = (b.kind = "paged" \/ (b.kind = "none" /\ b.paging))
    OBVIOUS
  <2>4. PICK new : new = [state_in |-> IF b.kind = "none" THEN None ELSE s,
                          arena    |-> IF pages THEN s ELSE None]
    OBVIOUS
  <2>5. PICK a : a = IF pages THEN Commit(b, f.routes.write) ELSE b
    OBVIOUS
  <2>6. \/ st' = [st EXCEPT ![s] = a] /\ Step(new)
        \/ pages /\ st' = [st EXCEPT ![s] = b] /\ Raise
    <3>1. ~(s = None) /\ ~(Bound(s) /\ ~Fits(s, f)) /\ f.atom_bits = f.routes.write
      BY <1>4, <1>9, <2>1
    <3>2. LET p == b.kind = "paged" \/ (b.kind = "none" /\ b.paging)
          IN \/ /\ st' = [st EXCEPT ![s] = IF p THEN Commit(b, f.atom_bits) ELSE b]
                /\ Step([state_in |-> IF b.kind = "none" THEN None ELSE s,
                         arena    |-> IF p THEN s ELSE None])
             \/ p /\ st' = [st EXCEPT ![s] = b] /\ Raise
      <4>1. call.facts = f /\ call.facts.state = s
        BY <1>1, <1>2, <2>1
      <4>. QED
        BY <2>2, <3>1, <4>1 DEF Residency
    <3>. QED
      BY <2>3, <2>4, <2>5, <3>1, <3>2
  <2>7. /\ st[s] \in Handle /\ round[s] = None /\ f.routes.fmt \in Fmt
        /\ f.routes.write \subseteq Cell /\ written[s] \subseteq Cell
    BY <1>5, <1>6, <1>9, <2>1 DEF Typed, Call
  <2>8. /\ Carries(s) => Bound(s)
        /\ st[s].kind = "paged" => st[s].paging
        /\ st[s].kind = "dense" => ~st[s].paging
        /\ IF Paged(s) THEN written[s] \subseteq st[s].resident ELSE st[s].resident = {}
        /\ ~Carries(s) => hist[s] = <<>> /\ written[s] = {} /\ round[s] = None
    BY <1>6 DEF HandleInv, BackingInv
  <2>9. /\ b \in Handle /\ b.fmt # None /\ b.kind = st[s].kind /\ b.resident = st[s].resident
        /\ Bound(s) => b = st[s]
        /\ ~Bound(s) => b.kind = "none" /\ b.paging = f.paging
    <3>1. CASE Bound(s)
      BY <2>2, <2>7, <3>1 DEF Bind, Bound
    <3>2. CASE ~Bound(s)
      <4>1. b = [st[s] EXCEPT !.fmt = f.routes.fmt, !.paging = f.paging]
        BY <2>2, <3>2 DEF Bind, Format
      <4>2. f.routes.fmt # None
        BY <2>7, EngineAssumption
      <4>3. st[s].kind = "none"
        BY <2>8, <3>2 DEF Carries
      <4>. QED
        BY <1>4, <2>7, <3>2, <4>1, <4>2, <4>3 DEF Handle
    <3>. QED
      BY <3>1, <3>2
  <2>10. /\ b.kind = "paged" => b.paging
         /\ b.kind = "dense" => ~b.paging
         /\ IF b.kind = "paged" THEN written[s] \subseteq b.resident ELSE b.resident = {}
         /\ b.kind = "none" => ~Carries(s)
         /\ b.kind # "none" => b = st[s]
    BY <2>8, <2>9 DEF Carries, Paged
  <2>11. WantsPages(s, f.paging) = b.paging
    BY <2>9 DEF WantsPages
  <2>12. CASE pages /\ st' = [st EXCEPT ![s] = b] /\ Raise
    <3>1. Typed' /\ HandleInv'
      BY <1>3, <1>6, <2>7, <2>9, <2>10, <2>12, BoundHandles
    <3>. QED
      BY <2>12, <3>1 DEF EngineInv, CallInv, Raise
  <2>13. CASE st' = [st EXCEPT ![s] = a] /\ Step(new)
    <3>1. /\ a \in Handle /\ a.fmt = b.fmt /\ a.paging = b.paging
          /\ a.kind = IF pages THEN "paged" ELSE b.kind
          /\ pages => f.routes.write \subseteq a.resident
          /\ pages => written[s] \subseteq a.resident
          /\ ~pages => a = b
      <4>1. CASE pages
        <5>1. a = [b EXCEPT !.kind = "paged",
                            !.resident = IF b.kind = "paged" THEN @ \cup f.routes.write
                                         ELSE f.routes.write]
          BY <2>5, <4>1 DEF Commit
        <5>2. b.resident \subseteq Cell
          BY <2>9 DEF Handle
        <5>3. a = [fmt |-> b.fmt, paging |-> b.paging, kind |-> "paged",
                   resident |-> IF b.kind = "paged" THEN b.resident \cup f.routes.write
                                ELSE f.routes.write]
          BY <2>9, <5>1 DEF Handle
        <5>4. a \in Handle
          BY <2>7, <2>9, <5>2, <5>3 DEF Handle
        <5>5. b.kind # "paged" => written[s] = {}
          BY <2>3, <2>8, <2>10, <4>1
        <5>. QED
          BY <2>10, <4>1, <5>3, <5>4, <5>5
      <4>2. CASE ~pages
        BY <2>5, <2>9, <4>2
      <4>. QED
        BY <4>1, <4>2
    <3>2. /\ a.kind # "none" => a.fmt # None
          /\ a.kind = "paged" => a.paging /\ pages
          /\ a.kind = "dense" => ~a.paging /\ ~pages
          /\ IF a.kind = "paged" THEN written[s] \subseteq a.resident ELSE a.resident = {}
          /\ a.kind = "none" => ~Carries(s) /\ ~a.paging
      BY <2>3, <2>9, <2>10, <3>1
    <3>3. Typed' /\ HandleInv'
      BY <1>3, <1>6, <2>7, <2>13, <3>1, <3>2, BoundHandles
    <3>4. st'[s] = a
      BY <1>6, <2>13 DEF Typed
    <3>5. WantsPages(s, f.paging)' = WantsPages(s, f.paging)
      BY <2>9, <2>11, <3>1, <3>4 DEF WantsPages, Bound
    <3>6. WantsPages(f.state, f.paging)' = WantsPages(f.state, f.paging)
      BY <2>1, <3>5 DEF WantsPages, Bound
    <3>7. /\ Bound(s)' /\ (Paged(s)' <=> pages) /\ (Carries(s)' <=> a.kind # "none")
      BY <2>3, <2>9, <3>1, <3>2, <3>4 DEF Bound, Paged, Carries
    <3>8. UNCHANGED content /\ UNCHANGED <<written, hist>>
      BY <1>3 DEF content
    <3>9. ASSUME NEW e, Extends(e, f), e.state_in = new.state_in, e.arena = new.arena,
                 "mask" \in DOMAIN e
          PROVE  Entered(e)'
      <4>1. e.mask = "M2" /\ e.state = s /\ e.routes = f.routes
        BY <1>4, <1>5, <2>1, <3>9 DEF Extends
      <4>2. /\ e.state_in = IF b.kind = "none" THEN None ELSE s
            /\ e.arena = IF pages THEN s ELSE None
        BY <2>4, <3>9
      <4>3. s # None
        BY EngineAssumption
      <4>4. e.arena = IF Paged(s)' THEN s ELSE None
        BY <3>7, <4>2
      <4>5. e.state_in = None => /\ written'[s] = {} /\ hist'[s] = <<>> /\ st'[s].kind # "dense"
        BY <2>8, <2>10, <3>1, <3>4, <3>8, <4>2, <4>3
      <4>6. ~Carries(s)' => e.state_in = None /\ ~st'[s].paging
        BY <3>1, <3>2, <3>4, <3>7, <4>2
      <4>7. Paged(s)' => f.routes.write \subseteq st'[s].resident
        BY <3>1, <3>4, <3>7
      <4>8. e.state_in \in {None, s}
        BY <4>2
      <4>. QED
        BY <3>7, <3>9, <4>1, <4>3, <4>4, <4>5, <4>6, <4>7, <4>8
           DEF Entered, Bound, Paged, Carries
    <3>10. DOMAIN new = {"state_in", "arena"}
      BY <2>4
    <3>. QED
      BY <1>1, <1>2, <1>3, <2>13, <3>3, <3>6, <3>8, <3>9, <3>10, ResidencyOn
  <2>. QED
    BY <2>6, <2>12, <2>13
<1>. QED
  BY <1>7, <1>8, <1>9

(***************************************************************************)
(* What a walk that came to its end has.                                   *)
(***************************************************************************)
LEMMA WalkDone ==
  ASSUME EngineInv, Done, NEW c, c = call
  PROVE  WalkInv(c) /\ FactsInv(c) /\ \A i \in 1 .. Len(c.dag) : gives[c.dag[i]] \subseteq DOMAIN c.facts
<1>1. WalkInv(c) /\ FactsInv(c) /\ c.at > Len(c.dag)
  BY DEF EngineInv, CallInv, Done
<1>2. Len(c.dag) \in Nat
  BY <1>1, Recipes DEF FactsInv
<1>3. c.at = Len(c.dag) + 1
  BY <1>1, <1>2 DEF WalkInv
<1>4. \A i \in 1 .. Len(c.dag) : i \in 1 .. c.at - 1
  BY <1>2, <1>3
<1>. QED
  BY <1>1, <1>4 DEF WalkInv

LEMMA ChunkDone ==
  ASSUME EngineInv, Done, NEW c, c = call, c.entry = "chunk", NEW f, f = c.facts
  PROVE  /\ ChunkSeeded(f) /\ ChunkFacts(f)
         /\ {"paging", "call_class", "mask", "union_table", "atom_bits", "state_in", "arena",
             "page_table", "state_out", "block_bits", "run_table"} \cup Planes \subseteq DOMAIN f
<1>1. /\ FactsInv(c)
      /\ \A i \in 1 .. Len(c.dag) : gives[c.dag[i]] \subseteq DOMAIN f
  BY WalkDone
<1>2. c.dag = CHUNK_DAG /\ ChunkSeeded(f) /\ ChunkFacts(f)
  BY <1>1 DEF FactsInv
<1>3. \A i \in 1 .. 15 : gives[CHUNK_DAG[i]] \subseteq DOMAIN f
  BY <1>1, <1>2, Recipes
<1>4. /\ gives["paging_preference"] \subseteq DOMAIN f /\ gives["classify_call"] \subseteq DOMAIN f
      /\ gives["mask"] \subseteq DOMAIN f /\ gives["pack_planes"] \subseteq DOMAIN f
      /\ gives["facts_tables"] \subseteq DOMAIN f /\ gives["residency"] \subseteq DOMAIN f
      /\ gives["backing"] \subseteq DOMAIN f /\ gives["block_bits"] \subseteq DOMAIN f
      /\ gives["run_table"] \subseteq DOMAIN f
  <2>1. /\ CHUNK_DAG[1] = "paging_preference" /\ CHUNK_DAG[3] = "classify_call"
        /\ CHUNK_DAG[4] = "mask" /\ CHUNK_DAG[7] = "pack_planes" /\ CHUNK_DAG[9] = "facts_tables"
        /\ CHUNK_DAG[10] = "residency" /\ CHUNK_DAG[12] = "backing"
        /\ CHUNK_DAG[13] = "block_bits" /\ CHUNK_DAG[14] = "run_table"
    BY DEF CHUNK_DAG
  <2>2. /\ gives[CHUNK_DAG[1]] \subseteq DOMAIN f /\ gives[CHUNK_DAG[3]] \subseteq DOMAIN f
        /\ gives[CHUNK_DAG[4]] \subseteq DOMAIN f /\ gives[CHUNK_DAG[7]] \subseteq DOMAIN f
        /\ gives[CHUNK_DAG[9]] \subseteq DOMAIN f /\ gives[CHUNK_DAG[10]] \subseteq DOMAIN f
        /\ gives[CHUNK_DAG[12]] \subseteq DOMAIN f /\ gives[CHUNK_DAG[13]] \subseteq DOMAIN f
        /\ gives[CHUNK_DAG[14]] \subseteq DOMAIN f
    BY <1>3
  <2>. QED
    BY <2>1, <2>2
<1>5. {"paging", "call_class", "mask", "union_table", "atom_bits", "state_in", "arena",
       "page_table", "state_out", "block_bits", "run_table"} \subseteq DOMAIN f
  BY <1>4 DEF gives
<1>6. Planes \subseteq DOMAIN f
  BY <1>4 DEF gives
<1>. QED
  BY <1>2, <1>5, <1>6

(* The chunk launch absorbs its call in every batch-head.                  *)
LEMMA ChunkLaunchKeeps ==
  ASSUME EngineInv, ChunkLaunch
  PROVE  EngineInv'
<1>1. PICK c : c = call
  OBVIOUS
<1>2. PICK f : f = c.facts
  OBVIOUS
<1>3. Done /\ c.entry = "chunk" /\ call' = None /\ UNCHANGED <<memo, calls>>
  BY <1>1 DEF ChunkLaunch, Raise
<1>4. CASE f.state = None
  <2>1. UNCHANGED <<st, memo, calls, content>>
    BY <1>1, <1>2, <1>3, <1>4 DEF ChunkLaunch
  <2>. QED
    BY <1>3, <2>1, EndKeeps
<1>5. CASE f.state # None
  <2>1. /\ ChunkSeeded(f) /\ ChunkFacts(f) /\ {"mask", "call_class", "arena"} \subseteq DOMAIN f
    BY <1>1, <1>2, <1>3, ChunkDone
  <2>2. f.mask = "M2"
    <3>1. f.call_class = classify_call(f) /\ f.mask = mask(f.call_class)
      BY <2>1 DEF ChunkFacts, ClassRight, MaskRight
    <3>2. f.call_class.state_in = (f.given_state_in # None \/ f.state # None)
      BY <3>1 DEF classify_call
    <3>3. f.call_class.state_in
      BY <1>5, <3>2
    <3>. QED
      BY <3>1, <3>3 DEF mask
  <2>3. PICK s \in State : s = f.state
    BY <1>5, <2>1 DEF ChunkSeeded
  <2>4. PICK r \in Call : r = f.routes
    BY <2>1 DEF ChunkSeeded
  <2>5. /\ Bound(s) /\ (~Carries(s) => ~st[s].paging)
        /\ Paged(s) => r.write \subseteq st[s].resident
    BY <1>5, <2>1, <2>2, <2>3, <2>4 DEF ChunkFacts, Entered
  <2>6. round[s] = None
    BY <1>5, <2>1, <2>3 DEF ChunkSeeded
  <2>7. /\ got' = Absorb(s, r.id, BatchHead)
        /\ written' = [written EXCEPT ![s] = @ \cup r.write]
        /\ hist' = [hist EXCEPT ![s] = Append(@, r.id)]
        /\ st' = [st EXCEPT ![s].kind = IF @ = "none" THEN "dense" ELSE @]
        /\ UNCHANGED round
    BY <1>1, <1>2, <1>5, <2>3, <2>4 DEF ChunkLaunch
  <2>8. Typed /\ HandleInv
    BY DEF EngineInv
  <2>9. r.id \in 1 .. MaxCalls /\ r.write \subseteq Cell
    BY DEF Call
  <2>10. /\ st[s] \in Handle /\ got[s] \in [BatchHead -> Seq(1 .. MaxCalls)]
         /\ written[s] \subseteq Cell /\ hist[s] \in Seq(1 .. MaxCalls)
    BY <2>8 DEF Typed
  <2>11. /\ \A t \in State : t # s => /\ st'[t] = st[t] /\ got'[t] = got[t]
                                      /\ hist'[t] = hist[t] /\ written'[t] = written[t]
         /\ written'[s] = written[s] \cup r.write /\ hist'[s] = Append(hist[s], r.id)
         /\ \A h \in BatchHead : got'[s][h] = Append(got[s][h], r.id)
    BY <2>7, <2>8 DEF Typed, Absorb
  <2>12. /\ st'[s] \in Handle /\ st'[s].fmt = st[s].fmt /\ st'[s].paging = st[s].paging
         /\ st'[s].resident = st[s].resident
         /\ st'[s].kind = IF st[s].kind = "none" THEN "dense" ELSE st[s].kind
    <3>1. st'[s] = [st[s] EXCEPT !.kind = IF @ = "none" THEN "dense" ELSE @]
      BY <2>7, <2>8 DEF Typed
    <3>2. st'[s] = [fmt |-> st[s].fmt, paging |-> st[s].paging,
                    kind |-> IF st[s].kind = "none" THEN "dense" ELSE st[s].kind,
                    resident |-> st[s].resident]
      BY <2>10, <3>1 DEF Handle
    <3>3. st[s].kind \in {"none", "dense", "paged"}
      BY <2>10 DEF Handle
    <3>. QED
      BY <2>10, <3>2, <3>3 DEF Handle
  <2>13. Typed'
    <3>1. st' \in [State -> Handle]
      <4>1. \A t \in State : st'[t] \in Handle
        BY <2>8, <2>11, <2>12 DEF Typed
      <4>. QED
        BY <2>7, <2>8, <4>1 DEF Typed
    <3>2. got' \in [State -> [BatchHead -> Seq(1 .. MaxCalls)]]
      <4>1. ASSUME NEW h \in BatchHead
            PROVE  Append(got[s][h], r.id) \in Seq(1 .. MaxCalls)
        <5>1. got[s][h] \in Seq(1 .. MaxCalls)
          BY <2>10
        <5>. QED
          BY <2>9, <5>1
      <4>2. [h \in BatchHead |-> IF h \in BatchHead THEN Append(got[s][h], r.id) ELSE got[s][h]]
               \in [BatchHead -> Seq(1 .. MaxCalls)]
        BY <4>1
      <4>. QED
        BY <2>7, <2>8, <4>2 DEF Typed, Absorb
    <3>3. written' \in [State -> SUBSET Cell]
      BY <2>7, <2>8, <2>9 DEF Typed
    <3>4. hist' \in [State -> Seq(1 .. MaxCalls)]
      <4>1. Append(hist[s], r.id) \in Seq(1 .. MaxCalls)
        BY <2>9, <2>10
      <4>. QED
        BY <2>7, <2>8, <4>1 DEF Typed
    <3>. QED
      BY <1>3, <2>7, <2>8, <3>1, <3>2, <3>3, <3>4 DEF Typed
  <2>14. BackingInv'
    <3>. SUFFICES ASSUME NEW t \in State
                  PROVE  /\ Carries(t)' => Bound(t)'
                         /\ st'[t].kind = "paged" => st'[t].paging
                         /\ st'[t].kind = "dense" => ~st'[t].paging
                         /\ IF Paged(t)' THEN written'[t] \subseteq st'[t].resident
                            ELSE st'[t].resident = {}
                         /\ ~Carries(t)' => hist'[t] = <<>> /\ written'[t] = {} /\ round'[t] = None
      BY DEF BackingInv
    <3>1. CASE t # s
      BY <2>7, <2>8, <2>11, <3>1 DEF HandleInv, BackingInv, Carries, Bound, Paged
    <3>2. CASE t = s
      <4>1. /\ st[s].kind = "paged" => st[s].paging
            /\ st[s].kind = "dense" => ~st[s].paging
            /\ IF Paged(s) THEN written[s] \subseteq st[s].resident ELSE st[s].resident = {}
        BY <2>8 DEF HandleInv, BackingInv
      <4>. QED
        BY <2>5, <2>11, <2>12, <3>2, <4>1 DEF Carries, Bound, Paged
    <3>. QED
      BY <3>1, <3>2
  <2>15. RoundInv'
    <3>. SUFFICES ASSUME NEW t \in State
                  PROVE  /\ round'[t] = None => \A h \in BatchHead : got'[t][h] = hist'[t]
                         /\ round'[t] # None =>
                              /\ Paged(t)' /\ Key(round'[t], t) \in DOMAIN memo'
                              /\ round'[t][1].fmt = st'[t].fmt
                              /\ \A h \in BatchHead :
                                   got'[t][h] = IF h \in memo'[Key(round'[t], t)].done
                                                THEN Append(hist'[t], round'[t][1].id)
                                                ELSE hist'[t]
      BY DEF RoundInv, Ahead, Key
    <3>1. CASE t = s
      BY <2>6, <2>7, <2>8, <2>11, <3>1 DEF HandleInv, RoundInv
    <3>2. CASE t # s
      <4>1. /\ round'[t] = round[t] /\ got'[t] = got[t] /\ hist'[t] = hist[t] /\ st'[t] = st[t]
            /\ memo' = memo
        BY <1>3, <2>7, <2>11, <3>2
      <4>2. /\ round[t] = None => \A h \in BatchHead : got[t][h] = hist[t]
            /\ round[t] # None =>
                 /\ Paged(t) /\ Key(round[t], t) \in DOMAIN memo /\ round[t][1].fmt = st[t].fmt
                 /\ \A h \in BatchHead :
                      got[t][h] = IF h \in memo[Key(round[t], t)].done
                                  THEN Append(hist[t], round[t][1].id) ELSE hist[t]
        BY <2>8 DEF HandleInv, RoundInv, Ahead
      <4>3. Key(round'[t], t) = Key(round[t], t) /\ (Paged(t)' <=> Paged(t))
        BY <4>1 DEF Paged
      <4>. QED
        BY <4>1, <4>2, <4>3
    <3>. QED
      BY <3>1, <3>2
  <2>16. MemoInv'
    BY <1>3, <2>7, <2>8 DEF HandleInv, MemoInv, Key
  <2>. QED
    BY <1>3, <2>13, <2>14, <2>15, <2>16 DEF EngineInv, HandleInv, CallInv
<1>. QED
  BY <1>4, <1>5

(***************************************************************************)
(* A walk begins.                                                          *)
(***************************************************************************)
LEMMA ChunkKeeps ==
  ASSUME EngineInv, Chunk
  PROVE  EngineInv'
<1>1. /\ calls < MaxCalls /\ calls' = calls + 1 /\ UNCHANGED <<st, memo, content>>
  BY DEF Chunk
<1>2. PICK s \in State \cup {None}, fmt \in Fmt, read \in {{}, Cell}, write \in SUBSET Cell,
           expert \in {None, "dense"}, plane \in {None, "given"}, arena \in {None, "given"},
           want \in BOOLEAN, supplied \in {{}, Planes} :
       /\ IF s = None THEN arena = "given" => plane = "given"
          ELSE round[s] = None /\ want /\ plane = None /\ arena = None /\ supplied = {}
       /\ call' = [entry |-> "chunk", dag |-> CHUNK_DAG, at |-> 1,
                   facts |-> Update(
                     [routes |-> [id |-> calls', fmt |-> fmt, read |-> read, write |-> write],
                      v |-> "v", decay |-> None, state |-> s, expert |-> expert,
                      want_state |-> want, given_state_in |-> plane, given_arena |-> arena],
                     [p \in supplied |-> "given"])]
  BY DEF Chunk
<1>3. PICK r : r = [id |-> calls', fmt |-> fmt, read |-> read, write |-> write]
  OBVIOUS
<1>4. PICK seeds : seeds = [routes |-> r, v |-> "v", decay |-> None, state |-> s,
                            expert |-> expert, want_state |-> want, given_state_in |-> plane,
                            given_arena |-> arena]
  OBVIOUS
<1>5. PICK f : f = Update(seeds, [p \in supplied |-> "given"])
  OBVIOUS
<1>6. call' = [entry |-> "chunk", dag |-> CHUNK_DAG, at |-> 1, facts |-> f]
  BY <1>2, <1>3, <1>4, <1>5
<1>7. Typed /\ HandleInv
  BY DEF EngineInv
<1>8. r \in Call
  <2>1. calls \in Nat /\ calls' \in 1 .. MaxCalls
    BY <1>1, <1>7, EngineAssumption DEF Typed
  <2>2. read \in SUBSET Cell
    BY <1>2
  <2>. QED
    BY <1>3, <2>1, <2>2 DEF Call
<1>9. /\ DOMAIN f = CHUNK_SEEDS \cup supplied /\ \A p \in supplied : f[p] = "given"
      /\ \A x \in CHUNK_SEEDS : f[x] = seeds[x]
  <2>1. DOMAIN seeds = CHUNK_SEEDS /\ supplied \cap CHUNK_SEEDS = {}
    BY <1>4 DEF CHUNK_SEEDS, Planes
  <2>2. f = [x \in supplied \cup CHUNK_SEEDS |-> IF x \in supplied THEN "given" ELSE seeds[x]]
    BY <1>5, <2>1 DEF Update
  <2>. QED
    BY <2>1, <2>2
<1>10. /\ f.routes = r /\ f.state = s /\ f.want_state = want
       /\ f.given_state_in = plane /\ f.given_arena = arena
  BY <1>4, <1>9 DEF CHUNK_SEEDS
<1>11. ChunkSeeded(f)
  BY <1>2, <1>8, <1>9, <1>10 DEF ChunkSeeded
<1>12. ChunkFacts(f)
  <2>1. {"widths", "d_v", "union_table", "atom_bits", "state_in", "arena", "page_table",
         "state_out", "paging", "call_class", "mask", "block_bits", "run_table"}
           \cap DOMAIN f = {}
    BY <1>9 DEF CHUNK_SEEDS, Planes
  <2>2. /\ Joint(f, Planes)
        /\ \E where \in {"given", "packed"} : \A p \in Planes \cap DOMAIN f : f[p] = where
    <3>1. Planes \cap DOMAIN f = supplied
      BY <1>9 DEF CHUNK_SEEDS, Planes
    <3>. QED
      BY <1>9, <3>1 DEF Joint
  <2>3. /\ Joint(f, {"widths", "d_v"}) /\ Joint(f, {"union_table", "atom_bits"})
        /\ Joint(f, {"state_in", "arena"}) /\ Joint(f, {"page_table", "state_out"})
    BY <2>1 DEF Joint
  <2>4. /\ "paging" \notin DOMAIN f /\ "call_class" \notin DOMAIN f /\ "mask" \notin DOMAIN f
        /\ "atom_bits" \notin DOMAIN f /\ "arena" \notin DOMAIN f /\ "page_table" \notin DOMAIN f
        /\ "block_bits" \notin DOMAIN f /\ "run_table" \notin DOMAIN f
    BY <2>1
  <2>. QED
    BY <2>2, <2>3, <2>4 DEF ChunkFacts
<1>13. PICK d : d = call'
  OBVIOUS
<1>14. FactsInv(d)
  BY <1>6, <1>11, <1>12, <1>13 DEF FactsInv
<1>15. WalkInv(d)
  BY <1>6, <1>13, Recipes DEF WalkInv
<1>16. FactsInv(d)'
  BY <1>1, <1>14, FactsStill
<1>17. WalkInv(call)' /\ FactsInv(call)'
  BY <1>13, <1>15, <1>16 DEF WalkInv, FactsInv
<1>18. Typed' /\ HandleInv'
  <2>1. calls' \in 0 .. MaxCalls
    BY <1>1, <1>7, EngineAssumption DEF Typed
  <2>2. Typed'
    BY <1>1, <1>7, <2>1 DEF Typed, content
  <2>3. HandleInv'
    BY <1>1, <1>7 DEF HandleInv, BackingInv, RoundInv, MemoInv, content, Ahead, Bound, Carries,
       Paged, Key
  <2>. QED
    BY <2>2, <2>3
<1>. QED
  BY <1>17, <1>18 DEF EngineInv, CallInv

(* What a decode walk begins with is right.                                *)
LEMMA SeedsRight ==
  ASSUME NEW r \in Call, NEW s \in State, NEW arm \in Arm, NEW again, Carries(s),
         round[s] \in {None, <<r, arm>>}, again => r.write \subseteq st[s].resident
  PROVE  DecodeSeeded(Seeds(r, s, arm), again) /\ DecodeFacts(Seeds(r, s, arm), again)
<1>1. PICK f : f = Seeds(r, s, arm)
  OBVIOUS
<1>2. /\ DOMAIN f = {"routes", "v", "decay", "state"} /\ f.routes = r /\ f.state = s
      /\ f.decay = arm
  BY <1>1 DEF Seeds
<1>3. DecodeSeeded(f, again)
  BY <1>2 DEF DecodeSeeded
<1>4. DecodeFacts(f, again)
  <2>1. {"widths", "d_v", "has_decay", "paged", "carried_plane", "page_table", "pool", "mask",
         "geometry", "scratch", "plan", "y", "grow"} \cap DOMAIN f = {}
    BY <1>2
  <2>2. /\ Joint(f, {"widths", "d_v", "has_decay", "paged"})
        /\ Joint(f, {"carried_plane", "page_table", "pool"})
    BY <2>1 DEF Joint
  <2>3. /\ "paged" \notin DOMAIN f /\ "mask" \notin DOMAIN f /\ "geometry" \notin DOMAIN f
        /\ "scratch" \notin DOMAIN f /\ "page_table" \notin DOMAIN f /\ "plan" \notin DOMAIN f
        /\ "y" \notin DOMAIN f /\ "grow" \notin DOMAIN f
    BY <2>1
  <2>. QED
    BY <2>2, <2>3 DEF DecodeFacts
<1>. QED
  BY <1>1, <1>3, <1>4

LEMMA WalkBegins ==
  ASSUME NEW d, NEW entry, NEW dag, NEW f,
         d = [entry |-> entry, dag |-> dag, at |-> 1, facts |-> f],
         <<entry, dag>> \in {<<"gated", DECODE_STEP>>, <<"again", DECODE_STEP>>,
                             <<"forward", DECODE_VERDICT>>}
  PROVE  WalkInv(d)
<1>1. Len(dag) \in Nat
  BY Recipes
<1>2. 1 \in 1 .. Len(dag) + 1 /\ 1 .. 1 - 1 = {}
  BY <1>1
<1>. QED
  BY <1>2 DEF WalkInv

LEMMA DecodeKeeps ==
  ASSUME EngineInv, Decode
  PROVE  EngineInv'
<1>1. Typed /\ HandleInv /\ UNCHANGED <<st, memo, content>>
  BY DEF EngineInv, Decode
<1>2. PICK s \in State, entry \in {"gated", "forward"} :
       LET dag == IF entry = "gated" THEN DECODE_STEP ELSE DECODE_VERDICT
       IN /\ Carries(s)
          /\ \/ /\ round[s] # None /\ Walk(entry, dag, s, round[s])
                /\ UNCHANGED calls
             \/ /\ round[s] = None /\ calls < MaxCalls /\ calls' = calls + 1
                /\ \E fmt \in Fmt, write \in SUBSET Cell, arm \in Arm :
                     Walk(entry, dag, s, <<[id |-> calls', fmt |-> fmt, read |-> {},
                                            write |-> write], arm>>)
  BY DEF Decode
<1>3. PICK dag : dag = IF entry = "gated" THEN DECODE_STEP ELSE DECODE_VERDICT
  OBVIOUS
<1>4. /\ calls' \in 0 .. MaxCalls
      /\ \E r \in Call, arm \in Arm :
           /\ call' = [entry |-> entry, dag |-> dag, at |-> 1, facts |-> Seeds(r, s, arm)]
           /\ round[s] \in {None, <<r, arm>>}
  <2>1. CASE round[s] # None /\ Walk(entry, dag, s, round[s]) /\ UNCHANGED calls
    <3>1. round[s] \in Call \X Arm
      BY <1>1, <2>1 DEF Typed
    <3>2. PICK r \in Call, arm \in Arm : round[s] = <<r, arm>>
      BY <3>1
    <3>3. round[s][1] = r /\ round[s][2] = arm
      BY <3>2
    <3>4. call' = [entry |-> entry, dag |-> dag, at |-> 1, facts |-> Seeds(r, s, arm)]
      BY <2>1, <3>3 DEF Walk
    <3>5. calls' \in 0 .. MaxCalls
      BY <1>1, <2>1 DEF Typed
    <3>. QED
      BY <3>2, <3>4, <3>5
  <2>2. CASE /\ round[s] = None /\ calls < MaxCalls /\ calls' = calls + 1
             /\ \E fmt \in Fmt, write \in SUBSET Cell, arm \in Arm :
                  Walk(entry, dag, s, <<[id |-> calls', fmt |-> fmt, read |-> {},
                                         write |-> write], arm>>)
    <3>1. PICK fmt \in Fmt, write \in SUBSET Cell, arm \in Arm :
             Walk(entry, dag, s, <<[id |-> calls', fmt |-> fmt, read |-> {}, write |-> write], arm>>)
      BY <2>2
    <3>2. calls' \in 1 .. MaxCalls /\ calls' \in 0 .. MaxCalls
      BY <1>1, <2>2, EngineAssumption DEF Typed
    <3>3. PICK r : r = [id |-> calls', fmt |-> fmt, read |-> {}, write |-> write]
      OBVIOUS
    <3>4. r \in Call
      BY <3>2, <3>3 DEF Call
    <3>5. call' = [entry |-> entry, dag |-> dag, at |-> 1, facts |-> Seeds(r, s, arm)]
      BY <3>1, <3>3 DEF Walk
    <3>. QED
      BY <2>2, <3>2, <3>4, <3>5
  <2>. QED
    BY <1>2, <1>3, <2>1, <2>2
<1>5. PICK r \in Call, arm \in Arm :
           /\ call' = [entry |-> entry, dag |-> dag, at |-> 1, facts |-> Seeds(r, s, arm)]
           /\ round[s] \in {None, <<r, arm>>}
  BY <1>4
<1>6. PICK d : d = call'
  OBVIOUS
<1>7. <<entry, dag>> \in {<<"gated", DECODE_STEP>>, <<"again", DECODE_STEP>>,
                          <<"forward", DECODE_VERDICT>>} /\ entry # "again"
  BY <1>2, <1>3
<1>8. WalkInv(d)
  BY <1>5, <1>6, <1>7, WalkBegins
<1>9. DecodeSeeded(Seeds(r, s, arm), FALSE) /\ DecodeFacts(Seeds(r, s, arm), FALSE)
  BY <1>2, <1>5, SeedsRight
<1>10. FactsInv(d)
  <2>1. d.entry = entry /\ d.dag = dag /\ d.facts = Seeds(r, s, arm)
    BY <1>5, <1>6
  <2>2. (d.entry = "again") = FALSE
    BY <1>7, <2>1
  <2>. QED
    BY <1>7, <1>9, <2>1, <2>2 DEF FactsInv
<1>11. FactsInv(d)'
  BY <1>1, <1>10, FactsStill
<1>12. WalkInv(call)' /\ FactsInv(call)'
  BY <1>6, <1>8, <1>11 DEF WalkInv, FactsInv
<1>13. Typed'
  BY <1>1, <1>4 DEF Typed, content
<1>14. HandleInv'
  BY <1>1 DEF HandleInv, BackingInv, RoundInv, MemoInv, content, Ahead, Bound, Carries, Paged, Key
<1>. QED
  BY <1>12, <1>13, <1>14 DEF EngineInv, CallInv

(***************************************************************************)
(* Growth.                                                                 *)
(***************************************************************************)
LEMMA GrownHandles ==
  ASSUME Typed, HandleInv, NEW s \in State, NEW bits \in SUBSET Cell, Paged(s),
         st' = [st EXCEPT ![s].resident = @ \cup bits], UNCHANGED <<memo, calls, content>>
  PROVE  /\ Typed' /\ HandleInv' /\ bits \subseteq st'[s].resident /\ Carries(s)'
<1>1. PICK b : b = [fmt |-> st[s].fmt, paging |-> st[s].paging, kind |-> st[s].kind,
                    resident |-> st[s].resident \cup bits]
  OBVIOUS
<1>2. st[s] \in Handle /\ st[s].kind = "paged"
  BY DEF Typed, Paged
<1>3. b \in Handle /\ b = [st[s] EXCEPT !.resident = @ \cup bits]
  BY <1>1, <1>2 DEF Handle
<1>4. st' = [st EXCEPT ![s] = b] /\ st'[s] = b
  BY <1>3 DEF Typed
<1>5. /\ Carries(s) /\ Bound(s) /\ st[s].paging /\ written[s] \subseteq st[s].resident
  BY <1>2 DEF HandleInv, BackingInv, Carries, Paged
<1>6. /\ st'[s].kind = "paged" /\ st'[s].fmt = st[s].fmt /\ st'[s].paging = st[s].paging
      /\ st'[s].resident = st[s].resident \cup bits
  BY <1>1, <1>2, <1>4
<1>7. Typed'
  <2>1. st' \in [State -> Handle]
    BY <1>3, <1>4 DEF Typed
  <2>. QED
    BY <2>1 DEF Typed, content
<1>8. BackingInv'
  <2>. SUFFICES ASSUME NEW t \in State
                PROVE  /\ Carries(t)' => Bound(t)'
                       /\ st'[t].kind = "paged" => st'[t].paging
                       /\ st'[t].kind = "dense" => ~st'[t].paging
                       /\ IF Paged(t)' THEN written'[t] \subseteq st'[t].resident
                          ELSE st'[t].resident = {}
                       /\ ~Carries(t)' => hist'[t] = <<>> /\ written'[t] = {} /\ round'[t] = None
    BY DEF BackingInv
  <2>1. CASE t # s
    <3>1. st'[t] = st[t]
      BY <1>4, <2>1 DEF Typed
    <3>. QED
      BY <3>1 DEF HandleInv, BackingInv, Carries, Bound, Paged, content
  <2>2. CASE t = s
    BY <1>5, <1>6, <2>2 DEF Carries, Bound, Paged, content
  <2>. QED
    BY <2>1, <2>2
<1>9. RoundInv'
  <2>1. \A t \in State : st'[t].fmt = st[t].fmt /\ st'[t].kind = st[t].kind
    BY <1>2, <1>4, <1>6 DEF Typed
  <2>2. \A t \in State :
          /\ round[t] = None => \A h \in BatchHead : got[t][h] = hist[t]
          /\ round[t] # None =>
               /\ st[t].kind = "paged" /\ Key(round[t], t) \in DOMAIN memo
               /\ round[t][1].fmt = st[t].fmt
               /\ \A h \in BatchHead : got[t][h] = IF h \in memo[Key(round[t], t)].done
                                                   THEN Append(hist[t], round[t][1].id) ELSE hist[t]
    BY DEF HandleInv, RoundInv, Ahead, Paged
  <2>. QED
    BY <2>1, <2>2 DEF RoundInv, Ahead, Paged, content, Key
<1>10. MemoInv'
  BY DEF HandleInv, MemoInv, content, Key
<1>. QED
  BY <1>4, <1>6, <1>7, <1>8, <1>9, <1>10 DEF HandleInv, Carries

LEMMA AdmitGrowthKeeps ==
  ASSUME EngineInv, AdmitGrowth
  PROVE  EngineInv'
<1>1. Typed /\ HandleInv /\ call = None /\ UNCHANGED <<memo, call, calls, content>>
  BY DEF EngineInv, AdmitGrowth
<1>2. PICK s \in State : /\ Cardinality(ScratchesOf(s)) = 1 /\ Paged(s)
                         /\ \E k \in ScratchesOf(s) : memo[k].grow
                         /\ st' = Admitted(s)
  BY DEF AdmitGrowth
<1>3. PICK k : k = CHOOSE x \in ScratchesOf(s) : TRUE
  OBVIOUS
<1>4. k \in DOMAIN memo
  BY <1>2, <1>3 DEF ScratchesOf
<1>5. memo[k].bits \in SUBSET Cell /\ st' = [st EXCEPT ![s].resident = @ \cup memo[k].bits]
  BY <1>1, <1>2, <1>3, <1>4 DEF Typed, Admitted
<1>6. PICK bits \in SUBSET Cell : bits = memo[k].bits
  BY <1>5
<1>7. Typed' /\ HandleInv'
  BY <1>1, <1>2, <1>5, <1>6, GrownHandles
<1>. QED
  BY <1>1, <1>7 DEF EngineInv, CallInv

(* A walk of decode_forward that came to its end.                          *)
LEMMA ForwardDone ==
  ASSUME EngineInv, Done, NEW c, c = call, NEW f, f = c.facts,
         c.entry \in {"gated", "again", "forward"}
  PROVE  /\ DecodeSeeded(f, c.entry = "again") /\ DecodeFacts(f, c.entry = "again")
         /\ {"y", "scratch"} \subseteq DOMAIN f /\ (c.entry = "forward" => "grow" \in DOMAIN f)
<1>1. /\ FactsInv(c)
      /\ \A i \in 1 .. Len(c.dag) : gives[c.dag[i]] \subseteq DOMAIN f
  BY WalkDone
<1>2. /\ <<c.entry, c.dag>> \in {<<"gated", DECODE_STEP>>, <<"again", DECODE_STEP>>,
                                 <<"forward", DECODE_VERDICT>>}
      /\ DecodeSeeded(f, c.entry = "again") /\ DecodeFacts(f, c.entry = "again")
  BY <1>1 DEF FactsInv
<1>3. c.dag[8] = "step" /\ 8 \in 1 .. Len(c.dag)
  <2>1. DECODE_STEP[8] = "step" /\ DECODE_VERDICT[8] = "step"
    BY DEF DECODE_STEP, DECODE_VERDICT
  <2>2. 8 \in 1 .. Len(DECODE_STEP) /\ 8 \in 1 .. Len(DECODE_VERDICT)
    BY Recipes
  <2>3. c.dag \in {DECODE_STEP, DECODE_VERDICT}
    BY <1>2
  <2>. QED
    BY <2>1, <2>2, <2>3
<1>4. "y" \in DOMAIN f
  <2>1. gives[c.dag[8]] \subseteq DOMAIN f
    BY <1>1, <1>3
  <2>. QED
    BY <1>3, <2>1 DEF gives
<1>5. c.entry = "forward" => "grow" \in DOMAIN f
  <2>. SUFFICES ASSUME c.entry = "forward"
                PROVE  "grow" \in DOMAIN f
    OBVIOUS
  <2>1. c.dag[9] = "read_verdict" /\ 9 \in 1 .. Len(c.dag)
    BY <1>2, Recipes DEF DECODE_STEP, DECODE_VERDICT
  <2>2. gives[c.dag[9]] \subseteq DOMAIN f
    BY <1>1, <2>1
  <2>. QED
    BY <2>1, <2>2 DEF gives
<1>6. "scratch" \in DOMAIN f
  <2>1. "plan" \in DOMAIN f
    BY <1>2, <1>4 DEF DecodeFacts, Stepped
  <2>. QED
    BY <1>2, <2>1 DEF DecodeFacts
<1>. QED
  BY <1>2, <1>4, <1>5, <1>6

(* The one scratch of a handle is the one the walk used.                   *)
LEMMA OneScratchIs ==
  ASSUME NEW s, NEW k, k \in ScratchesOf(s), IsFiniteSet(DOMAIN memo),
         ~(Cardinality(ScratchesOf(s)) > 1)
  PROVE  (CHOOSE x \in ScratchesOf(s) : TRUE) = k
<1>1. IsFiniteSet(ScratchesOf(s))
  <2>1. ScratchesOf(s) \subseteq DOMAIN memo
    BY DEF ScratchesOf
  <2>. QED
    BY <2>1, FS_Subset
<1>2. Cardinality(ScratchesOf(s)) \in Nat /\ Cardinality(ScratchesOf(s)) # 0
  BY <1>1, FS_CardinalityType, FS_EmptySet
<1>3. Cardinality(ScratchesOf(s)) = 1
  BY <1>2
<1>4. \E x : ScratchesOf(s) = {x}
  BY <1>1, <1>3, FS_Singleton
<1>. QED
  BY <1>4

LEMMA RegrowKeeps ==
  ASSUME EngineInv, Regrow
  PROVE  EngineInv'
<1>1. PICK c : c = call
  OBVIOUS
<1>2. PICK f : f = c.facts
  OBVIOUS
<1>3. /\ Done /\ c.entry = "forward" /\ f.grow = TRUE /\ UNCHANGED <<memo, calls, content>>
  BY <1>1, <1>2 DEF Regrow
<1>4. CASE Cardinality(ScratchesOf(f.state)) > 1
  BY <1>1, <1>2, <1>3, <1>4, EndKeeps DEF Regrow, Raise
<1>5. CASE ~(Cardinality(ScratchesOf(f.state)) > 1)
  <2>1. st' = Admitted(f.state) /\ Walk("again", DECODE_STEP, f.state, <<f.routes, f.decay>>)
    BY <1>1, <1>2, <1>5 DEF Regrow
  <2>2. /\ DecodeSeeded(f, FALSE) /\ DecodeFacts(f, FALSE)
        /\ {"y", "scratch", "grow"} \subseteq DOMAIN f
    <3>1. /\ DecodeSeeded(f, c.entry = "again") /\ DecodeFacts(f, c.entry = "again")
          /\ {"y", "scratch"} \subseteq DOMAIN f /\ "grow" \in DOMAIN f
      BY <1>1, <1>2, <1>3, ForwardDone
    <3>2. (c.entry = "again") = FALSE
      BY <1>3
    <3>. QED
      BY <3>1, <3>2
  <2>3. PICK s \in State : s = f.state
    BY <2>2 DEF DecodeSeeded
  <2>4. PICK r \in Call : r = f.routes
    BY <2>2 DEF DecodeSeeded
  <2>5. PICK arm \in Arm : arm = f.decay
    BY <2>2 DEF DecodeSeeded
  <2>6. PICK k : k = f.scratch
    OBVIOUS
  <2>7. /\ k = <<s, <<r.fmt, arm>>>> /\ k \in DOMAIN memo /\ memo[k].bits = r.write
        /\ memo[k].grow
    <3>1. ScratchRight(f) /\ Stepped(f, FALSE) /\ VerdictRight(f)
      BY <2>2 DEF DecodeFacts
    <3>2. f.grow # None
      BY <1>3, NoneIsNoValue
    <3>. QED
      BY <1>3, <2>3, <2>4, <2>5, <2>6, <3>1, <3>2 DEF ScratchRight, Stepped, VerdictRight
  <2>8. Typed /\ HandleInv
    BY DEF EngineInv
  <2>9. round[s] # None /\ Paged(s) /\ round[s] = <<r, arm>>
    <3>1. round[s] # None
      BY <2>7, <2>8 DEF HandleInv, MemoInv
    <3>2. round[s] \in {None, <<r, arm>>}
      BY <2>2, <2>3, <2>4, <2>5 DEF DecodeSeeded
    <3>. QED
      BY <2>8, <3>1, <3>2 DEF HandleInv, RoundInv
  <2>10. st' = [st EXCEPT ![s].resident = @ \cup r.write]
    <3>1. k \in ScratchesOf(s)
      BY <2>7 DEF ScratchesOf
    <3>2. (CHOOSE x \in ScratchesOf(s) : TRUE) = k
      BY <1>5, <2>3, <2>8, <3>1, OneScratchIs DEF Typed
    <3>. QED
      BY <2>1, <2>3, <2>7, <3>2 DEF Admitted
  <2>11. r.write \in SUBSET Cell
    BY DEF Call
  <2>12. Typed' /\ HandleInv' /\ r.write \subseteq st'[s].resident /\ Carries(s)'
    <3>1. PICK bits \in SUBSET Cell : bits = r.write
      BY <2>11
    <3>2. Typed' /\ HandleInv' /\ bits \subseteq st'[s].resident /\ Carries(s)'
      BY <1>3, <2>8, <2>9, <2>10, <3>1, GrownHandles
    <3>. QED
      BY <3>1, <3>2
  <2>13. PICK g : g = Seeds(r, s, arm)
    OBVIOUS
  <2>14. call' = [entry |-> "again", dag |-> DECODE_STEP, at |-> 1, facts |-> g]
    BY <2>1, <2>3, <2>4, <2>5, <2>13 DEF Walk
  <2>15. /\ DOMAIN g = {"routes", "v", "decay", "state"} /\ g.routes = r /\ g.state = s
         /\ g.decay = arm
    BY <2>13 DEF Seeds
  <2>16. DecodeSeeded(g, TRUE)'
    <3>1. round'[s] = <<r, arm>>
      BY <1>3, <2>9 DEF content
    <3>. QED
      BY <2>12, <2>15, <3>1 DEF DecodeSeeded, Carries
  <2>17. DecodeFacts(g, TRUE)'
    <3>1. {"widths", "d_v", "has_decay", "paged", "carried_plane", "page_table", "pool", "mask",
           "geometry", "scratch", "plan", "y", "grow"} \cap DOMAIN g = {}
      BY <2>15
    <3>2. /\ Joint(g, {"widths", "d_v", "has_decay", "paged"})
          /\ Joint(g, {"carried_plane", "page_table", "pool"})
      BY <3>1 DEF Joint
    <3>3. /\ "paged" \notin DOMAIN g /\ "mask" \notin DOMAIN g /\ "geometry" \notin DOMAIN g
          /\ "scratch" \notin DOMAIN g /\ "page_table" \notin DOMAIN g /\ "plan" \notin DOMAIN g
          /\ "y" \notin DOMAIN g /\ "grow" \notin DOMAIN g
      BY <3>1
    <3>. QED
      BY <3>2, <3>3 DEF DecodeFacts, Joint
  <2>18. PICK d : d = call'
    OBVIOUS
  <2>19. WalkInv(d)
    BY <2>14, <2>18, WalkBegins
  <2>20. FactsInv(d)'
    <3>1. d.entry = "again" /\ d.dag = DECODE_STEP /\ d.facts = g
      BY <2>14, <2>18
    <3>2. (d.entry = "again") = TRUE
      BY <3>1
    <3>. QED
      BY <2>16, <2>17, <3>1, <3>2 DEF FactsInv
  <2>21. WalkInv(call)' /\ FactsInv(call)'
    BY <2>18, <2>19, <2>20 DEF WalkInv, FactsInv
  <2>. QED
    BY <2>12, <2>21 DEF EngineInv, CallInv
<1>. QED
  BY <1>4, <1>5

(***************************************************************************)
(* Clones and dropped handles.                                             *)
(***************************************************************************)
LEMMA CloneKeeps ==
  ASSUME EngineInv, Clone
  PROVE  EngineInv'
<1>1. Typed /\ HandleInv /\ call' = None /\ UNCHANGED <<memo, calls, round>>
  BY DEF EngineInv, Clone
<1>2. PICK s \in State, t \in State :
       /\ Bound(s) /\ round[s] = None /\ ~Bound(t)
       /\ st' = [st EXCEPT ![t] = st[s]]
       /\ got' = [got EXCEPT ![t] = got[s]] /\ hist' = [hist EXCEPT ![t] = hist[s]]
       /\ written' = [written EXCEPT ![t] = written[s]]
  BY DEF Clone
<1>3. /\ st'[t] = st[s] /\ got'[t] = got[s] /\ hist'[t] = hist[s] /\ written'[t] = written[s]
      /\ \A u \in State : u # t => /\ st'[u] = st[u] /\ got'[u] = got[u]
                                   /\ hist'[u] = hist[u] /\ written'[u] = written[u]
  BY <1>1, <1>2 DEF Typed
<1>4. round[t] = None
  BY <1>1, <1>2 DEF HandleInv, BackingInv
<1>5. Typed'
  BY <1>1, <1>2 DEF Typed
<1>6. BackingInv'
  <2>. SUFFICES ASSUME NEW u \in State
                PROVE  /\ Carries(u)' => Bound(u)'
                       /\ st'[u].kind = "paged" => st'[u].paging
                       /\ st'[u].kind = "dense" => ~st'[u].paging
                       /\ IF Paged(u)' THEN written'[u] \subseteq st'[u].resident
                          ELSE st'[u].resident = {}
                       /\ ~Carries(u)' => hist'[u] = <<>> /\ written'[u] = {} /\ round'[u] = None
    BY DEF BackingInv
  <2>1. CASE u # t
    BY <1>1, <1>3, <2>1 DEF HandleInv, BackingInv, Carries, Bound, Paged
  <2>2. CASE u = t
    BY <1>1, <1>3, <1>4, <2>2 DEF HandleInv, BackingInv, Carries, Bound, Paged
  <2>. QED
    BY <2>1, <2>2
<1>7. RoundInv'
  <2>. SUFFICES ASSUME NEW u \in State
                PROVE  /\ round'[u] = None => \A h \in BatchHead : got'[u][h] = hist'[u]
                       /\ round'[u] # None =>
                            /\ Paged(u)' /\ Key(round'[u], u) \in DOMAIN memo'
                            /\ round'[u][1].fmt = st'[u].fmt
                            /\ \A h \in BatchHead :
                                 got'[u][h] = IF h \in memo'[Key(round'[u], u)].done
                                              THEN Append(hist'[u], round'[u][1].id) ELSE hist'[u]
    BY DEF RoundInv, Ahead, Key
  <2>1. CASE u = t
    BY <1>1, <1>2, <1>3, <1>4, <2>1 DEF HandleInv, RoundInv
  <2>2. CASE u # t
    <3>1. /\ round'[u] = round[u] /\ got'[u] = got[u] /\ hist'[u] = hist[u] /\ st'[u] = st[u]
          /\ memo' = memo
      BY <1>1, <1>3, <2>2
    <3>2. /\ round[u] = None => \A h \in BatchHead : got[u][h] = hist[u]
          /\ round[u] # None =>
               /\ Paged(u) /\ Key(round[u], u) \in DOMAIN memo /\ round[u][1].fmt = st[u].fmt
               /\ \A h \in BatchHead :
                    got[u][h] = IF h \in memo[Key(round[u], u)].done
                                THEN Append(hist[u], round[u][1].id) ELSE hist[u]
      BY <1>1 DEF HandleInv, RoundInv, Ahead
    <3>3. Key(round'[u], u) = Key(round[u], u) /\ (Paged(u)' <=> Paged(u))
      BY <3>1 DEF Paged
    <3>. QED
      BY <3>1, <3>2, <3>3
  <2>. QED
    BY <2>1, <2>2
<1>8. MemoInv'
  BY <1>1 DEF HandleInv, MemoInv, Key
<1>. QED
  BY <1>1, <1>5, <1>6, <1>7, <1>8 DEF EngineInv, HandleInv, CallInv

LEMMA DropKeeps ==
  ASSUME EngineInv, Drop
  PROVE  EngineInv'
<1>1. Typed /\ HandleInv /\ call' = None /\ UNCHANGED calls
  BY DEF EngineInv, Drop
<1>2. PICK s \in State :
       /\ Bound(s)
       /\ st' = [st EXCEPT ![s] = Unbound] /\ memo' = Forget(s)
       /\ got' = [got EXCEPT ![s] = [h \in BatchHead |-> <<>>]]
       /\ written' = [written EXCEPT ![s] = {}] /\ round' = [round EXCEPT ![s] = None]
       /\ hist' = [hist EXCEPT ![s] = <<>>]
  BY DEF Drop
<1>3. /\ st'[s] = Unbound /\ (\A h \in BatchHead : got'[s][h] = <<>>) /\ hist'[s] = <<>>
      /\ written'[s] = {} /\ round'[s] = None
      /\ \A u \in State : u # s => /\ st'[u] = st[u] /\ got'[u] = got[u] /\ round'[u] = round[u]
                                   /\ hist'[u] = hist[u] /\ written'[u] = written[u]
  BY <1>1, <1>2 DEF Typed
<1>4. /\ DOMAIN memo' = {k \in DOMAIN memo : k[1] # s}
      /\ \A k \in DOMAIN memo' : k \in DOMAIN memo /\ memo'[k] = memo[k] /\ k[1] # s
      /\ memo' = [k \in DOMAIN memo' |-> memo'[k]]
  BY <1>2 DEF Forget, ScratchesOf
<1>5. /\ Unbound \in Handle /\ Unbound.kind = "none" /\ Unbound.fmt = None
      /\ Unbound.resident = {}
  BY DEF Unbound, Handle
<1>6. Typed'
  <2>1. st' \in [State -> Handle]
    BY <1>1, <1>2, <1>5 DEF Typed
  <2>2. <<>> \in Seq(1 .. MaxCalls)
    OBVIOUS
  <2>3. got' \in [State -> [BatchHead -> Seq(1 .. MaxCalls)]]
    <3>1. [h \in BatchHead |-> <<>>] \in [BatchHead -> Seq(1 .. MaxCalls)]
      BY <2>2
    <3>. QED
      BY <1>1, <1>2, <3>1 DEF Typed
  <2>4. /\ written' \in [State -> SUBSET Cell] /\ hist' \in [State -> Seq(1 .. MaxCalls)]
        /\ round' \in [State -> {None} \cup (Call \X Arm)]
    BY <1>1, <1>2, <2>2 DEF Typed
  <2>5. IsFiniteSet(DOMAIN memo') /\ DOMAIN memo' \subseteq State \X (Fmt \X Arm)
    <3>1. DOMAIN memo' \subseteq DOMAIN memo
      BY <1>4
    <3>2. IsFiniteSet(DOMAIN memo) /\ DOMAIN memo \subseteq State \X (Fmt \X Arm)
      BY <1>1 DEF Typed
    <3>3. IsFiniteSet(DOMAIN memo')
      BY <3>1, <3>2, FS_Subset
    <3>. QED
      BY <3>1, <3>2, <3>3
  <2>6. memo' \in [DOMAIN memo' -> [done : SUBSET BatchHead, grow : BOOLEAN, bits : SUBSET Cell]]
    <3>1. \A k \in DOMAIN memo' : memo'[k] \in [done : SUBSET BatchHead, grow : BOOLEAN,
                                                bits : SUBSET Cell]
      BY <1>1, <1>4 DEF Typed
    <3>. QED
      BY <1>4, <3>1
  <2>. QED
    BY <1>1, <2>1, <2>3, <2>4, <2>5, <2>6 DEF Typed
<1>7. BackingInv'
  <2>. SUFFICES ASSUME NEW u \in State
                PROVE  /\ Carries(u)' => Bound(u)'
                       /\ st'[u].kind = "paged" => st'[u].paging
                       /\ st'[u].kind = "dense" => ~st'[u].paging
                       /\ IF Paged(u)' THEN written'[u] \subseteq st'[u].resident
                          ELSE st'[u].resident = {}
                       /\ ~Carries(u)' => hist'[u] = <<>> /\ written'[u] = {} /\ round'[u] = None
    BY DEF BackingInv
  <2>1. CASE u # s
    BY <1>1, <1>3, <2>1 DEF HandleInv, BackingInv, Carries, Bound, Paged
  <2>2. CASE u = s
    BY <1>3, <1>5, <2>2 DEF Carries, Bound, Paged
  <2>. QED
    BY <2>1, <2>2
<1>8. RoundInv'
  <2>. SUFFICES ASSUME NEW u \in State
                PROVE  /\ round'[u] = None => \A h \in BatchHead : got'[u][h] = hist'[u]
                       /\ round'[u] # None =>
                            /\ Paged(u)' /\ Key(round'[u], u) \in DOMAIN memo'
                            /\ round'[u][1].fmt = st'[u].fmt
                            /\ \A h \in BatchHead :
                                 got'[u][h] = IF h \in memo'[Key(round'[u], u)].done
                                              THEN Append(hist'[u], round'[u][1].id) ELSE hist'[u]
    BY DEF RoundInv, Ahead, Key
  <2>1. CASE u = s
    BY <1>3, <2>1
  <2>2. CASE u # s
    <3>1. /\ round'[u] = round[u] /\ got'[u] = got[u] /\ hist'[u] = hist[u] /\ st'[u] = st[u]
      BY <1>3, <2>2
    <3>2. /\ round[u] = None => \A h \in BatchHead : got[u][h] = hist[u]
          /\ round[u] # None =>
               /\ Paged(u) /\ Key(round[u], u) \in DOMAIN memo /\ round[u][1].fmt = st[u].fmt
               /\ \A h \in BatchHead :
                    got[u][h] = IF h \in memo[Key(round[u], u)].done
                                THEN Append(hist[u], round[u][1].id) ELSE hist[u]
      BY <1>1 DEF HandleInv, RoundInv, Ahead
    <3>3. Key(round'[u], u) = Key(round[u], u) /\ (Paged(u)' <=> Paged(u))
      BY <3>1 DEF Paged
    <3>4. Key(round[u], u)[1] # s
      BY <2>2 DEF Key
    <3>5. round[u] # None => /\ Key(round[u], u) \in DOMAIN memo'
                             /\ memo'[Key(round[u], u)] = memo[Key(round[u], u)]
      BY <1>4, <3>2, <3>4
    <3>. QED
      BY <3>1, <3>2, <3>3, <3>5
  <2>. QED
    BY <2>1, <2>2
<1>9. MemoInv'
  <2>. SUFFICES ASSUME NEW k \in DOMAIN memo'
                PROVE  /\ memo'[k].grow <=> (round'[k[1]] # None /\ k = Key(round'[k[1]], k[1]))
                       /\ ~memo'[k].grow => memo'[k].done = {}
    BY DEF MemoInv, Key
  <2>1. k \in DOMAIN memo /\ memo'[k] = memo[k] /\ k[1] # s
    BY <1>4
  <2>2. k[1] \in State
    BY <1>1, <2>1 DEF Typed
  <2>3. round'[k[1]] = round[k[1]]
    BY <1>3, <2>1, <2>2
  <2>. QED
    BY <1>1, <2>1, <2>3 DEF HandleInv, MemoInv
<1>. QED
  BY <1>1, <1>6, <1>7, <1>8, <1>9 DEF EngineInv, HandleInv, CallInv

(***************************************************************************)
(* The invariant.                                                          *)
(***************************************************************************)
LEMMA EngineStarts == Init => EngineInv
<1>. SUFFICES ASSUME Init
              PROVE  EngineInv
  OBVIOUS
<1>1. /\ \A s \in State : /\ st[s] = Unbound /\ written[s] = {} /\ round[s] = None /\ hist[s] = <<>>
                          /\ \A h \in BatchHead : got[s][h] = <<>>
      /\ memo = <<>> /\ call = None /\ calls = 0
  BY DEF Init
<1>2. /\ Unbound \in Handle /\ Unbound.kind = "none" /\ Unbound.fmt = None
      /\ Unbound.resident = {}
  BY DEF Unbound, Handle
<1>3. DOMAIN memo = {}
  BY <1>1
<1>4. Typed
  <2>1. <<>> \in Seq(1 .. MaxCalls) /\ 0 \in 0 .. MaxCalls
    BY EngineAssumption
  <2>2. st \in [State -> Handle] /\ calls \in 0 .. MaxCalls
    BY <1>2, <2>1 DEF Init
  <2>3. got \in [State -> [BatchHead -> Seq(1 .. MaxCalls)]]
    BY <2>1 DEF Init
  <2>4. /\ written \in [State -> SUBSET Cell] /\ hist \in [State -> Seq(1 .. MaxCalls)]
        /\ round \in [State -> {None} \cup (Call \X Arm)]
    BY <2>1 DEF Init
  <2>5. IsFiniteSet(DOMAIN memo) /\ DOMAIN memo \subseteq State \X (Fmt \X Arm)
    BY <1>3, FS_EmptySet
  <2>6. memo \in [DOMAIN memo -> [done : SUBSET BatchHead, grow : BOOLEAN, bits : SUBSET Cell]]
    BY <1>1, <1>3
  <2>. QED
    BY <2>2, <2>3, <2>4, <2>5, <2>6 DEF Typed
<1>5. BackingInv
  BY <1>1, <1>2 DEF BackingInv, Carries, Bound, Paged
<1>6. RoundInv
  BY <1>1 DEF RoundInv
<1>7. MemoInv
  BY <1>3 DEF MemoInv
<1>. QED
  BY <1>1, <1>4, <1>5, <1>6, <1>7 DEF EngineInv, HandleInv, CallInv

LEMMA EngineKeeps == EngineInv /\ [Next]_vars => EngineInv'
<1>. SUFFICES ASSUME EngineInv, [Next]_vars
              PROVE  EngineInv'
  OBVIOUS
<1>1. CASE Pass          BY <1>1, PassKeeps
<1>2. CASE Fail          BY <1>2, EndKeeps DEF Fail, Raise
<1>3. CASE Compute       BY <1>3, ComputeKeeps
<1>4. CASE Residency     BY <1>4, ResidencyKeeps
<1>5. CASE ChunkLaunch   BY <1>5, ChunkLaunchKeeps
<1>6. CASE Scratch       BY <1>6, ScratchKeeps
<1>7. CASE DecodeBacking BY <1>7, DecodeBackingKeeps
<1>8. CASE Launch        BY <1>8, LaunchKeeps
<1>9. CASE ReadVerdict   BY <1>9, ReadVerdictKeeps
<1>10. CASE Chunk        BY <1>10, ChunkKeeps
<1>11. CASE Decode       BY <1>11, DecodeKeeps
<1>12. CASE Returns      BY <1>12, EndKeeps DEF Returns, Raise
<1>13. CASE Regrow       BY <1>13, RegrowKeeps
<1>14. CASE AdmitGrowth  BY <1>14, AdmitGrowthKeeps
<1>15. CASE Clone        BY <1>15, CloneKeeps
<1>16. CASE Drop         BY <1>16, DropKeeps
<1>17. CASE UNCHANGED vars
  <2>1. UNCHANGED <<st, memo, calls, content>> /\ call' = call
    BY <1>17 DEF vars
  <2>2. Typed' /\ HandleInv'
    BY <2>1, HandlesStill DEF EngineInv
  <2>3. PICK d : d = call
    OBVIOUS
  <2>4. call # None => FactsInv(d)'
    BY <2>1, <2>3, FactsStill DEF EngineInv, CallInv
  <2>5. call # None => WalkInv(call)' /\ FactsInv(call)'
    BY <2>1, <2>3, <2>4 DEF WalkInv, FactsInv, EngineInv, CallInv
  <2>. QED
    BY <2>1, <2>2, <2>5 DEF EngineInv, CallInv
<1>. QED
  BY <1>1, <1>2, <1>3, <1>4, <1>5, <1>6, <1>7, <1>8, <1>9, <1>10, <1>11, <1>12, <1>13, <1>14,
     <1>15, <1>16, <1>17 DEF Next

(* The inductive invariant: whatever node raises, whatever is walked       *)
(* again, cloned or dropped, the handles, the scratches and the facts of   *)
(* the walk (runner.py, rola/_state.py, rola/engine/dags) agree with one   *)
(* another.                                                                *)
THEOREM EngineInvariant == Spec => []EngineInv
<1>. QED
  BY EngineStarts, EngineKeeps, PTL DEF Spec

(* Every variable has its type; a round is left open on paged states only. *)
THEOREM TypesHold == Spec => []TypeOK
<1>1. EngineInv => TypeOK
  <2>. SUFFICES ASSUME EngineInv
                PROVE  TypeOK
    OBVIOUS
  <2>1. Typed /\ HandleInv
    BY DEF EngineInv
  <2>2. \A k \in DOMAIN memo : k[1] \in State /\ memo[k].done \subseteq BatchHead
    BY <2>1 DEF Typed
  <2>3. \A s \in State : round[s] # None => Paged(s)
    BY <2>1 DEF HandleInv, RoundInv
  <2>. QED
    BY <2>1, <2>2, <2>3 DEF TypeOK, Typed, Handle
<1>. QED
  BY <1>1, EngineInvariant, PTL

LEMMA ReturnedIs == EngineInv => ReturnedIsAbsorbed
<1>. SUFFICES ASSUME EngineInv, Settled
              PROVE  LET s == call.facts.state
                     IN round[s] = None /\ hist[s] # <<>> /\ hist[s][Len(hist[s])] = call.facts.routes.id
  BY DEF ReturnedIsAbsorbed
<1>1. PICK c : c = call
  OBVIOUS
<1>2. PICK f : f = c.facts
  OBVIOUS
<1>3. Done /\ c.entry \in {"again", "forward"} /\ (c.entry = "forward" => f.grow # TRUE)
  BY <1>1, <1>2 DEF Settled
<1>4. /\ DecodeSeeded(f, c.entry = "again") /\ DecodeFacts(f, c.entry = "again")
      /\ {"y", "scratch"} \subseteq DOMAIN f /\ (c.entry = "forward" => "grow" \in DOMAIN f)
  BY <1>1, <1>2, <1>3, ForwardDone
<1>5. /\ Stepped(f, c.entry = "again") /\ ScratchRight(f)
      /\ c.entry = "forward" => VerdictRight(f)
  BY <1>4 DEF DecodeFacts
<1>6. f.state \in State /\ round[f.state] \in {None, <<f.routes, f.decay>>}
  BY <1>4 DEF DecodeSeeded
<1>7. round[f.state] = None
  <2>. SUFFICES ASSUME round[f.state] # None
                PROVE  FALSE
    OBVIOUS
  <2>1. c.entry = "forward"
    BY <1>3, <1>5 DEF Stepped
  <2>2. /\ Paged(f.state) /\ f.scratch \in DOMAIN memo
        /\ f.scratch = Key(round[f.state], f.state) /\ f.scratch[1] = f.state
    BY <1>5, <1>6 DEF EngineInv, HandleInv, RoundInv, ScratchRight, Key
  <2>3. memo[f.scratch].grow \in BOOLEAN /\ memo[f.scratch].grow
    BY <2>2 DEF EngineInv, Typed, HandleInv, MemoInv
  <2>4. f.grow = memo[f.scratch].grow
    BY <1>5, <2>1, <2>2 DEF VerdictRight
  <2>. QED
    BY <1>3, <2>1, <2>3, <2>4
<1>. QED
  BY <1>1, <1>2, <1>5, <1>7 DEF Stepped

(* decode_forward (decode_dag.py) answers only when its token has been     *)
(* absorbed, be it in its first walk or in the one after its own growth.   *)
THEOREM ReturnedHolds == Spec => []ReturnedIsAbsorbed
  BY ReturnedIs, EngineInvariant, PTL

(* What the plan of a chunk was made over.                                 *)
LEMMA PlannedHas ==
  ASSUME EngineInv, Planned, NEW f, f = call.facts
  PROVE  /\ ChunkSeeded(f) /\ Planes \subseteq DOMAIN f
         /\ f.call_class = classify_call(f) /\ f.mask = mask(f.call_class)
         /\ f.atom_bits = (IF f.mask = "M2" THEN f.routes.write ELSE None)
         /\ Entered(f) /\ f.page_table = f.arena /\ f.state_out = backing(f).state_out
         /\ f.block_bits = Resident(f.page_table) /\ f.run_table = run_table(f)
         /\ \E where \in {"given", "packed"} : \A p \in Planes : f[p] = where
<1>1. /\ ChunkSeeded(f) /\ ChunkFacts(f)
      /\ {"paging", "call_class", "mask", "union_table", "atom_bits", "state_in", "arena",
          "page_table", "state_out", "block_bits", "run_table"} \cup Planes \subseteq DOMAIN f
  <2>1. PICK c : c = call
    OBVIOUS
  <2>2. Done /\ c.entry = "chunk"
    BY <2>1 DEF Planned
  <2>. QED
    BY <2>1, <2>2, ChunkDone
<1>2. Planes \cap DOMAIN f = Planes
  BY <1>1
<1>3. \E where \in {"given", "packed"} : \A p \in Planes : f[p] = where
  BY <1>1, <1>2 DEF ChunkFacts
<1>4. /\ ClassRight(f) /\ MaskRight(f) /\ BitsRight(f) /\ Entered(f) /\ PlaneRight(f)
      /\ BlocksRight(f) /\ RunRight(f)
  BY <1>1 DEF ChunkFacts
<1>. QED
  BY <1>1, <1>3, <1>4 DEF ClassRight, MaskRight, BitsRight, PlaneRight, BlocksRight, RunRight

(* The backing of a plan: nobody's without a handle, or the handle's own.  *)
LEMMA PlanBacking ==
  ASSUME EngineInv, Planned, NEW f, f = call.facts
  PROVE  /\ (f.page_table # None) <=> f.call_class.paged
         /\ (f.state_out # None) <=> f.want_state
         /\ f.call_class.paged \in BOOLEAN /\ f.want_state \in BOOLEAN
         /\ f.mask = "M1" => {f.page_table, f.state_in, f.state_out, f.atom_bits} = {None}
         /\ f.state = None => {f.page_table, f.state_in, f.state_out} \cap State = {}
         /\ f.state # None =>
              /\ f.state \in State /\ f.page_table = (IF Paged(f.state) THEN f.state ELSE None)
              /\ f.state_in \in {None, f.state}
              /\ f.state_in # None => f.state_out = f.state_in
              /\ f.state_in = None => hist[f.state] = <<>> /\ written[f.state] = {}
<1>1. /\ ChunkSeeded(f)
      /\ f.call_class = classify_call(f) /\ f.mask = mask(f.call_class)
      /\ f.atom_bits = (IF f.mask = "M2" THEN f.routes.write ELSE None)
      /\ Entered(f) /\ f.page_table = f.arena /\ f.state_out = backing(f).state_out
  BY PlannedHas
<1>2. /\ f.state \in State \cup {None} /\ f.want_state \in BOOLEAN
      /\ f.given_state_in \in {None, "given"} /\ f.given_arena \in {None, "given"}
      /\ f.state # None => f.want_state
  BY <1>1 DEF ChunkSeeded
<1>3. f.state_out = IF ~f.want_state THEN None
                    ELSE IF f.arena # None THEN f.arena
                    ELSE IF f.state_in # None THEN f.state_in ELSE "zeros"
  BY <1>1 DEF backing
<1>4. (f.state_out # None) <=> f.want_state
  BY <1>3, NoneIsNoValue
<1>5. /\ f.call_class.state_in = (f.given_state_in # None \/ f.state # None)
      /\ f.call_class.state_out = f.want_state
      /\ f.call_class.paged =
           (f.given_arena # None \/ (f.state # None /\ WantsPages(f.state, f.paging)))
  BY <1>1 DEF classify_call
<1>6. f.mask = IF f.call_class.state_in \/ f.call_class.state_out \/ f.call_class.paged
               THEN "M2" ELSE "M1"
  BY <1>1 DEF mask
<1>7. f.call_class.paged \in BOOLEAN
  <2>1. (f.given_arena # None \/ (f.state # None /\ WantsPages(f.state, f.paging))) \in BOOLEAN
    OBVIOUS
  <2>. QED
    BY <1>5, <2>1
<1>8. CASE f.mask = "M1"
  <2>1. ~f.call_class.state_in /\ ~f.call_class.state_out /\ ~f.call_class.paged
    BY <1>6, <1>8
  <2>2. f.state = None /\ ~f.want_state
    BY <1>5, <2>1
  <2>3. f.state_in = None /\ f.arena = None
    BY <1>1, <1>8 DEF Entered
  <2>4. f.atom_bits = None /\ f.state_out = None /\ f.page_table = None
    BY <1>1, <1>3, <1>8, <2>2, <2>3
  <2>. QED
    BY <1>2, <1>4, <1>7, <2>1, <2>2, <2>3, <2>4, EngineAssumption
<1>9. CASE f.mask = "M2" /\ f.state = None
  <2>1. f.state_in = f.given_state_in /\ f.arena = f.given_arena
    BY <1>1, <1>9 DEF Entered
  <2>2. f.call_class.paged = (f.given_arena # None)
    BY <1>5, <1>9
  <2>3. {f.page_table, f.state_in, f.state_out} \subseteq {None, "given", "zeros"}
    BY <1>1, <1>2, <1>3, <2>1
  <2>4. {None, "given", "zeros"} \cap State = {}
    BY NoneIsNoValue, EngineAssumption
  <2>5. (f.page_table # None) <=> f.call_class.paged
    BY <1>1, <2>1, <2>2
  <2>. QED
    BY <1>2, <1>4, <1>7, <1>9, <2>3, <2>4, <2>5
<1>10. CASE f.mask = "M2" /\ f.state # None
  <2>1. PICK s \in State : s = f.state
    BY <1>2, <1>10
  <2>2. /\ Bound(s) /\ f.arena = (IF Paged(s) THEN s ELSE None) /\ f.state_in \in {None, s}
        /\ f.state_in = None => written[s] = {} /\ hist[s] = <<>> /\ st[s].kind # "dense"
        /\ ~Carries(s) => f.state_in = None /\ ~st[s].paging
    BY <1>1, <1>10, <2>1 DEF Entered
  <2>3. Paged(s) <=> st[s].paging
    <3>1. /\ st[s].kind = "paged" => st[s].paging
          /\ st[s].kind = "dense" => ~st[s].paging
          /\ st[s].kind \in {"none", "dense", "paged"}
      BY DEF EngineInv, HandleInv, BackingInv, Typed, Handle
    <3>. QED
      BY <2>2, <3>1 DEF Paged, Carries
  <2>4. f.call_class.paged <=> st[s].paging
    <3>1. WantsPages(s, f.paging) = st[s].paging /\ st[s].paging \in BOOLEAN
      BY <2>2 DEF WantsPages, EngineInv, Typed, Handle
    <3>2. f.given_arena = None
      BY <1>1, <1>10 DEF ChunkSeeded
    <3>3. f.call_class.paged = (f.given_arena # None \/ (f.state # None /\ st[s].paging))
      BY <1>5, <2>1, <3>1
    <3>. QED
      BY <1>10, <3>1, <3>2, <3>3
  <2>5. s # None
    BY EngineAssumption
  <2>6. (f.page_table # None) <=> f.call_class.paged
    BY <1>1, <2>2, <2>3, <2>4, <2>5
  <2>7. f.state_in # None => f.state_out = f.state_in
    BY <1>2, <1>3, <1>10, <2>2, <2>5
  <2>. QED
    BY <1>1, <1>2, <1>4, <1>7, <1>10, <2>1, <2>2, <2>6, <2>7
<1>. QED
  BY <1>2, <1>6, <1>8, <1>9, <1>10

LEMMA OneBacking == EngineInv => PlanIsOneBacking
<1>. SUFFICES ASSUME EngineInv, Planned
              PROVE  LET f == call.facts
                     IN /\ (f.page_table # None) = f.call_class.paged
                        /\ (f.state_out # None) = f.want_state
                        /\ (f.state # None /\ f.state_in # None) => f.state_out = f.state_in
                        /\ f.state = None => {f.page_table, f.state_in, f.state_out} \cap State = {}
                        /\ f.state # None => {f.page_table, f.state_in} \subseteq {None, f.state}
                        /\ (f.state # None /\ hist[f.state] # <<>>) => f.state_in = f.state
                        /\ f.mask = "M1" => {f.page_table, f.state_in, f.state_out, f.atom_bits} = {None}
                        /\ \E where \in {"given", "packed"} : \A p \in Planes : f[p] = where
  BY DEF PlanIsOneBacking
<1>1. PICK f : f = call.facts
  OBVIOUS
<1>2. /\ (f.page_table # None) <=> f.call_class.paged
      /\ (f.state_out # None) <=> f.want_state
      /\ f.call_class.paged \in BOOLEAN /\ f.want_state \in BOOLEAN
      /\ f.mask = "M1" => {f.page_table, f.state_in, f.state_out, f.atom_bits} = {None}
      /\ f.state = None => {f.page_table, f.state_in, f.state_out} \cap State = {}
      /\ f.state # None =>
           /\ f.state \in State /\ f.page_table = (IF Paged(f.state) THEN f.state ELSE None)
           /\ f.state_in \in {None, f.state}
           /\ f.state_in # None => f.state_out = f.state_in
           /\ f.state_in = None => hist[f.state] = <<>> /\ written[f.state] = {}
  BY <1>1, PlanBacking
<1>3. \E where \in {"given", "packed"} : \A p \in Planes : f[p] = where
  BY <1>1, PlannedHas
<1>4. (f.page_table # None) = f.call_class.paged /\ (f.state_out # None) = f.want_state
  BY <1>2
<1>5. f.state # None => {f.page_table, f.state_in} \subseteq {None, f.state}
  BY <1>2
<1>6. /\ (f.state # None /\ f.state_in # None) => f.state_out = f.state_in
      /\ (f.state # None /\ hist[f.state] # <<>>) => f.state_in = f.state
  BY <1>2
<1>. QED
  BY <1>1, <1>2, <1>3, <1>4, <1>5, <1>6

(* The facts of a chunk plan (chunk_dag.py) are one answer: page table,    *)
(* entry and exit plane are those of one backing, the handle's own if      *)
(* there is one.                                                           *)
THEOREM PlanHolds == Spec => []PlanIsOneBacking
  BY OneBacking, EngineInvariant, PTL

LEMMA RunTable == EngineInv => RunTableCovers
<1>1. PICK f : f = call.facts
  OBVIOUS
<1>. DEFINE Bits(x) == [R |-> x \in f.routes.read, W |-> x \in f.routes.write,
                        S |-> x \in f.block_bits]
            Stands(x) == f.state # None /\ x \in written[f.state]
            Matters(x) == \/ x \in f.routes.read /\ (x \in f.routes.write \/ Stands(x))
                          \/ x \in f.routes.write /\ f.want_state
<1>2. ASSUME EngineInv, Planned, NEW x \in Cell, Matters(x)
      PROVE  Bits(x) \in f.run_table
  <2>1. /\ (f.state_out # None) <=> f.want_state
        /\ f.state # None =>
             /\ f.state \in State /\ f.page_table = (IF Paged(f.state) THEN f.state ELSE None)
             /\ f.state_in \in {None, f.state}
             /\ f.state_in = None => hist[f.state] = <<>> /\ written[f.state] = {}
    BY <1>1, <1>2, PlanBacking
  <2>2. f.block_bits = Resident(f.page_table) /\ f.run_table = run_table(f)
    BY <1>1, <1>2, PlannedHas
  <2>3. Stands(x) => f.state_in # None /\ (f.page_table # None => x \in f.block_bits)
    <3>. SUFFICES ASSUME Stands(x)
                  PROVE  f.state_in # None /\ (f.page_table # None => x \in f.block_bits)
      OBVIOUS
    <3>1. PICK s \in State : s = f.state
      BY <2>1
    <3>2. x \in written[s] /\ f.state_in # None
      BY <2>1, <3>1
    <3>3. Paged(s) => written[s] \subseteq st[s].resident
      BY <1>2 DEF EngineInv, HandleInv, BackingInv
    <3>4. f.page_table # None => Paged(s) /\ f.page_table = s
      BY <2>1, <3>1
    <3>. QED
      BY <2>2, <3>1, <3>2, <3>3, <3>4 DEF Resident
  <2>4. PICK v : v = Bits(x)
    OBVIOUS
  <2>5. /\ v \in Block /\ (v.R <=> x \in f.routes.read) /\ (v.W <=> x \in f.routes.write)
        /\ (v.S <=> x \in f.block_bits)
    <3>1. PICK r \in BOOLEAN : r <=> x \in f.routes.read
      OBVIOUS
    <3>2. PICK w \in BOOLEAN : w <=> x \in f.routes.write
      OBVIOUS
    <3>3. PICK b \in BOOLEAN : b <=> x \in f.block_bits
      OBVIOUS
    <3>4. /\ r = (x \in f.routes.read) /\ w = (x \in f.routes.write)
          /\ b = (x \in f.block_bits)
      BY <3>1, <3>2, <3>3
    <3>5. v = [R |-> r, W |-> w, S |-> b]
      BY <2>4, <3>4
    <3>6. v \in Block /\ v.R = r /\ v.W = w /\ v.S = b
      BY <3>5 DEF Block
    <3>. QED
      BY <3>1, <3>2, <3>3, <3>6
  <2>6. \/ v.R /\ (v.W \/ (f.state_in # None /\ (f.page_table # None => v.S)))
        \/ f.state_out # None /\ v.W
    BY <1>2, <2>1, <2>3, <2>5
  <2>7. v \in run_table(f)
    BY <2>5, <2>6 DEF run_table
  <2>. QED
    BY <2>2, <2>4, <2>7
<1>. QED
  BY <1>1, <1>2 DEF RunTableCovers

(* The run table (rules/run_table.py) leaves out no block that has         *)
(* something to say to a read or to a state that is kept.                  *)
THEOREM RunTableHolds == Spec => []RunTableCovers
  BY RunTable, EngineInvariant, PTL

(***************************************************************************)
(* Binding is for good.                                                    *)
(***************************************************************************)
LEMMA NoRebind ==
  ASSUME NEW s \in State,
         ~Bound(s) \/ st'[s] = st[s] \/ st'[s] = Unbound \/
         (/\ st'[s].fmt = st[s].fmt /\ st'[s].paging = st[s].paging
          /\ Carries(s) => st'[s].kind = st[s].kind
          /\ st[s].resident \subseteq st'[s].resident)
  PROVE  ~Rebinds(s)
  BY DEF Rebinds

LEMMA ResidencyBinds ==
  ASSUME EngineInv, Residency, NEW t \in State
  PROVE  ~Rebinds(t)
<1>1. PICK c : c = call
  OBVIOUS
<1>2. PICK f : f = c.facts
  OBVIOUS
<1>3. f.state \in State \cup {None}
  <2>1. Runs("residency")
    BY DEF Residency
  <2>2. ChunkSeeded(f)
    BY <1>1, <1>2, <2>1, ResidencyFinds
  <2>. QED
    BY <2>2 DEF ChunkSeeded
<1>4. CASE UNCHANGED st
  BY <1>4, NoRebind
<1>5. CASE f.state # None
  <2>1. PICK s \in State : s = f.state
    BY <1>3, <1>5
  <2>2. Typed /\ BackingInv
    BY DEF EngineInv, HandleInv
  <2>3. \/ UNCHANGED st
        \/ st' = [st EXCEPT ![s] = Bind(s, f)]
        \/ /\ st' = [st EXCEPT ![s] = Commit(Bind(s, f), f.atom_bits)]
           /\ Bind(s, f).kind \in {"none", "paged"}
    BY <1>1, <1>2, <1>5, <2>1 DEF Residency
  <2>4. CASE t # s \/ ~Bound(t) \/ UNCHANGED st
    <3>1. ~Bound(t) \/ st'[t] = st[t]
      BY <2>2, <2>3, <2>4 DEF Typed
    <3>. QED
      BY <3>1, NoRebind
  <2>5. CASE t = s /\ Bound(s) /\ st' = [st EXCEPT ![s] = Bind(s, f)]
    <3>1. st'[t] = st[t]
      BY <2>2, <2>5 DEF Typed, Bind
    <3>. QED
      BY <3>1, NoRebind
  <2>6. CASE /\ t = s /\ Bound(s) /\ Bind(s, f).kind \in {"none", "paged"}
             /\ st' = [st EXCEPT ![s] = Commit(Bind(s, f), f.atom_bits)]
    <3>1. /\ st[s] \in Handle /\ st[s].kind \in {"none", "paged"}
          /\ st'[s] = Commit(st[s], f.atom_bits)
      BY <2>2, <2>6 DEF Typed, Bind
    <3>2. /\ st'[s].fmt = st[s].fmt /\ st'[s].paging = st[s].paging /\ st'[s].kind = "paged"
          /\ st'[s].resident = IF st[s].kind = "paged" THEN st[s].resident \cup f.atom_bits
                               ELSE f.atom_bits
      BY <3>1 DEF Commit, Handle
    <3>3. st[s].kind = "none" => st[s].resident = {}
      BY <2>2 DEF BackingInv, Paged
    <3>4. st[s].resident \subseteq st'[s].resident /\ (Carries(s) => st'[s].kind = st[s].kind)
      BY <3>1, <3>2, <3>3 DEF Carries
    <3>. QED
      BY <2>6, <3>2, <3>4, NoRebind
  <2>. QED
    BY <2>3, <2>4, <2>5, <2>6
<1>6. CASE f.state = None
  <2>1. UNCHANGED st
    BY <1>1, <1>2, <1>6 DEF Residency
  <2>. QED
    BY <1>4, <2>1
<1>. QED
  BY <1>5, <1>6

(* Pages are only added.                                                   *)
LEMMA GrowthBinds ==
  ASSUME Typed, NEW s \in State, NEW more, st' = [st EXCEPT ![s].resident = @ \cup more],
         NEW t \in State
  PROVE  ~Rebinds(t)
<1>1. CASE t = s
  <2>1. st[s] \in Handle /\ st' = [st EXCEPT ![s] = [st[s] EXCEPT !.resident = @ \cup more]]
    BY DEF Typed
  <2>2. st'[s] = [st[s] EXCEPT !.resident = @ \cup more]
    BY <2>1 DEF Typed
  <2>3. /\ st'[s].fmt = st[s].fmt /\ st'[s].paging = st[s].paging /\ st'[s].kind = st[s].kind
        /\ st[s].resident \subseteq st'[s].resident
    BY <2>1, <2>2 DEF Handle
  <2>. QED
    BY <1>1, <2>3, NoRebind
<1>2. CASE t # s
  <2>1. st'[t] = st[t]
    BY <1>2 DEF Typed
  <2>. QED
    BY <2>1, NoRebind
<1>. QED
  BY <1>1, <1>2

LEMMA ChunkLaunchBinds ==
  ASSUME EngineInv, ChunkLaunch, NEW t \in State
  PROVE  ~Rebinds(t)
<1>1. PICK c : c = call
  OBVIOUS
<1>2. PICK f : f = c.facts
  OBVIOUS
<1>3. Done /\ c.entry = "chunk"
  BY <1>1 DEF ChunkLaunch
<1>4. f.state \in State \cup {None}
  BY <1>1, <1>2, <1>3, ChunkDone DEF ChunkSeeded
<1>5. CASE f.state = None
  <2>1. UNCHANGED st
    BY <1>1, <1>2, <1>5 DEF ChunkLaunch
  <2>. QED
    BY <2>1, NoRebind
<1>6. CASE f.state # None
  <2>1. PICK s \in State : s = f.state
    BY <1>4, <1>6
  <2>2. st' = [st EXCEPT ![s].kind = IF @ = "none" THEN "dense" ELSE @]
    BY <1>1, <1>2, <1>6, <2>1 DEF ChunkLaunch
  <2>3. Typed
    BY DEF EngineInv
  <2>4. CASE t = s
    <3>1. /\ st[s] \in Handle
          /\ st'[s] = [st[s] EXCEPT !.kind = IF @ = "none" THEN "dense" ELSE @]
      BY <2>2, <2>3 DEF Typed
    <3>2. /\ st'[s].fmt = st[s].fmt /\ st'[s].paging = st[s].paging
          /\ st'[s].kind = IF st[s].kind = "none" THEN "dense" ELSE st[s].kind
          /\ st'[s].resident = st[s].resident
      BY <3>1 DEF Handle
    <3>. QED
      BY <2>4, <3>2, NoRebind DEF Carries
  <2>5. CASE t # s
    <3>1. st'[t] = st[t]
      BY <2>2, <2>3, <2>5 DEF Typed
    <3>. QED
      BY <3>1, NoRebind
  <2>. QED
    BY <2>4, <2>5
<1>. QED
  BY <1>5, <1>6

LEMMA LaunchBinds ==
  ASSUME EngineInv, Launch, NEW t \in State
  PROVE  ~Rebinds(t)
<1>1. PICK c : c = call
  OBVIOUS
<1>2. PICK f : f = c.facts
  OBVIOUS
<1>3. PICK again \in BOOLEAN : again = (c.entry = "again")
  OBVIOUS
<1>4. f.state \in State
  BY <1>1, <1>2, <1>3, LaunchFinds
<1>5. \E claimed, needy : Launched(f, claimed, needy)
  BY <1>1, <1>2, LaunchDoes
<1>6. PICK more : st' = [st EXCEPT ![f.state].resident = @ \cup more]
  BY <1>5 DEF Launched
<1>7. Typed
  BY DEF EngineInv
<1>. QED
  BY <1>4, <1>6, <1>7, GrowthBinds

LEMMA RegrowBinds ==
  ASSUME EngineInv, Regrow, NEW t \in State
  PROVE  ~Rebinds(t)
<1>1. PICK c : c = call
  OBVIOUS
<1>2. PICK f : f = c.facts
  OBVIOUS
<1>3. Done /\ c.entry = "forward" /\ f.grow = TRUE
  BY <1>1, <1>2 DEF Regrow
<1>4. UNCHANGED st \/ st' = Admitted(f.state)
  BY <1>1, <1>2 DEF Regrow
<1>5. f.state \in State
  <2>1. DecodeSeeded(f, c.entry = "again")
    BY <1>1, <1>2, <1>3, ForwardDone
  <2>. QED
    BY <2>1 DEF DecodeSeeded
<1>6. UNCHANGED st \/ \E more : st' = [st EXCEPT ![f.state].resident = @ \cup more]
  BY <1>4 DEF Admitted
<1>7. Typed
  BY DEF EngineInv
<1>8. CASE UNCHANGED st
  BY <1>8, NoRebind
<1>9. CASE \E more : st' = [st EXCEPT ![f.state].resident = @ \cup more]
  BY <1>5, <1>7, <1>9, GrowthBinds
<1>. QED
  BY <1>6, <1>8, <1>9

LEMMA AdmitGrowthBinds ==
  ASSUME EngineInv, AdmitGrowth, NEW t \in State
  PROVE  ~Rebinds(t)
<1>1. PICK s \in State : st' = Admitted(s)
  BY DEF AdmitGrowth
<1>2. PICK more : st' = [st EXCEPT ![s].resident = @ \cup more]
  BY <1>1 DEF Admitted
<1>3. Typed
  BY DEF EngineInv
<1>. QED
  BY <1>2, <1>3, GrowthBinds

LEMMA HandlesBind ==
  ASSUME EngineInv, Clone \/ Drop, NEW t \in State
  PROVE  ~Rebinds(t)
<1>1. Typed
  BY DEF EngineInv
<1>2. CASE Clone
  <2>1. PICK s \in State, u \in State : ~Bound(u) /\ st' = [st EXCEPT ![u] = st[s]]
    BY <1>2 DEF Clone
  <2>2. ~Bound(t) \/ st'[t] = st[t]
    BY <1>1, <2>1 DEF Typed
  <2>. QED
    BY <2>2, NoRebind
<1>3. CASE Drop
  <2>1. PICK s \in State : st' = [st EXCEPT ![s] = Unbound]
    BY <1>3 DEF Drop
  <2>2. st'[t] = Unbound \/ st'[t] = st[t]
    BY <1>1, <2>1 DEF Typed
  <2>. QED
    BY <2>2, NoRebind
<1>. QED
  BY <1>2, <1>3

LEMMA StepsBind == EngineInv /\ [Next]_vars => [\A s \in State : ~Rebinds(s)]_vars
<1>. SUFFICES ASSUME EngineInv, Next, NEW t \in State
              PROVE  ~Rebinds(t)
  OBVIOUS
<1>1. CASE Pass \/ Fail \/ Compute \/ Scratch \/ DecodeBacking \/ ReadVerdict \/ Chunk
           \/ Decode \/ Returns
  <2>1. UNCHANGED st
    BY <1>1 DEF Pass, Fail, Compute, Scratch, DecodeBacking, ReadVerdict, Chunk, Decode, Returns
  <2>. QED
    BY <2>1, NoRebind
<1>2. CASE Residency
  BY <1>2, ResidencyBinds
<1>3. CASE ChunkLaunch
  BY <1>3, ChunkLaunchBinds
<1>4. CASE Launch
  BY <1>4, LaunchBinds
<1>5. CASE Regrow
  BY <1>5, RegrowBinds
<1>6. CASE AdmitGrowth
  BY <1>6, AdmitGrowthBinds
<1>7. CASE Clone \/ Drop
  BY <1>7, HandlesBind
<1>. QED
  BY <1>1, <1>2, <1>3, <1>4, <1>5, <1>6, <1>7 DEF Next

(* Binding is for good (RoLAState.bound): no step but the drop of the      *)
(* handle changes its format, its backing or its wish for pages, or takes  *)
(* a page back.                                                            *)
THEOREM BindingHolds == Spec => BindingIsForGood
<1>. QED
  BY StepsBind, EngineInvariant, PTL DEF Spec, BindingIsForGood

(***************************************************************************)
(* The log: under the invariant it is what finished, in every batch-head.  *)
(***************************************************************************)
Finished == [s \in State |-> [h \in BatchHead |-> hist[s]]]
LogOf    == [s \in State |-> IF round[s] = None THEN got[s]
                             ELSE [h \in BatchHead |-> hist[s]]]

LEMMA LogIs == EngineInv => LogOf = Finished
<1>. SUFFICES ASSUME EngineInv, NEW s \in State, round[s] = None
              PROVE  got[s] = [h \in BatchHead |-> hist[s]]
  BY DEF LogOf, Finished
<1>1. got[s] \in [BatchHead -> Seq(1 .. MaxCalls)]
  BY DEF EngineInv, Typed
<1>2. \A h \in BatchHead : got[s][h] = hist[s]
  BY DEF EngineInv, HandleInv, RoundInv
<1>. QED
  BY <1>1, <1>2

(* What a step does to what finished.                                      *)
Appends(s, id) == hist' = [hist EXCEPT ![s] = Append(@, id)]
Copies(s, t)   == hist[t] = <<>> /\ hist' = [hist EXCEPT ![t] = hist[s]]
Clears(s)      == hist' = [hist EXCEPT ![s] = <<>>]
HistStep ==
  \/ UNCHANGED hist
  \/ \E s \in State, id \in 1 .. MaxCalls : Appends(s, id)
  \/ \E s, t \in State : Copies(s, t)
  \/ \E s \in State : Clears(s)

LEMMA ChunkLaunchLogs ==
  ASSUME EngineInv, ChunkLaunch
  PROVE  HistStep
<1>1. PICK c : c = call
  OBVIOUS
<1>2. PICK f : f = c.facts
  OBVIOUS
<1>3. Done /\ c.entry = "chunk"
  BY <1>1 DEF ChunkLaunch
<1>4. f.state \in State \cup {None} /\ f.routes \in Call
  BY <1>1, <1>2, <1>3, ChunkDone DEF ChunkSeeded
<1>5. f.routes.id \in 1 .. MaxCalls
  BY <1>4 DEF Call
<1>6. CASE f.state = None
  BY <1>1, <1>2, <1>6 DEF ChunkLaunch, content, HistStep
<1>7. CASE f.state # None
  <2>1. Appends(f.state, f.routes.id)
    BY <1>1, <1>2, <1>7 DEF ChunkLaunch, Appends
  <2>. QED
    BY <1>4, <1>5, <1>7, <2>1 DEF HistStep
<1>. QED
  BY <1>6, <1>7

LEMMA LaunchLogs ==
  ASSUME EngineInv, Launch
  PROVE  HistStep
<1>1. PICK c : c = call
  OBVIOUS
<1>2. PICK f : f = c.facts
  OBVIOUS
<1>3. PICK again \in BOOLEAN : again = (c.entry = "again")
  OBVIOUS
<1>4. f.state \in State /\ f.routes \in Call
  BY <1>1, <1>2, <1>3, LaunchFinds
<1>5. f.routes.id \in 1 .. MaxCalls
  BY <1>4 DEF Call
<1>6. \E claimed, needy : Launched(f, claimed, needy)
  BY <1>1, <1>2, LaunchDoes
<1>7. hist \in [State -> Seq(1 .. MaxCalls)]
  BY DEF EngineInv, Typed
<1>8. PICK needy : hist' = [hist EXCEPT ![f.state] =
                              IF needy = {} THEN Append(@, f.routes.id) ELSE @]
  BY <1>6 DEF Launched
<1>9. CASE needy = {}
  <2>1. Appends(f.state, f.routes.id)
    BY <1>8, <1>9 DEF Appends
  <2>. QED
    BY <1>4, <1>5, <2>1 DEF HistStep
<1>10. CASE needy # {}
  <2>1. hist' = hist
    BY <1>7, <1>8, <1>10
  <2>. QED
    BY <2>1 DEF HistStep
<1>. QED
  BY <1>9, <1>10

LEMMA CloneLogs ==
  ASSUME EngineInv, Clone
  PROVE  HistStep
<1>1. PICK s \in State, t \in State : ~Bound(t) /\ hist' = [hist EXCEPT ![t] = hist[s]]
  BY DEF Clone
<1>2. hist[t] = <<>>
  BY <1>1 DEF EngineInv, HandleInv, BackingInv
<1>3. Copies(s, t)
  BY <1>1, <1>2 DEF Copies
<1>. QED
  BY <1>3 DEF HistStep

LEMMA StepsLog ==
  ASSUME EngineInv, [Next]_vars
  PROVE  HistStep
<1>1. CASE \/ Pass \/ Fail \/ Compute \/ Residency \/ Scratch \/ DecodeBacking \/ ReadVerdict
           \/ Chunk \/ Decode \/ Returns \/ Regrow \/ AdmitGrowth \/ UNCHANGED vars
  <2>1. UNCHANGED hist
    BY <1>1 DEF Pass, Fail, Compute, Residency, Scratch, DecodeBacking, ReadVerdict, Chunk,
                Decode, Returns, Regrow, AdmitGrowth, vars, content
  <2>. QED
    BY <2>1 DEF HistStep
<1>2. CASE ChunkLaunch
  BY <1>2, ChunkLaunchLogs
<1>3. CASE Launch
  BY <1>3, LaunchLogs
<1>4. CASE Clone
  BY <1>4, CloneLogs
<1>5. CASE Drop
  <2>1. \E s \in State : Clears(s)
    BY <1>5 DEF Drop, Clears
  <2>. QED
    BY <2>1 DEF HistStep
<1>. QED
  BY <1>1, <1>2, <1>3, <1>4, <1>5 DEF Next

LEMMA FinishedSteps ==
  ASSUME Typed, HistStep
  PROVE  \/ Finished' = Finished
         \/ \E s \in State, id \in 1 .. MaxCalls :
              Finished' = [Finished EXCEPT ![s] = [h \in BatchHead |-> Append(Finished[s][h], id)]]
         \/ \E s, t \in State :
              /\ Finished[t] = [h \in BatchHead |-> <<>>]
              /\ Finished' = [Finished EXCEPT ![t] = Finished[s]]
         \/ \E s \in State : Finished' = [Finished EXCEPT ![s] = [h \in BatchHead |-> <<>>]]
<1>. USE DEF Typed
<1>1. CASE UNCHANGED hist
  BY <1>1 DEF Finished
<1>2. ASSUME NEW s \in State, NEW id \in 1 .. MaxCalls, Appends(s, id)
      PROVE  Finished' = [Finished EXCEPT ![s] = [h \in BatchHead |-> Append(Finished[s][h], id)]]
  BY <1>2 DEF Finished, Appends
<1>3. ASSUME NEW s \in State, NEW t \in State, Copies(s, t)
      PROVE  /\ Finished[t] = [h \in BatchHead |-> <<>>]
             /\ Finished' = [Finished EXCEPT ![t] = Finished[s]]
  BY <1>3 DEF Finished, Copies
<1>4. ASSUME NEW s \in State, Clears(s)
      PROVE  Finished' = [Finished EXCEPT ![s] = [h \in BatchHead |-> <<>>]]
  BY <1>4 DEF Finished, Clears
<1>5. CASE \E s \in State, id \in 1 .. MaxCalls : Appends(s, id)
  <2>1. PICK s \in State, id \in 1 .. MaxCalls : Appends(s, id)
    BY <1>5
  <2>. QED
    BY <1>2, <2>1
<1>6. CASE \E s, t \in State : Copies(s, t)
  <2>1. PICK s \in State, t \in State : Copies(s, t)
    BY <1>6
  <2>. QED
    BY <1>3, <2>1
<1>7. CASE \E s \in State : Clears(s)
  <2>1. PICK s \in State : Clears(s)
    BY <1>7
  <2>. QED
    BY <1>4, <2>1
<1>. QED
  BY <1>1, <1>5, <1>6, <1>7 DEF HistStep

LEMMA LogStarts == Init => Sequences!Init
  BY DEF Init, Sequences!Init, Sequences!Fresh

LEMMA LogSteps == EngineInv /\ EngineInv' /\ [Next]_vars => [Sequences!Next]_LogOf
<1>0. EngineInv' => (LogOf = Finished)'
  BY LogIs, PTL
<1>. SUFFICES ASSUME EngineInv, EngineInv', [Next]_vars
              PROVE  Sequences!Next \/ LogOf' = LogOf
  OBVIOUS
<1>1. LogOf = Finished /\ LogOf' = Finished'
  BY <1>0, LogIs
<1>2. Typed
  BY DEF EngineInv
<1>3. HistStep
  BY StepsLog
<1>4. \/ LogOf' = LogOf
      \/ \E s \in State, id \in 1 .. MaxCalls :
           LogOf' = [LogOf EXCEPT ![s] = [h \in BatchHead |-> Append(LogOf[s][h], id)]]
      \/ \E s, t \in State :
           /\ LogOf[t] = [h \in BatchHead |-> <<>>] /\ LogOf' = [LogOf EXCEPT ![t] = LogOf[s]]
      \/ \E s \in State : LogOf' = [LogOf EXCEPT ![s] = [h \in BatchHead |-> <<>>]]
  BY <1>1, <1>2, <1>3, FinishedSteps
<1>. QED
  BY <1>4 DEF LogOf, Sequences!Next, Sequences!Absorb, Sequences!Fork, Sequences!Drop,
              Sequences!Fresh

(* The engine implements SequenceLog: each handle (rola/_state.py) is one  *)
(* sequence of calls, which every batch-head has absorbed alike.           *)
THEOREM LogHolds == Spec => ImplementsLog
<1>1. EngineInv /\ EngineInv' /\ [Next]_vars =>
        [Sequences!Next]_[s \in State |-> IF round[s] = None THEN got[s]
                                          ELSE [h \in BatchHead |-> hist[s]]]
  BY LogSteps DEF LogOf
<1>. QED
  BY LogStarts, <1>1, EngineInvariant, PTL DEF Spec, ImplementsLog, Sequences!Spec

=============================================================================
