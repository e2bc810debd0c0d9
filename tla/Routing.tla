------------------------------ MODULE Routing ------------------------------
(***************************************************************************)
(* From the packed router to the read and write planes, and back: the      *)
(* column layout every part derives from the level list (ResolvedRouting), *)
(* the projection, the batched solve launches of the two production        *)
(* entries, and their backward.                                            *)
(*                                                                         *)
(* Values are symbolic.  A logit is the stream and the router column it    *)
(* was projected from; a solved cell is the solve it belongs to (its       *)
(* activation and the logits it read) and its place in it.  A memory cell  *)
(* holds the SET of the values stored to it: empty while it is             *)
(* uninitialized, more than one when two solves claim it.  Heads and       *)
(* tokens ride along every cell and are left out.  Levels and slots count  *)
(* from 1, columns, offsets and digits from 0.                             *)
(***************************************************************************)
EXTENDS Integers, Sequences, FiniteSets, SequencesExt

CONSTANTS
  Routings,          \* the level lists: [form, width, read, write]
  GainColumns,       \* the numbers of gain columns a side gain may have
  MaxBatchedLevels   \* _MAX_BATCHED_LEVELS: the solves of one launch

Softmax    == <<"softmax", 0>>
Zeroes(op) == op[1] = "entmax"        \* the registry's exact_zeros column

(* IndependentRouting refuses two exact-zero duties, UnionRouting needs    *)
(* exact zeros; a tied and a union level have one activation.              *)
Lawful(level) ==
  /\ level.width >= 2
  /\ CASE level.form = "independent" -> ~ (Zeroes(level.read) /\ Zeroes(level.write))
       [] level.form = "tied"        -> level.read = level.write
       [] level.form = "union"       -> level.read = level.write /\ Zeroes(level.read)

ASSUME RoutingAssumption ==
  /\ \A r \in Routings : Len(r) > 0 /\ \A l \in DOMAIN r : Lawful(r[l])
  /\ GainColumns \subseteq Nat
  /\ MaxBatchedLevels \in Nat \ {0}

VARIABLES
  routing,     \* the level list
  entry,       \* "levels" or "arena": which production entry solves
  apart,       \* does the write side have a stream of its own (h_w)?
  gain,        \* the gain columns behind the routing columns
  stage,       \* "resolved", "projected", "solving", "solved" or "refused"
  logits,      \* [side -> what each logit was projected from]
  gainLogits,  \* the same of the gain columns
  plan,        \* the launches still to issue
  mem,         \* [buffer -> [offset -> the values stored there]]
  grad,        \* [side -> [logit -> the gradients written there]]
  backward     \* the next level of the backward; 0: not asked for

vars == <<routing, entry, apart, gain, stage, logits, gainLogits, plan, mem, grad, backward>>

---------------------------------------------------------------------------
(* The layout (ResolvedRouting).  The router's columns: the write slots in *)
(* level order, then a read slot for each level that is not tied.          *)
Side     == {"read", "write"}
D        == Len(routing)
Level    == 1 .. D
Width(l) == routing[l].width
Form(l)  == routing[l].form

UntiedLevels == SelectSeq([l \in Level |-> l], LAMBDA l : Form(l) # "tied")
SlotLevel    == [l \in Level |-> l] \o UntiedLevels
WriteSlots   == [l \in Level |-> l]
ReadSlots    == [l \in Level |->
                   IF Form(l) = "tied" THEN l
                   ELSE D + (CHOOSE i \in DOMAIN UntiedLevels : UntiedLevels[i] = l)]
SlotOffset(s) == SumFunctionOnSet([i \in DOMAIN SlotLevel |-> Width(SlotLevel[i])], 1 .. s - 1)
RouterWidth   == SlotOffset(Len(SlotLevel) + 1)
LevelOffset(l) == SumFunctionOnSet([i \in Level |-> Width(i)], 1 .. l - 1)
LogitWidth     == LevelOffset(D + 1)
Cells(l)       == LevelOffset(l) .. LevelOffset(l + 1) - 1

(* A level gets support rows if either duty can zero; otherwise it has     *)
(* none and the offsets close up behind it.                                *)
HasSupport(l)    == Zeroes(routing[l].read) \/ Zeroes(routing[l].write)
SupportOffset(l) ==
  IF HasSupport(l)
  THEN SumFunctionOnSet([i \in Level |-> Width(i)], {i \in 1 .. l - 1 : HasSupport(i)})
  ELSE -1
SupportFlags(l) ==
  {side \in Side : Zeroes(IF side = "read" THEN routing[l].read ELSE routing[l].write)}
SupportWidth == SumFunctionOnSet([i \in Level |-> Width(i)], {i \in Level : HasSupport(i)})

---------------------------------------------------------------------------
(* The projection.  Abutting slots are gathered as one run of columns.     *)
Span(start, stop) == [i \in 1 .. stop - start |-> start + i - 1]
ColumnRuns(slots) ==
  FoldLeft(LAMBDA runs, s :
             LET stop == SlotOffset(s) + Width(SlotLevel[s])
             IN IF runs # <<>> /\ Last(runs)[2] = SlotOffset(s)
                THEN [runs EXCEPT ![Len(runs)][2] = stop]
                ELSE Append(runs, <<SlotOffset(s), stop>>),
           <<>>, slots)
Weight(slots, tail) ==
  FlattenSeq([i \in DOMAIN ColumnRuns(slots) |->
                Span(ColumnRuns(slots)[i][1], ColumnRuns(slots)[i][2])])
    \o Span(RouterWidth, RouterWidth + tail)

FullyTied == ReadSlots = WriteSlots
(* The gain columns ride along unless the only GEMM reads the other stream *)
Fuse      == gain > 0 /\ (~ apart \/ ~ FullyTied)
FusedTail == IF Fuse THEN gain ELSE 0

Projected(stream, columns) == [i \in DOMAIN columns |-> <<stream, columns[i]>>]
Body(out)                  == SubSeq(out, 1, Len(out) - FusedTail)
FromZero(q)                == [o \in 0 .. Len(q) - 1 |-> q[o + 1]]
GainOf(out) ==
  IF Fuse THEN SubSeq(out, Len(out) - FusedTail + 1, Len(out))
  ELSE Projected("read", Weight(<<>>, gain))

Projects(read, write, gained) ==
  /\ stage = "resolved" /\ stage' = "projected"
  /\ logits' = [read |-> FromZero(read), write |-> FromZero(write)]
  /\ gainLogits' = gained
  /\ UNCHANGED <<routing, entry, apart, gain, plan, mem, grad, backward>>

ProjectTied ==
  /\ FullyTied
  /\ LET out == Projected(IF apart THEN "write" ELSE "read", Weight(WriteSlots, FusedTail))
     IN Projects(Body(out), Body(out), GainOf(out))

ProjectTogether ==
  /\ ~ FullyTied /\ ~ apart
  /\ LET out  == Projected("read", Weight(WriteSlots \o ReadSlots, FusedTail))
         both == Body(out)
     IN Projects(SubSeq(both, LogitWidth + 1, Len(both)), SubSeq(both, 1, LogitWidth),
                 GainOf(out))

(* Two streams: a tied level's read logits are its write logits.           *)
UntiedCursor(l) ==
  SumFunctionOnSet([i \in Level |-> Width(i)], {i \in 1 .. l - 1 : Form(i) # "tied"})
ProjectApart ==
  /\ ~ FullyTied /\ apart
  /\ LET write  == Projected("write", Weight(WriteSlots, 0))
         slots  == [i \in DOMAIN UntiedLevels |-> ReadSlots[UntiedLevels[i]]]
         out    == Projected("read", Weight(slots, FusedTail))
         untied == Body(out)
         part(l) == IF Form(l) = "tied"
                    THEN SubSeq(write, LevelOffset(l) + 1, LevelOffset(l + 1))
                    ELSE SubSeq(untied, UntiedCursor(l) + 1, UntiedCursor(l) + Width(l))
     IN Projects(FlattenSeq([l \in Level |-> part(l)]), write, GainOf(out))

Project == ProjectTied \/ ProjectTogether \/ ProjectApart

---------------------------------------------------------------------------
(* The buffers of a call.  The arena entry keeps one arena when every      *)
(* level is tied, and its arenas start at zero; no level is left to them.  *)
SharedArena  == entry = "arena" /\ \A l \in Level : Form(l) = "tied"
PlaneOf(side) == IF SharedArena THEN "read" ELSE side
Buffers == [b \in {"read", "write", "mid", "words"} |->
              [o \in 0 .. (IF b = "mid"   THEN SumFunctionOnSet([i \in Level |-> Width(i)],
                                                 {i \in Level : Form(i) = "union"})
                           ELSE IF b = "words" THEN SupportWidth ELSE LogitWidth) - 1 |-> {}]]

(* What a level asks of the plan: a union and a tied level one solve for   *)
(* both planes, an independent level one for each side.                    *)
MidOffset_Fixed(l) == 0                        \* mutant: the offset is not advanced
MidOffset(l) ==
  SumFunctionOnSet([i \in Level |-> Width(i)], {i \in 1 .. l - 1 : Form(i) = "union"})

Request(op, source, into, l) ==
  [op |-> op, source |-> source, into |-> into, width |-> Width(l), logit |-> LevelOffset(l),
   value |-> LevelOffset(l), mid |-> MidOffset(l), words |-> SupportOffset(l)]
Requests(l) ==
  LET level == routing[l]
  IN CASE Form(l) = "union" ->
            <<Request(<<"union", level.read[2]>>, "both", <<"read", "write">>, l)>>
       [] Form(l) = "tied" ->
            <<Request(level.write, "write",
                      IF SharedArena THEN <<"read">> ELSE <<"read", "write">>, l)>>
       [] OTHER -> <<Request(level.read, "read", <<"read">>, l),
                     Request(level.write, "write", <<"write">>, l)>>

(* _Plan.add: a solve joins the open launch of its key unless that is full *)
WidthClass(w) == CHOOSE c \in {2 ^ e : e \in 1 .. 8} : c >= w /\ (c = 2 \/ c < 2 * w)
Key_AnyOperands(q) == <<q.op, WidthClass(q.width)>>   \* mutant: the operands are not keyed
Key(q) == <<q.op, WidthClass(q.width), q.source, q.into>>

Added(launches, q) ==
  LET same == {i \in DOMAIN launches : Key(launches[i][1]) = Key(q)}
  IN IF same = {} \/ Len(launches[Max(same)]) = MaxBatchedLevels
     THEN Append(launches, <<q>>)
     ELSE [launches EXCEPT ![Max(same)] = Append(@, q)]

Plan ==
  /\ stage = "projected" /\ stage' = "solving"
  /\ plan' = FoldLeft(Added, <<>>, FlattenSeq([l \in Level |-> Requests(l)]))
  /\ mem' = Buffers
  /\ UNCHANGED <<routing, entry, apart, gain, logits, gainLogits, grad, backward>>

(* A launch takes its operands from the key it was opened with, so from    *)
(* its first solve; the offsets and the width are each solve's own.        *)
Row(side, q) == [i \in 0 .. q.width - 1 |-> logits[side][q.logit + i]]
Rows(source, q) ==
  IF source = "both" THEN <<Row("read", q), Row("write", q)>> ELSE <<Row(source, q)>>

Stores(launch) ==
  LET op     == launch[1].op
      source == launch[1].source
      into   == launch[1].into
      solve(q) == [op |-> op, rows |-> Rows(source, q)]
      cell(q, part, i) == [solve |-> solve(q), part |-> part, at |-> i]
      part(side) == IF op[1] = "union" THEN side ELSE "whole"
      of(q, i) ==
        {<<into[j], q.value + i, cell(q, part(into[j]), i)>> : j \in DOMAIN into}
        \cup (IF op[1] = "union" THEN {<<"mid", q.mid + i, cell(q, "mid", i)>>} ELSE {})
        \cup (IF op[1] = "softmax" THEN {} ELSE {<<"words", q.words + i, cell(q, "words", i)>>})
  IN UNION {UNION {of(launch[n], i) : i \in 0 .. launch[n].width - 1} : n \in DOMAIN launch}

Issue ==
  /\ stage = "solving" /\ plan # <<>>
  /\ LET stores == Stores(Head(plan))
     IN mem' = [b \in DOMAIN mem |-> [o \in DOMAIN mem[b] |->
                  mem[b][o] \cup {s[3] : s \in {s \in stores : s[1] = b /\ s[2] = o}}]]
  /\ plan' = Tail(plan)
  /\ UNCHANGED <<routing, entry, apart, gain, stage, logits, gainLogits, grad, backward>>

(* RouteDescriptor's checks of the arena entry's metadata.                 *)
DescriptorAccepts ==
  LET before(l) == SumFunctionOnSet([i \in Level |-> Width(i)],
                     {i \in 1 .. l - 1 : SupportFlags(i) # {}})
  IN /\ LevelOffset(1) = 0 /\ \A l \in Level : Width(l) >= 2
     /\ \A l \in Level : SupportOffset(l) = IF SupportFlags(l) = {} THEN -1 ELSE before(l)
     /\ DOMAIN mem["words"] = 0 .. before(D + 1) - 1

Return ==
  /\ stage = "solving" /\ plan = <<>>
  /\ stage' = IF entry = "arena" /\ ~ DescriptorAccepts THEN "refused" ELSE "solved"
  /\ UNCHANGED <<routing, entry, apart, gain, logits, gainLogits, plan, mem, grad, backward>>

---------------------------------------------------------------------------
(* The backward, a level at a time, from what the forward saved.  A        *)
(* gradient written to a logit names the duties whose output gradient it   *)
(* carries and the cells it was computed with.                             *)
PlaneRow(side, l) == [i \in 0 .. Width(l) - 1 |-> mem[PlaneOf(side)][LevelOffset(l) + i]]
WordsRow(l)       == [i \in 0 .. Width(l) - 1 |-> mem["words"][SupportOffset(l) + i]]
SavedMid(l) ==
  LET unions == SelectSeq([i \in Level |-> i], LAMBDA i : Form(i) = "union")
      index  == Cardinality({i \in 1 .. l - 1 : Form(i) = "union"}) + 1
      offset == SumFunctionOnSet([i \in DOMAIN unions |-> Width(unions[i])], 1 .. index - 1)
  IN [i \in 0 .. Width(l) - 1 |-> mem["mid"][offset + i]]

Saved(op, side, l) == <<PlaneRow(side, l)>> \o (IF Zeroes(op) THEN <<WordsRow(l)>> ELSE <<>>)
Gradient(side, l) ==
  LET level == routing[l]
  IN CASE Form(l) = "union" ->
            {[level |-> l, duties |-> Side,
              saved |-> <<PlaneRow("read", l), PlaneRow("write", l), WordsRow(l), SavedMid(l)>>]}
       [] Form(l) = "tied" ->
            IF side = "read" THEN {}
            ELSE {[level |-> l, duties |-> Side, saved |-> Saved(level.write, "read", l)]}
       [] OTHER ->
            {[level |-> l, duties |-> {side},
              saved |-> Saved(IF side = "read" THEN level.read ELSE level.write, side, l)]}

AskBackward ==
  /\ stage = "solved" /\ backward = 0 /\ backward' = 1
  /\ grad' = [side \in Side |-> [o \in 0 .. LogitWidth - 1 |-> {}]]
  /\ UNCHANGED <<routing, entry, apart, gain, stage, logits, gainLogits, plan, mem>>

BackwardLevel ==
  /\ backward \in Level /\ backward' = backward + 1
  /\ grad' = [side \in Side |-> [o \in DOMAIN grad[side] |->
                IF o \in Cells(backward) THEN grad[side][o] \cup Gradient(side, backward)
                ELSE grad[side][o]]]
  /\ UNCHANGED <<routing, entry, apart, gain, stage, logits, gainLogits, plan, mem>>

Done == (backward > D \/ stage = "refused") /\ UNCHANGED vars

Init ==
  /\ routing \in Routings /\ entry \in {"levels", "arena"}
  /\ apart \in BOOLEAN /\ gain \in GainColumns
  /\ stage = "resolved" /\ logits = <<>> /\ gainLogits = <<>> /\ plan = <<>>
  /\ mem = <<>> /\ grad = <<>> /\ backward = 0

Next == Project \/ Plan \/ Issue \/ Return \/ AskBackward \/ BackwardLevel \/ Done

Spec == Init /\ [][Next]_vars

---------------------------------------------------------------------------
(* The unbatched form (_torch_routing_factor_levels), on the columns the   *)
(* slots name: a tied level's one solve reads the write stream.            *)
TorchRow(side, l) ==
  LET slot   == IF side = "read" THEN ReadSlots[l] ELSE l
      stream == IF apart /\ slot <= D THEN "write" ELSE "read"
  IN [i \in 0 .. Width(l) - 1 |-> <<stream, SlotOffset(slot) + i>>]
TorchSolve(side, l) ==
  LET level == routing[l]
  IN CASE Form(l) = "union" ->
            [op |-> <<"union", level.read[2]>>, rows |-> <<TorchRow("read", l), TorchRow("write", l)>>]
       [] Form(l) = "tied" -> [op |-> level.write, rows |-> <<TorchRow("write", l)>>]
       [] OTHER -> [op   |-> IF side = "read" THEN level.read ELSE level.write,
                    rows |-> <<TorchRow(side, l)>>]
TorchCell(side, l, i) ==
  [solve |-> TorchSolve(side, l), part |-> IF Form(l) = "union" THEN side ELSE "whole", at |-> i]

(* The stages follow one another and a plan's launches are within the cap. *)
TypeOK ==
  /\ stage \in {"resolved", "projected", "solving", "solved", "refused"}
  /\ backward \in 0 .. D + 1
  /\ \A n \in DOMAIN plan : Len(plan[n]) \in 1 .. MaxBatchedLevels

(* However the levels are batched, a solved call holds in every cell of    *)
(* both planes exactly the value the unbatched form gives it, each support *)
(* row and each midpoint is one solve's, and the arena is accepted.        *)
SolvedIsTheTorchForm ==
  /\ stage # "refused"
  /\ stage = "solved" =>
       /\ \A side \in Side, l \in Level : \A i \in 0 .. Width(l) - 1 :
            mem[PlaneOf(side)][LevelOffset(l) + i] = {TorchCell(side, l, i)}
       /\ \A b \in {"mid", "words"} : \A o \in DOMAIN mem[b] : Cardinality(mem[b][o]) = 1
       /\ gainLogits = [i \in 1 .. gain |-> <<"read", RouterWidth + i - 1>>]

(* A router column learns from a duty's output exactly if the output was   *)
(* computed from it, once, with the cells that solve stored.               *)
ColumnsLearnOnce ==
  backward > D =>
    \A c \in 0 .. RouterWidth - 1, l \in Level, duty \in Side :
      LET row(side) == TorchSolve(side, l).rows
          uses == \E n \in DOMAIN row(duty) : \E i \in DOMAIN row(duty)[n] : row(duty)[n][i][2] = c
          from == {z \in Side \X (0 .. LogitWidth - 1) :
                     /\ logits[z[1]][z[2]][2] = c
                     /\ \E g \in grad[z[1]][z[2]] : g.level = l /\ duty \in g.duties}
      IN /\ Cardinality(from) = IF uses THEN 1 ELSE 0
         /\ \A z \in from : \A g \in grad[z[1]][z[2]] : \A n \in DOMAIN g.saved :
              \A i \in 0 .. Width(l) - 1 :
                \E v \in g.saved[n][i] : /\ g.saved[n][i] = {v} /\ v.at = i
                                         /\ v.solve \in {TorchSolve(side, l) : side \in g.duties}
=============================================================================
