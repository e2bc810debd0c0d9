---------------------------- MODULE StreamOrder ----------------------------
(***************************************************************************)
(* The order a page arena's work really runs in (rola/ops/paging.py).      *)
(* plan_exact clears and reads the table on the caller's stream and        *)
(* publishes slots on the arena's own; the host runs ahead of both and     *)
(* stops only for the size read of nonzero().  One event ties the two      *)
(* streams together, and wait() is the only place anyone waits for it.     *)
(*                                                                         *)
(* A stream is a queue of operations the device runs in order.  A call is  *)
(* plan_exact, join (wait), launch; extents are single slots here and the  *)
(* slack pool is left to PageArena.  _admit_pages also makes the side      *)
(* stream wait for the caller's, which the size read has just drained; and *)
(* the memory of atom_ids, which record_stream keeps for the side stream,  *)
(* is not modelled.                                                        *)
(***************************************************************************)
EXTENDS Integers, Sequences, FiniteSets

CONSTANTS
  Atoms,     \* atoms of the arena; the dense limit in slots
  MaxCalls   \* bound: plans made

ASSUME StreamAssumption ==
  Atoms \in Nat \ {0} /\ MaxCalls \in Nat \ {0}

Absent == -1
Atom   == 0 .. Atoms - 1
Slot   == 0 .. Atoms - 1

VARIABLES
  \* the host
  stage,    \* "idle", "asked", "planned", "joined"
  write,    \* the write set of the call under way
  next,     \* the allocator's cursor
  ready,    \* number of the event in _ready, 0 for None
  events,   \* events recorded so far
  calls,    \* plans made
  owed,     \* [Atom -> deposits the calls issued so far owe it]
  \* the device
  main, side,   \* operations enqueued and not yet run
  fired,        \* the last event the side stream has reached
  wanted,       \* what nonzero() found absent
  table,        \* [Atom -> Slot \cup {Absent}]
  plane         \* [Slot -> deposits]

hostVars == <<stage, write, next, ready, events, calls, owed>>
vars     == <<hostVars, main, side, fired, wanted, table, plane>>

---------------------------------------------------------------------------
(* Operations.                                                             *)
AwaitOp(e)          == [op |-> "await", event |-> e]
ClearOp             == [op |-> "clear"]
AskOp               == [op |-> "ask"]
LaunchOp            == [op |-> "launch", atoms |-> write, before |-> owed]
PublishOp(ids, at)  == [op |-> "publish", slots |-> [a \in ids |-> at[a]]]
ZeroOp(slots)       == [op |-> "zero", slots |-> slots]
RecordOp(e)         == [op |-> "record", event |-> e]

Init ==
  /\ stage = "idle" /\ write = {} /\ next = 0 /\ ready = 0 /\ events = 0 /\ calls = 0
  /\ owed = [a \in Atom |-> 0]
  /\ main = <<>> /\ side = <<>> /\ fired = 0 /\ wanted = {}
  /\ table = [a \in Atom |-> Absent] /\ plane = [s \in Slot |-> 0]

---------------------------------------------------------------------------
(* wait(): the caller's stream waits for the pending event, if any.        *)
Await == IF ready = 0 THEN <<>> ELSE <<AwaitOp(ready)>>

(* plan_exact(fresh=False) up to its size read, where the host stops.      *)
PlanContinue(W) ==
  /\ stage = "idle" /\ calls < MaxCalls
  /\ write' = W /\ calls' = calls + 1 /\ stage' = "asked"
  /\ main' = Append(main, AskOp)
  /\ UNCHANGED <<next, ready, events, owed, side, fired, wanted, table, plane>>

PlanFresh_NoJoin(W) ==                         \* mutant: reset does not join first
  /\ stage = "idle" /\ calls < MaxCalls
  /\ write' = W /\ calls' = calls + 1 /\ stage' = "asked"
  /\ main' = main \o <<ClearOp, AskOp>>
  /\ next' = 0 /\ ready' = 0 /\ owed' = [a \in Atom |-> 0]
  /\ UNCHANGED <<events, side, fired, wanted, table, plane>>
(* plan_exact(fresh=True): reset joins the side stream, clears the table   *)
(* and forgets the event.                                                  *)
PlanFresh(W) ==
  /\ stage = "idle" /\ calls < MaxCalls
  /\ write' = W /\ calls' = calls + 1 /\ stage' = "asked"
  /\ main' = main \o Await \o <<ClearOp, AskOp>>
  /\ next' = 0 /\ ready' = 0 /\ owed' = [a \in Atom |-> 0]
  /\ UNCHANGED <<events, side, fired, wanted, table, plane>>

(* The size read returned: take the slots and admit on the side stream, or *)
(* raise out of the allocator.                                             *)
SlotOf == [a \in wanted |-> next + Cardinality({b \in wanted : b < a})]
Fits   == next + Cardinality(wanted) <= Atoms
Asked  == stage = "asked" /\ main = <<>>

Admit ==
  LET run == next .. next + Cardinality(wanted) - 1
  IN /\ Asked /\ Fits
     /\ side' = side \o (IF wanted = {} THEN <<>>
                         ELSE <<PublishOp(wanted, SlotOf), ZeroOp(run)>>)
                     \o <<RecordOp(events + 1)>>
     /\ events' = events + 1 /\ ready' = events + 1
     /\ next' = next + Cardinality(wanted)
     /\ stage' = "planned"
     /\ UNCHANGED <<write, calls, owed, main, fired, wanted, table, plane>>

Refuse ==
  /\ Asked /\ ~Fits
  /\ stage' = "idle"
  /\ UNCHANGED <<write, next, ready, events, calls, owed, main, side, fired, wanted,
                 table, plane>>

(* The DAG's join, or the admission's own wait.                            *)
Join ==
  /\ stage = "planned" /\ stage' = "joined"
  /\ main' = main \o Await
  /\ UNCHANGED <<write, next, ready, events, calls, owed, side, fired, wanted,
                 table, plane>>

Launch ==
  /\ stage = "joined" /\ stage' = "idle"
  /\ main' = Append(main, LaunchOp)
  /\ owed' = [a \in Atom |-> IF a \in write THEN owed[a] + 1 ELSE owed[a]]
  /\ UNCHANGED <<write, next, ready, events, calls, side, fired, wanted, table, plane>>

(* plan_exact raises after it has admitted, or a caller makes two plans    *)
(* with no launch between, and the state is used again with its admission  *)
(* not waited for.                                                         *)
Abandon ==
  /\ stage = "planned" /\ stage' = "idle"
  /\ UNCHANGED <<write, next, ready, events, calls, owed, main, side, fired, wanted,
                 table, plane>>

---------------------------------------------------------------------------
RunMain ==
  /\ main # <<>>
  /\ LET o == Head(main)
     IN /\ o.op = "await" => o.event <= fired
        /\ table'  = IF o.op = "clear" THEN [a \in Atom |-> Absent] ELSE table
        /\ wanted' = IF o.op = "ask" THEN {a \in write : table[a] = Absent} ELSE wanted
        /\ plane'  = IF o.op = "launch"
                     THEN [s \in Slot |-> plane[s] + Cardinality({a \in o.atoms : table[a] = s})]
                     ELSE plane
  /\ main' = Tail(main)
  /\ UNCHANGED <<hostVars, side, fired>>

(* index_copy_ writes its entries in no particular order.                  *)
RunPublish ==
  /\ side # <<>> /\ Head(side).op = "publish"
  /\ LET left == Head(side).slots
     IN IF DOMAIN left = {} THEN side' = Tail(side) /\ UNCHANGED table
        ELSE \E a \in DOMAIN left :
               /\ table' = [table EXCEPT ![a] = left[a]]
               /\ side' = [side EXCEPT ![1].slots = [b \in DOMAIN left \ {a} |-> left[b]]]
  /\ UNCHANGED <<hostVars, main, fired, wanted, plane>>

RunZero ==
  /\ side # <<>> /\ Head(side).op = "zero"
  /\ plane' = [s \in Slot |-> IF s \in Head(side).slots THEN 0 ELSE plane[s]]
  /\ side' = Tail(side)
  /\ UNCHANGED <<hostVars, main, fired, wanted, table>>

RunRecord ==
  /\ side # <<>> /\ Head(side).op = "record"
  /\ fired' = Head(side).event
  /\ side' = Tail(side)
  /\ UNCHANGED <<hostVars, main, wanted, table, plane>>

Next ==
  \/ \E W \in SUBSET Atom : PlanContinue(W)
  \/ \E W \in SUBSET Atom : PlanFresh(W)
  \/ Admit \/ Refuse \/ Join \/ Launch \/ Abandon
  \/ RunMain \/ RunPublish \/ RunZero \/ RunRecord

Spec == Init /\ [][Next]_vars

---------------------------------------------------------------------------
(* Every variable has its type.                                            *)
TypeOK ==
  /\ stage \in {"idle", "asked", "planned", "joined"}
  /\ write \subseteq Atom /\ wanted \subseteq Atom
  /\ next \in 0 .. Atoms
  /\ calls \in 0 .. MaxCalls /\ events \in 0 .. MaxCalls
  /\ ready \in 0 .. events /\ fired \in 0 .. events
  /\ owed \in [Atom -> 0 .. MaxCalls]
  /\ table \in [Atom -> Slot \cup {Absent}]
  /\ plane \in [Slot -> Nat]
  /\ \A i \in DOMAIN main : main[i].op \in {"await", "clear", "ask", "launch"}
  /\ \A i \in DOMAIN side : side[i].op \in {"publish", "zero", "record"}

(* The contract of _admit_pages: the atoms it publishes are "currently     *)
(* ABSENT from the table" -- when the publication runs, not when the host  *)
(* decided it.                                                             *)
ScatterTargetsAbsent ==
  side # <<>> /\ Head(side).op = "publish" =>
    \A a \in DOMAIN Head(side).slots : table[a] = Absent

(* When a launch reaches the device, every atom it writes is mapped to a   *)
(* slot of its own, and every atom reads what the calls before it owed:    *)
(* no launch starts before its admission's zeroing, and none sees a        *)
(* sequence that a fresh plan ended.                                       *)
LaunchReadsDense ==
  main # <<>> /\ Head(main).op = "launch" =>
    LET o == Head(main)
    IN /\ \A a \in o.atoms : table[a] # Absent
       /\ \A a, b \in Atom : table[a] # Absent /\ table[a] = table[b] => a = b
       /\ \A a \in Atom : o.before[a] = IF table[a] = Absent THEN 0 ELSE plane[table[a]]

=============================================================================
