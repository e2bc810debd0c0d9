----------------------------- MODULE OrderProofs -----------------------------
(***************************************************************************)
(* The two places where the order between queues of work is all there is:  *)
(* the streams an admission runs on, and the copies and barriers of an     *)
(* intra block.  They share no variable; each has its own specification    *)
(* and its own half of this module.                                        *)
(***************************************************************************)
EXTENDS StreamOrder, IntraPipeline, FiniteSetTheorems, SequenceTheorems, TLAPS

(***************************************************************************)
(* That a launch finds its admission complete and its sequence whole, for  *)
(* every number of atoms and of calls, and whatever the two streams do.    *)
(*                                                                         *)
(* The host stops at every size read, so the caller's queue never holds    *)
(* more than one launch and, behind it, one clear.  Both have a wait in    *)
(* front of them unless the side stream is idle, and a wait that is passed *)
(* leaves the side stream idle, since the host makes no admission while    *)
(* the caller's queue has work.  In between, admissions may pile up; what  *)
(* they publish and zero belongs to atoms that owe nobody anything.        *)
(***************************************************************************)

MainOp ==
  [op : {"await"}, event : Nat] \cup [op : {"clear"}] \cup [op : {"ask"}]
    \cup [op : {"launch"}, atoms : SUBSET Atom, before : [Atom -> Nat]]
SideOp ==
  [op : {"publish"}, slots : UNION {[D -> Slot] : D \in SUBSET Atom}]
    \cup [op : {"zero"}, slots : SUBSET Slot] \cup [op : {"record"}, event : Nat]

Typed ==
  /\ stage \in {"idle", "asked", "planned", "joined"}
  /\ write \in SUBSET Atom /\ wanted \in SUBSET Atom
  /\ next \in Nat /\ ready \in Nat /\ events \in Nat /\ fired \in Nat
  /\ owed \in [Atom -> Nat]
  /\ table \in [Atom -> Slot \cup {Absent}] /\ plane \in [Slot -> Nat]
  /\ main \in Seq(MainOp) /\ side \in Seq(SideOp)

MainAt == 1 .. Len(main)
SideAt == 1 .. Len(side)

Pending(op) == \E i \in MainAt : main[i].op = op

(* What the side stream still has to do.                                   *)
Publishes(i, a) == side[i].op = "publish" /\ a \in DOMAIN side[i].slots
Zeroes(i, s)    == side[i].op = "zero" /\ s \in side[i].slots

(* A slot is published before it is zeroed; the last thing the side stream *)
(* does is record the newest event, which nothing has reached before.      *)
SideOrder ==
  /\ \A i \in SideAt : \A a \in Atom : Publishes(i, a) =>
       \E j \in SideAt : i < j /\ Zeroes(j, side[i].slots[a])
  /\ \A i \in SideAt : side[i].op = "record" =>
       side[i].event <= events /\ (i < Len(side) => side[i].event < events)
  /\ side # <<>> => /\ side[Len(side)].op = "record" /\ side[Len(side)].event = events
                    /\ fired < events
  /\ fired <= events

(* No slot is named for two atoms, and none beyond the cursor unless the   *)
(* table is about to be cleared.                                           *)
Named(a, s) == table[a] = s \/ \E i \in SideAt : Publishes(i, a) /\ side[i].slots[a] = s
Distinct ==
  /\ \A a, b \in Atom : \A s \in Slot : Named(a, s) /\ Named(b, s) => a = b
  /\ ~ Pending("clear") => \A a \in Atom : \A s \in Slot : Named(a, s) => s < next

(* The caller's queue.                                                     *)
Guarded(i) == side = <<>> \/ \E j \in MainAt : j < i /\ main[j].op = "await"
Orderly(i) ==
  /\ main[i].op = "await" => main[i].event = events
  /\ main[i].op \in {"launch", "clear"} => Guarded(i)
  /\ main[i].op = "launch" =>
       \A j \in MainAt : /\ main[j].op = "launch" => i = j
                         /\ main[j].op \in {"clear", "ask"} => i < j
  /\ main[i].op = "clear" => \A j \in MainAt : main[j].op = "clear" => i = j
  /\ main[i].op \in {"clear", "ask"} => stage = "asked"
  /\ main[i].op = "ask" => i = Len(main)

MainOrder ==
  /\ \A i \in MainAt : Orderly(i)
  /\ stage = "asked" /\ main # <<>> => main[Len(main)].op = "ask"
  /\ stage \in {"planned", "joined"} => ready = events /\ ready > 0 /\ ~ Pending("launch")
  /\ stage = "planned" => main = <<>>
  /\ stage = "joined" => Guarded(Len(main) + 1)
  /\ ready \in {0, events}
  /\ ready = 0 => Guarded(Len(main) + 1)

(* The arena holds the deposits f, once the side stream is done.           *)
Holds(f) ==
  \A a \in Atom :
    /\ table[a] = Absent => f[a] = 0
    /\ table[a] # Absent => plane[table[a]] = f[a] \/ \E j \in SideAt : Zeroes(j, table[a])
    /\ \A j \in SideAt : Zeroes(j, table[a]) \/ Publishes(j, a) => f[a] = 0

Covered(a) == table[a] # Absent \/ \E i \in SideAt : Publishes(i, a)

Contents ==
  /\ \A i \in MainAt : main[i].op = "launch" =>
       /\ Holds(main[i].before) /\ \A a \in main[i].atoms : Covered(a)
       /\ ~ Pending("clear") =>
            owed = [a \in Atom |-> IF a \in main[i].atoms THEN main[i].before[a] + 1
                                                          ELSE main[i].before[a]]
  /\ ~ Pending("launch") /\ ~ Pending("clear") => Holds(owed)
  /\ Pending("clear") => owed = [a \in Atom |-> 0]
  /\ stage \in {"planned", "joined"} => \A a \in write : Covered(a)
  /\ stage = "asked" /\ main = <<>> =>
       /\ wanted \subseteq write
       /\ \A a \in write \ wanted : table[a] # Absent
       /\ \A a \in wanted : owed[a] = 0

StreamInv == Typed /\ SideOrder /\ Distinct /\ MainOrder /\ Contents

---------------------------------------------------------------------------
LEMMA Sizes == Atoms \in Nat \ {0} /\ MaxCalls \in Nat \ {0}
BY StreamAssumption

(* Operations enqueued and run.                                            *)
LEMMA Push ==
  ASSUME NEW Op, NEW s \in Seq(Op), NEW o \in Op, NEW t, t = Append(s, o)
  PROVE  /\ t \in Seq(Op) /\ Len(s) \in Nat /\ Len(t) = Len(s) + 1 /\ t # <<>>
         /\ t[Len(s) + 1] = o /\ \A i \in 1 .. Len(s) : t[i] = s[i]
BY AppendProperties, LenProperties

LEMMA Pop ==
  ASSUME NEW Op, NEW s \in Seq(Op), s # <<>>, NEW t, t = Tail(s)
  PROVE  /\ t \in Seq(Op) /\ Len(s) \in Nat /\ Len(s) >= 1 /\ Len(t) = Len(s) - 1
         /\ Head(s) = s[1] /\ s[1] \in Op
         /\ \A i \in 1 .. Len(t) : t[i] = s[i + 1]
         /\ \A i \in 2 .. Len(s) : i - 1 \in 1 .. Len(t) /\ t[i - 1] = s[i]
         /\ t = <<>> <=> Len(s) = 1
<1>1. /\ t \in Seq(Op) /\ Len(s) \in Nat /\ Len(t) = Len(s) - 1 /\ Len(t) \in Nat
      /\ \A i \in 1 .. Len(t) : t[i] = s[i + 1]
  BY HeadTailProperties, LenProperties
<1>2. \A i \in 2 .. Len(s) : i - 1 \in 1 .. Len(t) /\ t[i - 1] = s[i]
  BY <1>1
<1>3. t = <<>> <=> Len(t) = 0
  BY <1>1, EmptySeq
<1>4. Head(s) = s[1] /\ s[1] \in Op
  BY <1>1, EmptySeq, HeadTailProperties
<1>. QED
  BY <1>1, <1>2, <1>3, <1>4

LEMMA MainIsOps ==
  ASSUME Typed
  PROVE  /\ Len(main) \in Nat /\ (main = <<>> <=> Len(main) = 0)
         /\ \A i \in MainAt : main[i] \in MainOp
BY EmptySeq, LenProperties, ElementOfSeq DEF Typed, MainAt

LEMMA SideIsOps ==
  ASSUME Typed
  PROVE  /\ Len(side) \in Nat /\ (side = <<>> <=> Len(side) = 0)
         /\ \A i \in SideAt : side[i] \in SideOp
BY EmptySeq, LenProperties, ElementOfSeq DEF Typed, SideAt

---------------------------------------------------------------------------
(* The host alone: nothing on the device changes.                          *)
HostOnly == UNCHANGED <<events, side, fired, table, plane>>

LEMMA DeviceKeeps ==
  ASSUME HostOnly
  PROVE  /\ SideOrder => SideOrder'
         /\ \A f : Holds(f) => Holds(f)'
         /\ \A a : Covered(a) => Covered(a)'
         /\ \A a, s : Named(a, s)' => Named(a, s)
<1>1. SideAt' = SideAt
  BY DEF HostOnly, SideAt
<1>2. \A i, a : Publishes(i, a)' <=> Publishes(i, a)
  BY DEF HostOnly, Publishes
<1>3. \A i, s : Zeroes(i, s)' <=> Zeroes(i, s)
  BY DEF HostOnly, Zeroes
<1>4. SideOrder => SideOrder'
  BY <1>1, <1>2, <1>3 DEF SideOrder, HostOnly, Zeroes
<1>5. \A f : Holds(f) => Holds(f)'
  BY <1>1, <1>2, <1>3 DEF Holds, HostOnly, Zeroes
<1>6. \A a : Covered(a) => Covered(a)'
  BY <1>1, <1>2 DEF Covered, HostOnly
<1>7. \A a, s : Named(a, s)' => Named(a, s)
  BY <1>1, <1>2 DEF Named, HostOnly
<1>. QED
  BY <1>4, <1>5, <1>6, <1>7

(* A guard in front of a place stays where it is when the queue grows.     *)
LEMMA GuardsStay ==
  ASSUME HostOnly, NEW k \in Nat, Len(main) \in Nat, Len(main)' = Len(main) + k,
         \A i \in MainAt : main'[i] = main[i]
  PROVE  \A i : Guarded(i) => Guarded(i)'
BY DEF Guarded, HostOnly, MainAt

LEMMA PlanContinueStep ==
  ASSUME StreamInv, NEW W \in SUBSET Atom, PlanContinue(W)
  PROVE  StreamInv'
<1>1. /\ Typed /\ SideOrder /\ Distinct /\ MainOrder /\ Contents /\ HostOnly
      /\ Len(main) \in Nat /\ (main = <<>> <=> Len(main) = 0)
  BY MainIsOps DEF StreamInv, PlanContinue, HostOnly
<1>2. /\ stage = "idle" /\ stage' = "asked" /\ write' = W
      /\ UNCHANGED <<next, ready, events, owed, side, fired, wanted, table, plane>>
      /\ main' = Append(main, AskOp)
  BY DEF PlanContinue
<1>3. /\ main' \in Seq(MainOp) /\ Len(main') = Len(main) + 1 /\ main' # <<>>
      /\ main'[Len(main) + 1] = AskOp /\ \A i \in 1 .. Len(main) : main'[i] = main[i]
  BY <1>1, <1>2, Push DEF Typed, MainOp, AskOp
<1>4. Typed'
  BY <1>1, <1>2, <1>3 DEF Typed
<1>5. \A op : op # "ask" => (Pending(op)' <=> Pending(op))
  BY <1>1, <1>3 DEF Pending, MainAt, AskOp
<1>6. Distinct'
  BY <1>1, <1>2, <1>5, DeviceKeeps DEF Distinct
<1>7. MainOrder'
  <2>1. \A i : Guarded(i) => Guarded(i)'
    BY <1>1, <1>3, GuardsStay DEF MainAt
  <2>2. \A i \in MainAt : main[i].op \notin {"clear", "ask"}
    BY <1>1, <1>2 DEF MainOrder, Orderly
  <2>3. \A i \in MainAt' : i \in MainAt \/ i = Len(main) + 1
    BY <1>1, <1>3 DEF MainAt
  <2>4. PICK n \in Nat : n = Len(main)
    BY <1>1
  <2>5. ready = 0 => Guarded(n + 2)'
    <3>1. Guarded(n + 1) => Guarded(n + 2)
      BY <2>4 DEF Guarded, MainAt
    <3>. QED
      BY <1>1, <2>1, <2>4, <3>1 DEF MainOrder
  <2>6. ASSUME NEW i \in MainAt'  PROVE Orderly(i)'
    BY <1>1, <1>2, <1>3, <2>1, <2>2, <2>3 DEF MainOrder, Orderly, AskOp, MainAt
  <2>7. ready' = 0 => Guarded(Len(main) + 1)'
    <3>1. Len(main)' + 1 = n + 2
      BY <1>3, <2>4
    <3>. QED
      BY <1>2, <2>5, <3>1 DEF Guarded
  <2>. QED
    BY <1>1, <1>2, <1>3, <2>6, <2>7 DEF MainOrder, AskOp
<1>8. Contents'
  BY <1>1, <1>2, <1>3, <1>5, DeviceKeeps DEF Contents, MainAt, AskOp
<1>. QED
  BY <1>1, <1>4, <1>6, <1>7, <1>8, DeviceKeeps DEF StreamInv

(* A fresh plan: a wait if an admission is pending, the clear, the ask.    *)
LEMMA FreshQueue ==
  ASSUME StreamInv, NEW W \in SUBSET Atom, PlanFresh(W)
  PROVE  \E m \in Nat :
           /\ main' \in Seq(MainOp) /\ Len(main') = m + 2 /\ main' # <<>>
           /\ main'[m + 1] = ClearOp /\ main'[m + 2] = AskOp
           /\ \A i \in 1 .. Len(main) : main'[i] = main[i]
           /\ \/ ready = 0 /\ m = Len(main)
              \/ ready # 0 /\ m = Len(main) + 1 /\ main'[m] = AwaitOp(ready)
<1>1. main \in Seq(MainOp) /\ ready \in Nat /\ Len(main) \in Nat
  BY MainIsOps DEF StreamInv, Typed
<1>2. main' = (main \o Await) \o <<ClearOp, AskOp>>
  BY DEF PlanFresh
<1>. DEFINE two == <<ClearOp, AskOp>>
<1>3. two \in Seq(MainOp) /\ Len(two) = 2 /\ two[1] = ClearOp /\ two[2] = AskOp
  BY DEF MainOp, ClearOp, AskOp
<1>. DEFINE pre == main \o Await
<1>4. /\ pre \in Seq(MainOp) /\ Len(pre) \in Nat
      /\ \A i \in 1 .. Len(main) : pre[i] = main[i]
      /\ \/ ready = 0 /\ Len(pre) = Len(main)
         \/ ready # 0 /\ Len(pre) = Len(main) + 1 /\ pre[Len(pre)] = AwaitOp(ready)
  <2>1. CASE ready = 0
    <3>1. pre = main
      BY <1>1, <2>1, ConcatEmptySeq DEF Await
    <3>. QED
      BY <1>1, <2>1, <3>1
  <2>2. CASE ready # 0
    <3>1. AwaitOp(ready) \in MainOp /\ Await = <<AwaitOp(ready)>>
      BY <1>1, <2>2 DEF MainOp, AwaitOp, Await
    <3>2. pre = Append(main, AwaitOp(ready))
      BY <1>1, <3>1, AppendIsConcat
    <3>. HIDE DEF pre
    <3>. QED
      BY <1>1, <2>2, <3>1, <3>2, Push
  <2>. QED
    BY <2>1, <2>2
<1>. HIDE DEF pre, two
<1>5. main' = pre \o two
  BY <1>2 DEF pre, two
<1>6. /\ main' \in Seq(MainOp) /\ Len(main') = Len(pre) + 2
      /\ \A i \in 1 .. Len(pre) + 2 : main'[i] = IF i <= Len(pre) THEN pre[i] ELSE two[i - Len(pre)]
  <2>1. /\ pre \o two \in Seq(MainOp) /\ Len(pre \o two) = Len(pre) + Len(two)
        /\ \A i \in 1 .. Len(pre) + Len(two) :
             (pre \o two)[i] = IF i <= Len(pre) THEN pre[i] ELSE two[i - Len(pre)]
    BY <1>3, <1>4, ConcatProperties, Zenon
  <2>. QED
    BY <1>3, <1>5, <2>1
<1>7. /\ main'[Len(pre) + 1] = ClearOp /\ main'[Len(pre) + 2] = AskOp
      /\ \A i \in 1 .. Len(pre) : main'[i] = pre[i]
  <2>1. /\ Len(pre) + 1 - Len(pre) = 1 /\ Len(pre) + 2 - Len(pre) = 2
        /\ Len(pre) + 1 \in 1 .. Len(pre) + 2 /\ Len(pre) + 2 \in 1 .. Len(pre) + 2
    BY <1>4
  <2>. QED
    BY <1>3, <1>4, <1>6, <2>1
<1>8. main' # <<>>
  BY <1>4, <1>6, EmptySeq
<1>9. \A i \in 1 .. Len(main) : main'[i] = main[i]
  BY <1>1, <1>4, <1>7
<1>10. ready # 0 => main'[Len(pre)] = AwaitOp(ready)
  BY <1>1, <1>4, <1>7
<1>. QED
  BY <1>4, <1>6, <1>7, <1>8, <1>9, <1>10

LEMMA PlanFreshStep ==
  ASSUME StreamInv, NEW W \in SUBSET Atom, PlanFresh(W)
  PROVE  StreamInv'
<1>1. /\ Typed /\ SideOrder /\ Distinct /\ MainOrder /\ Contents /\ HostOnly
      /\ Len(main) \in Nat /\ (main = <<>> <=> Len(main) = 0)
  BY MainIsOps DEF StreamInv, PlanFresh, HostOnly
<1>2. /\ stage = "idle" /\ stage' = "asked" /\ write' = W /\ next' = 0 /\ ready' = 0
      /\ owed' = [a \in Atom |-> 0]
      /\ UNCHANGED <<events, side, fired, wanted, table, plane>>
  BY DEF PlanFresh
<1>3. PICK m \in Nat :
           /\ main' \in Seq(MainOp) /\ Len(main') = m + 2 /\ main' # <<>>
           /\ main'[m + 1] = ClearOp /\ main'[m + 2] = AskOp
           /\ \A i \in 1 .. Len(main) : main'[i] = main[i]
           /\ \/ ready = 0 /\ m = Len(main)
              \/ ready # 0 /\ m = Len(main) + 1 /\ main'[m] = AwaitOp(ready)
  BY FreshQueue
<1>4. Typed'
  BY <1>1, <1>2, <1>3 DEF Typed
<1>5. Pending("clear")'
  BY <1>3 DEF Pending, MainAt, ClearOp
<1>6. Distinct'
  BY <1>1, <1>2, <1>5, DeviceKeeps DEF Distinct
<1>7. ASSUME NEW i \in MainAt'
      PROVE  \/ i \in MainAt /\ main'[i] = main[i]
             \/ i = m /\ m \notin MainAt /\ main'[i] = AwaitOp(ready) /\ ready # 0
             \/ i = m + 1 /\ main'[i] = ClearOp
             \/ i = m + 2 /\ main'[i] = AskOp
  BY <1>1, <1>3 DEF MainAt
<1>8. \A i \in MainAt : i \in 1 .. m
  BY <1>1, <1>3 DEF MainAt
<1>9. \A i \in MainAt : main[i].op \notin {"clear", "ask"}
  BY <1>1, <1>2 DEF MainOrder, Orderly
<1>10. MainOrder'
  <2>1. \A i : Guarded(i) => Guarded(i)'
    <3>1. PICK k \in Nat : k = m + 2 - Len(main)
      BY <1>1, <1>3
    <3>. QED
      BY <1>1, <1>3, <3>1, GuardsStay DEF MainAt
  <2>2. Guarded(m + 1)'
    <3>1. CASE ready = 0
      BY <1>1, <1>3, <2>1, <3>1 DEF MainOrder
    <3>2. CASE ready # 0
      <4>1. m \in MainAt' /\ m < m + 1 /\ main'[m].op = "await"
        BY <1>1, <1>3, <3>2 DEF MainAt, AwaitOp
      <4>. QED
        BY <4>1 DEF Guarded
    <3>. QED
      BY <3>1, <3>2
  <2>3. Guarded(Len(main) + 1)'
    <3>1. Len(main)' + 1 = m + 3
      BY <1>3
    <3>. QED
      BY <2>2, <3>1 DEF Guarded, MainAt
  <2>4. ready # 0 => ready = events
    BY <1>1 DEF MainOrder
  <2>5. ASSUME NEW i \in MainAt'  PROVE Orderly(i)'
    <3>1. CASE i \in MainAt /\ main'[i] = main[i]
      BY <1>1, <1>2, <1>7, <1>8, <1>9, <2>1, <3>1 DEF MainOrder, Orderly, AwaitOp, ClearOp, AskOp
    <3>2. CASE main'[i] = AwaitOp(ready) /\ ready # 0
      BY <1>2, <2>4, <3>2 DEF Orderly, AwaitOp
    <3>3. CASE i = m + 1 /\ main'[i] = ClearOp
      BY <1>2, <1>7, <1>9, <2>2, <3>3 DEF Orderly, AwaitOp, ClearOp, AskOp
    <3>4. CASE i = m + 2 /\ main'[i] = AskOp
      BY <1>2, <1>3, <3>4 DEF Orderly, AskOp
    <3>. QED
      BY <1>7, <3>1, <3>2, <3>3, <3>4
  <2>. QED
    BY <1>1, <1>2, <1>3, <2>3, <2>5 DEF MainOrder, AskOp
<1>11. Contents'
  <2>1. ASSUME NEW i \in MainAt', main'[i].op = "launch"
        PROVE  Holds(main[i].before)' /\ \A a \in main'[i].atoms : Covered(a)'
    <3>1. i \in MainAt /\ main'[i] = main[i]
      BY <1>7, <2>1 DEF AwaitOp, ClearOp, AskOp
    <3>2. PICK f : f = main[i].before
      OBVIOUS
    <3>3. Holds(f)' /\ \A a \in main[i].atoms : Covered(a)'
      BY <1>1, <2>1, <3>1, <3>2, DeviceKeeps DEF Contents
    <3>. QED
      BY <3>1, <3>2, <3>3 DEF Holds
  <2>. QED
    BY <1>2, <1>3, <1>5, <2>1 DEF Contents
<1>. QED
  BY <1>1, <1>4, <1>6, <1>10, <1>11, DeviceKeeps DEF StreamInv

(* The host raises, in the allocator or after it has admitted.             *)
LEMMA RaiseStep ==
  ASSUME StreamInv, Refuse \/ Abandon
  PROVE  StreamInv'
<1>1. /\ Typed /\ SideOrder /\ Distinct /\ MainOrder /\ Contents /\ HostOnly
      /\ Len(main) \in Nat /\ (main = <<>> <=> Len(main) = 0)
  BY MainIsOps DEF StreamInv, Refuse, Abandon, HostOnly
<1>2. /\ main = <<>> /\ stage' = "idle"
      /\ UNCHANGED <<write, next, ready, events, calls, owed, main, side, fired, wanted,
                     table, plane>>
  BY <1>1 DEF Refuse, Abandon, Asked, MainOrder
<1>3. MainAt = {} /\ MainAt' = {}
  BY <1>1, <1>2 DEF MainAt
<1>4. Typed'
  BY <1>1, <1>2 DEF Typed
<1>5. \A op : ~ Pending(op) /\ ~ Pending(op)'
  BY <1>3 DEF Pending
<1>6. Distinct'
  BY <1>1, <1>2, <1>5, DeviceKeeps DEF Distinct
<1>7. MainOrder'
  BY <1>1, <1>2, <1>3 DEF MainOrder, Guarded
<1>8. Contents'
  BY <1>1, <1>2, <1>3, <1>5, DeviceKeeps DEF Contents, Holds
<1>. QED
  BY <1>1, <1>4, <1>6, <1>7, <1>8, DeviceKeeps DEF StreamInv

LEMMA JoinStep ==
  ASSUME StreamInv, Join
  PROVE  StreamInv'
<1>1. /\ Typed /\ SideOrder /\ Distinct /\ MainOrder /\ Contents /\ HostOnly
      /\ Len(main) \in Nat /\ (main = <<>> <=> Len(main) = 0)
  BY MainIsOps DEF StreamInv, Join, HostOnly
<1>2. /\ stage = "planned" /\ stage' = "joined" /\ main = <<>> /\ ready = events /\ ready \in Nat
      /\ ready # 0
      /\ UNCHANGED <<write, next, ready, events, calls, owed, side, fired, wanted,
                     table, plane>>
  BY <1>1 DEF Join, MainOrder, Typed
<1>3. main' = Append(main, AwaitOp(ready))
  <2>1. AwaitOp(ready) \in MainOp /\ main \in Seq(MainOp)
    BY <1>1, <1>2 DEF AwaitOp, MainOp, Typed
  <2>. QED
    BY <1>2, <2>1, AppendIsConcat DEF Join, Await
<1>4. main' \in Seq(MainOp) /\ Len(main') = 1 /\ main' # <<>> /\ main'[1] = AwaitOp(ready)
  <2>1. AwaitOp(ready) \in MainOp /\ main \in Seq(MainOp)
    BY <1>1, <1>2 DEF AwaitOp, MainOp, Typed
  <2>. QED
    BY <1>1, <1>2, <1>3, <2>1, Push
<1>5. MainAt = {} /\ MainAt' = {1}
  BY <1>1, <1>2, <1>4 DEF MainAt
<1>6. Typed'
  BY <1>1, <1>2, <1>4 DEF Typed
<1>7. \A op : ~ Pending(op) /\ (op # "await" => ~ Pending(op)')
  BY <1>4, <1>5 DEF Pending, AwaitOp
<1>8. Distinct'
  BY <1>1, <1>2, <1>7, DeviceKeeps DEF Distinct
<1>9. MainOrder'
  <2>1. Orderly(1)'
    BY <1>2, <1>4, <1>5 DEF Orderly, AwaitOp
  <2>2. Guarded(Len(main) + 1)'
    BY <1>4, <1>5 DEF Guarded, AwaitOp
  <2>. QED
    BY <1>1, <1>2, <1>4, <1>5, <1>7, <2>1, <2>2 DEF MainOrder
<1>10. Contents'
  BY <1>1, <1>2, <1>4, <1>5, <1>7, DeviceKeeps DEF Contents, AwaitOp, Holds
<1>. QED
  BY <1>1, <1>6, <1>8, <1>9, <1>10, DeviceKeeps DEF StreamInv

(* The launch: the arena holds what is owed, and from now on more is.      *)
LEMMA LaunchStep ==
  ASSUME StreamInv, Launch
  PROVE  StreamInv'
<1>1. /\ Typed /\ SideOrder /\ Distinct /\ MainOrder /\ Contents /\ HostOnly
      /\ Len(main) \in Nat /\ (main = <<>> <=> Len(main) = 0)
  BY MainIsOps DEF StreamInv, Launch, HostOnly
<1>2. /\ stage = "joined" /\ stage' = "idle" /\ main' = Append(main, LaunchOp)
      /\ owed' = [a \in Atom |-> IF a \in write THEN owed[a] + 1 ELSE owed[a]]
      /\ UNCHANGED <<write, next, ready, events, calls, side, fired, wanted, table, plane>>
  BY DEF Launch
<1>3. PICK n \in Nat : n = Len(main)
  BY <1>1
<1>4. PICK f \in [Atom -> Nat] : f = owed
  BY <1>1 DEF Typed
<1>5. LaunchOp = [op |-> "launch", atoms |-> write, before |-> f] /\ LaunchOp \in MainOp
  BY <1>1, <1>4 DEF LaunchOp, MainOp, Typed
<1>6. PICK o \in MainOp : o = LaunchOp
  BY <1>5
<1>7. /\ main' \in Seq(MainOp) /\ Len(main') = n + 1 /\ main' # <<>>
      /\ main'[n + 1] = o /\ \A i \in 1 .. n : main'[i] = main[i]
      /\ MainAt = 1 .. n /\ MainAt' = 1 .. n + 1
  <2>1. main \in Seq(MainOp) /\ main' = Append(main, o)
    BY <1>1, <1>2, <1>6 DEF Typed
  <2>2. /\ main' \in Seq(MainOp) /\ Len(main') = Len(main) + 1 /\ main' # <<>>
        /\ main'[Len(main) + 1] = o /\ \A i \in 1 .. Len(main) : main'[i] = main[i]
    BY <2>1, Push
  <2>. QED
    BY <1>3, <2>2 DEF MainAt
<1>8. Typed'
  BY <1>1, <1>2, <1>7 DEF Typed
<1>9. \A i \in MainAt : main[i].op \notin {"launch", "clear", "ask"}
  BY <1>1, <1>2 DEF MainOrder, Orderly, Pending
<1>10. ~ Pending("launch") /\ ~ Pending("clear") /\ ~ Pending("clear")' /\ Pending("launch")'
  BY <1>5, <1>6, <1>7, <1>9 DEF Pending
<1>11. Distinct'
  BY <1>1, <1>2, <1>10, DeviceKeeps DEF Distinct
<1>12. MainOrder'
  <2>1. \A i : Guarded(i) => Guarded(i)'
    BY <1>1, <1>3, <1>7, GuardsStay
  <2>2. Guarded(n + 1)'
    BY <1>1, <1>2, <1>3, <2>1 DEF MainOrder
  <2>3. ASSUME NEW i \in MainAt'  PROVE Orderly(i)'
    BY <1>1, <1>2, <1>5, <1>6, <1>7, <1>9, <2>1, <2>2 DEF MainOrder, Orderly
  <2>4. ready > 0 /\ ready = events
    BY <1>1, <1>2 DEF MainOrder
  <2>. QED
    BY <1>1, <1>2, <1>7, <2>3, <2>4 DEF MainOrder
<1>13. Contents'
  <2>1. Holds(f)' /\ \A a \in write : Covered(a)'
    BY <1>1, <1>2, <1>4, <1>10, DeviceKeeps DEF Contents
  <2>2. ASSUME NEW i \in MainAt', main'[i].op = "launch"
        PROVE  main'[i].atoms = write /\ main'[i].before = f
    BY <1>5, <1>6, <1>7, <1>9, <2>2
  <2>3. owed' = [a \in Atom |-> IF a \in write THEN f[a] + 1 ELSE f[a]]
    BY <1>2, <1>4
  <2>4. ASSUME NEW i \in MainAt', main'[i].op = "launch"
        PROVE  Holds(main[i].before)'
    BY <2>1, <2>2, <2>4 DEF Holds
  <2>. QED
    BY <1>2, <1>10, <2>1, <2>2, <2>3, <2>4 DEF Contents
<1>. QED
  BY <1>1, <1>8, <1>11, <1>12, <1>13, DeviceKeeps DEF StreamInv

---------------------------------------------------------------------------
(* The slots an admission hands out: by rank, so each once and none more   *)
(* than it counted.                                                        *)
LEMMA RankBound ==
  ASSUME NEW S \in SUBSET Nat, IsFiniteSet(S), NEW p \in S
  PROVE  /\ Cardinality(S) \in Nat
         /\ Cardinality({q \in S : q < p}) \in 0 .. Cardinality(S) - 1
<1>. DEFINE R == {q \in S : q < p}
<1>1. R \in SUBSET (S \ {p})
  OBVIOUS
<1>2. IsFiniteSet(S \ {p}) /\ Cardinality(S \ {p}) = Cardinality(S) - 1
  BY FS_RemoveElement
<1>3. IsFiniteSet(R) /\ Cardinality(R) <= Cardinality(S \ {p})
  BY <1>1, <1>2, FS_Subset
<1>4. Cardinality(S) \in Nat /\ Cardinality(R) \in Nat /\ Cardinality(S \ {p}) \in Nat
  BY <1>2, <1>3, FS_CardinalityType
<1>. QED
  BY <1>2, <1>3, <1>4

LEMMA RankIncreases ==
  ASSUME NEW S \in SUBSET Nat, IsFiniteSet(S), NEW p \in S, NEW q \in S, p < q
  PROVE  Cardinality({x \in S : x < p}) < Cardinality({x \in S : x < q})
<1>. DEFINE P == {x \in S : x < p}
            Q == {x \in S : x < q}
<1>1. P \cup {p} \in SUBSET Q /\ p \notin P
  <2>1. p \in Nat /\ q \in Nat
    OBVIOUS
  <2>2. ASSUME NEW x \in P \cup {p}  PROVE x \in S /\ x < q
    <3>1. x \in Nat /\ x \in S /\ (x < p \/ x = p)
      OBVIOUS
    <3>. QED
      BY <2>1, <3>1
  <2>3. p \notin P
    BY <2>1
  <2>4. \A x \in P \cup {p} : x \in Q
    BY <2>2
  <2>. HIDE DEF P, Q
  <2>. QED
    BY <2>3, <2>4
<1>2. P \in SUBSET S /\ Q \in SUBSET S
  OBVIOUS
<1>3. IsFiniteSet(P) /\ IsFiniteSet(Q)
  BY <1>2, FS_Subset
<1>4. Cardinality(P \cup {p}) = Cardinality(P) + 1
  BY <1>1, <1>3, FS_AddElement
<1>5. Cardinality(P \cup {p}) <= Cardinality(Q)
  BY <1>1, <1>3, FS_Subset
<1>6. Cardinality(P) \in Nat /\ Cardinality(Q) \in Nat
  BY <1>3, FS_CardinalityType
<1>. QED
  BY <1>4, <1>5, <1>6

LEMMA AtomsFinite ==
  /\ Atom \subseteq Nat /\ IsFiniteSet(Atom)
  /\ \A S \in SUBSET Atom : IsFiniteSet(S) /\ Cardinality(S) \in Nat
<1>1. 0 \in Int /\ Atoms - 1 \in Int
  BY Sizes
<1>2. IsFiniteSet(Atom)
  BY <1>1, FS_Interval DEF Atom
<1>3. ASSUME NEW S \in SUBSET Atom  PROVE IsFiniteSet(S) /\ Cardinality(S) \in Nat
  BY <1>2, FS_Subset, FS_CardinalityType
<1>4. Atom \subseteq Nat
  BY Sizes DEF Atom
<1>. QED
  BY <1>2, <1>3, <1>4

LEMMA AdmittedSlots ==
  ASSUME Typed, Fits
  PROVE  /\ Cardinality(wanted) \in Nat
         /\ SlotOf \in [wanted -> next .. next + Cardinality(wanted) - 1]
         /\ SlotOf \in [wanted -> Slot]
         /\ next .. next + Cardinality(wanted) - 1 \in SUBSET Slot
         /\ \A a, b \in wanted : SlotOf[a] = SlotOf[b] => a = b
<1>1. /\ wanted \in SUBSET Nat /\ IsFiniteSet(wanted) /\ Cardinality(wanted) \in Nat
      /\ next \in Nat
  BY AtomsFinite DEF Typed
<1>2. ASSUME NEW a \in wanted
      PROVE  /\ SlotOf[a] = next + Cardinality({b \in wanted : b < a})
             /\ Cardinality({b \in wanted : b < a}) \in 0 .. Cardinality(wanted) - 1
  BY <1>1, RankBound DEF SlotOf
<1>3. next .. next + Cardinality(wanted) - 1 \in SUBSET Slot
  BY <1>1, Sizes DEF Fits, Slot
<1>4. \A a \in wanted : SlotOf[a] \in next .. next + Cardinality(wanted) - 1
  <2>. TAKE a \in wanted
  <2>1. PICK r : r = Cardinality({b \in wanted : b < a})
    OBVIOUS
  <2>2. r \in 0 .. Cardinality(wanted) - 1 /\ SlotOf[a] = next + r
    BY <1>2, <2>1
  <2>. QED
    BY <1>1, <2>2
<1>5. SlotOf = [a \in wanted |-> SlotOf[a]]
  BY DEF SlotOf
<1>6. ASSUME NEW a \in wanted, NEW b \in wanted, SlotOf[a] = SlotOf[b]
      PROVE  a = b
  <2>. DEFINE rank(x) == Cardinality({y \in wanted : y < x})
  <2>1. a \in Nat /\ b \in Nat /\ rank(a) \in Int /\ rank(b) \in Int
    BY <1>1, <1>2
  <2>2. a < b => rank(a) < rank(b)
    BY <1>1, RankIncreases
  <2>3. b < a => rank(b) < rank(a)
    BY <1>1, RankIncreases
  <2>4. next + rank(a) = next + rank(b)
    BY <1>2, <1>6
  <2>. HIDE DEF rank
  <2>. QED
    BY <1>1, <2>1, <2>2, <2>3, <2>4
<1>. QED
  BY <1>1, <1>3, <1>4, <1>5, <1>6

(* What an admission puts on the side stream.                              *)
LEMMA AdmitQueue ==
  ASSUME StreamInv, Admit
  PROVE  \E m \in Nat :
           /\ side' \in Seq(SideOp) /\ Len(side') = m + 1 /\ side' # <<>>
           /\ side'[m + 1] = RecordOp(events + 1)
           /\ \A i \in 1 .. Len(side) : side'[i] = side[i]
           /\ \/ wanted = {} /\ m = Len(side)
              \/ /\ wanted # {} /\ m = Len(side) + 2
                 /\ side'[Len(side) + 1] = PublishOp(wanted, SlotOf)
                 /\ side'[Len(side) + 2] = ZeroOp(next .. next + Cardinality(wanted) - 1)
<1>1. side \in Seq(SideOp) /\ events \in Nat /\ Len(side) \in Nat /\ Typed /\ Fits
  BY SideIsOps DEF StreamInv, Typed, Admit
<1>. DEFINE run == next .. next + Cardinality(wanted) - 1
            pub == PublishOp(wanted, SlotOf)
            zero == ZeroOp(run)
            rec == RecordOp(events + 1)
<1>2. side' = (side \o (IF wanted = {} THEN <<>> ELSE <<pub, zero>>)) \o <<rec>>
  BY DEF Admit
<1>3. pub \in SideOp /\ zero \in SideOp /\ rec \in SideOp
  <2>1. pub.slots = [a \in wanted |-> SlotOf[a]] /\ SlotOf \in [wanted -> Slot]
    BY <1>1, AdmittedSlots DEF PublishOp
  <2>2. [a \in wanted |-> SlotOf[a]] \in UNION {[D -> Slot] : D \in SUBSET Atom}
    BY <1>1, <2>1 DEF Typed
  <2>3. pub \in SideOp
    BY <2>2 DEF PublishOp, SideOp
  <2>4. zero \in SideOp
    BY <1>1, AdmittedSlots DEF ZeroOp, SideOp
  <2>5. rec \in SideOp
    BY <1>1 DEF RecordOp, SideOp
  <2>. QED
    BY <2>3, <2>4, <2>5
<1>. HIDE DEF pub, zero, rec
<1>. DEFINE pre == side \o (IF wanted = {} THEN <<>> ELSE <<pub, zero>>)
<1>4. /\ pre \in Seq(SideOp) /\ Len(pre) \in Nat
      /\ \A i \in 1 .. Len(side) : pre[i] = side[i]
      /\ \/ wanted = {} /\ Len(pre) = Len(side)
         \/ /\ wanted # {} /\ Len(pre) = Len(side) + 2
            /\ pre[Len(side) + 1] = pub /\ pre[Len(side) + 2] = zero
  <2>1. CASE wanted = {}
    <3>1. pre = side
      BY <1>1, <2>1, ConcatEmptySeq
    <3>. QED
      BY <1>1, <2>1, <3>1
  <2>2. CASE wanted # {}
    <3>. DEFINE two == <<pub, zero>>
    <3>1. two \in Seq(SideOp) /\ Len(two) = 2 /\ two[1] = pub /\ two[2] = zero
      BY <1>3
    <3>2. pre = side \o two
      BY <2>2
    <3>. HIDE DEF two, pre
    <3>3. /\ side \o two \in Seq(SideOp) /\ Len(side \o two) = Len(side) + Len(two)
          /\ \A i \in 1 .. Len(side) + Len(two) :
               (side \o two)[i] = IF i <= Len(side) THEN side[i] ELSE two[i - Len(side)]
      BY <1>1, <3>1, ConcatProperties, Zenon
    <3>4. /\ pre \in Seq(SideOp) /\ Len(pre) = Len(side) + 2
          /\ \A i \in 1 .. Len(side) + 2 :
               pre[i] = IF i <= Len(side) THEN side[i] ELSE two[i - Len(side)]
      BY <3>1, <3>2, <3>3
    <3>5. /\ Len(side) + 1 - Len(side) = 1 /\ Len(side) + 2 - Len(side) = 2
          /\ Len(side) + 1 \in 1 .. Len(side) + 2 /\ Len(side) + 2 \in 1 .. Len(side) + 2
      BY <1>1
    <3>. QED
      BY <1>1, <2>2, <3>1, <3>4, <3>5
  <2>. QED
    BY <2>1, <2>2
<1>5. side' = pre \o <<rec>>
  BY <1>2
<1>. HIDE DEF pre
<1>6. side' = Append(pre, rec)
  BY <1>3, <1>4, <1>5, AppendIsConcat
<1>7. /\ side' \in Seq(SideOp) /\ Len(side') = Len(pre) + 1 /\ side' # <<>>
      /\ side'[Len(pre) + 1] = rec /\ \A i \in 1 .. Len(pre) : side'[i] = pre[i]
  BY <1>3, <1>4, <1>6, Push
<1>8. \A i \in 1 .. Len(side) : side'[i] = side[i]
  BY <1>1, <1>4, <1>7
<1>9. wanted # {} => side'[Len(side) + 1] = pub /\ side'[Len(side) + 2] = zero
  BY <1>1, <1>4, <1>7
<1>. QED
  BY <1>4, <1>7, <1>8, <1>9 DEF pub, zero, rec

LEMMA AdmitStep ==
  ASSUME StreamInv, Admit
  PROVE  StreamInv'
<1>1. /\ Typed /\ SideOrder /\ Distinct /\ MainOrder /\ Contents /\ Fits
      /\ Len(side) \in Nat /\ (side = <<>> <=> Len(side) = 0) /\ events \in Nat /\ fired \in Nat
  BY SideIsOps DEF StreamInv, Admit, Typed
<1>. DEFINE run == next .. next + Cardinality(wanted) - 1
<1>2. /\ main = <<>> /\ main' = main /\ stage = "asked" /\ stage' = "planned"
      /\ next' = next + Cardinality(wanted) /\ events' = events + 1 /\ ready' = events + 1
      /\ UNCHANGED <<write, owed, fired, wanted, table, plane>>
  BY DEF Admit, Asked
<1>3. PICK m \in Nat :
           /\ side' \in Seq(SideOp) /\ Len(side') = m + 1 /\ side' # <<>>
           /\ side'[m + 1] = RecordOp(events + 1)
           /\ \A i \in 1 .. Len(side) : side'[i] = side[i]
           /\ \/ wanted = {} /\ m = Len(side)
              \/ /\ wanted # {} /\ m = Len(side) + 2
                 /\ side'[Len(side) + 1] = PublishOp(wanted, SlotOf)
                 /\ side'[Len(side) + 2] = ZeroOp(run)
  BY AdmitQueue
<1>4. /\ Cardinality(wanted) \in Nat /\ next \in Nat /\ run \in SUBSET Slot
      /\ \A a \in wanted : SlotOf[a] \in run
      /\ \A a, b \in wanted : SlotOf[a] = SlotOf[b] => a = b
  BY <1>1, AdmittedSlots DEF Typed
<1>5. PICK l \in Nat : l = Len(side)
  BY <1>1
<1>6. PICK places \in [wanted -> run] : places = SlotOf
  BY <1>1, AdmittedSlots
<1>7. PICK R \in SUBSET Slot : R = run
  BY <1>4
<1>8. /\ SideAt = 1 .. l /\ SideAt' = 1 .. m + 1 /\ m >= l
      /\ \A i \in SideAt : i \in SideAt' /\ side'[i] = side[i]
  BY <1>3, <1>5 DEF SideAt
<1>9. ASSUME NEW i \in SideAt'
      PROVE  \/ i \in SideAt /\ side'[i] = side[i]
             \/ i = l + 1 /\ side'[i] = [op |-> "publish", slots |-> places] /\ wanted # {} /\ m = l + 2
             \/ i = l + 2 /\ side'[i] = [op |-> "zero", slots |-> R] /\ wanted # {} /\ m = l + 2
             \/ i = m + 1 /\ side'[i] = [op |-> "record", event |-> events + 1]
  <2>1. PublishOp(wanted, SlotOf) = [op |-> "publish", slots |-> places]
    BY <1>6 DEF PublishOp
  <2>2. ZeroOp(run) = [op |-> "zero", slots |-> R]
    BY <1>7 DEF ZeroOp
  <2>3. RecordOp(events + 1) = [op |-> "record", event |-> events + 1]
    BY DEF RecordOp
  <2>4. (wanted = {} /\ m = l) \/ (wanted # {} /\ m = l + 2)
    BY <1>3, <1>5
  <2>5. i \in SideAt \/ i = m + 1 \/ (wanted # {} /\ m = l + 2 /\ (i = l + 1 \/ i = l + 2))
    BY <1>8, <2>4
  <2>6. /\ wanted # {} => side'[l + 1] = PublishOp(wanted, SlotOf)
        /\ wanted # {} => side'[l + 2] = ZeroOp(run)
        /\ side'[m + 1] = RecordOp(events + 1)
    BY <1>3, <1>5
  <2>. HIDE DEF run
  <2>. QED
    BY <1>8, <2>1, <2>2, <2>3, <2>5, <2>6
<1>10. wanted # {} => /\ m = l + 2 /\ l + 1 \in SideAt' /\ l + 2 \in SideAt'
                      /\ side'[l + 1] = [op |-> "publish", slots |-> places]
                      /\ side'[l + 2] = [op |-> "zero", slots |-> R]
  BY <1>3, <1>5, <1>6, <1>7, <1>8 DEF PublishOp, ZeroOp
<1>11. ASSUME NEW i \in SideAt', NEW a \in Atom, Publishes(i, a)'
       PROVE  \/ i \in SideAt /\ Publishes(i, a) /\ side'[i].slots[a] = side[i].slots[a]
              \/ i = l + 1 /\ a \in wanted /\ side'[i].slots[a] = places[a]
  <2>1. DOMAIN places = wanted
    OBVIOUS
  <2>. QED
    BY <1>9, <1>11, <2>1 DEF Publishes
<1>12. ASSUME NEW i \in SideAt', NEW s, Zeroes(i, s)'
       PROVE  (i \in SideAt /\ Zeroes(i, s)) \/ (i = l + 2 /\ s \in R)
  BY <1>9, <1>12 DEF Zeroes
<1>13. \A i \in SideAt : \A a : Publishes(i, a) => Publishes(i, a)'
  BY <1>8 DEF Publishes
<1>14. \A i \in SideAt : \A s : Zeroes(i, s) => Zeroes(i, s)'
  BY <1>8 DEF Zeroes
<1>15. Typed'
  BY <1>1, <1>2, <1>3, <1>4 DEF Typed
<1>16. ~ Pending("clear") /\ ~ Pending("launch") /\ ~ Pending("clear")' /\ ~ Pending("launch")'
       /\ MainAt = {} /\ MainAt' = {}
  BY <1>1, <1>2, MainIsOps DEF Pending, MainAt
<1>17. SideOrder'
  <2>1. ASSUME NEW i \in SideAt', NEW a \in Atom, Publishes(i, a)'
        PROVE  \E j \in SideAt' : i < j /\ Zeroes(j, side[i].slots[a])'
    <3>1. CASE i \in SideAt /\ Publishes(i, a) /\ side'[i].slots[a] = side[i].slots[a]
      <4>1. PICK j \in SideAt : i < j /\ Zeroes(j, side[i].slots[a])
        BY <1>1, <3>1 DEF SideOrder
      <4>2. PICK s : s = side[i].slots[a]
        OBVIOUS
      <4>3. Zeroes(j, s)' /\ j \in SideAt'
        BY <1>8, <1>14, <4>1, <4>2
      <4>. QED
        BY <3>1, <4>1, <4>2, <4>3 DEF Zeroes
    <3>2. CASE i = l + 1 /\ a \in wanted /\ side'[i].slots[a] = places[a]
      <4>1. l + 2 \in SideAt' /\ side'[l + 2] = [op |-> "zero", slots |-> R] /\ places[a] \in R
        BY <1>6, <1>7, <1>10, <3>2
      <4>. QED
        BY <3>2, <4>1 DEF Zeroes
    <3>. QED
      BY <1>11, <2>1, <3>1, <3>2
  <2>2. ASSUME NEW i \in SideAt', side'[i].op = "record"
        PROVE  /\ side'[i].event <= events'
               /\ i < Len(side') => side'[i].event < events'
    <3>1. CASE i \in SideAt /\ side'[i] = side[i]
      <4>1. side[i].event <= events /\ side[i].event \in Nat
        BY <1>1, <2>2, <3>1, SideIsOps DEF SideOrder, SideOp
      <4>. QED
        BY <1>1, <1>2, <3>1, <4>1
    <3>2. CASE i = m + 1 /\ side'[i] = [op |-> "record", event |-> events + 1]
      BY <1>1, <1>2, <1>3, <3>2
    <3>. QED
      BY <1>9, <2>2, <3>1, <3>2
  <2>3. side'[Len(side')].op = "record" /\ side'[Len(side')].event = events' /\ fired' < events'
    BY <1>1, <1>2, <1>3 DEF SideOrder, RecordOp
  <2>. QED
    BY <1>1, <1>2, <2>1, <2>2, <2>3 DEF SideOrder
<1>18. Distinct'
  <2>1. ASSUME NEW a \in Atom, NEW s \in Slot, Named(a, s)'
        PROVE  (Named(a, s) /\ s < next) \/ (a \in wanted /\ s = places[a])
    <3>1. Named(a, s) => s < next
      BY <1>1, <1>16 DEF Distinct
    <3>2. CASE table'[a] = s
      BY <1>2, <3>1, <3>2 DEF Named
    <3>3. ASSUME NEW i \in SideAt', Publishes(i, a)', side'[i].slots[a] = s
          PROVE  (Named(a, s) /\ s < next) \/ (a \in wanted /\ s = places[a])
      BY <1>11, <3>1, <3>3 DEF Named
    <3>. QED
      BY <2>1, <3>2, <3>3 DEF Named
  <2>2. ASSUME NEW a \in wanted
        PROVE  places[a] \in Int /\ next <= places[a] /\ places[a] < next'
    BY <1>2, <1>4
  <2>3. ASSUME NEW a \in Atom, NEW b \in Atom, NEW s \in Slot, Named(a, s)', Named(b, s)'
        PROVE  a = b
    <3>1. Named(a, s) /\ Named(b, s) => a = b
      BY <1>1 DEF Distinct
    <3>2. s \in Int /\ next \in Int
      BY <1>4, Sizes DEF Slot
    <3>3. (Named(a, s) /\ s < next) \/ (a \in wanted /\ s = places[a])
      BY <2>1, <2>3
    <3>4. (Named(b, s) /\ s < next) \/ (b \in wanted /\ s = places[b])
      BY <2>1, <2>3
    <3>5. a \in wanted /\ s = places[a] => ~ (s < next)
      BY <2>2, <3>2
    <3>6. b \in wanted /\ s = places[b] => ~ (s < next)
      BY <2>2, <3>2
    <3>7. a \in wanted /\ b \in wanted /\ places[a] = places[b] => a = b
      BY <1>4, <1>6
    <3>. QED
      BY <3>1, <3>3, <3>4, <3>5, <3>6, <3>7
  <2>4. ASSUME NEW a \in Atom, NEW s \in Slot, Named(a, s)'
        PROVE  s < next'
    BY <1>2, <1>4, <2>1, <2>2, <2>4, Sizes DEF Slot
  <2>. QED
    BY <2>3, <2>4 DEF Distinct
<1>19. MainOrder'
  BY <1>1, <1>2, <1>16 DEF MainOrder
<1>20. Contents'
  <2>1. Holds(owed) /\ wanted \subseteq write /\ (\A a \in write \ wanted : table[a] # Absent)
        /\ \A a \in wanted : owed[a] = 0
    BY <1>1, <1>2, <1>16 DEF Contents
  <2>2. ASSUME NEW a \in Atom
        PROVE  /\ table'[a] = Absent => owed'[a] = 0
               /\ table'[a] # Absent => plane'[table'[a]] = owed'[a]
                                        \/ \E j \in SideAt' : Zeroes(j, table[a])'
               /\ \A j \in SideAt' : Zeroes(j, table[a])' \/ Publishes(j, a)' => owed'[a] = 0
    <3>1. PICK s \in Slot \cup {Absent} : s = table[a]
      BY <1>1 DEF Typed
    <3>2. /\ s = Absent => owed[a] = 0
          /\ s # Absent => plane[s] = owed[a] \/ \E j \in SideAt : Zeroes(j, s)
          /\ \A j \in SideAt : Zeroes(j, s) \/ Publishes(j, a) => owed[a] = 0
      BY <2>1, <3>1 DEF Holds
    <3>3. s \notin R
      <4>1. CASE s = Absent
        BY <1>7, <4>1, Sizes DEF Slot, Absent
      <4>2. CASE s \in Slot
        <5>1. s < next
          BY <1>1, <1>16, <3>1, <4>2 DEF Distinct, Named
        <5>. QED
          BY <1>4, <1>7, <4>2, <5>1, Sizes DEF Slot
      <4>. QED
        BY <4>1, <4>2
    <3>4. ASSUME NEW j \in SideAt', Zeroes(j, s)' \/ Publishes(j, a)'  PROVE owed[a] = 0
      BY <1>11, <1>12, <2>1, <3>2, <3>3, <3>4
    <3>5. s # Absent => plane[s] = owed[a] \/ \E j \in SideAt' : Zeroes(j, s)'
      BY <1>8, <1>14, <3>2
    <3>. QED
      BY <1>2, <3>1, <3>2, <3>4, <3>5 DEF Zeroes
  <2>3. Holds(owed)'
    BY <2>2 DEF Holds
  <2>4. ASSUME NEW a \in write'  PROVE Covered(a)'
    <3>1. CASE a \in wanted
      <4>1. l + 1 \in SideAt' /\ side'[l + 1] = [op |-> "publish", slots |-> places] /\ DOMAIN places = wanted
        BY <1>10, <3>1
      <4>. QED
        BY <3>1, <4>1 DEF Covered, Publishes
    <3>2. CASE a \notin wanted
      BY <1>2, <2>1, <2>4, <3>2 DEF Covered
    <3>. QED
      BY <3>1, <3>2
  <2>. QED
    BY <1>2, <1>16, <2>3, <2>4 DEF Contents
<1>. QED
  BY <1>15, <1>17, <1>18, <1>19, <1>20 DEF StreamInv

---------------------------------------------------------------------------
(* The caller's stream takes one operation.                                *)
LEMMA MainPops ==
  ASSUME Typed, SideOrder, MainOrder, RunMain
  PROVE  \E n \in Nat :
           /\ Len(main) = n + 1 /\ main' \in Seq(MainOp) /\ Len(main') = n
           /\ (main' = <<>> <=> n = 0) /\ main # <<>>
           /\ MainAt = 1 .. n + 1 /\ MainAt' = 1 .. n
           /\ Head(main) = main[1] /\ main[1] \in MainOp
           /\ \A i \in 1 .. n : main'[i] = main[i + 1]
           /\ main[1].op = "await" => side = <<>>
           /\ \A i \in 1 .. n + 1 : Guarded(i + 1) => Guarded(i)'
<1>1. main \in Seq(MainOp) /\ main # <<>> /\ main' = Tail(main) /\ side' = side
      /\ fired \in Nat /\ events \in Nat
  BY DEF RunMain, Typed
<1>2. /\ main' \in Seq(MainOp) /\ Len(main) \in Nat /\ Len(main) >= 1 /\ Len(main') = Len(main) - 1
      /\ Head(main) = main[1] /\ main[1] \in MainOp
      /\ \A i \in 1 .. Len(main') : main'[i] = main[i + 1]
      /\ (main' = <<>> <=> Len(main) = 1)
  <2>. DEFINE t == Tail(main)
  <2>1. /\ t \in Seq(MainOp) /\ Len(main) \in Nat /\ Len(main) >= 1 /\ Len(t) = Len(main) - 1
        /\ Head(main) = main[1] /\ main[1] \in MainOp
        /\ \A i \in 1 .. Len(t) : t[i] = main[i + 1]
        /\ (t = <<>> <=> Len(main) = 1)
    BY <1>1, Pop
  <2>. HIDE DEF t
  <2>2. main' = t
    BY <1>1 DEF t
  <2>. QED
    BY <2>1, <2>2
<1>3. PICK n \in Nat : Len(main) = n + 1 /\ Len(main') = n
  <2>1. Len(main) - 1 \in Nat /\ Len(main) = (Len(main) - 1) + 1
    BY <1>2
  <2>. QED
    BY <1>2, <2>1
<1>4. MainAt = 1 .. n + 1 /\ MainAt' = 1 .. n
  BY <1>3 DEF MainAt
<1>5. (main' = <<>> <=> n = 0) /\ \A i \in 1 .. n : main'[i] = main[i + 1]
  BY <1>2, <1>3
<1>6. main[1].op = "await" => side = <<>>
  <2>. SUFFICES ASSUME main[1].op = "await"  PROVE side = <<>>
    OBVIOUS
  <2>1. main[1].event = events
    BY <1>4 DEF MainOrder, Orderly
  <2>2. main[1].event <= fired
    BY <1>2 DEF RunMain
  <2>. QED
    BY <1>1, <2>1, <2>2 DEF SideOrder
<1>7. ASSUME NEW i \in 1 .. n + 1, Guarded(i + 1)  PROVE Guarded(i)'
  <2>1. CASE side = <<>>
    BY <1>1, <2>1 DEF Guarded
  <2>2. CASE side # <<>>
    <3>1. PICK j \in MainAt : j < i + 1 /\ main[j].op = "await"
      BY <1>7, <2>2 DEF Guarded
    <3>2. j # 1 /\ j \in 1 .. n + 1
      BY <1>4, <1>6, <2>2, <3>1
    <3>3. PICK k \in 1 .. n : j = k + 1
      <4>1. j - 1 \in 1 .. n /\ j = (j - 1) + 1
        BY <3>2
      <4>. QED
        BY <4>1
    <3>4. main'[k] = main[j] /\ k < i /\ k \in MainAt'
      BY <1>4, <1>5, <3>1, <3>3
    <3>. QED
      BY <3>1, <3>4 DEF Guarded
  <2>. QED
    BY <2>1, <2>2
<1>. QED
  BY <1>1, <1>2, <1>3, <1>4, <1>5, <1>6, <1>7

LEMMA MainOrderPops ==
  ASSUME Typed, SideOrder, MainOrder, RunMain
  PROVE  /\ MainOrder'
         /\ \A i \in MainAt' : i + 1 \in MainAt /\ main'[i] = main[i + 1]
         /\ \A op : Pending(op)' => Pending(op)
         /\ \A op : op # main[1].op /\ Pending(op) => Pending(op)'
         /\ stage = "asked" => (main' = <<>> <=> main[1].op = "ask")
         /\ main[1].op \in {"launch", "clear"} => side = <<>>
         /\ main[1].op = "launch" => ~ Pending("launch")'
         /\ main[1].op = "clear" => ~ Pending("clear")' /\ ~ Pending("launch")'
<1>1. PICK n \in Nat :
           /\ Len(main) = n + 1 /\ main' \in Seq(MainOp) /\ Len(main') = n
           /\ (main' = <<>> <=> n = 0) /\ main # <<>>
           /\ MainAt = 1 .. n + 1 /\ MainAt' = 1 .. n
           /\ Head(main) = main[1] /\ main[1] \in MainOp
           /\ \A i \in 1 .. n : main'[i] = main[i + 1]
           /\ main[1].op = "await" => side = <<>>
           /\ \A i \in 1 .. n + 1 : Guarded(i + 1) => Guarded(i)'
  BY MainPops
<1>2. UNCHANGED <<hostVars, side, fired>> /\ stage' = stage /\ events' = events /\ ready' = ready
  BY DEF RunMain, hostVars
<1>3. \A i \in MainAt' : i + 1 \in MainAt /\ main'[i] = main[i + 1]
  BY <1>1
<1>4. \A op : Pending(op)' => Pending(op)
  BY <1>3 DEF Pending
<1>5. ASSUME NEW op, op # main[1].op, Pending(op)  PROVE Pending(op)'
  <2>1. PICK i \in MainAt : main[i].op = op
    BY <1>5 DEF Pending
  <2>2. PICK k \in 1 .. n : i = k + 1
    <3>1. i # 1 /\ i \in 1 .. n + 1
      BY <1>1, <1>5, <2>1
    <3>2. i - 1 \in 1 .. n /\ i = (i - 1) + 1
      BY <3>1
    <3>. QED
      BY <3>2
  <2>. QED
    BY <1>1, <2>1, <2>2 DEF Pending
<1>6. stage = "asked" => (main' = <<>> <=> main[1].op = "ask")
  <2>1. stage = "asked" => main[n + 1].op = "ask"
    BY <1>1 DEF MainOrder
  <2>2. main[1].op = "ask" => n = 0
    BY <1>1 DEF MainOrder, Orderly
  <2>. QED
    BY <1>1, <2>1, <2>2
<1>7. ASSUME main[1].op \in {"launch", "clear"}
      PROVE  /\ side = <<>>
             /\ main[1].op = "launch" => ~ Pending("launch")'
             /\ main[1].op = "clear" => ~ Pending("clear")' /\ ~ Pending("launch")'
  <2>1. 1 \in MainAt /\ \A i \in MainAt : Orderly(i)
    BY <1>1 DEF MainOrder
  <2>2. side = <<>>
    BY <1>1, <1>7, <2>1 DEF Orderly, Guarded
  <2>3. /\ main[1].op = "launch" => \A j \in MainAt : main[j].op = "launch" => 1 = j
        /\ main[1].op = "clear" => \A j \in MainAt : main[j].op = "clear" => 1 = j
    <3>1. Orderly(1)
      BY <2>1
    <3>. QED
      BY <3>1 DEF Orderly
  <2>4. \A k \in MainAt : main[k].op = "launch" /\ main[1].op = "clear" => k < 1
    BY <2>1 DEF Orderly
  <2>5. ASSUME NEW x \in MainAt'
        PROVE  /\ main[1].op = "launch" => main'[x].op # "launch"
               /\ main[1].op = "clear" => main'[x].op # "clear" /\ main'[x].op # "launch"
    <3>1. PICK k \in MainAt : k = x + 1 /\ main'[x] = main[k] /\ k # 1 /\ ~ (k < 1)
      BY <1>1
    <3>. QED
      BY <2>3, <2>4, <3>1
  <2>. QED
    BY <2>2, <2>5 DEF Pending
<1>8. MainOrder'
  <2>1. ASSUME NEW i \in MainAt'  PROVE Orderly(i)'
    <3>1. PICK k \in MainAt : k = i + 1 /\ main'[i] = main[k] /\ Orderly(k)
      BY <1>3 DEF MainOrder
    <3>2. Guarded(k) => Guarded(i)'
      BY <1>1, <3>1
    <3>. QED
      BY <1>1, <1>2, <1>3, <3>1, <3>2 DEF Orderly
  <2>2. Guarded(n + 2) => Guarded(n + 1)'
    BY <1>1
  <2>. QED
    BY <1>1, <1>2, <1>4, <2>1, <2>2 DEF MainOrder
<1>. QED
  BY <1>3, <1>4, <1>5, <1>6, <1>7, <1>8

LEMMA SideStays ==
  ASSUME UNCHANGED <<side, events, fired>>
  PROVE  /\ SideAt' = SideAt /\ (SideOrder => SideOrder')
         /\ \A i, a : Publishes(i, a)' <=> Publishes(i, a)
         /\ \A i, s : Zeroes(i, s)' <=> Zeroes(i, s)
<1>1. SideAt' = SideAt
  BY DEF SideAt
<1>2. \A i, a : Publishes(i, a)' <=> Publishes(i, a)
  BY DEF Publishes
<1>3. \A i, s : Zeroes(i, s)' <=> Zeroes(i, s)
  BY DEF Zeroes
<1>4. SideOrder => SideOrder'
  BY <1>1, <1>2, <1>3 DEF SideOrder, Zeroes
<1>. QED
  BY <1>1, <1>2, <1>3, <1>4

(* What is known of the caller's queue when its head h is taken.           *)
Taken(h) ==
  /\ h \in MainOp /\ 1 \in MainAt /\ h = main[1]
  /\ \A i \in MainAt' : i + 1 \in MainAt /\ main'[i] = main[i + 1]
  /\ \A op : Pending(op)' => Pending(op)
  /\ \A op : op # h.op /\ Pending(op) => Pending(op)'
  /\ stage = "asked" => (main' = <<>> <=> h.op = "ask")
  /\ h.op \in {"launch", "clear"} => side = <<>> /\ SideAt = {}
  /\ h.op = "launch" => ~ Pending("launch")' /\ Pending("launch")
  /\ h.op = "clear" => ~ Pending("clear")' /\ ~ Pending("launch")' /\ Pending("clear")
  /\ UNCHANGED <<hostVars, side, fired>>
  /\ table'  = IF h.op = "clear" THEN [a \in Atom |-> Absent] ELSE table
  /\ wanted' = IF h.op = "ask" THEN {a \in write : table[a] = Absent} ELSE wanted
  /\ plane'  = IF h.op = "launch"
               THEN [s \in Slot |-> plane[s] + Cardinality({a \in h.atoms : table[a] = s})]
               ELSE plane

LEMMA MainTaken ==
  ASSUME StreamInv, RunMain
  PROVE  MainOrder' /\ main' \in Seq(MainOp) /\ \E h : Taken(h)
<1>1. Typed /\ SideOrder /\ MainOrder
  BY DEF StreamInv
<1>2. PICK n \in Nat :
           /\ Len(main) = n + 1 /\ main' \in Seq(MainOp) /\ Len(main') = n
           /\ (main' = <<>> <=> n = 0) /\ main # <<>>
           /\ MainAt = 1 .. n + 1 /\ MainAt' = 1 .. n
           /\ Head(main) = main[1] /\ main[1] \in MainOp
           /\ \A i \in 1 .. n : main'[i] = main[i + 1]
           /\ main[1].op = "await" => side = <<>>
           /\ \A i \in 1 .. n + 1 : Guarded(i + 1) => Guarded(i)'
  BY <1>1, MainPops
<1>3. PICK h \in MainOp : h = main[1] /\ h = Head(main)
  BY <1>2
<1>4. /\ MainOrder'
      /\ \A i \in MainAt' : i + 1 \in MainAt /\ main'[i] = main[i + 1]
      /\ \A op : Pending(op)' => Pending(op)
      /\ \A op : op # h.op /\ Pending(op) => Pending(op)'
      /\ stage = "asked" => (main' = <<>> <=> h.op = "ask")
      /\ h.op \in {"launch", "clear"} => side = <<>>
      /\ h.op = "launch" => ~ Pending("launch")'
      /\ h.op = "clear" => ~ Pending("clear")' /\ ~ Pending("launch")'
  BY <1>1, <1>3, MainOrderPops
<1>5. 1 \in MainAt /\ (h.op = "launch" => Pending("launch")) /\ (h.op = "clear" => Pending("clear"))
  BY <1>2, <1>3 DEF Pending
<1>6. side = <<>> => SideAt = {}
  BY <1>1, SideIsOps DEF SideAt
<1>7. /\ UNCHANGED <<hostVars, side, fired>>
      /\ table'  = IF h.op = "clear" THEN [a \in Atom |-> Absent] ELSE table
      /\ wanted' = IF h.op = "ask" THEN {a \in write : table[a] = Absent} ELSE wanted
      /\ plane'  = IF h.op = "launch"
                   THEN [s \in Slot |-> plane[s] + Cardinality({a \in h.atoms : table[a] = s})]
                   ELSE plane
  BY <1>3 DEF RunMain
<1>8. Taken(h)
  BY <1>3, <1>4, <1>5, <1>6, <1>7 DEF Taken
<1>. QED
  BY <1>2, <1>4, <1>8

LEMMA TakenTyped ==
  ASSUME Typed, NEW h, Taken(h), main' \in Seq(MainOp)
  PROVE  Typed'
<1>1. [a \in Atom |-> Absent] \in [Atom -> Slot \cup {Absent}]
  OBVIOUS
<1>2. {a \in write : table[a] = Absent} \in SUBSET Atom
  BY DEF Typed
<1>3. ASSUME h.op = "launch"
      PROVE  [s \in Slot |-> plane[s] + Cardinality({a \in h.atoms : table[a] = s})] \in [Slot -> Nat]
  <2>1. h.atoms \in SUBSET Atom
    BY <1>3 DEF Taken, MainOp
  <2>2. ASSUME NEW s \in Slot
        PROVE  plane[s] + Cardinality({a \in h.atoms : table[a] = s}) \in Nat
    <3>1. {a \in h.atoms : table[a] = s} \in SUBSET Atom
      BY <2>1
    <3>2. Cardinality({a \in h.atoms : table[a] = s}) \in Nat
      BY <3>1, AtomsFinite
    <3>. QED
      BY <3>2 DEF Typed
  <2>. QED
    BY <2>2
<1>. QED
  BY <1>1, <1>2, <1>3 DEF Typed, Taken, hostVars

(* A wait passed, or the absent atoms found: the arena is as it was.       *)
LEMMA QuietStep ==
  ASSUME StreamInv, NEW h, Taken(h), h.op \in {"await", "ask"}
  PROVE  Distinct' /\ Contents'
<1>1. /\ Distinct /\ Contents /\ HostOnly
      /\ UNCHANGED <<stage, write, next, owed, side, table, plane>>
  BY DEF StreamInv, Taken, HostOnly, hostVars
<1>2. /\ Pending("clear")' <=> Pending("clear")
      /\ Pending("launch")' <=> Pending("launch")
  BY DEF Taken
<1>3. Distinct'
  BY <1>1, <1>2, DeviceKeeps DEF Distinct
<1>4. ASSUME NEW i \in MainAt', main'[i].op = "launch"
      PROVE  /\ Holds(main[i].before)' /\ \A a \in main'[i].atoms : Covered(a)'
             /\ ~ Pending("clear")' =>
                  owed' = [a \in Atom |-> IF a \in main'[i].atoms THEN main'[i].before[a] + 1
                                                                 ELSE main'[i].before[a]]
  <2>1. PICK k \in MainAt : main'[i] = main[k]
    BY DEF Taken
  <2>2. PICK f, W : f = main[k].before /\ W = main[k].atoms
    OBVIOUS
  <2>3. /\ Holds(f) /\ \A a \in W : Covered(a)
        /\ ~ Pending("clear") => owed = [a \in Atom |-> IF a \in W THEN f[a] + 1 ELSE f[a]]
    BY <1>1, <1>4, <2>1, <2>2 DEF Contents
  <2>4. Holds(f)' /\ \A a \in W : Covered(a)'
    BY <1>1, <2>3, DeviceKeeps
  <2>. QED
    BY <1>1, <1>2, <2>1, <2>2, <2>3, <2>4 DEF Holds
<1>5. ASSUME stage = "asked", main' = <<>>
      PROVE  /\ wanted' \subseteq write /\ \A a \in write \ wanted' : table[a] # Absent
             /\ \A a \in wanted' : owed[a] = 0
  <2>1. h.op = "ask" /\ wanted' = {a \in write : table[a] = Absent} /\ write \in SUBSET Atom
    BY <1>5 DEF Taken, StreamInv, Typed
  <2>2. ~ Pending("launch")' /\ ~ Pending("clear")'
    BY <1>5, LenProperties, EmptySeq DEF Pending, MainAt
  <2>3. Holds(owed)
    BY <1>1, <1>2, <2>2 DEF Contents
  <2>. QED
    BY <2>1, <2>3 DEF Holds
<1>6. /\ ~ Pending("launch")' /\ ~ Pending("clear")' => Holds(owed)'
      /\ \A a : Covered(a) => Covered(a)'
  <2>1. PICK f : f = owed
    OBVIOUS
  <2>2. ~ Pending("launch")' /\ ~ Pending("clear")' => Holds(f)
    BY <1>1, <1>2, <2>1 DEF Contents
  <2>3. Holds(f)' => Holds(owed)'
    BY <1>1, <2>1 DEF Holds
  <2>. QED
    BY <1>1, <2>2, <2>3, DeviceKeeps
<1>7. Contents'
  BY <1>1, <1>2, <1>4, <1>5, <1>6 DEF Contents
<1>. QED
  BY <1>3, <1>7

(* The clear of a fresh plan: the side stream is idle and nothing is owed. *)
LEMMA ClearStep ==
  ASSUME StreamInv, NEW h, Taken(h), h.op = "clear"
  PROVE  Distinct' /\ Contents'
<1>1. /\ stage = "asked" /\ stage' = stage /\ SideAt' = {} /\ owed = [a \in Atom |-> 0] /\ owed' = owed
      /\ table' = [a \in Atom |-> Absent]
      /\ ~ Pending("clear")' /\ ~ Pending("launch")' /\ main' # <<>>
  <2>1. stage = "asked"
    BY DEF StreamInv, MainOrder, Orderly, Taken
  <2>2. SideAt' = SideAt /\ SideAt = {}
    BY SideStays DEF Taken, hostVars
  <2>3. owed = [a \in Atom |-> 0]
    BY DEF StreamInv, Contents, Taken
  <2>. QED
    BY <2>1, <2>2, <2>3 DEF Taken, hostVars
<1>2. \A s \in Slot : s # Absent
  BY Sizes DEF Slot, Absent
<1>3. Distinct'
  BY <1>1, <1>2 DEF Distinct, Named
<1>4. Holds(owed)'
  BY <1>1 DEF Holds
<1>5. \A i \in MainAt' : main'[i].op # "launch"
  BY <1>1 DEF Pending
<1>. QED
  BY <1>1, <1>3, <1>4, <1>5 DEF Contents

(* The launch itself: every atom of it has a slot of its own, which gets   *)
(* one deposit.                                                            *)
LEMMA DepositStep ==
  ASSUME StreamInv, NEW h, Taken(h), h.op = "launch"
  PROVE  Distinct' /\ Contents'
<1>1. PICK f \in [Atom -> Nat] : f = h.before
  BY DEF Taken, MainOp
<1>2. PICK W \in SUBSET Atom : W = h.atoms
  BY DEF Taken, MainOp
<1>3. PICK tab \in [Atom -> Slot \cup {Absent}] : tab = table
  BY DEF StreamInv, Typed
<1>4. PICK pl \in [Slot -> Nat] : pl = plane
  BY DEF StreamInv, Typed
<1>5. /\ SideAt = {} /\ SideAt' = {}
      /\ table' = tab /\ plane' = [s \in Slot |-> pl[s] + Cardinality({a \in W : tab[a] = s})]
      /\ ~ Pending("launch")' /\ (Pending("clear")' <=> Pending("clear")) /\ Pending("launch")
      /\ UNCHANGED <<stage, next, owed>>
  <2>1. SideAt' = SideAt /\ SideAt = {}
    BY SideStays DEF Taken, hostVars
  <2>. QED
    BY <1>2, <1>3, <1>4, <2>1 DEF Taken, hostVars
<1>6. /\ \A a \in Atom : tab[a] = Absent => f[a] = 0
      /\ \A a \in Atom : tab[a] # Absent => pl[tab[a]] = f[a]
      /\ \A a \in W : tab[a] # Absent
      /\ ~ Pending("clear") => owed = [a \in Atom |-> IF a \in W THEN f[a] + 1 ELSE f[a]]
      /\ Pending("clear") => owed = [a \in Atom |-> 0]
  <2>1. 1 \in MainAt /\ main[1] = h
    BY DEF Taken
  <2>2. Holds(f) /\ \A a \in W : Covered(a)
    BY <1>1, <1>2, <2>1 DEF StreamInv, Contents
  <2>3. /\ ~ Pending("clear") => owed = [a \in Atom |-> IF a \in W THEN f[a] + 1 ELSE f[a]]
        /\ Pending("clear") => owed = [a \in Atom |-> 0]
    BY <1>1, <1>2, <2>1 DEF StreamInv, Contents
  <2>. QED
    BY <1>3, <1>4, <1>5, <2>2, <2>3 DEF Holds, Covered
<1>7. Distinct'
  <2>1. \A a, s : Named(a, s)' <=> Named(a, s)
    BY <1>3, <1>5 DEF Named
  <2>. QED
    BY <1>5, <2>1 DEF StreamInv, Distinct
<1>8. \A a, b \in Atom : tab[a] = tab[b] /\ tab[a] # Absent => a = b
  BY <1>3 DEF StreamInv, Distinct, Named
<1>9. ASSUME NEW a \in Atom, tab[a] # Absent
      PROVE  Cardinality({b \in W : tab[b] = tab[a]}) = IF a \in W THEN 1 ELSE 0
  <2>1. a \in W => {b \in W : tab[b] = tab[a]} = {a}
    BY <1>8, <1>9
  <2>2. a \notin W => {b \in W : tab[b] = tab[a]} = {}
    BY <1>8, <1>9
  <2>. QED
    BY <2>1, <2>2, FS_Singleton, FS_EmptySet
<1>10. ~ Pending("clear")' => Holds(owed)'
  <2>. SUFFICES ASSUME ~ Pending("clear")'  PROVE Holds(owed)'
    OBVIOUS
  <2>1. owed' = [a \in Atom |-> IF a \in W THEN f[a] + 1 ELSE f[a]]
    BY <1>5, <1>6
  <2>2. ASSUME NEW a \in Atom
        PROVE  /\ table'[a] = Absent => owed'[a] = 0
               /\ table'[a] # Absent => plane'[table'[a]] = owed'[a]
    <3>1. table'[a] = Absent => owed'[a] = 0
      BY <1>5, <1>6, <2>1
    <3>2. CASE tab[a] # Absent
      <4>1. tab[a] \in Slot /\ pl[tab[a]] = f[a] /\ f[a] \in Nat
        BY <1>6, <3>2
      <4>2. plane'[tab[a]] = f[a] + Cardinality({b \in W : tab[b] = tab[a]})
        BY <1>5, <4>1
      <4>3. plane'[tab[a]] = IF a \in W THEN f[a] + 1 ELSE f[a]
        BY <1>9, <3>2, <4>1, <4>2
      <4>. QED
        BY <1>5, <2>1, <3>1, <4>3
    <3>. QED
      BY <1>5, <3>1, <3>2
  <2>. QED
    BY <1>5, <2>2 DEF Holds
<1>11. /\ stage \notin {"planned", "joined"}
       /\ stage' = "asked" => main' # <<>>
       /\ \A i \in MainAt' : main'[i].op # "launch"
  BY <1>5 DEF StreamInv, MainOrder, Taken, Pending
<1>. QED
  BY <1>5, <1>6, <1>7, <1>10, <1>11 DEF Contents

LEMMA RunMainStep ==
  ASSUME StreamInv, RunMain
  PROVE  StreamInv'
<1>1. PICK h : Taken(h)
  BY MainTaken
<1>2. MainOrder' /\ main' \in Seq(MainOp)
  BY MainTaken
<1>3. Typed'
  BY <1>1, <1>2, TakenTyped DEF StreamInv
<1>4. SideOrder'
  BY <1>1, SideStays DEF Taken, hostVars, StreamInv
<1>5. h.op \in {"await", "ask", "clear", "launch"}
  BY <1>1 DEF Taken, MainOp
<1>6. Distinct' /\ Contents'
  BY <1>1, <1>5, QuietStep, ClearStep, DepositStep
<1>. QED
  BY <1>2, <1>3, <1>4, <1>6 DEF StreamInv

---------------------------------------------------------------------------
(* The side stream.  It never has work the caller's queue does not know    *)
(* of: what is in front of a launch or a clear is a wait, and stays one.   *)
SideOnly == UNCHANGED <<hostVars, main, wanted>>

(* It takes a step that keeps the deposits, what is covered and who is     *)
(* named: the rest of the invariant follows.                               *)
LEMMA SideKeeps ==
  ASSUME StreamInv, SideOnly, side # <<>>, Typed', SideOrder',
         \A f : Holds(f) => Holds(f)',
         \A a : Covered(a) => Covered(a)',
         \A a \in Atom : \A s \in Slot : Named(a, s)' => Named(a, s),
         \A a \in Atom : table[a] # Absent => table'[a] # Absent
  PROVE  StreamInv'
<1>1. /\ Typed /\ SideOrder /\ Distinct /\ MainOrder /\ Contents
      /\ MainAt' = MainAt
      /\ UNCHANGED <<stage, write, next, ready, events, owed, main, wanted>>
  BY DEF StreamInv, SideOnly, hostVars, MainAt
<1>2. \A op : Pending(op)' <=> Pending(op)
  BY <1>1 DEF Pending
<1>3. \A i : Guarded(i) => Guarded(i)'
  BY <1>1 DEF Guarded
<1>4. Distinct'
  BY <1>1, <1>2 DEF Distinct
<1>5. MainOrder'
  <2>1. \A i \in MainAt' : Orderly(i)'
    BY <1>1, <1>3 DEF MainOrder, Orderly
  <2>2. Guarded(Len(main) + 1) => Guarded(Len(main) + 1)'
    BY <1>1, <1>3 DEF Guarded
  <2>. QED
    BY <1>1, <1>2, <2>1, <2>2 DEF MainOrder
<1>6. Contents'
  <2>1. ASSUME NEW i \in MainAt', main'[i].op = "launch"
        PROVE  /\ Holds(main[i].before)' /\ \A a \in main'[i].atoms : Covered(a)'
               /\ ~ Pending("clear")' =>
                    owed' = [a \in Atom |-> IF a \in main'[i].atoms THEN main'[i].before[a] + 1
                                                                   ELSE main'[i].before[a]]
    <3>1. PICK g, W : g = main[i].before /\ W = main[i].atoms
      OBVIOUS
    <3>2. /\ Holds(g) /\ \A a \in W : Covered(a)
          /\ ~ Pending("clear") => owed = [a \in Atom |-> IF a \in W THEN g[a] + 1 ELSE g[a]]
      BY <1>1, <2>1, <3>1 DEF Contents
    <3>3. Holds(g)' /\ \A a \in W : Covered(a)'
      BY <3>2
    <3>. QED
      BY <1>1, <1>2, <3>1, <3>2, <3>3 DEF Holds
  <2>2. ~ Pending("launch")' /\ ~ Pending("clear")' => Holds(owed)'
    <3>1. PICK g : g = owed
      OBVIOUS
    <3>2. ~ Pending("launch")' /\ ~ Pending("clear")' => Holds(g)'
      BY <1>1, <1>2, <3>1 DEF Contents
    <3>. QED
      BY <1>1, <3>1, <3>2 DEF Holds
  <2>3. stage = "asked" /\ main = <<>> => \A a \in write \ wanted : table'[a] # Absent
    BY <1>1 DEF Contents, Typed
  <2>. QED
    BY <1>1, <1>2, <2>1, <2>2, <2>3 DEF Contents
<1>. QED
  BY <1>4, <1>5, <1>6 DEF StreamInv

(* One operation done: a publication with nothing left, a zeroing, a       *)
(* record.                                                                 *)
SideTaken(h) ==
  /\ h \in SideOp /\ 1 \in SideAt /\ h = side[1] /\ side' \in Seq(SideOp)
  /\ \A i \in SideAt' : i + 1 \in SideAt /\ side'[i] = side[i + 1]
  /\ \A k \in SideAt : k # 1 => k - 1 \in SideAt' /\ side'[k - 1] = side[k]
  /\ Len(side) \in Nat /\ Len(side') = Len(side) - 1 /\ (side' = <<>> <=> Len(side) = 1)
  /\ h.op = "publish" => DOMAIN h.slots = {}
  /\ table' = table
  /\ plane' = [s \in Slot |-> IF h.op = "zero" /\ s \in h.slots THEN 0 ELSE plane[s]]
  /\ fired' = IF h.op = "record" THEN h.event ELSE fired

LEMMA SideTakes ==
  ASSUME StreamInv, side # <<>>, side' = Tail(side),
         \/ RunPublish /\ DOMAIN Head(side).slots = {}
         \/ RunZero
         \/ RunRecord
  PROVE  SideOnly /\ \E h : SideTaken(h)
<1>1. Typed /\ side \in Seq(SideOp) /\ plane \in [Slot -> Nat]
  BY DEF StreamInv, Typed
<1>. DEFINE t == Tail(side)
<1>2. /\ t \in Seq(SideOp) /\ Len(side) \in Nat /\ Len(side) >= 1 /\ Len(t) = Len(side) - 1
      /\ Head(side) = side[1] /\ side[1] \in SideOp
      /\ \A i \in 1 .. Len(t) : t[i] = side[i + 1]
      /\ \A i \in 2 .. Len(side) : i - 1 \in 1 .. Len(t) /\ t[i - 1] = side[i]
      /\ (t = <<>> <=> Len(side) = 1)
  BY <1>1, Pop
<1>3. side' = t
  OBVIOUS
<1>. HIDE DEF t
<1>4. /\ \A i \in SideAt' : i + 1 \in SideAt /\ side'[i] = side[i + 1]
      /\ \A k \in SideAt : k # 1 => k - 1 \in SideAt' /\ side'[k - 1] = side[k]
  <2>1. SideAt = 1 .. Len(side) /\ SideAt' = 1 .. Len(t)
    BY <1>3 DEF SideAt
  <2>2. \A k \in SideAt : k # 1 => k \in 2 .. Len(side)
    BY <1>2, <2>1
  <2>. QED
    BY <1>2, <1>3, <2>1, <2>2
<1>5. PICK h \in SideOp : h = side[1] /\ h = Head(side)
  BY <1>2
<1>6. plane = [s \in Slot |-> plane[s]]
  BY <1>1
<1>7. /\ h \in SideOp /\ 1 \in SideAt /\ h = side[1] /\ side' \in Seq(SideOp)
      /\ Len(side) \in Nat /\ Len(side') = Len(side) - 1 /\ (side' = <<>> <=> Len(side) = 1)
  <2>1. 1 \in SideAt
    BY <1>2 DEF SideAt
  <2>2. side' \in Seq(SideOp) /\ Len(side') = Len(side) - 1 /\ (side' = <<>> <=> Len(side) = 1)
    BY <1>2, <1>3
  <2>. QED
    BY <1>2, <1>5, <2>1, <2>2
<1>8. ASSUME h.op # "zero"
       PROVE  [s \in Slot |-> IF h.op = "zero" /\ s \in h.slots THEN 0 ELSE plane[s]] = plane
  BY <1>6, <1>8
<1>9. CASE RunPublish /\ DOMAIN Head(side).slots = {}
  <2>1. h.op = "publish" /\ DOMAIN h.slots = {} /\ UNCHANGED <<hostVars, main, fired, wanted, plane, table>>
    BY <1>5, <1>9 DEF RunPublish
  <2>. QED
    BY <1>4, <1>7, <1>8, <2>1 DEF SideTaken, SideOnly
<1>10. CASE RunZero
  <2>1. /\ h.op = "zero" /\ UNCHANGED <<hostVars, main, fired, wanted, table>>
        /\ plane' = [s \in Slot |-> IF s \in h.slots THEN 0 ELSE plane[s]]
    BY <1>5, <1>10 DEF RunZero
  <2>2. plane' = [s \in Slot |-> IF h.op = "zero" /\ s \in h.slots THEN 0 ELSE plane[s]]
    BY <2>1
  <2>. QED
    BY <1>4, <1>7, <2>1, <2>2 DEF SideTaken, SideOnly
<1>11. CASE RunRecord
  <2>1. /\ h.op = "record" /\ UNCHANGED <<hostVars, main, wanted, table, plane>>
        /\ fired' = h.event
    BY <1>5, <1>11 DEF RunRecord
  <2>. QED
    BY <1>4, <1>7, <1>8, <2>1 DEF SideTaken, SideOnly
<1>. QED
  BY <1>9, <1>10, <1>11

LEMMA SideTakenStep ==
  ASSUME StreamInv, SideOnly, NEW h, SideTaken(h)
  PROVE  StreamInv'
<1>1. /\ Typed /\ SideOrder /\ events' = events
  BY DEF StreamInv, SideOnly, hostVars
<1>2. side # <<>> /\ events \in Nat /\ fired \in Nat
  BY <1>1, SideIsOps DEF SideTaken, SideAt, Typed
<1>3. h.op = "record" => h.event \in Nat
  BY DEF SideTaken, SideOp
<1>4. Typed'
  <2>1. [s \in Slot |-> IF h.op = "zero" /\ s \in h.slots THEN 0 ELSE plane[s]] \in [Slot -> Nat]
    BY <1>1 DEF Typed
  <2>. QED
    BY <1>1, <1>3, <2>1 DEF Typed, SideTaken, SideOnly, hostVars
<1>5. ASSUME NEW i \in SideAt', NEW a, Publishes(i, a)'
      PROVE  Publishes(i + 1, a) /\ i + 1 \in SideAt /\ side'[i] = side[i + 1]
  BY <1>5 DEF SideTaken, Publishes
<1>6. ASSUME NEW i \in SideAt', NEW s, Zeroes(i, s)'
      PROVE  Zeroes(i + 1, s) /\ i + 1 \in SideAt
  BY <1>6 DEF SideTaken, Zeroes
<1>7. ASSUME NEW k \in SideAt, k # 1
      PROVE  /\ k - 1 \in SideAt' /\ side'[k - 1] = side[k]
             /\ \A s : Zeroes(k, s) => Zeroes(k - 1, s)'
             /\ \A a : Publishes(k, a) => Publishes(k - 1, a)'
  BY <1>7 DEF SideTaken, Zeroes, Publishes
<1>8. \A a : ~ Publishes(1, a)
  BY DEF SideTaken, Publishes
<1>9. \A s : Zeroes(1, s) <=> h.op = "zero" /\ s \in h.slots
  BY DEF SideTaken, Zeroes
<1>10. SideOrder'
  <2>1. ASSUME NEW i \in SideAt', NEW a \in Atom, Publishes(i, a)'
        PROVE  \E j \in SideAt' : i < j /\ Zeroes(j, side[i].slots[a])'
    <3>1. PICK s : s = side'[i].slots[a]
      OBVIOUS
    <3>2. Publishes(i + 1, a) /\ i + 1 \in SideAt /\ s = side[i + 1].slots[a]
      BY <1>5, <2>1, <3>1
    <3>3. PICK k \in SideAt : i + 1 < k /\ Zeroes(k, s)
      BY <1>1, <3>2 DEF SideOrder
    <3>4. k # 1 /\ i < k - 1
      BY <3>2, <3>3 DEF SideAt
    <3>5. k - 1 \in SideAt' /\ Zeroes(k - 1, s)'
      BY <1>7, <3>3, <3>4
    <3>. QED
      BY <3>1, <3>4, <3>5 DEF Zeroes
  <2>2. ASSUME NEW i \in SideAt', side'[i].op = "record"
        PROVE  side'[i].event <= events' /\ (i < Len(side') => side'[i].event < events')
    <3>1. PICK k \in SideAt : k = i + 1 /\ side'[i] = side[k]
      BY DEF SideTaken
    <3>2. side[k].event <= events /\ (k < Len(side) => side[k].event < events)
      BY <1>1, <2>2, <3>1 DEF SideOrder
    <3>3. i < Len(side') => k < Len(side)
      BY <3>1 DEF SideTaken, SideAt
    <3>. QED
      BY <1>1, <3>1, <3>2, <3>3
  <2>3. fired' <= events' /\ (side' # <<>> => fired' < events')
    <3>1. side' # <<>> => 1 < Len(side)
      BY DEF SideTaken, SideAt
    <3>2. h.op = "record" => h.event <= events /\ (1 < Len(side) => h.event < events)
      BY <1>1 DEF SideOrder, SideTaken
    <3>3. fired < events
      BY <1>1, <1>2 DEF SideOrder
    <3>. QED
      BY <1>1, <1>2, <3>1, <3>2, <3>3 DEF SideTaken
  <2>4. side' # <<>> => side'[Len(side')].op = "record" /\ side'[Len(side')].event = events'
    <3>1. PICK n : n = Len(side)
      OBVIOUS
    <3>2. side[n].op = "record" /\ side[n].event = events
      BY <1>1, <1>2, <3>1 DEF SideOrder
    <3>3. side' # <<>> => n \in SideAt /\ n # 1 /\ Len(side') = n - 1
      BY <3>1 DEF SideTaken, SideAt
    <3>4. side' # <<>> => side'[Len(side')] = side[n]
      BY <1>7, <3>3
    <3>. QED
      BY <1>1, <3>2, <3>4
  <2>. QED
    BY <2>1, <2>2, <2>3, <2>4 DEF SideOrder
<1>11. ASSUME NEW f, Holds(f)  PROVE Holds(f)'
  <2>1. ASSUME NEW a \in Atom
        PROVE  /\ table'[a] = Absent => f[a] = 0
               /\ table'[a] # Absent => plane'[table'[a]] = f[a]
                                        \/ \E j \in SideAt' : Zeroes(j, table[a])'
               /\ \A j \in SideAt' : Zeroes(j, table[a])' \/ Publishes(j, a)' => f[a] = 0
    <3>1. PICK s \in Slot \cup {Absent} : s = table[a] /\ s = table'[a]
      BY <1>1 DEF Typed, SideTaken
    <3>2. /\ s = Absent => f[a] = 0
          /\ s # Absent => plane[s] = f[a] \/ \E j \in SideAt : Zeroes(j, s)
          /\ \A j \in SideAt : Zeroes(j, s) \/ Publishes(j, a) => f[a] = 0
      BY <1>11, <3>1 DEF Holds
    <3>3. \A j \in SideAt' : Zeroes(j, s)' \/ Publishes(j, a)' => f[a] = 0
      BY <1>5, <1>6, <3>2
    <3>4. ASSUME s # Absent  PROVE plane'[s] = f[a] \/ \E j \in SideAt' : Zeroes(j, s)'
      <4>1. CASE Zeroes(1, s)
        <5>1. f[a] = 0 /\ plane'[s] = 0
          BY <1>9, <3>2, <3>4, <4>1 DEF SideTaken
        <5>. QED
          BY <5>1
      <4>2. CASE ~ Zeroes(1, s)
        <5>1. plane'[s] = plane[s]
          BY <1>9, <3>4, <4>2 DEF SideTaken
        <5>2. (\E j \in SideAt : Zeroes(j, s)) => \E j \in SideAt' : Zeroes(j, s)'
          BY <1>7, <4>2
        <5>. QED
          BY <3>2, <3>4, <5>1, <5>2
      <4>. QED
        BY <4>1, <4>2
    <3>. QED
      BY <3>1, <3>2, <3>3, <3>4 DEF Zeroes
  <2>. QED
    BY <2>1 DEF Holds
<1>12. ASSUME NEW a, Covered(a)  PROVE Covered(a)'
  BY <1>7, <1>8, <1>12 DEF Covered, SideTaken
<1>13. \A a \in Atom : \A s \in Slot : Named(a, s)' => Named(a, s)
  BY <1>5 DEF Named, SideTaken
<1>14. \A a \in Atom : table[a] # Absent => table'[a] # Absent
  BY DEF SideTaken
<1>. QED
  BY <1>2, <1>4, <1>10, <1>11, <1>12, <1>13, <1>14, SideKeeps

(* One atom published: its slot goes from the operation to the table.      *)
LEMMA PublishStep ==
  ASSUME StreamInv, RunPublish, DOMAIN Head(side).slots # {}
  PROVE  StreamInv'
<1>1. /\ Typed /\ SideOrder /\ side # <<>> /\ side \in Seq(SideOp) /\ Head(side) = side[1]
      /\ side[1] \in SideOp /\ side[1].op = "publish" /\ 1 \in SideAt /\ Len(side) \in Nat
  <2>1. Typed /\ SideOrder /\ side # <<>> /\ side \in Seq(SideOp) /\ Head(side).op = "publish"
    BY DEF StreamInv, Typed, RunPublish
  <2>2. Head(side) = side[1] /\ side[1] \in SideOp /\ Len(side) \in Nat /\ Len(side) >= 1
    BY <2>1, Pop
  <2>. QED
    BY <2>1, <2>2 DEF SideAt
<1>2. PICK D \in SUBSET Atom : side[1].slots \in [D -> Slot]
  BY <1>1 DEF SideOp
<1>3. PICK left \in [D -> Slot] : left = side[1].slots /\ side[1] = [op |-> "publish", slots |-> left]
  BY <1>1, <1>2 DEF SideOp
<1>4. PICK c \in D :
        /\ table' = [table EXCEPT ![c] = left[c]]
        /\ side' = [side EXCEPT ![1].slots = [b \in D \ {c} |-> left[b]]]
  <2>1. Head(side).slots = left /\ DOMAIN left = D /\ D # {}
    BY <1>1, <1>3
  <2>2. \E c \in DOMAIN Head(side).slots :
           /\ table' = [table EXCEPT ![c] = Head(side).slots[c]]
           /\ side' = [side EXCEPT ![1].slots =
                         [b \in DOMAIN Head(side).slots \ {c} |-> Head(side).slots[b]]]
    BY DEF RunPublish
  <2>3. PICK c \in D :
           /\ table' = [table EXCEPT ![c] = Head(side).slots[c]]
           /\ side' = [side EXCEPT ![1].slots =
                         [b \in DOMAIN Head(side).slots \ {c} |-> Head(side).slots[b]]]
    BY <2>1, <2>2
  <2>4. [b \in DOMAIN Head(side).slots \ {c} |-> Head(side).slots[b]]
          = [b \in D \ {c} |-> left[b]]
    BY <2>1
  <2>5. side' = [side EXCEPT ![1].slots = [b \in D \ {c} |-> left[b]]]
    BY <2>3, <2>4, Zenon
  <2>6. table' = [table EXCEPT ![c] = left[c]]
    BY <2>1, <2>3
  <2>. QED
    BY <2>5, <2>6
<1>. DEFINE rest == [b \in D \ {c} |-> left[b]]
            e == [op |-> "publish", slots |-> rest]
<1>5. rest \in [D \ {c} -> Slot] /\ DOMAIN rest = D \ {c} /\ \A b \in D \ {c} : rest[b] = left[b]
  OBVIOUS
<1>6. e \in SideOp /\ e.op = "publish" /\ e.slots = rest
  BY <1>5 DEF SideOp
<1>7. side' = [side EXCEPT ![1] = e]
  <2>1. [side[1] EXCEPT !.slots = rest] = e
    BY <1>3
  <2>2. side' = [side EXCEPT ![1] = [side[1] EXCEPT !.slots = rest]]
    BY <1>4
  <2>. QED
    BY <2>1, <2>2
<1>. HIDE DEF e, rest
<1>8. /\ side' \in Seq(SideOp) /\ Len(side') = Len(side) /\ SideAt' = SideAt
      /\ side'[1] = e /\ \A i \in SideAt : i # 1 => side'[i] = side[i]
  <2>. DEFINE t == [side EXCEPT ![1] = e]
  <2>1. /\ t \in Seq(SideOp) /\ Len(t) = Len(side)
        /\ \A j \in 1 .. Len(side) : t[j] = IF j = 1 THEN e ELSE side[j]
    BY <1>1, <1>6, ExceptSeq DEF SideAt
  <2>. HIDE DEF t
  <2>2. side' = t
    BY <1>7 DEF t
  <2>. QED
    BY <1>1, <2>1, <2>2 DEF SideAt
<1>9. SideOnly /\ events' = events /\ fired' = fired /\ plane' = plane
  BY DEF RunPublish, SideOnly, hostVars
<1>10. ASSUME NEW i \in SideAt, NEW a
       PROVE  /\ Publishes(i, a)' <=> Publishes(i, a) /\ ~ (i = 1 /\ a = c)
              /\ Publishes(i, a)' => side'[i].slots[a] = side[i].slots[a]
  <2>1. CASE i = 1
    <3>1. Publishes(i, a) <=> a \in D
      <4>1. side[i].op = "publish" /\ side[i].slots = left /\ DOMAIN left = D
        BY <1>1, <1>3, <2>1
      <4>. QED
        BY <4>1 DEF Publishes
    <3>2. Publishes(i, a)' <=> a \in D \ {c}
      BY <1>5, <1>6, <1>8, <2>1 DEF Publishes
    <3>3. a \in D \ {c} => side'[i].slots[a] = side[i].slots[a]
      BY <1>3, <1>5, <1>6, <1>8, <2>1
    <3>. QED
      BY <2>1, <3>1, <3>2, <3>3
  <2>2. CASE i # 1
    BY <1>8, <2>2 DEF Publishes
  <2>. QED
    BY <2>1, <2>2
<1>11. ASSUME NEW i \in SideAt, NEW s
       PROVE  Zeroes(i, s)' <=> Zeroes(i, s)
  BY <1>1, <1>6, <1>8 DEF Zeroes
<1>12. Publishes(1, c) /\ side[1].slots[c] = left[c] /\ left[c] \in Slot /\ left[c] # Absent
  <2>1. Publishes(1, c) /\ side[1].slots[c] = left[c] /\ left[c] \in Slot
    BY <1>3 DEF Publishes
  <2>. QED
    BY <2>1, Sizes DEF Slot, Absent
<1>13. PICK tab \in [Atom -> Slot \cup {Absent}] : tab = table
  BY <1>1 DEF Typed
<1>14. /\ table' \in [Atom -> Slot \cup {Absent}] /\ table'[c] = left[c] /\ c \in Atom
       /\ \A a \in Atom : a # c => table'[a] = tab[a]
  BY <1>4, <1>12, <1>13
<1>15. Typed'
  BY <1>1, <1>8, <1>9, <1>14 DEF Typed, SideOnly, hostVars
<1>16. SideOrder'
  <2>1. ASSUME NEW i \in SideAt', NEW a \in Atom, Publishes(i, a)'
        PROVE  \E j \in SideAt' : i < j /\ Zeroes(j, side[i].slots[a])'
    <3>1. PICK s : s = side'[i].slots[a]
      OBVIOUS
    <3>2. Publishes(i, a) /\ s = side[i].slots[a] /\ i \in SideAt
      BY <1>8, <1>10, <2>1, <3>1
    <3>3. PICK j \in SideAt : i < j /\ Zeroes(j, s)
      BY <1>1, <3>2 DEF SideOrder
    <3>. QED
      BY <1>8, <1>11, <3>1, <3>3 DEF Zeroes
  <2>2. ASSUME NEW i \in SideAt', side'[i].op = "record"
        PROVE  side'[i] = side[i] /\ i \in SideAt
    BY <1>6, <1>8, <2>2
  <2>3. side' # <<>> => side'[Len(side')] = side[Len(side)]
    <3>1. PICK n : n = Len(side)
      OBVIOUS
    <3>2. n \in SideAt /\ side[n].op = "record"
      BY <1>1, <3>1 DEF SideOrder, SideAt
    <3>3. n # 1
      BY <1>1, <3>2
    <3>. QED
      BY <1>8, <3>1, <3>2, <3>3
  <2>. QED
    BY <1>1, <1>8, <1>9, <2>1, <2>2, <2>3 DEF SideOrder
<1>17. ASSUME NEW f, Holds(f)  PROVE Holds(f)'
  <2>1. f[c] = 0
    BY <1>1, <1>12, <1>14, <1>17 DEF Holds
  <2>2. \E j \in SideAt : Zeroes(j, left[c])
    BY <1>1, <1>12, <1>14 DEF SideOrder
  <2>3. ASSUME NEW a \in Atom
        PROVE  /\ table'[a] = Absent => f[a] = 0
               /\ table'[a] # Absent => plane'[table'[a]] = f[a]
                                        \/ \E j \in SideAt' : Zeroes(j, table[a])'
               /\ \A j \in SideAt' : Zeroes(j, table[a])' \/ Publishes(j, a)' => f[a] = 0
    <3>1. CASE a = c
      <4>1. PICK s : s = left[c]
        OBVIOUS
      <4>2. PICK j \in SideAt' : Zeroes(j, s)'
        BY <1>8, <1>11, <2>2, <4>1
      <4>. QED
        BY <1>14, <2>1, <3>1, <4>1, <4>2 DEF Zeroes
    <3>2. CASE a # c
      <4>1. PICK s \in Slot \cup {Absent} : s = table[a] /\ s = table'[a]
        BY <1>13, <1>14, <3>2
      <4>2. /\ s = Absent => f[a] = 0
            /\ s # Absent => plane[s] = f[a] \/ \E j \in SideAt : Zeroes(j, s)
            /\ \A j \in SideAt : Zeroes(j, s) \/ Publishes(j, a) => f[a] = 0
        BY <1>17, <4>1 DEF Holds
      <4>3. /\ s # Absent => plane[s] = f[a] \/ \E j \in SideAt' : Zeroes(j, s)'
            /\ \A j \in SideAt' : Zeroes(j, s)' \/ Publishes(j, a)' => f[a] = 0
        BY <1>8, <1>10, <1>11, <4>2
      <4>. QED
        BY <1>9, <4>1, <4>2, <4>3 DEF Zeroes
    <3>. QED
      BY <3>1, <3>2
  <2>. QED
    BY <2>3 DEF Holds
<1>18. ASSUME NEW a, Covered(a)  PROVE Covered(a)'
  <2>1. CASE a = c
    BY <1>12, <1>14, <2>1 DEF Covered
  <2>2. CASE a # c
    <3>1. table'[a] = table[a]
      BY <1>4, <2>2
    <3>2. \A i \in SideAt : Publishes(i, a) => Publishes(i, a)'
      BY <1>10, <2>2
    <3>. QED
      BY <1>8, <1>18, <3>1, <3>2 DEF Covered
  <2>. QED
    BY <2>1, <2>2
<1>19. \A a \in Atom : \A s \in Slot : Named(a, s)' => Named(a, s)
  <2>. SUFFICES ASSUME NEW a \in Atom, NEW s \in Slot, Named(a, s)'
                PROVE  Named(a, s)
    OBVIOUS
  <2>1. CASE table'[a] = s
    <3>1. CASE a = c
      BY <1>1, <1>12, <1>14, <2>1, <3>1 DEF Named
    <3>2. CASE a # c
      BY <1>13, <1>14, <2>1, <3>2 DEF Named
    <3>. QED
      BY <3>1, <3>2
  <2>2. CASE \E i \in SideAt' : Publishes(i, a)' /\ side'[i].slots[a] = s
    <3>1. PICK i \in SideAt' : Publishes(i, a)' /\ side'[i].slots[a] = s
      BY <2>2
    <3>2. i \in SideAt /\ Publishes(i, a) /\ side[i].slots[a] = s
      BY <1>8, <1>10, <3>1
    <3>. QED
      BY <3>2 DEF Named
  <2>. QED
    BY <2>1, <2>2 DEF Named
<1>20. \A a \in Atom : table[a] # Absent => table'[a] # Absent
  BY <1>12, <1>13, <1>14
<1>. QED
  BY <1>1, <1>9, <1>15, <1>16, <1>17, <1>18, <1>19, <1>20, SideKeeps

---------------------------------------------------------------------------
LEMMA Starts == Init => StreamInv
<1>. SUFFICES ASSUME Init  PROVE StreamInv
  OBVIOUS
<1>1. main = <<>> /\ side = <<>> /\ MainAt = {} /\ SideAt = {}
  BY DEF Init, MainAt, SideAt
<1>2. Typed
  BY <1>1, Sizes DEF Init, Typed, Absent
<1>3. SideOrder
  BY <1>1 DEF Init, SideOrder
<1>4. \A s \in Slot : s # Absent
  BY Sizes DEF Slot, Absent
<1>5. Distinct
  BY <1>1, <1>4 DEF Init, Distinct, Named
<1>6. MainOrder
  BY <1>1 DEF Init, MainOrder, Guarded, Pending
<1>7. Contents
  BY <1>1 DEF Init, Contents, Holds, Pending
<1>. QED
  BY <1>2, <1>3, <1>5, <1>6, <1>7 DEF StreamInv

LEMMA StreamSteps == StreamInv /\ [Next]_vars => StreamInv'
<1>. SUFFICES ASSUME StreamInv, [Next]_vars  PROVE StreamInv'
  OBVIOUS
<1>1. ASSUME NEW W \in SUBSET Atom, PlanContinue(W)  PROVE StreamInv'
  BY <1>1, PlanContinueStep
<1>2. ASSUME NEW W \in SUBSET Atom, PlanFresh(W)  PROVE StreamInv'
  BY <1>2, PlanFreshStep
<1>3. CASE Admit
  BY <1>3, AdmitStep
<1>4. CASE Refuse \/ Abandon
  BY <1>4, RaiseStep
<1>5. CASE Join
  BY <1>5, JoinStep
<1>6. CASE Launch
  BY <1>6, LaunchStep
<1>7. CASE RunMain
  BY <1>7, RunMainStep
<1>8. CASE RunPublish
  <2>1. CASE DOMAIN Head(side).slots = {}
    <3>1. side # <<>> /\ side' = Tail(side)
      BY <1>8, <2>1 DEF RunPublish
    <3>. QED
      BY <1>8, <2>1, <3>1, SideTakes, SideTakenStep
  <2>2. CASE DOMAIN Head(side).slots # {}
    BY <1>8, <2>2, PublishStep
  <2>. QED
    BY <2>1, <2>2
<1>9. CASE RunZero \/ RunRecord
  <2>1. side # <<>> /\ side' = Tail(side)
    BY <1>9 DEF RunZero, RunRecord
  <2>. QED
    BY <1>9, <2>1, SideTakes, SideTakenStep
<1>10. CASE UNCHANGED vars
  <2>1. UNCHANGED <<stage, write, next, ready, events, calls, owed, main, side, fired, wanted,
                    table, plane>>
    BY <1>10 DEF vars, hostVars
  <2>2. Typed' /\ SideOrder' /\ Distinct'
    BY <2>1 DEF StreamInv, Typed, SideOrder, Distinct, Pending, Publishes, Zeroes, Named, MainAt,
                SideAt
  <2>3. MainOrder'
    BY <2>1 DEF StreamInv, MainOrder, Orderly, Guarded, Pending, MainAt
  <2>4. Contents'
    BY <2>1 DEF StreamInv, Contents, Pending, Publishes, Zeroes, Holds, Covered, MainAt, SideAt
  <2>. QED
    BY <2>2, <2>3, <2>4 DEF StreamInv
<1>. QED
  BY <1>1, <1>2, <1>3, <1>4, <1>5, <1>6, <1>7, <1>8, <1>9, <1>10 DEF Next

(* Whatever the streams do, the queues keep their order, no slot is named  *)
(* twice, and the arena holds what is owed once the side stream is done.   *)
THEOREM QueuesHold == Spec => []StreamInv
BY Starts, StreamSteps, PTL DEF Spec

(* When a launch reaches the device its admission is complete: no atom of  *)
(* it is absent, no slot is shared, and each atom reads what is owed to    *)
(* it.                                                                     *)
THEOREM LaunchFindsDense == Spec => []LaunchReadsDense
<1>1. StreamInv => LaunchReadsDense
  <2>. SUFFICES ASSUME StreamInv, main # <<>>, Head(main).op = "launch"
                PROVE  LET o == Head(main)
                       IN /\ \A a \in o.atoms : table[a] # Absent
                          /\ \A a, b \in Atom : table[a] # Absent /\ table[a] = table[b] => a = b
                          /\ \A a \in Atom : o.before[a] =
                               IF table[a] = Absent THEN 0 ELSE plane[table[a]]
    BY DEF LaunchReadsDense
  <2>1. Typed /\ Distinct /\ MainOrder /\ Contents
    BY DEF StreamInv
  <2>2. Head(main) = main[1] /\ 1 \in MainAt
    <3>1. main \in Seq(MainOp)
      BY <2>1 DEF Typed
    <3>2. Head(main) = main[1] /\ Len(main) \in Nat /\ Len(main) >= 1
      BY <3>1, Pop
    <3>. QED
      BY <3>2 DEF MainAt
  <2>3. SideAt = {}
    <3>1. side = <<>>
      BY <2>1, <2>2 DEF MainOrder, Orderly, Guarded, MainAt
    <3>. QED
      BY <2>1, <3>1, SideIsOps DEF SideAt
  <2>4. Holds(main[1].before) /\ \A a \in main[1].atoms : Covered(a)
    BY <2>1, <2>2 DEF Contents
  <2>5. \A a, b \in Atom : table[a] # Absent /\ table[a] = table[b] => a = b
    BY <2>1 DEF Distinct, Named, Typed
  <2>. QED
    BY <2>2, <2>3, <2>4, <2>5 DEF Holds, Covered
<1>. QED
  BY <1>1, QueuesHold, PTL


----------------------------------------------------------------------------
(***************************************************************************)
(* That a block of the intra kernel multiplies what it staged, weighs the  *)
(* values it staged and deposits where nothing lands: for every arm whose  *)
(* staging tiles fit in its slabs, every number of levels and stages, and  *)
(* any of the block's warps.                                               *)
(*                                                                         *)
(* The barriers keep all warps in one phase of a stage.  What a warp has   *)
(* in flight follows from where it is: this stage's copies until its wait, *)
(* the next stage's after, none once a pair's last stage is done.  And     *)
(* what it was to have staged by then is in flight or in place.            *)
(***************************************************************************)

Staging  == {"fill", "stage", "wait", "landed"}
Reading  == {"mma", "done"}
Closing  == {"gram", "deposit", "drain", "top"}
Place    == Staging \cup Reading \cup Closing
Tag      == (Int \X Int) \cup (Int \X Int \X Int)

Shaped ==
  /\ arm \in Arms /\ at \in [block : Nat, column : Nat \cup {-1}, step : Nat]
  /\ pcs \in [Warp -> Place] /\ Warp \subseteq 0 .. BlockWarps - 1
  /\ copies \subseteq [warp : Warp, buf : 0 .. 2, tag : Tag, age : 0 .. 2]
  /\ slab \in [0 .. 1 -> [Warp -> Tag \cup {Spoiled}]]
  /\ vals \in [Warp -> Tag \cup {Spoiled}]

(* All warps are in one phase; none has begun before the first pair.       *)
AllIn(places) == \A w \in Warp : pcs[w] \in places

Phased ==
  /\ AllIn(Staging) \/ AllIn(Reading) \/ AllIn(Closing)
  /\ at.column = -1 => AllAt("top")
  /\ \A w \in Warp : pcs[w] = "fill" => at.step = 0
  /\ coming # {} => at.step + 1 < Steps

(* What is in flight.                                                      *)
Cur(m) == m.buf = Buf(at.step) /\ m.tag = Stage
Nxt(m) == coming # {} /\ m.buf = Buf(at.step + 1) /\ m.tag = After(Stage)
Val(m) == m.buf = Values /\ m.tag = Pair

Unlanded(w) ==
  \A m \in copies : m.warp = w =>
    /\ pcs[w] = "stage" => Cur(m) \/ Val(m)
    /\ pcs[w] = "wait" => Nxt(m) \/ (m.age >= 1 /\ (Cur(m) \/ Val(m)))
    /\ pcs[w] \in {"landed"} \cup Reading => Nxt(m)
    /\ pcs[w] \notin {"fill"} \cup Closing

(* What has been staged is in place, or in flight.                         *)
Sent(w, buf, tag) == \E m \in copies : m.warp = w /\ m.buf = buf /\ m.tag = tag
Have(w, buf, tag) == slab[buf][w] = tag \/ Sent(w, buf, tag)

Staged(w) ==
  /\ pcs[w] \in (Staging \ {"fill"}) \cup Reading /\ rows # {} => Have(w, Buf(at.step), Stage)
  /\ pcs[w] \in {"wait", "landed"} \cup Reading /\ coming # {} =>
       Have(w, Buf(at.step + 1), After(Stage))
  /\ pcs[w] # "fill" /\ at.column # -1 => vals[w] = Pair \/ Sent(w, Values, Pair)

BlockInv == Shaped /\ Phased /\ \A w \in Warp : Unlanded(w) /\ Staged(w)

---------------------------------------------------------------------------
LEMMA Buffers ==
  ASSUME NEW s \in Nat
  PROVE  /\ Buf(s) \in 0 .. 1 /\ Buf(s + 1) \in 0 .. 1 /\ Buf(s) # Buf(s + 1)
         /\ Buf(s) # Values /\ Buf(s + 1) # Values
BY DEF Buf, Values

LEMMA Tags ==
  ASSUME Shaped
  PROVE  Stage \in Tag /\ After(Stage) \in Tag /\ Pair \in Tag
<1>1. at.block \in Int /\ at.column \in Int /\ at.step \in Int
  BY DEF Shaped
<1>2. After(Stage) = <<at.block, at.column, at.step + 1>>
  BY DEF After, Stage
<1>. QED
  BY <1>1, <1>2 DEF Tag, Stage, Pair

(* A warp's staging tile lies in the slabs.                                *)
LEMMA NoSpill ==
  ASSUME Shaped, TilesFit, NEW w \in Warp
  PROVE  ~ Spills(w)
<1>1. /\ arm.levels \in Nat \ {0} /\ arm.width \in Nat \ {0} /\ arm.window \in Nat
      /\ arm.window < 128 \/ arm.width >= 32 
      /\ w \in 0 .. BlockWarps - 1
  BY IntraAssumption DEF Shaped, TilesFit
<1>. DEFINE d == StageDigits
<1>2. d \in Nat /\ d >= 16 /\ (arm.width >= 32 => d >= 32)
  BY <1>1 DEF StageDigits, LevelDigits, SlabDigits, Larger, Smaller
<1>3. CASE RowTiles = 1
  <2>1. Rows = 64 /\ BlockWarps = 4
    BY <1>3 DEF Rows, BlockWarps, Tile, WarpRows
  <2>2. SlabBytes >= 12288 /\ TileBytes = 2560 /\ SlabBytes \in Int
    BY <1>2, <2>1 DEF SlabBytes, TileBytes, Tile, WarpRows
  <2>. QED
    BY <1>1, <2>1, <2>2 DEF Spills
<1>4. CASE RowTiles = 2
  <2>1. Rows = 128 /\ BlockWarps = 8
    BY <1>4 DEF Rows, BlockWarps, Tile, WarpRows
  <2>2. arm.width >= 32
    <3>1. arm.window \div 64 >= 2
      BY <1>4 DEF RowTiles, Tiles, Tile
    <3>. QED
      BY <1>1, <3>1
  <2>3. SlabBytes >= 20480 /\ TileBytes = 2560 /\ SlabBytes \in Int
    BY <1>2, <2>1, <2>2 DEF SlabBytes, TileBytes, Tile, WarpRows
  <2>. QED
    BY <1>1, <2>1, <2>3 DEF Spills
<1>. QED
  BY <1>3, <1>4 DEF RowTiles

---------------------------------------------------------------------------
(* What a group of copies adds, and does to those before it.               *)
LEMMA IssueFacts ==
  ASSUME Shaped, NEW w \in Warp, NEW new \in SUBSET ((0 .. 2) \X Tag), Issue(w, new)
  PROVE  /\ copies' \subseteq [warp : Warp, buf : 0 .. 2, tag : Tag, age : 0 .. 2]
         /\ \A m \in copies' : m.warp # w => m \in copies
         /\ \A m \in copies : m.warp # w => m \in copies'
         /\ \A m \in copies' : m.warp = w =>
              \/ \E c \in copies : c.warp = w /\ c.buf = m.buf /\ c.tag = m.tag /\ m.age >= 1
              \/ \E o \in new : m.buf = o[1] /\ m.tag = o[2]
         /\ \A c \in copies : c.warp = w =>
              \E m \in copies' : m.warp = w /\ m.buf = c.buf /\ m.tag = c.tag
         /\ \A o \in new : \E m \in copies' : m.warp = w /\ m.buf = o[1] /\ m.tag = o[2]
<1>. DEFINE Older(m) == [m EXCEPT !.age = IF m.warp = w THEN Smaller(@ + 1, 2) ELSE @]
            Fresh(o) == [warp |-> w, buf |-> o[1], tag |-> o[2], age |-> 0]
            Copy == [warp : Warp, buf : 0 .. 2, tag : Tag, age : 0 .. 2]
<1>1. copies' = {Older(m) : m \in copies} \cup {Fresh(o) : o \in new}
  BY DEF Issue
<1>2. ASSUME NEW m \in copies
      PROVE  /\ Older(m) \in Copy /\ (m.warp # w => Older(m) = m)
             /\ Older(m).warp = m.warp /\ Older(m).buf = m.buf /\ Older(m).tag = m.tag
             /\ m.warp = w => Older(m).age >= 1
  <2>1. m \in Copy
    BY DEF Shaped
  <2>. QED
    BY <2>1 DEF Smaller
<1>3. ASSUME NEW o \in new
      PROVE  /\ Fresh(o) \in Copy
             /\ Fresh(o).warp = w /\ Fresh(o).buf = o[1] /\ Fresh(o).tag = o[2]
  BY SMT
<1>. HIDE DEF Older, Fresh
<1>4. copies' \subseteq Copy
  BY <1>1, <1>2, <1>3
<1>5. /\ \A m \in copies' : m.warp # w => m \in copies
      /\ \A m \in copies : m.warp # w => m \in copies'
  BY <1>1, <1>2, <1>3
<1>6. ASSUME NEW m \in copies', m.warp = w
      PROVE  \/ \E c \in copies : c.warp = w /\ c.buf = m.buf /\ c.tag = m.tag /\ m.age >= 1
             \/ \E o \in new : m.buf = o[1] /\ m.tag = o[2]
  BY <1>1, <1>2, <1>3, <1>6
<1>7. ASSUME NEW c \in copies, c.warp = w
      PROVE  \E m \in copies' : m.warp = w /\ m.buf = c.buf /\ m.tag = c.tag
  BY <1>1, <1>2, <1>7
<1>8. ASSUME NEW o \in new  PROVE \E m \in copies' : m.warp = w /\ m.buf = o[1] /\ m.tag = o[2]
  BY <1>1, <1>3
<1>. QED
  BY <1>4, <1>5, <1>6, <1>7, <1>8

---------------------------------------------------------------------------
(* A warp moves within its phase.                                          *)
LEMMA Moves ==
  ASSUME Shaped, Phased, NEW w \in Warp, NEW from \in Place, NEW to \in Place,
         Step(w, from, to), from # "top", to # "fill", UNCHANGED <<at, coming, arm>>,
         \/ from \in Staging /\ to \in Staging
         \/ from \in Reading /\ to \in Reading
         \/ from \in Closing /\ to \in Closing
  PROVE  /\ Phased' /\ Warp' = Warp /\ pcs' \in [Warp -> Place]
         /\ pcs[w] = from /\ pcs'[w] = to /\ at.column # -1
         /\ \A v \in Warp : v # w => pcs'[v] = pcs[v]
<1>1. pcs \in [Warp -> Place] /\ pcs[w] = from /\ pcs' = [pcs EXCEPT ![w] = to]
  BY DEF Shaped, Step
<1>2. Warp' = Warp
  BY <1>1 DEF Warp
<1>3. pcs' \in [Warp -> Place] /\ pcs'[w] = to /\ \A v \in Warp : v # w => pcs'[v] = pcs[v]
  BY <1>1
<1>4. at.column # -1
  BY <1>1 DEF Phased, AllAt
<1>5. Steps' = Steps
  BY DEF Steps, LevelDigits, StageDigits
<1>6. (AllIn(Staging) \/ AllIn(Reading) \/ AllIn(Closing))'
  BY <1>1, <1>2, <1>3 DEF Phased, AllIn, Staging, Reading, Closing
<1>. QED
  BY <1>1, <1>2, <1>3, <1>4, <1>5, <1>6 DEF Phased

(* What a warp has, while another one moves.                               *)
LEMMA Others ==
  ASSUME NEW v \in Warp, Unlanded(v), Staged(v), pcs'[v] = pcs[v],
         UNCHANGED <<at, rows, coming>>,
         \A m \in copies' : m.warp = v => m \in copies,
         \A m \in copies : m.warp = v => m \in copies',
         \A b \in 0 .. 1 : slab'[b][v] = slab[b][v], vals'[v] = vals[v], at.step \in Nat
  PROVE  Unlanded(v)' /\ Staged(v)'
<1>1. Stage' = Stage /\ After(Stage)' = After(Stage) /\ Pair' = Pair
  BY DEF Stage, Pair, After
<1>2. Unlanded(v)'
  BY <1>1 DEF Unlanded, Cur, Nxt, Val
<1>3. Staged(v)'
  <2>1. \A buf, tag : Sent(v, buf, tag) => Sent(v, buf, tag)'
    BY DEF Sent
  <2>2. Buf(at.step) \in 0 .. 1 /\ Buf(at.step + 1) \in 0 .. 1
    BY Buffers
  <2>3. Buf(at.step)' = Buf(at.step) /\ Buf(at.step + 1)' = Buf(at.step + 1)
    BY DEF Buf
  <2>4. /\ Have(v, Buf(at.step), Stage) => Have(v, Buf(at.step), Stage)'
        /\ Have(v, Buf(at.step + 1), After(Stage)) => Have(v, Buf(at.step + 1), After(Stage))'
    BY <1>1, <2>1, <2>2, <2>3 DEF Have
  <2>. QED
    BY <1>1, <2>1, <2>4 DEF Staged, Values
<1>. QED
  BY <1>2, <1>3

---------------------------------------------------------------------------
(* A pair's first copies: the warp's values, its slabs if there is work.   *)
LEMMA FillStep ==
  ASSUME BlockInv, NEW w \in Warp, Fill(w)
  PROVE  BlockInv'
<1>1. Shaped /\ Phased /\ Unlanded(w) /\ Staged(w) /\ at.step \in Nat
  BY DEF BlockInv, Shaped
<1>2. /\ Phased' /\ Warp' = Warp /\ pcs' \in [Warp -> Place]
      /\ pcs[w] = "fill" /\ pcs'[w] = "stage" /\ at.column # -1
      /\ \A v \in Warp : v # w => pcs'[v] = pcs[v]
  BY <1>1, Moves DEF Fill, Place, Staging
<1>. DEFINE new == {<<Values, Pair>>} \cup Slabs(0, Stage, rows)
<1>3. new \in SUBSET ((0 .. 2) \X Tag)
  BY <1>1, Tags DEF Slabs, Values
<1>4. Issue(w, new) /\ UNCHANGED <<arm, at, rows, coming, slab, vals>>
  BY DEF Fill
<1>5. \A m \in copies : m.warp # w
  BY <1>1, <1>2 DEF Unlanded
<1>. at.step = 0 /\ Buf(at.step) = 0
  BY <1>1, <1>2 DEF Phased, Buf
<1>6. ASSUME NEW o \in new
      PROVE  (o[1] = Values /\ o[2] = Pair) \/ (o[1] = Buf(at.step) /\ o[2] = Stage)
  BY DEF Slabs
<1>7. <<Values, Pair>> \in new /\ (rows # {} => <<Buf(at.step), Stage>> \in new)
  BY DEF Slabs
<1>. HIDE DEF new
<1>8. Shaped'
  BY <1>1, <1>2, <1>3, <1>4, IssueFacts DEF Shaped, BlockWarps, Rows, RowTiles, Tiles
<1>9. Stage' = Stage /\ After(Stage)' = After(Stage) /\ Pair' = Pair
  BY <1>4 DEF Stage, Pair, After
<1>10. Unlanded(w)'
  BY <1>1, <1>2, <1>3, <1>4, <1>5, <1>6, <1>9, IssueFacts DEF Unlanded, Cur, Val, Closing, Reading
<1>11. Staged(w)'
  BY <1>1, <1>2, <1>3, <1>4, <1>7, <1>9, IssueFacts DEF Staged, Have, Sent, Reading
<1>12. ASSUME NEW v \in Warp, v # w  PROVE Unlanded(v)' /\ Staged(v)'
  BY <1>1, <1>2, <1>3, <1>4, <1>12, IssueFacts, Others DEF BlockInv
<1>. QED
  BY <1>2, <1>8, <1>10, <1>11, <1>12 DEF BlockInv

(* The next stage's slabs, if there is one.                                *)
LEMMA StageAheadStep ==
  ASSUME BlockInv, NEW w \in Warp, StageAhead(w)
  PROVE  BlockInv'
<1>1. Shaped /\ Phased /\ Unlanded(w) /\ Staged(w) /\ at.step \in Nat
  BY DEF BlockInv, Shaped
<1>2. /\ Phased' /\ Warp' = Warp /\ pcs' \in [Warp -> Place]
      /\ pcs[w] = "stage" /\ pcs'[w] = "wait" /\ at.column # -1
      /\ \A v \in Warp : v # w => pcs'[v] = pcs[v]
  BY <1>1, Moves DEF StageAhead, Place, Staging
<1>. DEFINE new == Slabs(Buf(at.step + 1), After(Stage), coming)
<1>3. new \in SUBSET ((0 .. 2) \X Tag)
  BY <1>1, Tags, Buffers DEF Slabs
<1>4. Issue(w, new) /\ UNCHANGED <<arm, at, rows, coming, slab, vals>>
  BY DEF StageAhead
<1>5. \A m \in copies : m.warp = w => Cur(m) \/ Val(m)
  BY <1>1, <1>2 DEF Unlanded
<1>6. ASSUME NEW o \in new
      PROVE  o[1] = Buf(at.step + 1) /\ o[2] = After(Stage) /\ coming # {}
  BY DEF Slabs
<1>7. coming # {} => <<Buf(at.step + 1), After(Stage)>> \in new
  BY DEF Slabs
<1>. HIDE DEF new
<1>8. Shaped'
  BY <1>1, <1>2, <1>3, <1>4, IssueFacts DEF Shaped, BlockWarps, Rows, RowTiles, Tiles
<1>9. /\ Stage' = Stage /\ After(Stage)' = After(Stage) /\ Pair' = Pair
      /\ Buf(at.step)' = Buf(at.step) /\ Buf(at.step + 1)' = Buf(at.step + 1)
  BY <1>4 DEF Stage, Pair, After, Buf
<1>10. Unlanded(w)'
  <2>1. ASSUME NEW m \in copies', m.warp = w
        PROVE  Nxt(m)' \/ (m.age >= 1 /\ (Cur(m)' \/ Val(m)'))
    BY <1>1, <1>3, <1>4, <1>5, <1>6, <1>9, <2>1, IssueFacts DEF Cur, Val, Nxt
  <2>. QED
    BY <1>2, <2>1 DEF Unlanded, Closing, Reading
<1>11. Staged(w)'
  <2>1. \A buf, tag : Sent(w, buf, tag) => Sent(w, buf, tag)'
    BY <1>1, <1>3, <1>4, IssueFacts DEF Sent
  <2>2. coming # {} => Sent(w, Buf(at.step + 1), After(Stage))'
    BY <1>1, <1>3, <1>4, <1>7, <1>9, IssueFacts DEF Sent
  <2>3. rows # {} => Have(w, Buf(at.step), Stage)
    BY <1>1, <1>2 DEF Staged, Staging
  <2>4. vals[w] = Pair \/ Sent(w, Values, Pair)
    BY <1>1, <1>2 DEF Staged
  <2>. QED
    BY <1>2, <1>4, <1>9, <2>1, <2>2, <2>3, <2>4 DEF Staged, Have, Values
<1>12. ASSUME NEW v \in Warp, v # w  PROVE Unlanded(v)' /\ Staged(v)'
  BY <1>1, <1>2, <1>3, <1>4, <1>12, IssueFacts, Others DEF BlockInv
<1>. QED
  BY <1>2, <1>8, <1>10, <1>11, <1>12 DEF BlockInv

(* A warp that waited has only the next stage's copies in flight.          *)
LEMMA WaitStep ==
  ASSUME BlockInv, NEW w \in Warp, Wait(w)
  PROVE  BlockInv'
<1>1. Shaped /\ Phased /\ Unlanded(w) /\ Staged(w) /\ at.step \in Nat
  BY DEF BlockInv, Shaped
<1>2. /\ Phased' /\ Warp' = Warp /\ pcs' \in [Warp -> Place]
      /\ pcs[w] = "wait" /\ pcs'[w] = "landed" /\ at.column # -1
      /\ \A v \in Warp : v # w => pcs'[v] = pcs[v]
  BY <1>1, Moves DEF Wait, Place, Staging
<1>3. UNCHANGED <<arm, at, rows, coming, copies, slab, vals>>
  BY DEF Wait
<1>4. Shaped'
  BY <1>1, <1>2, <1>3 DEF Shaped, BlockWarps, Rows, RowTiles, Tiles
<1>5. /\ Stage' = Stage /\ After(Stage)' = After(Stage) /\ Pair' = Pair
      /\ Buf(at.step)' = Buf(at.step) /\ Buf(at.step + 1)' = Buf(at.step + 1)
  BY <1>3 DEF Stage, Pair, After, Buf
<1>6. \A m \in copies : m.warp = w => Nxt(m)
  <2>1. ASSUME NEW m \in copies, m.warp = w  PROVE m.age \in 0 .. 2 /\ m.age < 1
    BY <1>1, <2>1 DEF Wait, Settled, Shaped
  <2>. QED
    BY <1>1, <1>2, <2>1 DEF Unlanded
<1>7. Unlanded(w)'
  BY <1>2, <1>3, <1>5, <1>6 DEF Unlanded, Nxt, Reading, Closing
<1>8. Staged(w)'
  BY <1>1, <1>2, <1>3, <1>5 DEF Staged, Have, Sent, Staging, Reading
<1>9. ASSUME NEW v \in Warp, v # w  PROVE Unlanded(v)' /\ Staged(v)'
  BY <1>1, <1>2, <1>3, <1>9, Others DEF BlockInv
<1>. QED
  BY <1>2, <1>4, <1>7, <1>8, <1>9 DEF BlockInv

(* Multiplying and weighing read; the deposit has nothing in flight.       *)
LEMMA ReadStep ==
  ASSUME BlockInv, NEW w \in Warp, Multiply(w) \/ Weigh(w) \/ Drain(w)
  PROVE  BlockInv'
<1>1. Shaped /\ Phased /\ Unlanded(w) /\ Staged(w) /\ at.step \in Nat
  BY DEF BlockInv, Shaped
<1>2. /\ Phased' /\ Warp' = Warp /\ pcs' \in [Warp -> Place] /\ at.column # -1
      /\ \/ pcs[w] \in Reading /\ pcs'[w] \in Reading
         \/ pcs[w] \in Closing /\ pcs'[w] \in Closing
      /\ \A v \in Warp : v # w => pcs'[v] = pcs[v]
  <2>1. CASE Multiply(w)
    BY <1>1, <2>1, Moves DEF Multiply, Place, Reading
  <2>2. CASE Weigh(w)
    <3>. DEFINE to == IF LastColumn THEN "deposit" ELSE "top"
    <3>1. Step(w, "gram", to) /\ to \in Closing /\ to # "fill"
      BY <2>2 DEF Weigh, Closing
    <3>. HIDE DEF to
    <3>. QED
      BY <1>1, <2>2, <3>1, Moves DEF Weigh, Place, Closing
  <2>3. CASE Drain(w)
    BY <1>1, <2>3, Moves DEF Drain, Place, Closing
  <2>. QED
    BY <2>1, <2>2, <2>3
<1>3. UNCHANGED <<arm, at, rows, coming, copies, slab, vals>>
  BY DEF Multiply, Weigh, Drain
<1>4. Shaped'
  BY <1>1, <1>2, <1>3 DEF Shaped, BlockWarps, Rows, RowTiles, Tiles
<1>5. /\ Stage' = Stage /\ After(Stage)' = After(Stage) /\ Pair' = Pair
      /\ Buf(at.step)' = Buf(at.step) /\ Buf(at.step + 1)' = Buf(at.step + 1)
  BY <1>3 DEF Stage, Pair, After, Buf
<1>6. Unlanded(w)'
  BY <1>1, <1>2, <1>3, <1>5 DEF Unlanded, Nxt, Reading, Closing
<1>7. Staged(w)'
  BY <1>1, <1>2, <1>3, <1>5 DEF Staged, Have, Sent, Staging, Reading, Closing
<1>8. ASSUME NEW v \in Warp, v # w  PROVE Unlanded(v)' /\ Staged(v)'
  BY <1>1, <1>2, <1>3, <1>8, Others DEF BlockInv
<1>. QED
  BY <1>2, <1>4, <1>6, <1>7, <1>8 DEF BlockInv

(* The deposit spoils the slabs, which nothing asks for any more.          *)
LEMMA PairDepositStep ==
  ASSUME BlockInv, TilesFit, NEW w \in Warp, Deposit(w)
  PROVE  BlockInv'
<1>1. Shaped /\ Phased /\ at.step \in Nat /\ (\A v \in Warp : Unlanded(v) /\ Staged(v))
  BY DEF BlockInv, Shaped
<1>2. /\ Phased' /\ Warp' = Warp /\ pcs' \in [Warp -> Place]
      /\ pcs[w] = "deposit" /\ pcs'[w] = "drain" /\ at.column # -1
      /\ \A v \in Warp : v # w => pcs'[v] = pcs[v]
  BY <1>1, Moves DEF Deposit, Place, Closing
<1>3. /\ UNCHANGED <<arm, at, rows, coming, copies, vals>>
      /\ slab' = [b \in 0 .. 1 |-> [v \in Warp |-> Spoiled]]
  BY <1>1, NoSpill DEF Deposit
<1>4. Shaped'
  BY <1>1, <1>2, <1>3 DEF Shaped, BlockWarps, Rows, RowTiles, Tiles
<1>5. /\ Stage' = Stage /\ After(Stage)' = After(Stage) /\ Pair' = Pair
  BY <1>3 DEF Stage, Pair, After
<1>6. ASSUME NEW v \in Warp  PROVE pcs[v] \in Closing /\ pcs'[v] \in Closing
  BY <1>1, <1>2 DEF Phased, AllIn, Closing, Reading, Staging
<1>7. ASSUME NEW v \in Warp  PROVE Unlanded(v)'
  <2>1. \A m \in copies' : m.warp # v
    BY <1>1, <1>3, <1>6 DEF Unlanded
  <2>. QED
    BY <2>1 DEF Unlanded
<1>8. ASSUME NEW v \in Warp  PROVE Staged(v)'
  BY <1>1, <1>2, <1>3, <1>5, <1>6 DEF Staged, Sent, Closing, Reading, Staging
<1>. QED
  BY <1>2, <1>4, <1>7, <1>8 DEF BlockInv

---------------------------------------------------------------------------
(* A copy lands in the piece it was issued for.                            *)
LEMMA LandStep ==
  ASSUME BlockInv, NEW m \in copies, CopyLands(m)
  PROVE  BlockInv'
<1>1. Shaped /\ Phased /\ at.step \in Nat /\ (\A v \in Warp : Unlanded(v) /\ Staged(v))
  BY DEF BlockInv, Shaped
<1>. DEFINE w == m.warp
<1>2. w \in Warp /\ m.buf \in 0 .. 2 /\ m.tag \in Tag
  BY <1>1 DEF Shaped
<1>3. UNCHANGED <<arm, at, pcs, rows, coming>> /\ copies' = copies \ {m}
  BY DEF CopyLands
<1>4. /\ Warp' = Warp /\ Stage' = Stage /\ After(Stage)' = After(Stage) /\ Pair' = Pair
      /\ Buf(at.step)' = Buf(at.step) /\ Buf(at.step + 1)' = Buf(at.step + 1)
  BY <1>3 DEF Stage, Pair, After, Buf, Warp
<1>5. /\ m.buf = Values => vals' = [vals EXCEPT ![w] = m.tag] /\ slab' = slab
      /\ m.buf # Values => slab' = [slab EXCEPT ![m.buf][w] = m.tag] /\ vals' = vals
  BY DEF CopyLands
<1>6. m.buf # Values => m.buf \in 0 .. 1
  BY <1>2 DEF Values
<1>7. Shaped'
  <2>1. vals' \in [Warp -> Tag \cup {Spoiled}] /\ slab' \in [0 .. 1 -> [Warp -> Tag \cup {Spoiled}]]
    BY <1>1, <1>2, <1>5, <1>6 DEF Shaped
  <2>. QED
    BY <1>1, <1>3, <1>4, <2>1 DEF Shaped, BlockWarps, Rows, RowTiles, Tiles
<1>8. Phased'
  BY <1>1, <1>3, <1>4 DEF Phased, AllIn, AllAt, Steps, LevelDigits, StageDigits
<1>9. Unlanded(w)'
  BY <1>1, <1>2, <1>3, <1>4 DEF Unlanded, Cur, Nxt, Val
<1>10. Cur(m) \/ Nxt(m) \/ Val(m)
  BY <1>1, <1>2 DEF Unlanded, Place, Staging, Shaped
<1>11. Staged(w)'
  <2>1. ASSUME NEW buf, NEW tag, Sent(w, buf, tag)
        PROVE  Sent(w, buf, tag)' \/ (m.buf = buf /\ m.tag = tag)
    BY <1>3, <2>1 DEF Sent
  <2>2. /\ Buf(at.step) \in 0 .. 1 /\ Buf(at.step + 1) \in 0 .. 1
        /\ Buf(at.step) # Buf(at.step + 1) /\ Buf(at.step) # Values /\ Buf(at.step + 1) # Values
    BY <1>1, Buffers
  <2>3. /\ slab'[Buf(at.step)][w] =
             IF m.buf = Buf(at.step) THEN m.tag ELSE slab[Buf(at.step)][w]
        /\ slab'[Buf(at.step + 1)][w] =
             IF m.buf = Buf(at.step + 1) THEN m.tag ELSE slab[Buf(at.step + 1)][w]
        /\ vals'[w] = IF m.buf = Values THEN m.tag ELSE vals[w]
    BY <1>1, <1>2, <1>5, <1>6, <2>2 DEF Shaped
  <2>4. /\ m.buf = Buf(at.step) => m.tag = Stage
        /\ m.buf = Buf(at.step + 1) => m.tag = After(Stage)
        /\ m.buf = Values => m.tag = Pair
    BY <1>10, <2>2 DEF Cur, Nxt, Val
  <2>5. Have(w, Buf(at.step), Stage) => Have(w, Buf(at.step), Stage)'
    BY <1>4, <2>1, <2>3, <2>4 DEF Have
  <2>6. Have(w, Buf(at.step + 1), After(Stage)) => Have(w, Buf(at.step + 1), After(Stage))'
    BY <1>4, <2>1, <2>3, <2>4 DEF Have
  <2>7. vals[w] = Pair \/ Sent(w, Values, Pair) => (vals[w] = Pair \/ Sent(w, Values, Pair))'
    BY <1>4, <2>1, <2>3, <2>4 DEF Values
  <2>. QED
    BY <1>1, <1>2, <1>3, <2>5, <2>6, <2>7 DEF Staged
<1>12. ASSUME NEW v \in Warp, v # w  PROVE Unlanded(v)' /\ Staged(v)'
  <2>1. /\ \A c \in copies' : c.warp = v => c \in copies
        /\ \A c \in copies : c.warp = v => c \in copies'
    BY <1>3, <1>12
  <2>2. (\A b \in 0 .. 1 : slab'[b][v] = slab[b][v]) /\ vals'[v] = vals[v]
    BY <1>1, <1>2, <1>5, <1>6, <1>12 DEF Shaped
  <2>. QED
    BY <1>1, <1>3, <2>1, <2>2, Others
<1>. QED
  BY <1>4, <1>7, <1>8, <1>9, <1>11, <1>12 DEF BlockInv

---------------------------------------------------------------------------
(* The barriers.                                                           *)
LEMMA TopStep ==
  ASSUME BlockInv, Top
  PROVE  BlockInv'
<1>1. Shaped /\ Phased /\ (\A v \in Warp : Unlanded(v) /\ Staged(v)) /\ AllAt("top")
  BY DEF BlockInv, Top
<1>2. copies = {}
  <2>. SUFFICES ASSUME NEW m \in copies  PROVE FALSE
    OBVIOUS
  <2>1. m.warp \in Warp
    BY <1>1 DEF Shaped
  <2>. QED
    BY <1>1, <2>1 DEF Unlanded, AllAt, Closing
<1>3. pcs' = [w \in Warp |-> "fill"] /\ Warp' = Warp
  BY DEF Top, Release, Warp
<1>4. /\ arm' = arm /\ copies' = {}
      /\ slab' \in [0 .. 1 -> [Warp -> Tag \cup {Spoiled}]]
      /\ vals' = [w \in Warp |-> Spoiled]
  <2>1. slab' = [b \in 0 .. 1 |-> [w \in Warp |-> IF slab[b][w] = Spoiled THEN Spoiled ELSE Spoiled]]
    BY DEF Top, KeepOnly
  <2>. QED
    BY <1>2, <2>1 DEF Top
<1>5. RowTiles \in Nat
  BY DEF RowTiles
<1>6. at' \in [block : Nat, column : Nat, step : Nat] /\ at'.step = 0
  <2>1. PICK b \in Nat, c \in Nat : at' = [block |-> b, column |-> c, step |-> 0]
    BY <1>1, <1>5 DEF Top, Shaped
  <2>. QED
    BY <2>1
<1>7. Shaped'
  BY <1>1, <1>3, <1>4, <1>6 DEF Shaped, Place, Staging, BlockWarps, Rows, RowTiles, Tiles
<1>8. Phased'
  <2>1. Steps' = Steps
    BY <1>4 DEF Steps, LevelDigits, StageDigits
  <2>2. coming' # {} => 1 < Steps
    BY DEF Top
  <2>. QED
    BY <1>3, <1>6, <2>1, <2>2 DEF Phased, AllIn, AllAt, Staging
<1>9. ASSUME NEW v \in Warp  PROVE Unlanded(v)' /\ Staged(v)'
  BY <1>3, <1>4 DEF Unlanded, Staged, Staging, Reading
<1>. QED
  BY <1>3, <1>7, <1>8, <1>9 DEF BlockInv

(* No warp multiplies before all of a stage has landed.                    *)
LEMMA LandedStep ==
  ASSUME BlockInv, Landed
  PROVE  BlockInv'
<1>1. Shaped /\ Phased /\ (\A v \in Warp : Unlanded(v) /\ Staged(v)) /\ AllAt("landed")
  BY DEF BlockInv, Landed
<1>2. pcs' = [w \in Warp |-> "mma"] /\ Warp' = Warp
  BY DEF Landed, Release, Warp
<1>3. UNCHANGED <<arm, at, rows, coming, copies, slab, vals>>
  BY DEF Landed
<1>4. /\ Stage' = Stage /\ After(Stage)' = After(Stage) /\ Pair' = Pair
      /\ Buf(at.step)' = Buf(at.step) /\ Buf(at.step + 1)' = Buf(at.step + 1)
  BY <1>3 DEF Stage, Pair, After, Buf
<1>5. Shaped'
  BY <1>1, <1>2, <1>3 DEF Shaped, Place, Reading, BlockWarps, Rows, RowTiles, Tiles
<1>6. Phased'
  BY <1>1, <1>2, <1>3 DEF Phased, AllIn, AllAt, Reading, Steps, LevelDigits, StageDigits
<1>7. ASSUME NEW v \in Warp  PROVE Unlanded(v)'
  BY <1>1, <1>2, <1>3, <1>4 DEF Unlanded, AllAt, Nxt, Reading, Closing
<1>8. ASSUME NEW v \in Warp  PROVE Staged(v)'
  BY <1>1, <1>2, <1>3, <1>4 DEF Staged, AllAt, Have, Sent, Reading, Staging
<1>. QED
  BY <1>2, <1>5, <1>6, <1>7, <1>8 DEF BlockInv

(* The next stage becomes this one, or the pair is done with.              *)
LEMMA DoneStep ==
  ASSUME BlockInv, Done
  PROVE  BlockInv'
<1>1. /\ Shaped /\ Phased /\ at.step \in Nat /\ (\A v \in Warp : Unlanded(v) /\ Staged(v))
      /\ \A v \in Warp : pcs[v] = "done"
  BY DEF BlockInv, Done, AllAt, Shaped
<1>2. /\ UNCHANGED <<arm, copies, vals>> /\ rows' = coming /\ Warp' = Warp
      /\ slab' = [b \in 0 .. 1 |-> [w \in Warp |-> IF slab[b][w] = After(Stage)
                                                   THEN After(Stage) ELSE Spoiled]]
  BY DEF Done, KeepOnly, Release, Warp
<1>3. slab' \in [0 .. 1 -> [Warp -> Tag \cup {Spoiled}]]
  BY <1>1, <1>2, Tags
<1>4. ASSUME NEW v \in Warp
      PROVE  /\ \A m \in copies : m.warp = v => Nxt(m)
             /\ coming # {} => Have(v, Buf(at.step + 1), After(Stage))
             /\ at.column # -1 => vals[v] = Pair \/ Sent(v, Values, Pair)
  BY <1>1 DEF Unlanded, Staged, Reading
<1>5. Steps' = Steps
  BY <1>2 DEF Steps, LevelDigits, StageDigits
<1>6. CASE at.step + 1 < Steps
  <2>1. /\ at' = [at EXCEPT !.step = @ + 1] /\ pcs' = [w \in Warp |-> "stage"]
        /\ coming' # {} => at.step + 2 < Steps
    BY <1>6 DEF Done, Release
  <2>2. at' \in [block : Nat, column : Nat \cup {-1}, step : Nat] /\ at'.step = at.step + 1
        /\ at'.column = at.column /\ at'.block = at.block
    BY <1>1, <2>1 DEF Shaped
  <2>3. Stage' = After(Stage) /\ Pair' = Pair /\ Buf(at.step)' = Buf(at.step + 1)
    BY <2>2 DEF Stage, After, Pair, Buf
  <2>4. Shaped'
    BY <1>1, <1>2, <1>3, <2>1, <2>2 DEF Shaped, Place, Staging, BlockWarps, Rows, RowTiles, Tiles
  <2>5. Phased'
    <3>1. at.column = -1 => AllAt("top")'
      BY <1>1, <1>2 DEF Phased, AllAt
    <3>2. coming' # {} => (at.step + 1) + 1 < Steps
      BY <1>1, <2>1
    <3>. QED
      BY <1>2, <1>5, <2>1, <2>2, <3>1, <3>2 DEF Phased, AllIn, Staging
  <2>6. ASSUME NEW v \in Warp  PROVE Unlanded(v)'
    BY <1>2, <1>4, <2>1, <2>3 DEF Unlanded, Nxt, Cur, Reading, Closing
  <2>7. ASSUME NEW v \in Warp  PROVE Staged(v)'
    <3>1. Buf(at.step + 1) \in 0 .. 1
      BY <1>1, Buffers
    <3>2. coming # {} => Have(v, Buf(at.step), Stage)'
      BY <1>2, <1>4, <2>3, <3>1 DEF Have, Sent
    <3>3. at.column # -1 => (vals[v] = Pair \/ Sent(v, Values, Pair))'
      BY <1>2, <1>4, <2>3 DEF Sent, Values
    <3>. QED
      BY <1>2, <2>1, <2>2, <3>2, <3>3 DEF Staged, Reading
  <2>. QED
    BY <1>2, <2>4, <2>5, <2>6, <2>7 DEF BlockInv
<1>7. CASE ~ (at.step + 1 < Steps)
  <2>1. at' = at /\ coming' = {} /\ pcs' = [w \in Warp |-> "gram"] /\ coming = {}
    BY <1>1, <1>7 DEF Done, Release, Phased
  <2>2. ASSUME NEW v \in Warp  PROVE \A m \in copies : m.warp # v
    BY <1>4, <2>1 DEF Nxt
  <2>3. Shaped'
    BY <1>1, <1>2, <1>3, <2>1 DEF Shaped, Place, Closing, BlockWarps, Rows, RowTiles, Tiles
  <2>4. Phased'
    BY <1>1, <1>2, <2>1 DEF Phased, AllIn, AllAt, Closing
  <2>5. ASSUME NEW v \in Warp  PROVE Unlanded(v)' /\ Staged(v)'
    <3>1. Pair' = Pair
      BY <2>1 DEF Pair
    <3>. QED
      BY <1>2, <1>4, <2>1, <2>2, <3>1 DEF Unlanded, Staged, Sent, Reading, Staging, Closing
  <2>. QED
    BY <1>2, <2>3, <2>4, <2>5 DEF BlockInv
<1>. QED
  BY <1>6, <1>7

---------------------------------------------------------------------------
(* What a warp has in flight and in place follows from where it stands, in *)
(* every block whose staging tiles fit in its slabs.                       *)
THEOREM CopiesKeepPace == ASSUME TilesFit  PROVE IntraSpec => []BlockInv
<1>1. IntraInit => BlockInv
  <2>. SUFFICES ASSUME IntraInit  PROVE BlockInv
    OBVIOUS
  <2>1. PICK s \in Samples : s \subseteq 0 .. BlockWarps - 1 /\ pcs = [w \in s |-> "top"]
    BY DEF IntraInit
  <2>2. Warp = s
    BY <2>1 DEF Warp
  <2>3. Shaped
    BY <2>1, <2>2 DEF IntraInit, Shaped, Place, Closing
  <2>4. Phased
    BY <2>1, <2>2 DEF IntraInit, Phased, AllIn, AllAt, Closing
  <2>5. ASSUME NEW v \in Warp  PROVE Unlanded(v) /\ Staged(v)
    BY <2>1, <2>2 DEF IntraInit, Unlanded, Staged, Staging, Reading
  <2>. QED
    BY <2>3, <2>4, <2>5 DEF BlockInv
<1>2. BlockInv /\ [IntraNext]_ivars => BlockInv'
  <2>. SUFFICES ASSUME BlockInv, [IntraNext]_ivars  PROVE BlockInv'
    OBVIOUS
  <2>1. CASE Top
    BY <2>1, TopStep
  <2>2. CASE Landed
    BY <2>2, LandedStep
  <2>3. CASE Done
    BY <2>3, DoneStep
  <2>4. ASSUME NEW w \in Warp, Fill(w)  PROVE BlockInv'
    BY <2>4, FillStep
  <2>5. ASSUME NEW w \in Warp, StageAhead(w)  PROVE BlockInv'
    BY <2>5, StageAheadStep
  <2>6. ASSUME NEW w \in Warp, Wait(w)  PROVE BlockInv'
    BY <2>6, WaitStep
  <2>7. ASSUME NEW w \in Warp, Multiply(w) \/ Weigh(w) \/ Drain(w)  PROVE BlockInv'
    BY <2>7, ReadStep
  <2>8. ASSUME NEW w \in Warp, Deposit(w)  PROVE BlockInv'
    BY <2>8, PairDepositStep
  <2>9. ASSUME NEW m \in copies, CopyLands(m)  PROVE BlockInv'
    BY <2>9, LandStep
  <2>10. CASE UNCHANGED ivars
    <3>1. UNCHANGED <<arm, at, pcs, rows, coming, copies, slab, vals>> /\ Warp' = Warp
      BY <2>10 DEF ivars, Warp
    <3>2. Shaped'
      BY <3>1 DEF BlockInv, Shaped, BlockWarps, Rows, RowTiles, Tiles
    <3>3. Phased'
      BY <3>1 DEF BlockInv, Phased, AllIn, AllAt, Steps, LevelDigits, StageDigits
    <3>4. ASSUME NEW v \in Warp  PROVE Unlanded(v)' /\ Staged(v)'
      BY <3>1, Others DEF BlockInv, Shaped
    <3>. QED
      BY <3>1, <3>2, <3>3, <3>4 DEF BlockInv
  <2>. QED
    BY <2>1, <2>2, <2>3, <2>4, <2>5, <2>6, <2>7, <2>8, <2>9, <2>10 DEF IntraNext
<1>. QED
  BY <1>1, <1>2, PTL DEF IntraSpec

(* What is multiplied, weighed and deposited is whole and this pair's: the *)
(* two barriers a stage and the wait for all but the newest copies are     *)
(* enough, for any number of levels, stages and warps.                     *)
THEOREM OperandsHold == ASSUME TilesFit  PROVE IntraSpec => []OperandsAreCurrent
<1>1. BlockInv => OperandsAreCurrent
  <2>. SUFFICES ASSUME BlockInv, NEW w \in Warp
                PROVE  /\ pcs[w] = "mma" /\ Mine(w) \in rows =>
                            /\ Into(Buf(at.step)) = {}
                            /\ \A v \in Warp : slab[Buf(at.step)][v] = Stage
                       /\ pcs[w] = "gram" /\ at.block + Mine(w) >= at.column =>
                            /\ Into(Values) = {}
                            /\ \A v \in Warp : vals[v] = Pair
                       /\ pcs[w] = "drain" => copies = {}
    BY DEF OperandsAreCurrent
  <2>1. Shaped /\ Phased /\ at.step \in Nat /\ (\A v \in Warp : Unlanded(v) /\ Staged(v))
    BY DEF BlockInv, Shaped
  <2>2. \A m \in copies : m.warp \in Warp
    BY <2>1 DEF Shaped
  <2>3. ASSUME pcs[w] = "mma", Mine(w) \in rows
        PROVE  /\ Into(Buf(at.step)) = {}
               /\ \A v \in Warp : slab[Buf(at.step)][v] = Stage
    <3>1. \A v \in Warp : pcs[v] \in Reading
      BY <2>1, <2>3 DEF Phased, AllIn, Staging, Reading, Closing
    <3>2. \A m \in copies : m.buf # Buf(at.step)
      BY <2>1, <2>2, <3>1, Buffers DEF Unlanded, Nxt
    <3>. QED
      BY <2>1, <2>3, <3>1, <3>2 DEF Into, Staged, Have, Sent
  <2>4. ASSUME pcs[w] \in {"gram", "drain"}
        PROVE  copies = {} /\ \A v \in Warp : vals[v] = Pair
    <3>1. \A v \in Warp : pcs[v] \in Closing
      BY <2>1, <2>4 DEF Phased, AllIn, Staging, Reading, Closing
    <3>2. copies = {}
      BY <2>1, <2>2, <3>1 DEF Unlanded
    <3>3. at.column # -1
      BY <2>1, <2>4 DEF Phased, AllAt
    <3>. QED
      BY <2>1, <3>1, <3>2, <3>3 DEF Staged, Sent, Closing
  <2>. QED
    BY <2>3, <2>4 DEF Into
<1>. QED
  BY <1>1, CopiesKeepPace, PTL

=============================================================================
