------------------------------ MODULE VmmOwner ------------------------------
(***************************************************************************)
(* The CUDA driver backing of a page arena (csrc/rola/src/paging/          *)
(* vmm_owner.cu): one reservation at the dense limit, a mapped prefix that *)
(* grows and rolls back by whole chunks, tensor views that keep the owner  *)
(* alive, and device work that may still be using the range when the host  *)
(* wants it unmapped.                                                      *)
(*                                                                         *)
(* Bytes are counted in a unit that divides both the page and the driver's *)
(* granularity; overflow of the 64-bit byte counts is not modelled.        *)
(***************************************************************************)
EXTENDS Integers, Sequences

CONSTANTS
  PageBytes,         \* page_rows * page_cols * 4
  Granularity,       \* cuMemGetAllocationGranularity
  DenseLimit,        \* dense_limit_pages
  TargetChunkBytes,
  MaxViews           \* bound: tensor views alive at once

ASSUME OwnerAssumption ==
  {PageBytes, Granularity, DenseLimit, TargetChunkBytes, MaxViews} \subseteq Nat \ {0}

VARIABLES
  chunks,      \* <<[address, bytes]>>, in mapping order         chunks_
  mappedBytes, \* mapped_bytes_
  committed,   \* committed_bytes_
  reserved,    \* is the address range reserved?                 address_ # 0
  closed,      \* closed_
  handles,     \* driver allocations created and not released
  backed,      \* granules of the range that are really mapped
  held,        \* does the handle registry still hold the owner?  g_owners
  views,       \* exported tensor views alive                    live_views
  working,     \* may device work still touch the range?
  unreleased   \* history: has a release failed after its unmap succeeded?

ownerVars == <<chunks, mappedBytes, committed, reserved, closed, handles, backed,
               held, views, working, unreleased>>
lifetime == <<held, views, working, unreleased>>

---------------------------------------------------------------------------
Least(a, b)   == IF a <= b THEN a ELSE b
CeilDiv(a, b) == (a + b - 1) \div b
RoundUp(v)    == CeilDiv(v, Granularity) * Granularity

(* The constructor's chunk, in pages, and the reserved extent.             *)
ChunkPages   == Least(DenseLimit, IF TargetChunkBytes < PageBytes THEN 1
                                  ELSE TargetChunkBytes \div PageBytes)
VirtualBytes == RoundUp(PageBytes * DenseLimit)

CapacityOf(bytes) == Least(bytes \div PageBytes, DenseLimit)
Capacity          == CapacityOf(mappedBytes)        \* mapped_capacity_pages

(* grow's target: whole chunks, one more than asked for except on the      *)
(* first growth and at the end of the range.                               *)
TargetPages(required, current) ==
  LET needed == CeilDiv(required, ChunkPages)
      ahead  == IF current = 0 \/ needed >= CeilDiv(DenseLimit, ChunkPages) THEN 0 ELSE 1
  IN Least(DenseLimit, (needed + ahead) * ChunkPages)

Granules(address, bytes) ==
  (address \div Granularity) .. ((address + bytes) \div Granularity - 1)
End(chunk) == chunk.address + chunk.bytes

(* A created owner: the plane is reserved and the initial chunk mapped.    *)
OwnerInit ==
  LET first == RoundUp(PageBytes * TargetPages(Least(DenseLimit, ChunkPages), 0))
  IN /\ chunks = <<[address |-> 0, bytes |-> first]>>
     /\ mappedBytes = first /\ committed = first
     /\ reserved = TRUE /\ closed = FALSE
     /\ handles = 1 /\ backed = Granules(0, first)
     /\ held = TRUE /\ views = 0 /\ working = FALSE /\ unreleased = FALSE

Callable == held /\ ~closed

---------------------------------------------------------------------------
(* grow past the capacity: one chunk over the whole distance to the        *)
(* target, installed only after create, map and set-access all succeeded.  *)
Growth(required) ==
  LET bytes == RoundUp(PageBytes * TargetPages(required, Capacity)) - mappedBytes
  IN [address |-> mappedBytes, bytes |-> bytes]

GrowServed(required) ==
  LET chunk == Growth(required)
  IN /\ Callable /\ Capacity < required /\ required <= DenseLimit
     /\ chunks' = Append(chunks, chunk)
     /\ mappedBytes' = End(chunk) /\ committed' = End(chunk)
     /\ handles' = handles + 1
     /\ backed' = backed \cup Granules(chunk.address, chunk.bytes)
     /\ UNCHANGED <<reserved, closed, lifetime>>

GrowFailed_UnmapKept(required, call) ==        \* mutant: a failed access keeps the map
  /\ Callable /\ Capacity < required /\ required <= DenseLimit
  /\ backed' = IF call = "access"
               THEN backed \cup Granules(Growth(required).address, Growth(required).bytes)
               ELSE backed
  /\ UNCHANGED <<chunks, mappedBytes, committed, reserved, closed, handles, lifetime>>

(* The driver call that failed decides what there is to undo: nothing was  *)
(* created, or a handle, or a handle and its mapping.                      *)
GrowFailed(required, call) ==
  LET made   == IF call = "create" THEN 0 ELSE 1
      span   == IF call = "access"
                THEN Granules(Growth(required).address, Growth(required).bytes) ELSE {}
      undone == IF call = "create" THEN 0 ELSE 1   \* cuMemRelease in the handler
  IN /\ Callable /\ Capacity < required /\ required <= DenseLimit
     /\ handles' = handles + made - undone
     /\ backed' = (backed \cup span) \ span        \* cuMemUnmap, only if mapped
     /\ UNCHANGED <<chunks, mappedBytes, committed, reserved, closed, lifetime>>

---------------------------------------------------------------------------
(* rollback_to: the target must survive the rounding and be a chunk's end, *)
(* and the initial chunk stays.                                            *)
RollbackBytes(target) == RoundUp(PageBytes * target)

Restorable_ExactBytes(target) ==               \* mutant: the target is not rounded up
  /\ \E i \in DOMAIN chunks : End(chunks[i]) = PageBytes * target
  /\ PageBytes * target >= chunks[1].bytes
Restorable(target) ==
  /\ CapacityOf(RollbackBytes(target)) = target
  /\ \E i \in DOMAIN chunks : End(chunks[i]) = RollbackBytes(target)
  /\ RollbackBytes(target) >= chunks[1].bytes

(* remove_latest_chunk down to chunk n: what is left once they are gone.   *)
RemovedDownTo(n) ==
  /\ chunks' = SubSeq(chunks, 1, n)
  /\ mappedBytes' = End(chunks[n])
  /\ handles' = handles - (Len(chunks) - n)

(* What a rollback needs before it unmaps anything: the device is idle     *)
(* (cudaDeviceSynchronize returned), the target is a real shrink.          *)
RollbackStarts_NoSync(target) ==               \* mutant: no device synchronize
  /\ Callable /\ target < Capacity /\ Restorable(target)
  /\ working' = working
RollbackStarts(target) ==
  /\ Callable /\ target < Capacity /\ Restorable(target)
  /\ working' = FALSE

UnmapOk(i) == Granules(chunks[i].address, chunks[i].bytes) \subseteq backed

RollbackServed(target) ==
  LET bytes == RollbackBytes(target)
      n     == CHOOSE i \in DOMAIN chunks : End(chunks[i]) = bytes
  IN /\ RollbackStarts(target)
     /\ \A i \in n + 1 .. Len(chunks) : UnmapOk(i)
     /\ RemovedDownTo(n)
     /\ backed' = backed \ Granules(bytes, mappedBytes - bytes)
     /\ committed' = bytes
     /\ UNCHANGED <<reserved, closed, held, views, unreleased>>

(* The driver refuses to unmap chunk n, or unmaps it and then refuses to   *)
(* release its handle: the throw leaves the chunks after n removed, chunk  *)
(* n on the books, and committed_bytes_ as it was.                         *)
RollbackFailed(target, n, call) ==
  /\ RollbackStarts(target)
  /\ n \in DOMAIN chunks /\ End(chunks[n]) > RollbackBytes(target)
  /\ \A i \in n + 1 .. Len(chunks) : UnmapOk(i)
  /\ call = "release" => UnmapOk(n)
  /\ RemovedDownTo(n)
  /\ LET from == IF call = "release" THEN chunks[n].address ELSE End(chunks[n])
     IN backed' = backed \ Granules(from, mappedBytes - from)
  /\ unreleased' = (unreleased \/ call = "release")
  /\ UNCHANGED <<committed, reserved, closed, held, views>>

---------------------------------------------------------------------------
(* A tensor view: the count goes up before the tensor exists and comes     *)
(* down with its deleter, which also drops the owner reference it captured *)
ExportView == Callable /\ views < MaxViews /\ views' = views + 1
              /\ UNCHANGED <<chunks, mappedBytes, committed, reserved, closed, handles,
                             backed, held, working, unreleased>>

DropView == views > 0 /\ views' = views - 1
            /\ UNCHANGED <<chunks, mappedBytes, committed, reserved, closed, handles,
                           backed, held, working, unreleased>>

(* Device work is launched over a view and outlives it on the host.        *)
LaunchWork ==
  /\ views > 0 /\ ~working /\ working' = TRUE
  /\ UNCHANGED <<chunks, mappedBytes, committed, reserved, closed, handles, backed, held,
                 views, unreleased>>

CompleteWork ==
  /\ working /\ working' = FALSE
  /\ UNCHANGED <<chunks, mappedBytes, committed, reserved, closed, handles, backed, held,
                 views, unreleased>>

ReleasePlane ==
  /\ chunks' = <<>> /\ mappedBytes' = 0 /\ committed' = 0
  /\ reserved' = FALSE /\ handles' = handles - Len(chunks) /\ backed' = {}

Close ==
  /\ Callable /\ views = 0
  /\ ReleasePlane /\ closed' = TRUE /\ working' = FALSE
  /\ UNCHANGED <<held, views, unreleased>>

(* vmm_release: the registry drops its reference; views may still hold one *)
ReleaseHandle ==
  /\ held /\ held' = FALSE
  /\ UNCHANGED <<chunks, mappedBytes, committed, reserved, closed, handles, backed,
                 views, working, unreleased>>

(* ~VmmOwner, once nobody refers to the owner: it releases the plane only  *)
(* if the device could be quiesced, and otherwise leaks it (no step here). *)
Destroy ==
  /\ ~held /\ views = 0 /\ ~closed /\ reserved
  /\ ReleasePlane /\ working' = FALSE
  /\ UNCHANGED <<closed, held, views, unreleased>>

OwnerNext ==
  \/ \E r \in 1 .. DenseLimit : GrowServed(r)
  \/ \E r \in 1 .. DenseLimit, call \in {"create", "map", "access"} : GrowFailed(r, call)
  \/ \E t \in 0 .. DenseLimit : RollbackServed(t)
  \/ \E t \in 0 .. DenseLimit, n \in DOMAIN chunks, call \in {"unmap", "release"} :
        RollbackFailed(t, n, call)
  \/ ExportView \/ DropView \/ LaunchWork \/ CompleteWork
  \/ Close \/ ReleaseHandle \/ Destroy

OwnerSpec == OwnerInit /\ [][OwnerNext]_ownerVars

---------------------------------------------------------------------------
(* Every variable has its type.                                            *)
OwnerTypeOK ==
  /\ \A i \in DOMAIN chunks : chunks[i] \in [address : 0 .. VirtualBytes, bytes : 1 .. VirtualBytes]
  /\ mappedBytes \in 0 .. VirtualBytes /\ committed \in 0 .. VirtualBytes
  /\ {reserved, closed, held, working, unreleased} \subseteq BOOLEAN
  /\ handles \in Nat /\ views \in 0 .. MaxViews
  /\ backed \subseteq 0 .. VirtualBytes \div Granularity - 1

(* "Only the prefix reported by mapped_capacity_pages is mapped and may be *)
(* touched": every granule under a page a caller may touch is mapped.      *)
PrefixAlwaysMapped == Granules(0, RoundUp(PageBytes * Capacity)) \subseteq backed

(* What the owner counts is what is mapped.  The prefix is real after      *)
(* growth, failed growth and rollback -- also one whose unmap failed half  *)
(* way; only a release that fails breaks it: then the owner still counts a *)
(* chunk it has unmapped (PrefixAlwaysMapped).  And growth is all-or-      *)
(* nothing: a driver call that fails half way leaves no allocation and no  *)
(* mapping the chunk list does not account for.                            *)
CountedIsMapped ==
  /\ ~unreleased => PrefixAlwaysMapped
  /\ handles = Len(chunks)
  /\ backed \subseteq UNION {Granules(chunks[i].address, chunks[i].bytes) : i \in DOMAIN chunks}

(* Rollback undoes growth: whatever the page size leaves over at the end   *)
(* of a chunk, every capacity the owner reported on its way here is one    *)
(* rollback_to accepts, and the plane then has exactly that capacity.      *)
GrowthCanBeUndone ==
  \A i \in DOMAIN chunks :
    LET before == CapacityOf(End(chunks[i]))
    IN Restorable(before) /\ RollbackBytes(before) = End(chunks[i])

(* Nothing is taken from under a user: a chunk is unmapped only when no     *)
(* device work may touch the range, and the addresses a view points at stay *)
(* reserved: close refuses and the destructor waits for the last one.       *)
NothingTakenFromUse ==
  [][/\ backed \ backed' # {} => ~working'
     /\ views' > 0 => reserved']_ownerVars

===========================================================================
