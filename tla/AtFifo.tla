------------------------------- MODULE AtFifo -------------------------------
(***************************************************************************)
(* nrf_atfifo: a ring buffer shared, without locks, by code that nests: a  *)
(* thread and the interrupts that preempt it.  The head and tail tags are  *)
(* 32-bit words with two 16-bit positions each, changed by LDREX/STREX     *)
(* loops.  Positions are counted in items (the code counts bytes, always   *)
(* multiples of item_size).                                                *)
(*                                                                         *)
(* One processor runs everything, so the operations in progress form a     *)
(* stack of frames: only the newest one runs, and it must finish before    *)
(* the one below continues (the nesting rule in nrf_atfifo.h).             *)
(*                                                                         *)
(* Entering an exception clears the exclusive monitor, so a STREX succeeds *)
(* only if nothing ran since its LDREX.  A request is therefore two steps: *)
(* the LDREX of its own tag, then the load of the other tag with the test  *)
(* and the STREX.  A loop that has no exit before its STREX is one step.   *)
(***************************************************************************)
EXTENDS Integers, FiniteSets, Sequences

CONSTANTS
  Capacity,  \* item_cnt of NRF_ATFIFO_DEF
  MaxDepth,  \* bound: how many operations may be nested
  MaxItems   \* bound: how many items are put in one run

ASSUME CapacityAssumption == Capacity \in Nat \ {0}
ASSUME MaxDepthAssumption == MaxDepth \in Nat \ {0}
ASSUME MaxItemsAssumption == MaxItems \in Nat \ {0}

VARIABLES
  tail,      \* [wr, rd]: first free slot; end of the data readers may see
  head,      \* [wr, rd]: end of the space writers may use; next slot to read
  buf,       \* the item stored in each slot, NoItem while it is incomplete
  depth,     \* number of operations in progress
  op,        \* op[f]: where the operation in frame f stands
  tag,       \* tag[f]: its last_tail or last_head
  excl,      \* excl[f]: its exclusive access is still armed
  item,      \* item[f]: the item it writes, or the one it has read
  allocated, \* history: how many items have been given a slot
  owner      \* history: the item each slot was last allocated to

vars == <<tail, head, buf, depth, op, tag, excl, item, allocated, owner>>
-----------------------------------------------------------------------------
(* Positions.  The buffer has one slot more than its capacity.             *)

Slots == 0 .. Capacity
Frames == 1 .. MaxDepth
NoItem == 0
ItemIds == Nat \ {0}
Tags == [wr : Slots, rd : Slots]
Ops == {"idle", "alloc", "write", "put", "get", "read", "free"}

\* The increment with overflow of wspace_req and rspace_req.
Succ(p) == IF p + 1 = Capacity + 1 THEN 0 ELSE p + 1

\* The number of slots from p up to q, going round the ring.
Dist(p, q) == IF p <= q THEN q - p ELSE q - p + Capacity + 1

\* The i-th slot from p on.
SlotAt(p, i) == IF p + i <= Capacity THEN p + i ELSE p + i - (Capacity + 1)

Between(s, p, q) == Dist(p, s) < Dist(p, q)

Running == 1 .. depth
Writing(f) == op[f] \in {"write", "put"}
Reading(f) == op[f] \in {"read", "free"}
Full(h, t) == Succ(t.wr) = h.wr
NoData(h, t) == h.rd = t.rd

\* Changed on purpose: every write, or no write, counts as the outermost.
AnyOutermost(t) == TRUE
NoOutermost(t) == FALSE

\* No operation of the same kind was open when this one took its tag.
Outermost(t) == t.wr = t.rd

TypeOK ==
  /\ tail \in Tags
  /\ head \in Tags
  /\ buf \in [Slots -> ItemIds \cup {NoItem}]
  /\ depth \in 0 .. MaxDepth
  /\ op \in [Frames -> Ops]
  /\ tag \in [Frames -> Tags]
  /\ excl \in [Frames -> BOOLEAN]
  /\ item \in [Frames -> ItemIds \cup {NoItem}]
  /\ allocated \in Nat
  /\ owner \in [Slots -> ItemIds \cup {NoItem}]

\* nrf_atfifo_init
Init ==
  /\ tail = [wr |-> 0, rd |-> 0]
  /\ head = [wr |-> 0, rd |-> 0]
  /\ buf = [s \in Slots |-> NoItem]
  /\ depth = 0
  /\ op = [f \in Frames |-> "idle"]
  /\ tag = [f \in Frames |-> [wr |-> 0, rd |-> 0]]
  /\ excl = [f \in Frames |-> FALSE]
  /\ item = [f \in Frames |-> NoItem]
  /\ allocated = 0
  /\ owner = [s \in Slots |-> NoItem]
-----------------------------------------------------------------------------
(* Frames.                                                                 *)

\* Changed on purpose: the monitor of the preempted request stays armed.
BeginKeepsMonitor(kind, t) ==
  /\ depth < MaxDepth
  /\ depth' = depth + 1
  /\ op' = [op EXCEPT ![depth + 1] = kind]
  /\ tag' = [tag EXCEPT ![depth + 1] = t]
  /\ excl' = [excl EXCEPT ![depth + 1] = TRUE]
  /\ item' = [item EXCEPT ![depth + 1] = NoItem]

\* A new operation starts in the code that is running, or in an interrupt
\* that preempts it: in either case no older frame keeps its exclusive access.
Begin(kind, t) ==
  /\ depth < MaxDepth
  /\ depth' = depth + 1
  /\ op' = [op EXCEPT ![depth + 1] = kind]
  /\ tag' = [tag EXCEPT ![depth + 1] = t]
  /\ excl' = [f \in Frames |-> f = depth + 1]
  /\ item' = [item EXCEPT ![depth + 1] = NoItem]

\* The newest operation returns to its caller.
End ==
  /\ depth' = depth - 1
  /\ op' = [op EXCEPT ![depth] = "idle"]
  /\ excl' = [excl EXCEPT ![depth] = FALSE]
  /\ UNCHANGED <<tag, item>>

Top(kind) == depth > 0 /\ op[depth] = kind

\* The LDREX of the next round of a request whose STREX failed.
Reload(t) ==
  /\ tag' = [tag EXCEPT ![depth] = t]
  /\ excl' = [excl EXCEPT ![depth] = TRUE]

Step(kind) == op' = [op EXCEPT ![depth] = kind]

-----------------------------------------------------------------------------
(* Writing: nrf_atfifo_item_alloc, the copy by its caller (or by           *)
(* nrf_atfifo_alloc_put), nrf_atfifo_item_put.                             *)

AllocBegin ==
  /\ allocated < MaxItems
  /\ Begin("alloc", tail)
  /\ UNCHANGED <<tail, head, buf, allocated, owner>>

\* No space: return NULL.  This exit needs no STREX.
AllocFull ==
  /\ Top("alloc")
  /\ Full(head, tag[depth])
  /\ End
  /\ UNCHANGED <<tail, head, buf, allocated, owner>>

AllocRetry ==
  /\ Top("alloc")
  /\ ~Full(head, tag[depth])
  /\ ~excl[depth]
  /\ Reload(tail)
  /\ UNCHANGED <<tail, head, buf, depth, op, item, allocated, owner>>

AllocStore ==
  /\ Top("alloc")
  /\ ~Full(head, tag[depth])
  /\ excl[depth]
  /\ tail' = [wr |-> Succ(tag[depth].wr), rd |-> tag[depth].rd]
  /\ Step("write")
  /\ excl' = [excl EXCEPT ![depth] = FALSE]
  /\ buf' = [buf EXCEPT ![tag[depth].wr] = NoItem]
  /\ owner' = [owner EXCEPT ![tag[depth].wr] = allocated + 1]
  /\ item' = [item EXCEPT ![depth] = allocated + 1]
  /\ allocated' = allocated + 1
  /\ UNCHANGED <<head, depth, tag>>

ItemWrite ==
  /\ Top("write")
  /\ buf' = [buf EXCEPT ![tag[depth].wr] = item[depth]]
  /\ Step("put")
  /\ UNCHANGED <<tail, head, depth, tag, excl, item, allocated, owner>>

\* Changed on purpose: the outermost write shows only its own item.
ItemPutOwnOnly ==
  /\ Top("put")
  /\ tail' = IF Outermost(tag[depth])
             THEN [wr |-> tail.wr, rd |-> Succ(tag[depth].wr)]
             ELSE tail
  /\ End
  /\ UNCHANGED <<head, buf, allocated, owner>>

\* Only the outermost write makes data visible (nrf_atfifo_wspace_close).
ItemPut ==
  /\ Top("put")
  /\ tail' = IF Outermost(tag[depth])
             THEN [wr |-> tail.wr, rd |-> tail.wr]
             ELSE tail
  /\ End
  /\ UNCHANGED <<head, buf, allocated, owner>>
-----------------------------------------------------------------------------
(* Reading: nrf_atfifo_item_get, the copy, nrf_atfifo_item_free.           *)

GetBegin ==
  /\ Begin("get", head)
  /\ UNCHANGED <<tail, head, buf, allocated, owner>>

GetEmpty ==
  /\ Top("get")
  /\ NoData(tag[depth], tail)
  /\ End
  /\ UNCHANGED <<tail, head, buf, allocated, owner>>

GetRetry ==
  /\ Top("get")
  /\ ~NoData(tag[depth], tail)
  /\ ~excl[depth]
  /\ Reload(head)
  /\ UNCHANGED <<tail, head, buf, depth, op, item, allocated, owner>>

GetStore ==
  /\ Top("get")
  /\ ~NoData(tag[depth], tail)
  /\ excl[depth]
  /\ head' = [wr |-> tag[depth].wr, rd |-> Succ(tag[depth].rd)]
  /\ Step("read")
  /\ excl' = [excl EXCEPT ![depth] = FALSE]
  /\ UNCHANGED <<tail, buf, depth, tag, item, allocated, owner>>

ItemRead ==
  /\ Top("read")
  /\ item' = [item EXCEPT ![depth] = buf[tag[depth].rd]]
  /\ Step("free")
  /\ UNCHANGED <<tail, head, buf, depth, tag, excl, allocated, owner>>

\* Only the outermost read gives space back (nrf_atfifo_rspace_close).
ItemFree ==
  /\ Top("free")
  /\ head' = IF Outermost(tag[depth])
             THEN [wr |-> head.rd, rd |-> head.rd]
             ELSE head
  /\ End
  /\ UNCHANGED <<tail, buf, allocated, owner>>
-----------------------------------------------------------------------------
\* Changed on purpose: the space of open reads is released too.
ClearReleasesOpen ==
  /\ head' = [wr |-> tail.rd, rd |-> tail.rd]
  /\ excl' = [f \in Frames |-> FALSE]
  /\ UNCHANGED <<tail, buf, depth, op, tag, item, allocated, owner>>

\* nrf_atfifo_clear: drops the data readers could still get.  With a read
\* open only the read position moves, and the open read releases the space.
Clear ==
  /\ head' = [wr |-> IF head.wr = head.rd THEN tail.rd ELSE head.wr,
              rd |-> tail.rd]
  /\ excl' = [f \in Frames |-> FALSE]
  /\ UNCHANGED <<tail, buf, depth, op, tag, item, allocated, owner>>

Next ==
  \/ AllocBegin \/ AllocFull \/ AllocRetry \/ AllocStore \/ ItemWrite \/ ItemPut
  \/ GetBegin \/ GetEmpty \/ GetRetry \/ GetStore \/ ItemRead \/ ItemFree
  \/ Clear

Spec == Init /\ [][Next]_vars
-----------------------------------------------------------------------------
(* What must hold.                                                         *)

\* The four positions stay in ring order: space being read, data ready,
\* space being written, and together they never wrap onto themselves.
RingOrder ==
  Dist(head.wr, head.rd) + Dist(head.rd, tail.rd) + Dist(tail.rd, tail.wr)
    = Dist(head.wr, tail.wr)

\* No two operations in progress use the same slot, whatever the nesting:
\* item pointers returned by item_alloc and item_get are exclusive.
WSlot(f) == tag[f].wr
RSlot(f) == tag[f].rd
SlotExclusion ==
  \A f, g \in Running :
    /\ f # g /\ Writing(f) /\ Writing(g) => WSlot(f) # WSlot(g)
    /\ f # g /\ Reading(f) /\ Reading(g) => RSlot(f) # RSlot(g)
    /\ Writing(f) /\ Reading(g) => WSlot(f) # RSlot(g)

\* The slot holds the item it was last allocated to, wholly written.
Complete(s) == buf[s] = owner[s] /\ buf[s] # NoItem

\* Data that readers may get is complete and is what its writer put there,
\* and it stays so until the read that took it is freed.
ReadableComplete ==
  /\ \A s \in Slots : Between(s, head.wr, tail.rd) => Complete(s)
  /\ \A f \in Running : op[f] = "free" => buf[RSlot(f)] = item[f]

\* When no operation is in progress nothing is left behind: every item put
\* is visible and every slot read is free again.
NothingStranded == depth = 0 => tail.rd = tail.wr /\ head.wr = head.rd

-----------------------------------------------------------------------------
(* Why it holds: an inductive invariant.  Frames are ordered by nesting,   *)
(* and the slots of the open writes (reads) follow one another from        *)
(* tail.rd (head.wr) in that order, the outermost one first.               *)

FrameInv ==
  /\ \A f \in Frames : op[f] = "idle" <=> f > depth
  /\ \A f \in Frames : excl[f] => f = depth /\ op[f] \in {"alloc", "get"}
  /\ \A f \in Running : excl[f] /\ op[f] = "alloc" => tag[f] = tail
  /\ \A f \in Running : excl[f] /\ op[f] = "get" => tag[f] = head

WriterInv ==
  /\ \A f \in Running : Writing(f) =>
       tag[f].rd = tail.rd /\ Between(WSlot(f), tail.rd, tail.wr)
  /\ \A f, g \in Running : f < g /\ Writing(f) /\ Writing(g) =>
       Dist(tail.rd, WSlot(f)) < Dist(tail.rd, WSlot(g))
  /\ tail.rd = tail.wr \/ \E f \in Running : Writing(f) /\ WSlot(f) = tail.rd

ReaderInv ==
  /\ \A f \in Running : Reading(f) =>
       tag[f].wr = head.wr /\ Between(RSlot(f), head.wr, head.rd)
  /\ \A f, g \in Running : f < g /\ Reading(f) /\ Reading(g) =>
       Dist(head.wr, RSlot(f)) < Dist(head.wr, RSlot(g))
  /\ head.wr = head.rd \/ \E f \in Running : Reading(f) /\ RSlot(f) = head.wr

DataInv ==
  /\ \A s \in Slots : Between(s, tail.rd, tail.wr) =>
       Complete(s) \/ \E f \in Running : op[f] = "write" /\ WSlot(f) = s
  /\ \A f \in Running : Writing(f) => item[f] = owner[WSlot(f)] /\ item[f] # NoItem

IInv ==
  /\ TypeOK
  /\ RingOrder
  /\ FrameInv
  /\ WriterInv
  /\ ReaderInv
  /\ DataInv
  /\ ReadableComplete
-----------------------------------------------------------------------------
\* The ring implements the queue of FifoSpec.
Contents(p, q, f) == [i \in 1 .. Dist(p, q) |-> f[SlotAt(p, i - 1)]]

Fifo == INSTANCE FifoSpec
          WITH Items   <- 1 .. (MaxItems + MaxDepth),
               pending <- Contents(tail.rd, tail.wr, owner),
               ready   <- Contents(head.rd, tail.rd, buf),
               open    <- Contents(head.wr, head.rd, buf)

ImplementsFifo == Fifo!FifoSpecification

\* A request compares the position of its own LDREX with the other tag as it
\* is now, and its exit with NULL never verifies that the first is still true.
\* As long as an operation older than the request holds a slot, a stale
\* position cannot pass for a full or an empty FIFO: whatever nested operations
\* and clears preempted the request, NULL says what is true on its return.
\* (A request that no open operation surrounds has no such guarantee: enough
\* preempting operations can move the ring past its stale position.)
HoldsSlot(g) == Writing(g) \/ Reading(g)
Nested(f) == \E g \in Running : g < f /\ HoldsSlot(g)
NestedNullIsTrue ==
  [][/\ AllocFull /\ Nested(depth) => Full(head, tail)
     /\ GetEmpty /\ Nested(depth) => NoData(head, tail)]_vars

\* Why: seen from an end of the ring that the open operation g pins down, the
\* end that the waiting request f looks at only ever moves away from f's tag,
\* and the ring order stops it before it has gone all the way round.
WaiterInv ==
  \A f, g \in Running : g < f =>
    /\ op[f] = "alloc" /\ Writing(g) =>
         Dist(tail.rd, tag[f].wr) <= Dist(tail.rd, tail.wr)
    /\ op[f] = "alloc" /\ Reading(g) =>
         Dist(head.wr, tag[f].wr) <= Dist(head.wr, tail.wr)
    /\ op[f] = "get" /\ Writing(g) =>
         Dist(head.rd, tail.rd) <= Dist(tag[f].rd, tail.rd)
    /\ op[f] = "get" /\ Reading(g) =>
         Dist(head.wr, tag[f].rd) <= Dist(head.wr, head.rd)
=============================================================================
