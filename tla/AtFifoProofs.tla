---------------------------- MODULE AtFifoProofs ----------------------------
(***************************************************************************)
(* Proofs about AtFifo for every capacity and every depth of nesting: the  *)
(* positions keep their order on the ring, no two operations in progress   *)
(* share a slot, what readers may get is complete, a stale position does   *)
(* not mislead a nested request, and the ring implements the queue of      *)
(* FifoSpec.                                                               *)
(***************************************************************************)
EXTENDS AtFifo, SequenceTheorems, FiniteSetTheorems, TLAPS

(* Facts about positions on the ring.                                      *)

\* The distance between two positions is at most the capacity.
LEMMA DistRange ==
  ASSUME NEW p \in Slots, NEW q \in Slots
  PROVE  Dist(p, q) \in 0 .. Capacity
BY CapacityAssumption DEF Slots, Dist

\* Only equal positions are at distance zero.
LEMMA DistZero ==
  ASSUME NEW p \in Slots, NEW q \in Slots
  PROVE  Dist(p, q) = 0 <=> p = q
BY CapacityAssumption DEF Slots, Dist

\* Positions at the same distance from p are the same position.
LEMMA DistInjective ==
  ASSUME NEW p \in Slots, NEW q \in Slots, NEW r \in Slots,
         Dist(p, q) = Dist(p, r)
  PROVE  q = r
BY CapacityAssumption DEF Slots, Dist

\* Moving q one slot on, without reaching p, adds one to its distance from p.
LEMMA DistSucc ==
  ASSUME NEW p \in Slots, NEW q \in Slots
  PROVE  /\ Succ(q) \in Slots
         /\ Succ(q) # p => Dist(p, Succ(q)) = Dist(p, q) + 1
         /\ Dist(q, Succ(q)) = 1
BY CapacityAssumption DEF Slots, Dist, Succ

\* The slot just before p is the farthest one from it.
LEMMA DistLast ==
  ASSUME NEW p \in Slots, NEW q \in Slots, Succ(q) = p
  PROVE  Dist(p, q) = Capacity
BY CapacityAssumption DEF Slots, Dist, Succ

-----------------------------------------------------------------------------
(* Type correctness.                                                       *)

LEMMA InitTypeOK == Init => TypeOK
BY CapacityAssumption, MaxDepthAssumption
   DEF Init, TypeOK, Tags, Slots, Frames, Ops, ItemIds, NoItem

\* Every step keeps the types of the positions, the slots and the frames.
LEMMA NextTypeOK ==
  ASSUME TypeOK, [Next]_vars
  PROVE  TypeOK'
<1> USE CapacityAssumption, MaxDepthAssumption
<1>1. ASSUME NEW s \in Slots PROVE Succ(s) \in Slots
  BY <1>1 DEF Slots, Succ
<1>2. ASSUME depth > 0 PROVE depth \in Frames
  BY <1>2 DEF TypeOK, Frames
<1>3. CASE AllocBegin
  BY <1>3 DEF AllocBegin, Begin, TypeOK, Frames, Ops, NoItem, Full
<1>4. CASE AllocFull
  BY <1>2, <1>4 DEF AllocFull, Top, End, TypeOK, Frames, Ops
<1>5. CASE AllocRetry
  BY <1>2, <1>5 DEF AllocRetry, Top, Reload, TypeOK
<1>6. CASE AllocStore
  BY <1>1, <1>2, <1>6
     DEF AllocStore, Top, Step, TypeOK, Tags, Ops, ItemIds, NoItem
<1>7. CASE ItemWrite
  BY <1>2, <1>7 DEF ItemWrite, Top, Step, TypeOK, Tags, Ops
<1>8. CASE ItemPut
  BY <1>2, <1>8 DEF ItemPut, Top, End, TypeOK, Tags, Ops
<1>9. CASE GetBegin
  BY <1>9 DEF GetBegin, Begin, TypeOK, Frames, Ops, NoItem, NoData
<1>10. CASE GetEmpty
  BY <1>2, <1>10 DEF GetEmpty, Top, End, TypeOK, Ops
<1>11. CASE GetRetry
  BY <1>2, <1>11 DEF GetRetry, Top, Reload, TypeOK
<1>12. CASE GetStore
  BY <1>1, <1>2, <1>12 DEF GetStore, Top, Step, TypeOK, Tags, Ops
<1>13. CASE ItemRead
  BY <1>2, <1>13 DEF ItemRead, Top, Step, TypeOK, Tags, Ops
<1>14. CASE ItemFree
  BY <1>2, <1>14 DEF ItemFree, Top, End, TypeOK, Tags, Ops
<1>15. CASE Clear
  BY <1>15 DEF Clear, TypeOK, Tags
<1>16. CASE UNCHANGED vars
  BY <1>16 DEF vars, TypeOK
<1> QED
  BY <1>3, <1>4, <1>5, <1>6, <1>7, <1>8, <1>9, <1>10, <1>11, <1>12, <1>13,
     <1>14, <1>15, <1>16 DEF Next

\* TypeOK holds in every reachable state, for every capacity and nesting.
THEOREM TypeCorrect == Spec => []TypeOK
BY InitTypeOK, NextTypeOK, PTL DEF Spec
-----------------------------------------------------------------------------
(* The inductive invariant, one lemma per action.                          *)

LEMMA InitIInv == Init => IInv
<1> SUFFICES ASSUME Init PROVE IInv
  OBVIOUS
<1> USE CapacityAssumption, MaxDepthAssumption
<1>1. TypeOK
  BY InitTypeOK
<1>2. RingOrder /\ FrameInv /\ WriterInv /\ ReaderInv /\ DataInv /\ ReadableComplete
  BY DEF Init, RingOrder, FrameInv, WriterInv, ReaderInv, DataInv, ReadableComplete,
         Between, Dist, Running, Frames, Writing, Reading, Slots
<1> QED
  BY <1>1, <1>2 DEF IInv

\* A step that leaves the ring and every open write and read alone keeps
\* the invariant: it only begins, retries or gives up a request.
LEMMA QuietStep ==
  ASSUME IInv, TypeOK', FrameInv',
         UNCHANGED <<tail, head, buf, owner>>,
         \A f \in Frames : \/ UNCHANGED <<op[f], tag[f], item[f]>>
                           \/ /\ op[f] \in {"idle", "alloc", "get"}
                              /\ op'[f] \in {"idle", "alloc", "get"}
  PROVE  IInv'
<1> USE MaxDepthAssumption
<1>1. \A f \in Frames : (Writing(f)' <=> Writing(f)) /\ (Reading(f)' <=> Reading(f))
  BY DEF Writing, Reading
<1>2. \A f \in Frames : Writing(f) \/ Reading(f) => UNCHANGED <<op[f], tag[f], item[f]>>
  BY DEF Writing, Reading
<1>3. ASSUME NEW f \in Frames, Writing(f) \/ Reading(f)
      PROVE  f \in Running /\ f \in Running'
  <2>1. op[f] # "idle" /\ op'[f] # "idle"
    BY <1>2, <1>3 DEF Writing, Reading
  <2> QED
    BY <2>1 DEF IInv, TypeOK, FrameInv, Running, Frames
<1>4. Running \subseteq Frames /\ Running' \subseteq Frames
  BY DEF IInv, TypeOK, Running, Frames
<1>5. RingOrder'
  BY DEF IInv, RingOrder, Dist
<1>6. WriterInv'
  BY <1>1, <1>2, <1>3, <1>4 DEF IInv, WriterInv, Between, Dist, WSlot
<1>7. ReaderInv'
  BY <1>1, <1>2, <1>3, <1>4 DEF IInv, ReaderInv, Between, Dist, RSlot
<1>8. DataInv'
  <2>1. \A f \in Frames : op[f] = "write" => op'[f] = "write" /\ Writing(f)
    BY DEF Writing
  <2> QED
    BY <1>1, <1>2, <1>3, <1>4, <2>1 DEF IInv, DataInv, Between, Dist, WSlot, Complete
<1>9. ReadableComplete'
  <2>1. \A f \in Frames : op'[f] = "free" => op[f] = "free" /\ Reading(f)
    BY DEF Reading
  <2> QED
    BY <1>1, <1>2, <1>3, <1>4, <2>1
       DEF IInv, ReadableComplete, Between, Dist, RSlot, Complete
<1> QED
  BY <1>5, <1>6, <1>7, <1>8, <1>9 DEF IInv

\* Returning from an operation leaves the older frames, all of them disarmed.
LEMMA EndKeepsFrames ==
  ASSUME IInv, TypeOK', depth > 0, End
  PROVE  FrameInv'
<1>1. depth \in Frames /\ depth' = depth - 1 /\ depth \in Nat
  BY MaxDepthAssumption DEF IInv, TypeOK, End, Frames
<1>2. op' = [op EXCEPT ![depth] = "idle"] /\ excl' = [excl EXCEPT ![depth] = FALSE]
  BY DEF End
<1>3. \A f \in Frames : op'[f] = "idle" <=> f > depth'
  BY <1>1, <1>2 DEF IInv, TypeOK, FrameInv, Frames
<1>4. \A f \in Frames : ~excl'[f]
  BY <1>1, <1>2 DEF IInv, TypeOK, FrameInv
<1>5. Running' \subseteq Frames
  BY <1>1, MaxDepthAssumption DEF IInv, TypeOK, Running, Frames
<1> QED
  BY <1>3, <1>4, <1>5 DEF FrameInv

LEMMA AllocBeginKeeps ==
  ASSUME IInv, AllocBegin
  PROVE  IInv'
<1>1. TypeOK'
  BY NextTypeOK DEF Next, IInv
<1>2. FrameInv'
  <2>1. depth \in Nat /\ depth' = depth + 1 /\ depth' \in Frames
    BY MaxDepthAssumption DEF IInv, TypeOK, AllocBegin, Begin, Frames
  <2>2. op' = [op EXCEPT ![depth'] = "alloc"] /\ tag' = [tag EXCEPT ![depth'] = tail]
    BY <2>1 DEF AllocBegin, Begin
  <2>3. excl' = [f \in Frames |-> f = depth'] /\ UNCHANGED <<tail, head>>
    BY <2>1 DEF AllocBegin, Begin
  <2>4. \A f \in Frames : op'[f] = "idle" <=> f > depth'
    BY <2>1, <2>2 DEF IInv, TypeOK, FrameInv, Frames
  <2>5. op'[depth'] = "alloc" /\ tag'[depth'] = tail
    BY <2>1, <2>2 DEF IInv, TypeOK
  <2>6. \A f \in Frames : excl'[f] => f = depth'
    BY <2>3
  <2>7. Running' \subseteq Frames
    BY <1>1, MaxDepthAssumption DEF TypeOK, Running, Frames
  <2> QED
    BY <2>3, <2>4, <2>5, <2>6, <2>7 DEF FrameInv
<1>3. \A f \in Frames : \/ UNCHANGED <<op[f], tag[f], item[f]>>
                        \/ op[f] = "idle" /\ op'[f] = "alloc"
  BY DEF IInv, FrameInv, AllocBegin, Begin, TypeOK, Frames
<1> QED
  BY <1>1, <1>2, <1>3, QuietStep DEF AllocBegin

LEMMA GetBeginKeeps ==
  ASSUME IInv, GetBegin
  PROVE  IInv'
<1>1. TypeOK'
  BY NextTypeOK DEF Next, IInv
<1>2. FrameInv'
  <2>1. depth \in Nat /\ depth' = depth + 1 /\ depth' \in Frames
    BY MaxDepthAssumption DEF IInv, TypeOK, GetBegin, Begin, Frames
  <2>2. op' = [op EXCEPT ![depth'] = "get"] /\ tag' = [tag EXCEPT ![depth'] = head]
    BY <2>1 DEF GetBegin, Begin
  <2>3. excl' = [f \in Frames |-> f = depth'] /\ UNCHANGED <<tail, head>>
    BY <2>1 DEF GetBegin, Begin
  <2>4. \A f \in Frames : op'[f] = "idle" <=> f > depth'
    BY <2>1, <2>2 DEF IInv, TypeOK, FrameInv, Frames
  <2>5. op'[depth'] = "get" /\ tag'[depth'] = head
    BY <2>1, <2>2 DEF IInv, TypeOK
  <2>6. \A f \in Frames : excl'[f] => f = depth'
    BY <2>3
  <2>7. Running' \subseteq Frames
    BY <1>1, MaxDepthAssumption DEF TypeOK, Running, Frames
  <2> QED
    BY <2>3, <2>4, <2>5, <2>6, <2>7 DEF FrameInv
<1>3. \A f \in Frames : \/ UNCHANGED <<op[f], tag[f], item[f]>>
                        \/ op[f] = "idle" /\ op'[f] = "get"
  BY DEF IInv, FrameInv, GetBegin, Begin, TypeOK, Frames
<1> QED
  BY <1>1, <1>2, <1>3, QuietStep DEF GetBegin

LEMMA GiveUpKeeps ==
  ASSUME IInv, AllocFull \/ GetEmpty
  PROVE  IInv'
<1>1. TypeOK'
  BY NextTypeOK DEF Next, IInv
<1>2. FrameInv'
  BY <1>1, EndKeepsFrames DEF AllocFull, GetEmpty, Top
<1>3. \A f \in Frames : \/ UNCHANGED <<op[f], tag[f], item[f]>>
                        \/ op[f] \in {"alloc", "get"} /\ op'[f] = "idle"
  BY DEF IInv, AllocFull, GetEmpty, Top, End, TypeOK, Frames
<1> QED
  BY <1>1, <1>2, <1>3, QuietStep DEF AllocFull, GetEmpty

LEMMA RetryKeeps ==
  ASSUME IInv, AllocRetry \/ GetRetry
  PROVE  IInv'
<1>1. TypeOK'
  BY NextTypeOK DEF Next, IInv
<1>2. FrameInv'
  <2>1. depth \in Frames /\ UNCHANGED <<tail, head, depth, op>>
    BY MaxDepthAssumption DEF IInv, TypeOK, AllocRetry, GetRetry, Top, Frames
  <2>2. /\ excl' = [excl EXCEPT ![depth] = TRUE]
        /\ \/ op[depth] = "alloc" /\ tag' = [tag EXCEPT ![depth] = tail]
           \/ op[depth] = "get" /\ tag' = [tag EXCEPT ![depth] = head]
    BY DEF AllocRetry, GetRetry, Top, Reload
  <2>3. Running \subseteq Frames /\ Running' = Running
    BY <2>1, MaxDepthAssumption DEF IInv, TypeOK, Running, Frames
  <2> QED
    BY <2>1, <2>2, <2>3 DEF IInv, TypeOK, FrameInv
<1>3. \A f \in Frames : \/ UNCHANGED <<op[f], tag[f], item[f]>>
                        \/ op[f] \in {"alloc", "get"} /\ op'[f] = op[f]
  BY DEF IInv, AllocRetry, GetRetry, Top, Reload, TypeOK, Frames
<1> QED
  BY <1>1, <1>2, <1>3, QuietStep DEF AllocRetry, GetRetry

\* What RingOrder says of the four positions taken pairwise.
LEMMA RingFacts ==
  ASSUME TypeOK, RingOrder
  PROVE  /\ tail.wr \in Slots /\ tail.rd \in Slots
         /\ head.wr \in Slots /\ head.rd \in Slots
         /\ Dist(head.wr, head.rd) + Dist(head.rd, tail.rd) = Dist(head.wr, tail.rd)
         /\ Dist(head.wr, tail.rd) + Dist(tail.rd, tail.wr) = Dist(head.wr, tail.wr)
<1>1. /\ tail.wr \in Slots /\ tail.rd \in Slots
      /\ head.wr \in Slots /\ head.rd \in Slots
  BY DEF TypeOK, Tags
<1> QED
  BY <1>1, CapacityAssumption DEF RingOrder, Dist, Slots

\* A slot is not both readable, or being read, and being written.
LEMMA ZonesDisjoint ==
  ASSUME TypeOK, RingOrder, NEW s \in Slots, Between(s, head.wr, tail.rd)
  PROVE  ~Between(s, tail.rd, tail.wr) /\ s # tail.wr
<1>1. /\ tail.wr \in Slots /\ tail.rd \in Slots /\ head.wr \in Slots
      /\ Dist(head.wr, tail.rd) + Dist(tail.rd, tail.wr) = Dist(head.wr, tail.wr)
  BY RingFacts
<1> QED
  BY <1>1, CapacityAssumption DEF Between, Dist, Slots

\* What a frame is doing tells that it is running, and its tag is a tag.
LEMMA FrameFacts ==
  ASSUME TypeOK, FrameInv
  PROVE  /\ Running \subseteq Frames
         /\ \A f \in Running : tag[f] \in Tags /\ WSlot(f) \in Slots /\ RSlot(f) \in Slots
         /\ \A f \in Frames : op[f] # "idle" => f \in Running
         /\ depth > 0 => depth \in Running /\ depth \in Frames
         /\ \A f \in Running : f \in Nat /\ f <= depth
<1>1. Running \subseteq Frames /\ \A f \in Running : f \in Nat /\ f <= depth
  BY MaxDepthAssumption DEF TypeOK, Running, Frames
<1>2. \A f \in Frames : op[f] # "idle" => f \in Running
  BY MaxDepthAssumption DEF TypeOK, FrameInv, Running, Frames
<1> QED
  BY <1>1, <1>2 DEF TypeOK, Tags, Running, WSlot, RSlot

\* A request that stores its tail has taken the first free slot.
LEMMA AllocStoreKeeps ==
  ASSUME IInv, AllocStore
  PROVE  IInv'
<1> DEFINE d == depth
           s == tail.wr
<1> USE CapacityAssumption
<1>1. TypeOK'
  BY NextTypeOK DEF Next, IInv
<1>2. /\ d \in Running /\ d \in Frames /\ Running \subseteq Frames
      /\ \A f \in Running : WSlot(f) \in Slots /\ RSlot(f) \in Slots
      /\ \A f \in Running : f \in Nat /\ f <= d
  BY FrameFacts DEF AllocStore, Top, IInv
<1>3. tag[d] = tail /\ Succ(s) # head.wr /\ op[d] = "alloc"
  BY <1>2 DEF AllocStore, Top, Full, IInv, FrameInv
<1>4. /\ tail' = [wr |-> Succ(s), rd |-> tail.rd]
      /\ op' = [op EXCEPT ![d] = "write"]
      /\ excl' = [excl EXCEPT ![d] = FALSE]
      /\ buf' = [buf EXCEPT ![s] = NoItem]
      /\ owner' = [owner EXCEPT ![s] = allocated + 1]
      /\ item' = [item EXCEPT ![d] = allocated + 1]
      /\ UNCHANGED <<head, depth, tag>> /\ Running' = Running
  BY <1>3 DEF AllocStore, Step, Running
<1>5. /\ s \in Slots /\ Succ(s) \in Slots
      /\ tail.rd \in Slots /\ head.wr \in Slots /\ head.rd \in Slots
      /\ Dist(head.wr, head.rd) + Dist(head.rd, tail.rd) = Dist(head.wr, tail.rd)
      /\ Dist(head.wr, tail.rd) + Dist(tail.rd, s) = Dist(head.wr, s)
  BY RingFacts, DistSucc DEF IInv
<1>6. RingOrder' /\ Dist(tail.rd, Succ(s)) = Dist(tail.rd, s) + 1
  <2>1. Dist(head.wr, Succ(s)) = Dist(head.wr, s) + 1
    BY <1>3, <1>5, DistSucc
  <2>2. Succ(s) # tail.rd
    BY <1>3, <1>5, <2>1, DistRange DEF Dist, Slots, Succ
  <2>3. Dist(tail.rd, Succ(s)) = Dist(tail.rd, s) + 1
    BY <1>5, <2>2, DistSucc
  <2>4. tail'.wr = Succ(s) /\ tail'.rd = tail.rd /\ head' = head
    BY <1>4
  <2>5. \A p, q \in Slots : Dist(p, q) \in Nat
    BY DistRange
  <2>6. Dist(head.wr, head.rd) + Dist(head.rd, tail.rd) + Dist(tail.rd, Succ(s))
          = Dist(head.wr, Succ(s))
    BY <1>5, <2>1, <2>3, <2>5
  <2>7. RingOrder'
    BY <2>4, <2>6 DEF RingOrder, Dist
  <2> QED
    BY <2>3, <2>7
<1>7. FrameInv'
  BY <1>2, <1>3, <1>4 DEF IInv, FrameInv, TypeOK
<1>8. /\ \A f \in Running : f # d => UNCHANGED <<op[f], item[f]>>
      /\ op'[d] = "write" /\ item'[d] = allocated + 1
      /\ WSlot(d) = s /\ tag[d].rd = tail.rd
      /\ ~Writing(d) /\ ~Reading(d) /\ Writing(d)' /\ ~Reading(d)'
  BY <1>2, <1>3, <1>4 DEF IInv, TypeOK, WSlot, Writing, Reading
<1>9. /\ \A f \in Running : f # d => /\ Writing(f)' <=> Writing(f)
                                     /\ Reading(f)' <=> Reading(f)
      /\ \A f \in Running : WSlot(f)' = WSlot(f) /\ RSlot(f)' = RSlot(f)
  BY <1>4, <1>8 DEF Writing, Reading, WSlot, RSlot
<1>10. WriterInv'
  <2>1. \A f \in Running : f # d /\ Writing(f) =>
          /\ Dist(tail.rd, WSlot(f)) < Dist(tail.rd, s)
          /\ tag[f].rd = tail.rd
    BY DEF IInv, WriterInv, Between
  <2>2. \A p \in Slots : Dist(tail.rd, p) \in Nat
    BY <1>5, DistRange
  <2>3. \A f \in Running : Writing(f)' =>
          tag'[f].rd = tail'.rd /\ Between(WSlot(f), tail.rd, tail.wr)'
    BY <1>2, <1>4, <1>5, <1>6, <1>8, <1>9, <2>1, <2>2 DEF Between
  <2>4. \A f, g \in Running : f < g /\ Writing(f)' /\ Writing(g)' =>
          Dist(tail.rd, WSlot(f)) < Dist(tail.rd, WSlot(g))
    BY <1>2, <1>8, <1>9, <2>1 DEF IInv, WriterInv
  <2>5. tail.rd = s => Writing(d)' /\ WSlot(d) = tail.rd
    BY <1>8
  <2>6. tail.rd # s => \E f \in Running : Writing(f)' /\ WSlot(f) = tail.rd
    BY <1>8, <1>9 DEF IInv, WriterInv
  <2>7. \A f \in Running, g \in Running : Dist(tail.rd, WSlot(f))' = Dist(tail.rd, WSlot(f))
    BY <1>4, <1>9 DEF Dist
  <2> QED
    BY <1>2, <1>4, <1>9, <2>3, <2>4, <2>5, <2>6, <2>7 DEF WriterInv
<1>11. ReaderInv'
  BY <1>4, <1>8, <1>9 DEF IInv, ReaderInv, Between, Dist
<1>12. DataInv'
  <2>1. ASSUME NEW x \in Slots, Between(x, tail.rd, Succ(s)), x # s
        PROVE  Between(x, tail.rd, s)
    BY <1>5, <1>6, <2>1, DistRange, DistInjective DEF Between
  <2>2. ASSUME NEW x \in Slots, Between(x, tail.rd, Succ(s)), x # s
        PROVE  Complete(x)' \/ \E f \in Running : op'[f] = "write" /\ WSlot(f)' = x
    BY <1>4, <1>5, <1>8, <1>9, <2>1, <2>2 DEF IInv, DataInv, Complete, TypeOK
  <2>3. op'[d] = "write" /\ WSlot(d)' = s
    BY <1>2, <1>4, <1>8 DEF WSlot
  <2>4. \A x \in Slots : Between(x, tail.rd, tail.wr)' =>
          Complete(x)' \/ \E f \in Running : op'[f] = "write" /\ WSlot(f)' = x
    BY <1>2, <1>4, <2>2, <2>3 DEF Between, Dist
  <2>5. ASSUME NEW f \in Running, Writing(f)'
        PROVE  item'[f] = owner'[WSlot(f)] /\ item'[f] # NoItem
    <3>1. CASE f = d
      BY <1>4, <1>5, <1>8, <3>1 DEF IInv, TypeOK, NoItem
    <3>2. CASE f # d
      <4>1. WSlot(f) # s
        BY <1>2, <1>5, <1>9, <2>5, <3>2, DistRange DEF IInv, WriterInv, Between
      <4> QED
        BY <1>2, <1>4, <1>5, <1>8, <1>9, <2>5, <3>2, <4>1 DEF IInv, DataInv, TypeOK
    <3> QED
      BY <3>1, <3>2
  <2> QED
    BY <1>4, <1>9, <2>4, <2>5 DEF DataInv
<1>13. ReadableComplete'
  <2>1. \A x \in Slots : Between(x, head.wr, tail.rd) => x # s /\ Complete(x)
    BY ZonesDisjoint DEF IInv, ReadableComplete
  <2>2. \A f \in Running : Reading(f) => RSlot(f) # s
    <3>1. \A f \in Running : Reading(f) => Between(RSlot(f), head.wr, tail.rd)
      BY <1>2, <1>5, DistRange DEF IInv, ReaderInv, Between
    <3> QED
      BY <1>2, <2>1, <3>1
  <2>3. \A f \in Running : op'[f] = "free" =>
          Reading(f) /\ op[f] = "free" /\ item'[f] = item[f]
    BY <1>8 DEF Reading
  <2> QED
    BY <1>2, <1>4, <1>5, <1>9, <2>1, <2>2, <2>3
       DEF IInv, ReadableComplete, Complete, Between, Dist, TypeOK
<1> QED
  BY <1>1, <1>6, <1>7, <1>10, <1>11, <1>12, <1>13 DEF IInv

\* The copy into the slot completes the newest write.
LEMMA ItemWriteKeeps ==
  ASSUME IInv, ItemWrite
  PROVE  IInv'
<1> DEFINE d == depth
<1>1. TypeOK'
  BY NextTypeOK DEF Next, IInv
<1>2. /\ d \in Running /\ d \in Frames /\ Running \subseteq Frames
      /\ \A f \in Running : WSlot(f) \in Slots /\ RSlot(f) \in Slots
  BY FrameFacts DEF ItemWrite, Top, IInv
<1>3. /\ op[d] = "write"
      /\ buf' = [buf EXCEPT ![WSlot(d)] = item[d]]
      /\ op' = [op EXCEPT ![d] = "put"]
      /\ UNCHANGED <<tail, head, depth, tag, excl, item, owner>>
      /\ Running' = Running
  BY DEF ItemWrite, Top, Step, Running, WSlot
<1>4. /\ \A f \in Running : f # d => op'[f] = op[f]
      /\ op'[d] = "put"
      /\ \A f \in Running : /\ Writing(f)' <=> Writing(f)
                            /\ Reading(f)' <=> Reading(f)
                            /\ WSlot(f)' = WSlot(f)
                            /\ RSlot(f)' = RSlot(f)
  BY <1>2, <1>3 DEF IInv, TypeOK, Writing, Reading, WSlot, RSlot
<1>5. RingOrder'
  BY <1>3 DEF IInv, RingOrder, Dist
<1>6. FrameInv'
  BY <1>2, <1>3 DEF IInv, FrameInv, TypeOK
<1>7. WriterInv'
  BY <1>3, <1>4 DEF IInv, WriterInv, Between, Dist
<1>8. ReaderInv'
  BY <1>3, <1>4 DEF IInv, ReaderInv, Between, Dist
<1>9. item[d] = owner[WSlot(d)] /\ item[d] # NoItem
  BY <1>2, <1>3 DEF IInv, DataInv, Writing
<1>10. \A x \in Slots : (Complete(x) => Complete(x)') /\ Complete(WSlot(d))'
  BY <1>2, <1>3, <1>9 DEF IInv, TypeOK, Complete, WSlot
<1>11. DataInv'
  <2>1. ASSUME NEW x \in Slots, Between(x, tail.rd, tail.wr)
        PROVE  Complete(x)' \/ \E f \in Running : op'[f] = "write" /\ WSlot(f)' = x
    <3>1. CASE x = WSlot(d)
      BY <1>2, <1>3, <1>10, <3>1 DEF WSlot
    <3>2. CASE x # WSlot(d)
      BY <1>4, <1>10, <2>1, <3>2 DEF IInv, DataInv
    <3> QED
      BY <3>1, <3>2
  <2> QED
    BY <1>3, <1>4, <2>1 DEF IInv, DataInv, Between, Dist
<1>12. ReadableComplete'
  <2>1. ASSUME NEW f \in Running, op'[f] = "free"
        PROVE  op[f] = "free" /\ RSlot(f) # WSlot(d)
    <3>1. Reading(f) /\ op[f] = "free"
      BY <1>4, <2>1 DEF Reading
    <3>2. Between(RSlot(f), head.wr, tail.rd)
      BY <1>2, <3>1, RingFacts, DistRange DEF IInv, ReaderInv, Between
    <3>3. Between(WSlot(d), tail.rd, tail.wr)
      BY <1>2, <1>3 DEF IInv, WriterInv, Writing
    <3> QED
      BY <1>2, <3>1, <3>2, <3>3, ZonesDisjoint DEF IInv
  <2> QED
    BY <1>2, <1>3, <1>4, <1>10, <2>1
       DEF IInv, ReadableComplete, Between, Dist, TypeOK
<1> QED
  BY <1>1, <1>5, <1>6, <1>7, <1>8, <1>11, <1>12 DEF IInv

\* Copying the item out changes nothing but the reader's own frame.
LEMMA ItemReadKeeps ==
  ASSUME IInv, ItemRead
  PROVE  IInv'
<1> DEFINE d == depth
<1>1. TypeOK'
  BY NextTypeOK DEF Next, IInv
<1>2. /\ d \in Running /\ d \in Frames /\ Running \subseteq Frames
      /\ \A f \in Running : WSlot(f) \in Slots /\ RSlot(f) \in Slots
  BY FrameFacts DEF ItemRead, Top, IInv
<1>3. /\ op[d] = "read"
      /\ item' = [item EXCEPT ![d] = buf[RSlot(d)]]
      /\ op' = [op EXCEPT ![d] = "free"]
      /\ UNCHANGED <<tail, head, depth, tag, excl, buf, owner>>
      /\ Running' = Running
  BY DEF ItemRead, Top, Step, Running, RSlot
<1>4. /\ \A f \in Running : f # d => op'[f] = op[f] /\ item'[f] = item[f]
      /\ op'[d] = "free" /\ item'[d] = buf[RSlot(d)] /\ ~Writing(d)
      /\ \A f \in Running : /\ Writing(f)' <=> Writing(f)
                            /\ Reading(f)' <=> Reading(f)
                            /\ WSlot(f)' = WSlot(f)
                            /\ RSlot(f)' = RSlot(f)
  BY <1>2, <1>3 DEF IInv, TypeOK, Writing, Reading, WSlot, RSlot
<1>5. RingOrder'
  BY <1>3 DEF IInv, RingOrder, Dist
<1>6. FrameInv'
  BY <1>2, <1>3 DEF IInv, FrameInv, TypeOK
<1>7. WriterInv'
  BY <1>3, <1>4 DEF IInv, WriterInv, Between, Dist
<1>8. ReaderInv'
  BY <1>3, <1>4 DEF IInv, ReaderInv, Between, Dist
<1>9. DataInv'
  <2>1. \A f \in Running : op[f] = "write" => op'[f] = "write"
    BY <1>3, <1>4
  <2> QED
    BY <1>3, <1>4, <2>1 DEF IInv, DataInv, Between, Dist, Complete
<1>10. ReadableComplete'
  BY <1>3, <1>4 DEF IInv, ReadableComplete, Between, Dist, Complete
<1> QED
  BY <1>1, <1>5, <1>6, <1>7, <1>8, <1>9, <1>10 DEF IInv

\* Clearing with no read open empties the ring up to tail.rd; with one open,
\* it only moves the read position to tail.rd.
LEMMA ClearKeeps ==
  ASSUME IInv, Clear
  PROVE  IInv'
<1>1. TypeOK'
  BY NextTypeOK DEF Next, IInv
<1>2. /\ tail.wr \in Slots /\ tail.rd \in Slots
      /\ head.wr \in Slots /\ head.rd \in Slots
      /\ Dist(head.wr, head.rd) + Dist(head.rd, tail.rd) = Dist(head.wr, tail.rd)
      /\ Dist(head.wr, tail.rd) + Dist(tail.rd, tail.wr) = Dist(head.wr, tail.wr)
      /\ \A p, q \in Slots : Dist(p, q) \in Nat
  BY RingFacts, DistRange DEF IInv
<1>3. /\ head'.rd = tail.rd
      /\ head'.wr = IF head.wr = head.rd THEN tail.rd ELSE head.wr
      /\ UNCHANGED <<tail, buf, depth, op, tag, item, owner>>
      /\ Running' = Running
  BY DEF Clear, Running
<1>4. /\ Running \subseteq Frames
      /\ \A f \in Running : WSlot(f) \in Slots /\ RSlot(f) \in Slots
      /\ \A f \in Running : /\ Writing(f)' <=> Writing(f)
                            /\ Reading(f)' <=> Reading(f)
                            /\ WSlot(f)' = WSlot(f)
                            /\ RSlot(f)' = RSlot(f)
  BY <1>3, FrameFacts DEF IInv, Writing, Reading, WSlot, RSlot
<1>5. Dist(tail.rd, tail.rd) = 0
  BY <1>2, DistZero
<1>6. RingOrder'
  BY <1>2, <1>3, <1>5 DEF RingOrder, Dist
<1>7. FrameInv'
  <2>1. \A f \in Frames : ~excl'[f]
    BY DEF Clear
  <2> QED
    BY <1>3, <1>4, <2>1 DEF IInv, FrameInv
<1>8. WriterInv'
  BY <1>3, <1>4 DEF IInv, WriterInv, Between, Dist
<1>9. ReaderInv'
  <2>1. CASE head.wr = head.rd
    <3>1. \A f \in Running : ~Reading(f)
      BY <1>2, <1>4, <2>1, DistZero DEF IInv, ReaderInv, Between
    <3> QED
      BY <1>3, <1>4, <2>1, <3>1 DEF ReaderInv
  <2>2. CASE head.wr # head.rd
    <3>1. \A f \in Running : Reading(f) => Between(RSlot(f), head.wr, tail.rd)
      BY <1>2, <1>4 DEF IInv, ReaderInv, Between
    <3> QED
      BY <1>3, <1>4, <2>2, <3>1 DEF IInv, ReaderInv, Between, Dist
  <2> QED
    BY <2>1, <2>2
<1>10. DataInv'
  BY <1>3, <1>4 DEF IInv, DataInv, Between, Dist, Complete
<1>11. ReadableComplete'
  <2>1. \A s \in Slots : Between(s, head.wr, tail.rd)' => Between(s, head.wr, tail.rd)
    BY <1>2, <1>3, <1>5 DEF Between, Dist
  <2> QED
    BY <1>3, <1>4, <2>1 DEF IInv, ReadableComplete, Complete
<1> QED
  BY <1>1, <1>6, <1>7, <1>8, <1>9, <1>10, <1>11 DEF IInv

\* The newest operation returns: the frames below it are as they were.
LEMMA EndFrames ==
  ASSUME IInv, TypeOK', depth > 0, End
  PROVE  /\ depth \in Running /\ depth \in Frames
         /\ Running' \subseteq Running
         /\ \A f \in Running : f \in Running' <=> f # depth
         /\ \A f \in Running' : UNCHANGED <<op[f], tag[f], item[f]>>
         /\ \A f \in Running' : /\ Writing(f)' <=> Writing(f)
                                /\ Reading(f)' <=> Reading(f)
                                /\ WSlot(f)' = WSlot(f)
                                /\ RSlot(f)' = RSlot(f)
                                /\ WSlot(f) \in Slots
                                /\ RSlot(f) \in Slots
                                /\ f < depth
<1>1. /\ depth \in Running /\ depth \in Frames /\ Running \subseteq Frames
      /\ \A f \in Running : WSlot(f) \in Slots /\ RSlot(f) \in Slots
      /\ \A f \in Running : f \in Nat /\ f <= depth
  BY FrameFacts DEF IInv
<1>2. depth' = depth - 1 /\ op' = [op EXCEPT ![depth] = "idle"] /\ UNCHANGED <<tag, item>>
  BY DEF End
<1>3. /\ Running' \subseteq Running
      /\ \A f \in Running : f \in Running' <=> f # depth
  BY <1>1, <1>2 DEF Running, IInv, TypeOK
<1>4. \A f \in Running' : f \in Frames /\ f # depth
  BY <1>1, <1>3
<1>5. \A f \in Running' : UNCHANGED <<op[f], tag[f], item[f]>>
  <2>1. DOMAIN op = Frames
    BY DEF IInv, TypeOK
  <2> QED
    BY <1>2, <1>4, <2>1
<1>6. \A f \in Running' : f < depth
  BY <1>1, <1>2, <1>3 DEF Running
<1> QED
  BY <1>1, <1>3, <1>5, <1>6 DEF Writing, Reading, WSlot, RSlot

\* A put that is not the outermost leaves the ring alone; the outermost one
\* is the only write still open, so all the items written are complete.
LEMMA ItemPutKeeps ==
  ASSUME IInv, ItemPut
  PROVE  IInv'
<1> DEFINE d == depth
<1>1. TypeOK'
  BY NextTypeOK DEF Next, IInv
<1>2. /\ d > 0 /\ op[d] = "put" /\ End
      /\ UNCHANGED <<head, buf, owner, tag, item>>
      /\ tail' = IF tag[d].wr = tag[d].rd
                 THEN [wr |-> tail.wr, rd |-> tail.wr]
                 ELSE tail
  BY DEF ItemPut, Top, End, Outermost
<1>3. /\ d \in Running /\ d \in Frames
      /\ Running' \subseteq Running
      /\ \A f \in Running : f \in Running' <=> f # d
      /\ \A f \in Running' : UNCHANGED <<op[f], tag[f], item[f]>>
      /\ \A f \in Running' : /\ Writing(f)' <=> Writing(f)
                             /\ Reading(f)' <=> Reading(f)
                             /\ WSlot(f)' = WSlot(f)
                             /\ RSlot(f)' = RSlot(f)
                             /\ WSlot(f) \in Slots
                             /\ RSlot(f) \in Slots
                             /\ f < d
  BY <1>1, <1>2, EndFrames
<1>4. FrameInv'
  BY <1>1, <1>2, EndKeepsFrames
<1>5. Writing(d) /\ ~Reading(d) /\ tag[d].rd = tail.rd
  BY <1>2, <1>3 DEF IInv, WriterInv, Writing, Reading
<1>6. /\ tail.wr \in Slots /\ tail.rd \in Slots
      /\ head.wr \in Slots /\ head.rd \in Slots
      /\ Dist(head.wr, head.rd) + Dist(head.rd, tail.rd) = Dist(head.wr, tail.rd)
      /\ Dist(head.wr, tail.rd) + Dist(tail.rd, tail.wr) = Dist(head.wr, tail.wr)
      /\ \A p, q \in Slots : Dist(p, q) \in Nat
  BY RingFacts, DistRange DEF IInv
<1>7. ReaderInv'
  <2>1. \A f \in Running : Reading(f) => f \in Running'
    BY <1>3, <1>5
  <2> QED
    BY <1>2, <1>3, <2>1 DEF IInv, ReaderInv, Between, Dist
<1>8. CASE tag[d].wr = tag[d].rd
  <2>1. tail'.wr = tail.wr /\ tail'.rd = tail.wr
    BY <1>2, <1>8
  <2>2. \A f \in Running' : ~Writing(f)'
    <3>1. Dist(tail.rd, WSlot(d)) = 0
      BY <1>5, <1>6, <1>8, DistZero DEF WSlot
    <3> QED
      BY <1>3, <1>5, <1>6, <3>1 DEF IInv, WriterInv
  <2>3. /\ Dist(tail.wr, tail.wr) = 0
        /\ Dist(head.wr, head.rd) + Dist(head.rd, tail.wr) = Dist(head.wr, tail.wr)
        /\ \A s \in Slots : Between(s, head.wr, tail.wr) =>
             Between(s, head.wr, tail.rd) \/ Between(s, tail.rd, tail.wr)
    BY <1>6, CapacityAssumption DEF Dist, Slots, Between
  <2>4. RingOrder'
    BY <1>2, <1>6, <2>1, <2>3 DEF RingOrder, Dist
  <2>5. WriterInv'
    BY <2>1, <2>2 DEF WriterInv
  <2>6. DataInv'
    BY <1>6, <2>1, <2>2, <2>3 DEF DataInv, Between, Dist
  <2>7. \A f \in Running : op[f] # "write"
    BY <1>2, <1>3, <2>2 DEF Writing
  <2>8. \A s \in Slots : Between(s, head.wr, tail.wr) => Complete(s)
    BY <2>3, <2>7 DEF IInv, DataInv, ReadableComplete
  <2>9. ReadableComplete'
    BY <1>2, <1>3, <2>1, <2>8 DEF IInv, ReadableComplete, Between, Dist, Complete
  <2> QED
    BY <1>1, <1>4, <1>7, <2>4, <2>5, <2>6, <2>9 DEF IInv
<1>9. CASE tag[d].wr # tag[d].rd
  <2>1. tail' = tail
    BY <1>2, <1>9
  <2>2. RingOrder'
    BY <1>2, <2>1 DEF IInv, RingOrder, Dist
  <2>3. WSlot(d) # tail.rd
    BY <1>5, <1>9 DEF WSlot
  <2>4. WriterInv'
    BY <1>2, <1>3, <2>1, <2>3 DEF IInv, WriterInv, Between, Dist
  <2>5. DataInv'
    BY <1>2, <1>3, <2>1 DEF IInv, DataInv, Between, Dist, Complete
  <2>6. ReadableComplete'
    BY <1>2, <1>3, <2>1 DEF IInv, ReadableComplete, Between, Dist, Complete
  <2> QED
    BY <1>1, <1>4, <1>7, <2>2, <2>4, <2>5, <2>6 DEF IInv
<1> QED
  BY <1>8, <1>9

\* A request that stores its head has taken the first slot with data.
LEMMA GetStoreKeeps ==
  ASSUME IInv, GetStore
  PROVE  IInv'
<1> DEFINE d == depth
           s == head.rd
<1>1. TypeOK'
  BY NextTypeOK DEF Next, IInv
<1>2. /\ d \in Running /\ d \in Frames /\ Running \subseteq Frames
      /\ \A f \in Running : WSlot(f) \in Slots /\ RSlot(f) \in Slots
      /\ \A f \in Running : f \in Nat /\ f <= d
  BY FrameFacts DEF GetStore, Top, IInv
<1>3. tag[d] = head /\ s # tail.rd /\ op[d] = "get"
  BY <1>2 DEF GetStore, Top, NoData, IInv, FrameInv
<1>4. /\ head'.wr = head.wr /\ head'.rd = Succ(s)
      /\ op' = [op EXCEPT ![d] = "read"]
      /\ excl' = [excl EXCEPT ![d] = FALSE]
      /\ UNCHANGED <<tail, depth, tag, buf, owner, item>> /\ Running' = Running
  BY <1>3 DEF GetStore, Step, Running
<1>5. /\ s \in Slots /\ tail.wr \in Slots
      /\ tail.rd \in Slots /\ head.wr \in Slots
      /\ Dist(head.wr, s) + Dist(s, tail.rd) = Dist(head.wr, tail.rd)
      /\ Dist(head.wr, tail.rd) + Dist(tail.rd, tail.wr) = Dist(head.wr, tail.wr)
      /\ \A p, q \in Slots : Dist(p, q) \in Nat
  BY RingFacts, DistRange DEF IInv
<1>6. /\ Succ(s) \in Slots
      /\ Dist(head.wr, Succ(s)) = Dist(head.wr, s) + 1
      /\ Dist(Succ(s), tail.rd) = Dist(s, tail.rd) - 1
  <2>1. Succ(s) \in Slots
    BY <1>5, DistSucc
  <2>2. Dist(Succ(s), tail.rd) = Dist(s, tail.rd) - 1
    BY <1>3, <1>5, CapacityAssumption DEF Dist, Slots, Succ
  <2>3. Succ(s) # head.wr
    <3>1. Dist(s, tail.rd) # 0 /\ Dist(head.wr, tail.rd) <= Capacity
      BY <1>3, <1>5, DistZero, DistRange
    <3>2. Dist(head.wr, s) < Capacity
      BY <1>5, <3>1, CapacityAssumption
    <3>3. Succ(s) = head.wr => Dist(head.wr, s) = Capacity
      BY <1>5, DistLast
    <3> QED
      BY <3>2, <3>3, CapacityAssumption
  <2> QED
    BY <1>5, <2>1, <2>2, <2>3, DistSucc
<1>7. RingOrder'
  BY <1>4, <1>5, <1>6 DEF RingOrder, Dist
<1>8. FrameInv'
  BY <1>2, <1>3, <1>4 DEF IInv, FrameInv, TypeOK
<1>9. /\ \A f \in Running : f # d => op'[f] = op[f]
      /\ op'[d] = "read" /\ RSlot(d) = s /\ tag[d].wr = head.wr
      /\ ~Writing(d) /\ ~Reading(d) /\ ~Writing(d)' /\ Reading(d)'
  BY <1>2, <1>3, <1>4 DEF IInv, TypeOK, RSlot, Writing, Reading
<1>10. /\ \A f \in Running : f # d => /\ Writing(f)' <=> Writing(f)
                                      /\ Reading(f)' <=> Reading(f)
       /\ \A f \in Running : WSlot(f)' = WSlot(f) /\ RSlot(f)' = RSlot(f)
  BY <1>4, <1>9 DEF Writing, Reading, WSlot, RSlot
<1>11. WriterInv'
  BY <1>4, <1>9, <1>10 DEF IInv, WriterInv, Between, Dist
<1>12. ReaderInv'
  <2>1. \A f \in Running : f # d /\ Reading(f) =>
          /\ Dist(head.wr, RSlot(f)) < Dist(head.wr, s)
          /\ tag[f].wr = head.wr
    BY DEF IInv, ReaderInv, Between
  <2>2. \A f \in Running : Reading(f)' =>
          tag'[f].wr = head'.wr /\ Dist(head.wr, RSlot(f)) < Dist(head.wr, Succ(s))
    BY <1>2, <1>4, <1>5, <1>6, <1>9, <1>10, <2>1
  <2>3. \A f, g \in Running : f < g /\ Reading(f)' /\ Reading(g)' =>
          Dist(head.wr, RSlot(f)) < Dist(head.wr, RSlot(g))
    BY <1>2, <1>9, <1>10, <2>1 DEF IInv, ReaderInv
  <2>4. \E f \in Running : Reading(f)' /\ RSlot(f) = head.wr
    <3>1. CASE head.wr = s
      BY <1>2, <1>4, <1>9, <3>1
    <3>2. CASE head.wr # s
      BY <1>9, <1>10, <3>2 DEF IInv, ReaderInv
    <3> QED
      BY <3>1, <3>2
  <2>5. \A f \in Running : Dist(head.wr, RSlot(f))' = Dist(head.wr, RSlot(f))
    BY <1>4, <1>10 DEF Dist
  <2>6. Dist(head.wr, head.rd)' = Dist(head.wr, Succ(s))
    BY <1>4 DEF Dist
  <2> QED
    BY <1>2, <1>4, <1>10, <2>2, <2>3, <2>4, <2>5, <2>6 DEF ReaderInv, Between
<1>13. DataInv'
  <2>1. \A f \in Running : op[f] = "write" => op'[f] = "write"
    BY <1>3, <1>9
  <2> QED
    BY <1>4, <1>9, <1>10, <2>1 DEF IInv, DataInv, Between, Dist, Complete
<1>14. ReadableComplete'
  <2>1. \A f \in Running : op'[f] = "free" => op[f] = "free"
    BY <1>9
  <2> QED
    BY <1>4, <1>10, <2>1 DEF IInv, ReadableComplete, Between, Dist, Complete
<1> QED
  BY <1>1, <1>7, <1>8, <1>11, <1>12, <1>13, <1>14 DEF IInv

\* A free that is not the outermost leaves the ring alone; the outermost one
\* is the only read still open.
LEMMA ItemFreeKeeps ==
  ASSUME IInv, ItemFree
  PROVE  IInv'
<1> DEFINE d == depth
<1>1. TypeOK'
  BY NextTypeOK DEF Next, IInv
<1>2. /\ d > 0 /\ op[d] = "free" /\ End
      /\ UNCHANGED <<tail, buf, owner, tag, item>>
      /\ head' = IF tag[d].wr = tag[d].rd
                 THEN [wr |-> head.rd, rd |-> head.rd]
                 ELSE head
  BY DEF ItemFree, Top, End, Outermost
<1>3. /\ d \in Running /\ d \in Frames
      /\ Running' \subseteq Running
      /\ \A f \in Running : f \in Running' <=> f # d
      /\ \A f \in Running' : UNCHANGED <<op[f], tag[f], item[f]>>
      /\ \A f \in Running' : /\ Writing(f)' <=> Writing(f)
                             /\ Reading(f)' <=> Reading(f)
                             /\ WSlot(f)' = WSlot(f)
                             /\ RSlot(f)' = RSlot(f)
                             /\ WSlot(f) \in Slots
                             /\ RSlot(f) \in Slots
                             /\ f < d
  BY <1>1, <1>2, EndFrames
<1>4. FrameInv'
  BY <1>1, <1>2, EndKeepsFrames
<1>5. Reading(d) /\ ~Writing(d) /\ tag[d].wr = head.wr
  BY <1>2, <1>3 DEF IInv, ReaderInv, Writing, Reading
<1>6. /\ tail.wr \in Slots /\ tail.rd \in Slots
      /\ head.wr \in Slots /\ head.rd \in Slots
      /\ Dist(head.wr, head.rd) + Dist(head.rd, tail.rd) = Dist(head.wr, tail.rd)
      /\ Dist(head.wr, tail.rd) + Dist(tail.rd, tail.wr) = Dist(head.wr, tail.wr)
      /\ \A p, q \in Slots : Dist(p, q) \in Nat
  BY RingFacts, DistRange DEF IInv
<1>7. WriterInv' /\ DataInv'
  <2>1. \A f \in Running : Writing(f) => f \in Running'
    BY <1>3, <1>5
  <2>2. \A f \in Running : op[f] = "write" => f \in Running'
    BY <2>1 DEF Writing
  <2>3. WriterInv'
    BY <1>2, <1>3, <2>1 DEF IInv, WriterInv, Between, Dist
  <2>4. DataInv'
    BY <1>2, <1>3, <2>2 DEF IInv, DataInv, Between, Dist, Complete
  <2> QED
    BY <2>3, <2>4
<1>8. CASE tag[d].wr = tag[d].rd
  <2>1. head'.wr = head.rd /\ head'.rd = head.rd
    BY <1>2, <1>8
  <2>2. \A f \in Running' : ~Reading(f)'
    <3>1. Dist(head.wr, RSlot(d)) = 0
      BY <1>5, <1>6, <1>8, DistZero DEF RSlot
    <3> QED
      BY <1>3, <1>5, <1>6, <3>1 DEF IInv, ReaderInv
  <2>3. /\ Dist(head.rd, head.rd) = 0
        /\ Dist(head.rd, tail.rd) + Dist(tail.rd, tail.wr) = Dist(head.rd, tail.wr)
        /\ \A s \in Slots : Between(s, head.rd, tail.rd) => Between(s, head.wr, tail.rd)
    BY <1>6, CapacityAssumption DEF Dist, Slots, Between
  <2>4. RingOrder'
    BY <1>2, <1>6, <2>1, <2>3 DEF RingOrder, Dist
  <2>5. ReaderInv'
    BY <2>1, <2>2 DEF ReaderInv
  <2>6. \A f \in Running' : op'[f] # "free"
    BY <2>2 DEF Reading
  <2>7. ReadableComplete'
    BY <1>2, <2>1, <2>3, <2>6 DEF IInv, ReadableComplete, Between, Dist, Complete
  <2> QED
    BY <1>1, <1>4, <1>7, <2>4, <2>5, <2>7 DEF IInv
<1>9. CASE tag[d].wr # tag[d].rd
  <2>1. head' = head
    BY <1>2, <1>9
  <2>2. RingOrder'
    BY <1>2, <2>1 DEF IInv, RingOrder, Dist
  <2>3. RSlot(d) # head.wr
    BY <1>5, <1>9 DEF RSlot
  <2>4. ReaderInv'
    BY <1>2, <1>3, <2>1, <2>3 DEF IInv, ReaderInv, Between, Dist
  <2>5. ReadableComplete'
    BY <1>2, <1>3, <2>1 DEF IInv, ReadableComplete, Between, Dist, Complete
  <2> QED
    BY <1>1, <1>4, <1>7, <2>2, <2>4, <2>5 DEF IInv
<1> QED
  BY <1>8, <1>9

LEMMA StutterKeeps ==
  ASSUME IInv, UNCHANGED vars
  PROVE  IInv'
<1>1. Running' = Running /\ Frames' = Frames
  BY DEF vars, Running
<1>2. TypeOK'
  BY NextTypeOK DEF IInv
<1>3. FrameInv'
  BY <1>1 DEF vars, IInv, FrameInv
<1> QED
  BY <1>2, <1>3, QuietStep DEF vars
-----------------------------------------------------------------------------
(* The theorems.                                                           *)

\* The invariant is inductive, so it holds in every reachable state.
THEOREM InductiveInvariant == Spec => []IInv
<1>1. ASSUME IInv, [Next]_vars PROVE IInv'
  BY <1>1, AllocBeginKeeps, GetBeginKeeps, GiveUpKeeps, RetryKeeps,
     AllocStoreKeeps, ItemWriteKeeps, ItemPutKeeps, GetStoreKeeps,
     ItemReadKeeps, ItemFreeKeeps, ClearKeeps, StutterKeeps DEF Next
<1> QED
  BY <1>1, InitIInv, PTL DEF Spec

\* The four positions of the ring never overtake one another.
THEOREM RingOrderHolds == Spec => []RingOrder
<1>1. IInv => RingOrder
  BY DEF IInv
<1> QED
  BY <1>1, InductiveInvariant, PTL

\* Whatever the nesting, two operations in progress never hold the same slot.
THEOREM SlotExclusionHolds == Spec => []SlotExclusion
<1>1. ASSUME IInv PROVE SlotExclusion
  <2>1. /\ \A f \in Running : WSlot(f) \in Slots /\ RSlot(f) \in Slots /\ f \in Nat
        /\ head.wr \in Slots /\ head.rd \in Slots /\ tail.rd \in Slots /\ tail.wr \in Slots
        /\ Dist(head.wr, head.rd) + Dist(head.rd, tail.rd) = Dist(head.wr, tail.rd)
        /\ \A p, q \in Slots : Dist(p, q) \in Nat
    BY <1>1, FrameFacts, RingFacts, DistRange DEF IInv
  <2>2. ASSUME NEW f \in Running, NEW g \in Running, f # g, Writing(f), Writing(g)
        PROVE  WSlot(f) # WSlot(g)
    <3>1. f \in Nat /\ g \in Nat
      BY <2>1, <2>2
    <3>2. f < g \/ g < f
      BY <2>2, <3>1
    <3> QED
      BY <1>1, <2>1, <2>2, <3>2 DEF IInv, WriterInv
  <2>3. ASSUME NEW f \in Running, NEW g \in Running, f # g, Reading(f), Reading(g)
        PROVE  RSlot(f) # RSlot(g)
    <3>1. f \in Nat /\ g \in Nat
      BY <2>1, <2>3
    <3>2. f < g \/ g < f
      BY <2>3, <3>1
    <3> QED
      BY <1>1, <2>1, <2>3, <3>2 DEF IInv, ReaderInv
  <2>4. ASSUME NEW f \in Running, NEW g \in Running, Writing(f), Reading(g)
        PROVE  WSlot(f) # RSlot(g)
    <3>1. Between(WSlot(f), tail.rd, tail.wr)
      BY <1>1, <2>4 DEF IInv, WriterInv
    <3>2. Between(RSlot(g), head.wr, tail.rd)
      BY <1>1, <2>1, <2>4 DEF IInv, ReaderInv, Between
    <3> QED
      BY <1>1, <2>1, <3>1, <3>2, ZonesDisjoint DEF IInv
  <2> QED
    BY <2>2, <2>3, <2>4 DEF SlotExclusion
<1> QED
  BY <1>1, InductiveInvariant, PTL

\* Readers only ever get items that were completely written.
THEOREM ReadableCompleteHolds == Spec => []ReadableComplete
<1>1. IInv => ReadableComplete
  BY DEF IInv
<1> QED
  BY <1>1, InductiveInvariant, PTL

\* Once all the nested operations have returned, no item and no space is lost.
THEOREM NothingStrandedHolds == Spec => []NothingStranded
<1>1. IInv => NothingStranded
  BY DEF IInv, WriterInv, ReaderInv, NothingStranded, Running
<1> QED
  BY <1>1, InductiveInvariant, PTL

-----------------------------------------------------------------------------
(* A NULL within an open operation is true, stale position or not.         *)

\* WaiterInv survives every step that changes no frame below the newest one,
\* gives a request a new position only from the current tag, and moves the
\* ends of the ring as the operations that pin them down allow.
LEMMA PinnedEnds ==
  ASSUME IInv, WaiterInv, TypeOK',
         \A f \in Running' : op'[f] \in {"alloc", "get"} =>
           \/ f \in Running /\ UNCHANGED <<op[f], tag[f]>>
           \/ op'[f] = "alloc" /\ tag'[f] = tail'
           \/ op'[f] = "get" /\ tag'[f] = head',
         \A f, g \in Running' : g < f => g \in Running /\ UNCHANGED op[g],
         \A g \in Running : g \in Running' /\ Writing(g) =>
           /\ tail'.rd = tail.rd
           /\ Dist(tail.rd, tail.wr) <= Dist(tail.rd, tail'.wr)
           /\ Dist(head'.rd, tail.rd) <= Dist(head.rd, tail.rd),
         \A g \in Running : g \in Running' /\ Reading(g) =>
           /\ head'.wr = head.wr
           /\ Dist(head.wr, tail.wr) <= Dist(head.wr, tail'.wr)
           /\ Dist(head.wr, head.rd) <= Dist(head.wr, head'.rd)
  PROVE  WaiterInv'
<1> SUFFICES ASSUME NEW f \in Running', NEW g \in Running', g < f
             PROVE  /\ op'[f] = "alloc" /\ Writing(g)' =>
                         Dist(tail'.rd, tag'[f].wr) <= Dist(tail'.rd, tail'.wr)
                    /\ op'[f] = "alloc" /\ Reading(g)' =>
                         Dist(head'.wr, tag'[f].wr) <= Dist(head'.wr, tail'.wr)
                    /\ op'[f] = "get" /\ Writing(g)' =>
                         Dist(head'.rd, tail'.rd) <= Dist(tag'[f].rd, tail'.rd)
                    /\ op'[f] = "get" /\ Reading(g)' =>
                         Dist(head'.wr, tag'[f].rd) <= Dist(head'.wr, head'.rd)
  BY DEF WaiterInv, Dist
<1>1. g \in Running /\ (Writing(g)' <=> Writing(g)) /\ (Reading(g)' <=> Reading(g))
  BY DEF Writing, Reading
<1>2. /\ tail.wr \in Slots /\ tail.rd \in Slots /\ head.wr \in Slots /\ head.rd \in Slots
      /\ tail'.wr \in Slots /\ tail'.rd \in Slots
      /\ head'.wr \in Slots /\ head'.rd \in Slots
  BY DEF IInv, TypeOK, Tags, Slots
<1>3. \A p, q \in Slots : Dist(p, q) \in Nat
  BY DistRange
<1>4. CASE f \in Running /\ UNCHANGED <<op[f], tag[f]>>
  <2>1. tag[f].wr \in Slots /\ tag[f].rd \in Slots
    BY <1>4, FrameFacts DEF IInv, Tags
  <2>2. op[f] = "alloc" /\ Writing(g) =>
          Dist(tail.rd, tag[f].wr) <= Dist(tail.rd, tail.wr)
    BY <1>1, <1>4 DEF WaiterInv
  <2>3. op[f] = "alloc" /\ Reading(g) =>
          Dist(head.wr, tag[f].wr) <= Dist(head.wr, tail.wr)
    BY <1>1, <1>4 DEF WaiterInv
  <2>4. op[f] = "get" /\ Writing(g) =>
          Dist(head.rd, tail.rd) <= Dist(tag[f].rd, tail.rd)
    BY <1>1, <1>4 DEF WaiterInv
  <2>5. op[f] = "get" /\ Reading(g) =>
          Dist(head.wr, tag[f].rd) <= Dist(head.wr, head.rd)
    BY <1>1, <1>4 DEF WaiterInv
  <2> QED
    BY <1>1, <1>2, <1>3, <1>4, <2>1, <2>2, <2>3, <2>4, <2>5
<1>5. CASE op'[f] = "alloc" /\ tag'[f] = tail'
  BY <1>2, <1>3, <1>5
<1>6. CASE op'[f] = "get" /\ tag'[f] = head'
  BY <1>2, <1>3, <1>6
<1> QED
  BY <1>4, <1>5, <1>6

\* Steps that leave both tags alone: a request begins, retries or gives up, an
\* item is copied.
LEMMA QuietKeepsWaiters ==
  ASSUME IInv, WaiterInv,
         \/ AllocBegin \/ AllocFull \/ AllocRetry \/ ItemWrite
         \/ GetBegin \/ GetEmpty \/ GetRetry \/ ItemRead \/ UNCHANGED vars
  PROVE  WaiterInv'
<1>1. TypeOK'
  BY NextTypeOK DEF Next, IInv
<1>2. UNCHANGED <<tail, head>>
  BY DEF AllocBegin, AllocFull, AllocRetry, ItemWrite, GetBegin, GetEmpty,
         GetRetry, ItemRead, vars
<1>3. /\ tail.wr \in Slots /\ tail.rd \in Slots /\ head.wr \in Slots /\ head.rd \in Slots
      /\ \A p, q \in Slots : Dist(p, q) \in Nat
  BY RingFacts, DistRange DEF IInv
<1>4. /\ \A f \in Running' : op'[f] \in {"alloc", "get"} =>
           \/ f \in Running /\ UNCHANGED <<op[f], tag[f]>>
           \/ op'[f] = "alloc" /\ tag'[f] = tail'
           \/ op'[f] = "get" /\ tag'[f] = head'
      /\ \A f, g \in Running' : g < f => g \in Running /\ UNCHANGED op[g]
  <2> USE MaxDepthAssumption DEF Running, Frames
  <2>1. CASE AllocBegin \/ GetBegin
    BY <2>1 DEF AllocBegin, GetBegin, Begin, IInv, TypeOK
  <2>2. CASE AllocFull \/ GetEmpty
    BY <2>2 DEF AllocFull, GetEmpty, Top, End, IInv, TypeOK
  <2>3. CASE AllocRetry \/ GetRetry
    BY <2>3 DEF AllocRetry, GetRetry, Top, Reload, IInv, TypeOK
  <2>4. CASE ItemWrite \/ ItemRead
    BY <2>4 DEF ItemWrite, ItemRead, Top, Step, IInv, TypeOK
  <2>5. CASE UNCHANGED vars
    BY <2>5 DEF vars
  <2> QED
    BY <2>1, <2>2, <2>3, <2>4, <2>5
<1>5. /\ Dist(tail.rd, tail.wr) <= Dist(tail.rd, tail'.wr)
      /\ Dist(head'.rd, tail.rd) <= Dist(head.rd, tail.rd)
      /\ Dist(head.wr, tail.wr) <= Dist(head.wr, tail'.wr)
      /\ Dist(head.wr, head.rd) <= Dist(head.wr, head'.rd)
  BY <1>2, <1>3
<1> QED
  BY <1>1, <1>2, <1>4, <1>5, PinnedEnds

\* A granted request moves tail.wr, or head.rd, one slot on.
LEMMA StoreKeepsWaiters ==
  ASSUME IInv, WaiterInv, AllocStore \/ GetStore
  PROVE  WaiterInv'
<1> USE CapacityAssumption
<1>1. TypeOK'
  BY NextTypeOK DEF Next, IInv
<1>2. /\ depth \in Running /\ Running' = Running /\ Running \subseteq Frames
      /\ \A f \in Running : f \in Nat /\ f <= depth
      /\ op'[depth] \in {"write", "read"}
      /\ \A f \in Running : f # depth => UNCHANGED <<op[f], tag[f]>>
  <2>1. depth \in Running /\ depth \in Frames /\ Running \subseteq Frames
        /\ \A f \in Running : f \in Nat /\ f <= depth
    BY FrameFacts DEF AllocStore, GetStore, Top, IInv
  <2> QED
    BY <2>1 DEF AllocStore, GetStore, Step, Running, IInv, TypeOK
<1>3. \A f, g \in Running' : g < f => g \in Running /\ UNCHANGED op[g]
  BY <1>2
<1>4. /\ tail.wr \in Slots /\ tail.rd \in Slots
      /\ head.wr \in Slots /\ head.rd \in Slots
      /\ Dist(head.wr, head.rd) + Dist(head.rd, tail.rd) = Dist(head.wr, tail.rd)
      /\ Dist(head.wr, tail.rd) + Dist(tail.rd, tail.wr) = Dist(head.wr, tail.wr)
      /\ \A p, q \in Slots : Dist(p, q) \in Nat /\ Dist(p, q) <= Capacity
  BY RingFacts, DistRange DEF IInv
<1>5. /\ tail'.rd = tail.rd /\ head'.wr = head.wr
      /\ Dist(tail.rd, tail.wr) <= Dist(tail.rd, tail'.wr)
      /\ Dist(head'.rd, tail.rd) <= Dist(head.rd, tail.rd)
      /\ Dist(head.wr, tail.wr) <= Dist(head.wr, tail'.wr)
      /\ Dist(head.wr, head.rd) <= Dist(head.wr, head'.rd)
  <2>1. CASE AllocStore
    <3>1. tag[depth] = tail /\ Succ(tail.wr) # head.wr
      BY <1>2, <2>1 DEF AllocStore, Top, Full, IInv, FrameInv
    <3>2. tail'.wr = Succ(tail.wr) /\ tail'.rd = tail.rd /\ head' = head
      BY <2>1, <3>1 DEF AllocStore
    <3>3. Dist(head.wr, Succ(tail.wr)) = Dist(head.wr, tail.wr) + 1
      BY <1>4, <3>1, DistSucc
    <3>4. Succ(tail.wr) # tail.rd
      BY <1>4, <3>1, <3>3, DistRange DEF Dist, Slots, Succ
    <3>5. Dist(tail.rd, Succ(tail.wr)) = Dist(tail.rd, tail.wr) + 1
      BY <1>4, <3>4, DistSucc
    <3> QED
      BY <1>4, <3>2, <3>3, <3>5
  <2>2. CASE GetStore
    <3>1. tag[depth] = head /\ head.rd # tail.rd
      BY <1>2, <2>2 DEF GetStore, Top, NoData, IInv, FrameInv
    <3>2. head'.rd = Succ(head.rd) /\ head'.wr = head.wr /\ tail' = tail
      BY <2>2, <3>1 DEF GetStore
    <3>3. Dist(Succ(head.rd), tail.rd) <= Dist(head.rd, tail.rd)
      BY <1>4, <3>1 DEF Dist, Slots, Succ
    <3>4. Dist(head.rd, tail.rd) # 0
      BY <1>4, <3>1, DistZero
    <3>5. Dist(head.wr, head.rd) < Capacity
      BY <1>4, <3>4
    <3>6. Succ(head.rd) # head.wr
      BY <1>4, <3>5, DistLast
    <3>7. Dist(head.wr, Succ(head.rd)) = Dist(head.wr, head.rd) + 1
      BY <1>4, <3>6, DistSucc
    <3> QED
      BY <1>4, <3>2, <3>3, <3>7
  <2> QED
    BY <2>1, <2>2
<1> QED
  BY <1>1, <1>2, <1>3, <1>5, PinnedEnds

\* Only an operation that no other one of its kind surrounds moves the end
\* that such operations pin down.
LEMMA CloseKeepsWaiters ==
  ASSUME IInv, WaiterInv, ItemPut \/ ItemFree
  PROVE  WaiterInv'
<1>1. TypeOK' /\ depth > 0 /\ End
  BY NextTypeOK DEF Next, IInv, ItemPut, ItemFree, Top
<1>2. /\ depth \in Running
      /\ Running' \subseteq Running
      /\ \A f \in Running' : UNCHANGED <<op[f], tag[f], item[f]>>
      /\ \A f \in Running' : WSlot(f) \in Slots /\ RSlot(f) \in Slots /\ f < depth
  BY <1>1, EndFrames
<1>3. /\ tail.wr \in Slots /\ tail.rd \in Slots
      /\ head.wr \in Slots /\ head.rd \in Slots
      /\ Dist(head.wr, head.rd) + Dist(head.rd, tail.rd) = Dist(head.wr, tail.rd)
      /\ \A p, q \in Slots : Dist(p, q) \in Nat
  BY RingFacts, DistRange DEF IInv
<1>4. CASE ItemPut
  <2>1. /\ head' = head /\ tail'.wr = tail.wr /\ Writing(depth)
        /\ tag[depth].wr # tag[depth].rd => tail' = tail
    BY <1>4 DEF ItemPut, Top, Outermost, Writing
  <2>2. ASSUME tag[depth].wr = tag[depth].rd, NEW g \in Running' PROVE ~Writing(g)
    <3>1. Dist(tail.rd, WSlot(depth)) = 0
      BY <1>2, <1>3, <2>1, <2>2, DistZero DEF IInv, WriterInv, WSlot
    <3> QED
      BY <1>2, <1>3, <2>1, <3>1 DEF IInv, WriterInv
  <2>3. \A g \in Running : g \in Running' /\ Writing(g) => tail' = tail
    BY <2>1, <2>2
  <2> QED
    BY <1>1, <1>2, <1>3, <2>1, <2>3, PinnedEnds
<1>5. CASE ItemFree
  <2>1. /\ tail' = tail /\ head'.rd = head.rd /\ Reading(depth)
        /\ tag[depth].wr # tag[depth].rd => head' = head
    BY <1>5 DEF ItemFree, Top, Outermost, Reading
  <2>2. ASSUME tag[depth].wr = tag[depth].rd, NEW g \in Running' PROVE ~Reading(g)
    <3>1. Dist(head.wr, RSlot(depth)) = 0
      BY <1>2, <1>3, <2>1, <2>2, DistZero DEF IInv, ReaderInv, RSlot
    <3> QED
      BY <1>2, <1>3, <2>1, <3>1 DEF IInv, ReaderInv
  <2>3. \A g \in Running : g \in Running' /\ Reading(g) => head' = head
    BY <2>1, <2>2
  <2> QED
    BY <1>1, <1>2, <1>3, <2>1, <2>3, PinnedEnds
<1> QED
  BY <1>4, <1>5

\* Clearing brings head.rd to the end of the data, and head.wr only if no
\* read is open.
LEMMA ClearKeepsWaiters ==
  ASSUME IInv, WaiterInv, Clear
  PROVE  WaiterInv'
<1>1. TypeOK'
  BY NextTypeOK DEF Next, IInv
<1>2. /\ tail' = tail /\ head'.rd = tail.rd
      /\ head.wr # head.rd => head'.wr = head.wr
      /\ UNCHANGED <<op, tag>> /\ Running' = Running
  BY DEF Clear, Running
<1>3. /\ tail.wr \in Slots /\ tail.rd \in Slots
      /\ head.wr \in Slots /\ head.rd \in Slots
      /\ Dist(head.wr, head.rd) + Dist(head.rd, tail.rd) = Dist(head.wr, tail.rd)
      /\ \A p, q \in Slots : Dist(p, q) \in Nat
      /\ Dist(tail.rd, tail.rd) = 0
  BY RingFacts, DistRange, DistZero DEF IInv
<1>4. ASSUME NEW g \in Running, Reading(g) PROVE head.wr # head.rd
  <2>1. RSlot(g) \in Slots /\ Dist(head.wr, RSlot(g)) < Dist(head.wr, head.rd)
    BY <1>4, FrameFacts DEF IInv, ReaderInv, Between
  <2> QED
    BY <1>3, <2>1, DistZero
<1>5. Dist(head.wr, head.rd) <= Dist(head.wr, tail.rd)
  BY <1>3
<1> QED
  BY <1>1, <1>2, <1>3, <1>4, <1>5, PinnedEnds

\* WaiterInv holds in every reachable state.
THEOREM WaitersHold == Spec => []WaiterInv
<1>1. Init => WaiterInv
  BY DEF Init, WaiterInv, Running
<1>2. ASSUME IInv, WaiterInv, [Next]_vars PROVE WaiterInv'
  BY <1>2, QuietKeepsWaiters, StoreKeepsWaiters, CloseKeepsWaiters,
     ClearKeepsWaiters DEF Next
<1> QED
  BY <1>1, <1>2, InductiveInvariant, PTL DEF Spec

\* Within an open operation item_alloc returns NULL only if the FIFO is full,
\* and item_get only if there is nothing to read, whatever preempted the call.
THEOREM NestedNullIsTrueHolds == Spec => NestedNullIsTrue
<1>1. ASSUME IInv, WaiterInv
      PROVE  /\ AllocFull /\ Nested(depth) => Full(head, tail)
             /\ GetEmpty /\ Nested(depth) => NoData(head, tail)
  <2> USE CapacityAssumption
  <2>1. /\ tail.wr \in Slots /\ tail.rd \in Slots
        /\ head.wr \in Slots /\ head.rd \in Slots
        /\ Dist(head.wr, head.rd) + Dist(head.rd, tail.rd) = Dist(head.wr, tail.rd)
        /\ Dist(head.wr, tail.rd) + Dist(tail.rd, tail.wr) = Dist(head.wr, tail.wr)
        /\ \A p, q \in Slots : Dist(p, q) \in 0 .. Capacity
    BY <1>1, RingFacts, DistRange DEF IInv
  <2>2. ASSUME AllocFull, NEW g \in Running, g < depth, HoldsSlot(g)
        PROVE  Full(head, tail)
    <3> DEFINE p == tag[depth].wr
    <3>1. depth \in Running /\ op[depth] = "alloc" /\ p \in Slots /\ Succ(p) = head.wr
      BY <1>1, <2>2, FrameFacts DEF IInv, AllocFull, Top, Full, Tags
    <3>2. Dist(head.wr, p) = Capacity
      BY <2>1, <3>1, DistLast
    <3>3. Dist(head.wr, p) <= Dist(head.wr, tail.wr)
      <4>1. CASE Writing(g)
        <5>1. Dist(tail.rd, p) <= Dist(tail.rd, tail.wr)
          BY <1>1, <2>2, <3>1, <4>1 DEF WaiterInv
        <5> QED
          BY <2>1, <3>1, <5>1 DEF Dist, Slots
      <4>2. CASE Reading(g)
        BY <1>1, <2>2, <3>1, <4>2 DEF WaiterInv
      <4> QED
        BY <2>2, <4>1, <4>2 DEF HoldsSlot
    <3>4. Dist(head.wr, tail.wr) = Dist(head.wr, p)
      BY <2>1, <3>1, <3>2, <3>3
    <3>5. tail.wr = p
      BY <2>1, <3>1, <3>4, DistInjective
    <3> QED
      BY <3>1, <3>5 DEF Full
  <2>3. ASSUME GetEmpty, NEW g \in Running, g < depth, HoldsSlot(g)
        PROVE  NoData(head, tail)
    <3> DEFINE r == tag[depth].rd
    <3>1. depth \in Running /\ op[depth] = "get" /\ r = tail.rd
      BY <1>1, <2>3, FrameFacts DEF IInv, GetEmpty, Top, NoData
    <3>2. Dist(head.rd, tail.rd) = 0
      <4>1. CASE Writing(g)
        <5>1. Dist(head.rd, tail.rd) <= Dist(tail.rd, tail.rd)
          BY <1>1, <2>3, <3>1, <4>1 DEF WaiterInv
        <5>2. Dist(tail.rd, tail.rd) = 0
          BY <2>1, DistZero
        <5> QED
          BY <2>1, <5>1, <5>2
      <4>2. CASE Reading(g)
        <5>1. Dist(head.wr, tail.rd) <= Dist(head.wr, head.rd)
          BY <1>1, <2>3, <3>1, <4>2 DEF WaiterInv
        <5> QED
          BY <2>1, <5>1
      <4> QED
        BY <2>3, <4>1, <4>2 DEF HoldsSlot
    <3> QED
      BY <2>1, <3>2, DistZero DEF NoData
  <2> QED
    BY <2>2, <2>3 DEF Nested
<1> QED
  BY <1>1, InductiveInvariant, WaitersHold, PTL DEF NestedNullIsTrue
-----------------------------------------------------------------------------
(***************************************************************************)
(* AtFifo implements the queue of FifoSpec, for every capacity, every      *)
(* nesting and every number of items: each step of the ring is a step of   *)
(* the queue that its positions and slots stand for, or changes nothing of *)
(* it.                                                                     *)
(***************************************************************************)

(* What the slots between two positions hold, as a sequence.               *)

\* Going i slots on from p reaches the slot at the distance i.
LEMMA SlotAtDist ==
  ASSUME NEW p \in Slots
  PROVE  /\ \A i \in 0 .. Capacity : SlotAt(p, i) \in Slots /\ Dist(p, SlotAt(p, i)) = i
         /\ \A q \in Slots : SlotAt(p, Dist(p, q)) = q
         /\ SlotAt(p, 0) = p
BY CapacityAssumption DEF Slots, Dist, SlotAt

\* The slots after q are reached from p by way of q.
LEMMA SlotAtFurther ==
  ASSUME NEW p \in Slots, NEW q \in Slots, NEW i \in 0 .. Capacity, Dist(p, q) + i <= Capacity
  PROVE  SlotAt(q, i) = SlotAt(p, Dist(p, q) + i)
BY CapacityAssumption DEF Slots, Dist, SlotAt

LEMMA ContentsSeq ==
  ASSUME NEW f \in [Slots -> Nat], NEW p \in Slots, NEW q \in Slots
  PROVE  /\ Contents(p, q, f) \in Seq(Nat)
         /\ Len(Contents(p, q, f)) = Dist(p, q)
         /\ \A i \in 1 .. Dist(p, q) : Contents(p, q, f)[i] = f[SlotAt(p, i - 1)]
<1>1. Dist(p, q) \in 0 .. Capacity /\ Dist(p, q) \in Nat
  BY DistRange, CapacityAssumption
<1>2. \A i \in 1 .. Dist(p, q) : f[SlotAt(p, i - 1)] \in Nat
  BY <1>1, SlotAtDist, CapacityAssumption
<1>3. Contents(p, q, f) \in [1 .. Dist(p, q) -> Nat]
  BY <1>2 DEF Contents
<1>4. Contents(p, q, f) \in Seq(Nat)
  BY <1>1, <1>3, SeqDef
<1>5. Len(Contents(p, q, f)) = Dist(p, q)
  BY <1>1, <1>3, <1>4, LenProperties
<1> QED
  BY <1>4, <1>5 DEF Contents

LEMMA ContentsNone ==
  ASSUME NEW f \in [Slots -> Nat], NEW p \in Slots, NEW q \in Slots
  PROVE  Contents(p, q, f) = <<>> <=> p = q
<1>1. Contents(p, q, f) \in Seq(Nat) /\ Len(Contents(p, q, f)) = Dist(p, q)
  BY ContentsSeq
<1>2. Contents(p, q, f) = <<>> <=> Dist(p, q) = 0
  BY <1>1, EmptySeq
<1> QED
  BY <1>2, DistZero

\* Only the slots in between count.
LEMMA ContentsSame ==
  ASSUME NEW p \in Slots, NEW q \in Slots, NEW f \in [Slots -> Nat], NEW g \in [Slots -> Nat],
         \A s \in Slots : Between(s, p, q) => f[s] = g[s]
  PROVE  Contents(p, q, f) = Contents(p, q, g)
<1>1. Dist(p, q) \in 0 .. Capacity
  BY DistRange
<1>2. ASSUME NEW i \in 1 .. Dist(p, q) PROVE f[SlotAt(p, i - 1)] = g[SlotAt(p, i - 1)]
  <2>1. i - 1 \in 0 .. Capacity /\ i - 1 < Dist(p, q)
    BY <1>1, CapacityAssumption
  <2> QED
    BY <2>1, SlotAtDist DEF Between
<1> QED
  BY <1>2 DEF Contents

\* A sequence that begins as s and goes on as t is their concatenation.
LEMMA ConcatIs ==
  ASSUME NEW S, NEW s \in Seq(S), NEW t \in Seq(S), NEW u \in Seq(S),
         Len(u) = Len(s) + Len(t),
         \A i \in 1 .. Len(s) : u[i] = s[i],
         \A i \in 1 .. Len(t) : u[Len(s) + i] = t[i]
  PROVE  u = s \o t
<1>1. /\ s \o t \in Seq(S) /\ Len(s \o t) = Len(s) + Len(t)
      /\ \A i \in 1 .. Len(s) + Len(t) : (s \o t)[i] = IF i <= Len(s) THEN s[i] ELSE t[i - Len(s)]
      /\ Len(s) \in Nat /\ Len(t) \in Nat
  BY ConcatProperties, LenProperties
<1>2. ASSUME NEW i \in 1 .. Len(u) PROVE u[i] = (s \o t)[i]
  <2>1. i \in 1 .. Len(s) + Len(t)
    BY <1>2
  <2>2. CASE i <= Len(s)
    BY <1>1, <2>1, <2>2
  <2>3. CASE i > Len(s)
    <3>1. i - Len(s) \in 1 .. Len(t) /\ Len(s) + (i - Len(s)) = i
      BY <1>1, <2>1, <2>3
    <3>2. u[Len(s) + (i - Len(s))] = t[i - Len(s)]
      BY <3>1
    <3> QED
      BY <1>1, <2>1, <2>3, <3>1, <3>2
  <2> QED
    BY <1>1, <2>1, <2>2, <2>3
<1> QED
  BY <1>1, <1>2, SeqEqual

\* The slots up to q and those from q on.
LEMMA ContentsConcat ==
  ASSUME NEW f \in [Slots -> Nat], NEW p \in Slots, NEW q \in Slots, NEW r \in Slots,
         Dist(p, q) + Dist(q, r) = Dist(p, r)
  PROVE  Contents(p, r, f) = Contents(p, q, f) \o Contents(q, r, f)
<1>1. /\ Dist(p, q) \in 0 .. Capacity /\ Dist(q, r) \in 0 .. Capacity /\ Dist(p, r) \in 0 .. Capacity
      /\ Capacity \in Nat
  BY DistRange, CapacityAssumption
<1>2. /\ Contents(p, q, f) \in Seq(Nat) /\ Len(Contents(p, q, f)) = Dist(p, q)
      /\ Contents(q, r, f) \in Seq(Nat) /\ Len(Contents(q, r, f)) = Dist(q, r)
      /\ Contents(p, r, f) \in Seq(Nat) /\ Len(Contents(p, r, f)) = Dist(p, r)
  BY ContentsSeq
<1>3. ASSUME NEW i \in 1 .. Dist(p, q) PROVE Contents(p, r, f)[i] = Contents(p, q, f)[i]
  <2>1. i \in 1 .. Dist(p, r)
    BY <1>1
  <2> QED
    BY <2>1 DEF Contents
<1>4. ASSUME NEW i \in 1 .. Dist(q, r) PROVE Contents(p, r, f)[Dist(p, q) + i] = Contents(q, r, f)[i]
  <2>1. /\ Dist(p, q) + i \in 1 .. Dist(p, r) /\ i - 1 \in 0 .. Capacity
        /\ Dist(p, q) + (i - 1) <= Capacity /\ (Dist(p, q) + i) - 1 = Dist(p, q) + (i - 1)
    BY <1>1
  <2>2. SlotAt(q, i - 1) = SlotAt(p, Dist(p, q) + (i - 1))
    BY <2>1, SlotAtFurther
  <2>3. Contents(p, r, f)[Dist(p, q) + i] = f[SlotAt(p, (Dist(p, q) + i) - 1)]
    BY <2>1, ContentsSeq
  <2>4. Contents(q, r, f)[i] = f[SlotAt(q, i - 1)]
    BY ContentsSeq
  <2> QED
    BY <2>1, <2>2, <2>3, <2>4
<1>5. PICK s \in Seq(Nat), t \in Seq(Nat), u \in Seq(Nat) :
        s = Contents(p, q, f) /\ t = Contents(q, r, f) /\ u = Contents(p, r, f)
  BY <1>2
<1>6. /\ Len(u) = Len(s) + Len(t)
      /\ \A i \in 1 .. Len(s) : u[i] = s[i]
      /\ \A i \in 1 .. Len(t) : u[Len(s) + i] = t[i]
  BY <1>2, <1>3, <1>4, <1>5
<1>7. u = s \o t
  BY <1>6, ConcatIs, Zenon
<1> QED
  BY <1>5, <1>7

\* One slot holds one item.
LEMMA ContentsOne ==
  ASSUME NEW f \in [Slots -> Nat], NEW p \in Slots
  PROVE  Succ(p) \in Slots /\ Contents(p, Succ(p), f) = <<f[p]>>
<1>1. Succ(p) \in Slots /\ Dist(p, Succ(p)) = 1
  BY DistSucc
<1>2. SlotAt(p, 0) = p
  BY SlotAtDist
<1>3. [i \in 1 .. 1 |-> f[SlotAt(p, i - 1)]] = <<f[p]>>
  BY <1>2
<1> QED
  BY <1>1, <1>3 DEF Contents

\* The item in the last slot is appended to the others.
LEMMA ContentsAppend ==
  ASSUME NEW f \in [Slots -> Nat], NEW p \in Slots, NEW q \in Slots, Succ(q) # p
  PROVE  Contents(p, Succ(q), f) = Append(Contents(p, q, f), f[q])
<1>1. Succ(q) \in Slots /\ Dist(p, q) + Dist(q, Succ(q)) = Dist(p, Succ(q))
  BY DistSucc
<1>2. Contents(p, Succ(q), f) = Contents(p, q, f) \o Contents(q, Succ(q), f)
  BY <1>1, ContentsConcat
<1>4. Contents(q, Succ(q), f) = <<f[q]>>
  BY ContentsOne
<1>3. Contents(p, q, f) \in Seq(Nat) /\ f[q] \in Nat
  BY ContentsSeq
<1> QED
  BY <1>2, <1>3, <1>4, AppendIsConcat

\* The item in the first slot is the head.
LEMMA ContentsTail ==
  ASSUME NEW f \in [Slots -> Nat], NEW p \in Slots, NEW q \in Slots, p # q
  PROVE  /\ Head(Contents(p, q, f)) = f[p]
         /\ Tail(Contents(p, q, f)) = Contents(Succ(p), q, f)
<1>1. Succ(p) \in Slots /\ Dist(p, Succ(p)) + Dist(Succ(p), q) = Dist(p, q)
  BY CapacityAssumption DEF Slots, Succ, Dist
<1>2. Contents(p, q, f) = Contents(p, Succ(p), f) \o Contents(Succ(p), q, f)
  BY <1>1, ContentsConcat
<1>4. Contents(p, Succ(p), f) = <<f[p]>>
  BY ContentsOne
<1>3. Contents(Succ(p), q, f) \in Seq(Nat) /\ f[p] \in Nat
  BY <1>1, ContentsSeq
<1> QED
  BY <1>2, <1>3, <1>4

-----------------------------------------------------------------------------
(* The queue that the ring stands for.                                     *)

Pending == Contents(tail.rd, tail.wr, owner)
Readable == Contents(head.rd, tail.rd, buf)
BeingRead == Contents(head.wr, head.rd, buf)

\* No more items are allocated than were allowed to begin.
Allocating == {f \in Frames : op[f] = "alloc"}
AllocatedInv == allocated + Cardinality(Allocating) < MaxItems + MaxDepth

LEMMA Primed ==
  /\ Pending' = Contents(tail'.rd, tail'.wr, owner')
  /\ Readable' = Contents(head'.rd, tail'.rd, buf')
  /\ BeingRead' = Contents(head'.wr, head'.rd, buf')
BY DEF Pending, Readable, BeingRead, Contents, Dist, SlotAt

\* The positions and the slots of a state that satisfies the invariant.
LEMMA Ring ==
  ASSUME IInv
  PROVE  /\ tail.wr \in Slots /\ tail.rd \in Slots /\ head.wr \in Slots /\ head.rd \in Slots
         /\ Dist(head.wr, head.rd) + Dist(head.rd, tail.rd) = Dist(head.wr, tail.rd)
         /\ Dist(head.wr, tail.rd) + Dist(tail.rd, tail.wr) = Dist(head.wr, tail.wr)
         /\ Dist(head.rd, tail.rd) + Dist(tail.rd, tail.wr) = Dist(head.rd, tail.wr)
         /\ buf \in [Slots -> Nat] /\ owner \in [Slots -> Nat]
<1>1. /\ tail.wr \in Slots /\ tail.rd \in Slots /\ head.wr \in Slots /\ head.rd \in Slots
      /\ Dist(head.wr, head.rd) + Dist(head.rd, tail.rd) = Dist(head.wr, tail.rd)
      /\ Dist(head.wr, tail.rd) + Dist(tail.rd, tail.wr) = Dist(head.wr, tail.wr)
  BY RingFacts DEF IInv
<1>2. Dist(head.rd, tail.rd) + Dist(tail.rd, tail.wr) = Dist(head.rd, tail.wr)
  BY <1>1, CapacityAssumption DEF Dist, Slots
<1>3. buf \in [Slots -> Nat] /\ owner \in [Slots -> Nat]
  BY DEF IInv, TypeOK, ItemIds, NoItem
<1> QED
  BY <1>1, <1>2, <1>3

\* A slot in a part of the ring is in the whole.
LEMMA BetweenParts ==
  ASSUME NEW p \in Slots, NEW q \in Slots, NEW r \in Slots, NEW s \in Slots,
         Dist(p, q) + Dist(q, r) = Dist(p, r), Between(s, p, q) \/ Between(s, q, r)
  PROVE  Between(s, p, r)
BY CapacityAssumption DEF Between, Dist, Slots

\* The slot after the end of a part of the ring is not in the part before it.
LEMMA SuccOutside ==
  ASSUME NEW p \in Slots, NEW q \in Slots, NEW r \in Slots,
         Dist(p, q) + Dist(q, r) = Dist(p, r)
  PROVE  /\ Succ(r) # p => Succ(r) # q
         /\ q # r => Succ(q) # p
BY CapacityAssumption DEF Dist, Slots, Succ

\* A slot that is read, or may be read, is in one of the two ranges.
LEMMA ReadRanges ==
  ASSUME IInv, NEW s \in Slots, Between(s, head.wr, head.rd) \/ Between(s, head.rd, tail.rd)
  PROVE  Between(s, head.wr, tail.rd) /\ ~Between(s, tail.rd, tail.wr) /\ s # tail.wr
<1>1. Between(s, head.wr, tail.rd)
  BY Ring, BetweenParts
<1> QED
  BY <1>1, ZonesDisjoint DEF IInv

LEMMA AllocatingFinite ==
  ASSUME TypeOK
  PROVE  /\ IsFiniteSet(Frames) /\ Cardinality(Frames) = MaxDepth
         /\ IsFiniteSet(Allocating) /\ Cardinality(Allocating) \in Nat
<1>1. IsFiniteSet(Frames) /\ Cardinality(Frames) = MaxDepth
  BY MaxDepthAssumption, FS_Interval DEF Frames
<1>2. Allocating \subseteq Frames
  BY DEF Allocating
<1>3. IsFiniteSet(Allocating)
  BY <1>1, <1>2, FS_Subset
<1> QED
  BY <1>1, <1>3, FS_CardinalityType

LEMMA InitAllocatedInv == Init => AllocatedInv
<1> SUFFICES ASSUME Init PROVE AllocatedInv
  OBVIOUS
<1>1. Allocating = {} /\ allocated = 0
  BY DEF Init, Allocating
<1> QED
  BY <1>1, FS_EmptySet, MaxItemsAssumption, MaxDepthAssumption DEF AllocatedInv

LEMMA NextAllocatedInv ==
  ASSUME IInv, AllocatedInv, [Next]_vars
  PROVE  AllocatedInv'
<1>1. TypeOK /\ TypeOK' /\ IsFiniteSet(Frames) /\ Cardinality(Frames) = MaxDepth
  BY NextTypeOK, AllocatingFinite DEF IInv
<1>2. /\ IsFiniteSet(Allocating) /\ Cardinality(Allocating) \in Nat
      /\ IsFiniteSet(Allocating') /\ Cardinality(Allocating') \in Nat
  <2>1. Allocating \subseteq Frames /\ Allocating' \subseteq Frames
    BY DEF Allocating
  <2>2. IsFiniteSet(Allocating) /\ IsFiniteSet(Allocating')
    BY <1>1, <2>1, FS_Subset
  <2> QED
    BY <2>2, FS_CardinalityType
<1>3. Cardinality(Allocating)' = Cardinality(Allocating')
  OBVIOUS
<1>4. MaxItems \in Nat \ {0} /\ MaxDepth \in Nat \ {0} /\ allocated \in Nat
  BY <1>1, MaxItemsAssumption, MaxDepthAssumption DEF TypeOK
<1>5. CASE AllocBegin
  <2>1. Allocating' \subseteq Frames
    BY DEF Allocating
  <2>2. Cardinality(Allocating') <= MaxDepth
    BY <1>1, <2>1, FS_Subset
  <2> QED
    BY <1>2, <1>3, <1>4, <1>5, <2>2 DEF AllocBegin, AllocatedInv
<1>6. CASE AllocStore
  <2>1. depth \in Frames /\ op[depth] = "alloc" /\ op' = [op EXCEPT ![depth] = "write"]
    BY <1>1, <1>6, FrameFacts DEF AllocStore, Top, Step, IInv
  <2>2. Allocating' = Allocating \ {depth} /\ depth \in Allocating
    BY <1>1, <2>1 DEF Allocating, TypeOK
  <2>3. Cardinality(Allocating') = Cardinality(Allocating) - 1
    BY <1>2, <2>2, FS_RemoveElement
  <2> QED
    BY <1>2, <1>3, <1>4, <1>6, <2>3 DEF AllocStore, AllocatedInv
<1>7. ASSUME allocated' = allocated, \A f \in Frames : op'[f] = "alloc" => op[f] = "alloc"
      PROVE  AllocatedInv'
  <2>1. Allocating' \subseteq Allocating
    BY <1>7 DEF Allocating
  <2>2. Cardinality(Allocating') <= Cardinality(Allocating)
    BY <1>2, <2>1, FS_Subset
  <2> QED
    BY <1>2, <1>3, <1>4, <1>7, <2>2 DEF AllocatedInv
<1>8. CASE AllocFull \/ ItemPut \/ GetEmpty \/ ItemFree
  <2>1. op' = [op EXCEPT ![depth] = "idle"] /\ allocated' = allocated
    BY <1>8 DEF AllocFull, ItemPut, GetEmpty, ItemFree, End
  <2> QED
    BY <1>1, <1>7, <2>1 DEF TypeOK
<1>9. CASE AllocRetry \/ GetRetry \/ Clear \/ UNCHANGED vars
  BY <1>7, <1>9 DEF AllocRetry, GetRetry, Clear, vars
<1>10. CASE GetBegin
  <2>1. op' = [op EXCEPT ![depth + 1] = "get"] /\ allocated' = allocated
    BY <1>10 DEF GetBegin, Begin
  <2> QED
    BY <1>1, <1>7, <2>1 DEF TypeOK
<1>11. CASE ItemWrite \/ GetStore \/ ItemRead
  <2>1. PICK kind \in {"put", "read", "free"} : op' = [op EXCEPT ![depth] = kind]
    BY <1>11 DEF ItemWrite, GetStore, ItemRead, Step
  <2>2. allocated' = allocated
    BY <1>11 DEF ItemWrite, GetStore, ItemRead
  <2> QED
    BY <1>1, <1>7, <2>1, <2>2 DEF TypeOK
<1> QED
  BY <1>5, <1>6, <1>8, <1>9, <1>10, <1>11 DEF Next

-----------------------------------------------------------------------------
(* Each step of the ring is a step of the queue.                           *)

\* A request that stores its tail reserves the next place.
LEMMA AllocStoreReserves ==
  ASSUME IInv, AllocatedInv, AllocStore
  PROVE  \E x \in 1 .. MaxItems + MaxDepth : Fifo!Reserve(x)
<1> DEFINE w == tail.wr
           x == allocated + 1
<1>1. /\ depth \in Running /\ depth \in Frames /\ op[depth] = "alloc" /\ tag[depth] = tail /\ Succ(w) # head.wr
  BY FrameFacts DEF AllocStore, Top, Full, IInv, FrameInv
<1>2. /\ tail'.wr = Succ(w) /\ tail'.rd = tail.rd /\ head' = head
      /\ buf' = [buf EXCEPT ![w] = NoItem] /\ owner' = [owner EXCEPT ![w] = x]
  BY <1>1 DEF AllocStore
<1>3. /\ w \in Slots /\ Succ(w) \in Slots /\ tail.rd \in Slots /\ head.wr \in Slots /\ head.rd \in Slots
      /\ Dist(head.wr, head.rd) + Dist(head.rd, tail.rd) + Dist(tail.rd, w) = Dist(head.wr, w)
      /\ Dist(head.wr, Succ(w)) = Dist(head.wr, w) + 1 /\ Succ(w) # tail.rd
  <2>1. w \in Slots /\ Succ(w) \in Slots /\ tail.rd \in Slots /\ head.wr \in Slots /\ head.rd \in Slots
    BY Ring, DistSucc
  <2>2. Dist(head.wr, Succ(w)) = Dist(head.wr, w) + 1
    BY <1>1, <2>1, DistSucc
  <2>3. Dist(head.wr, head.rd) + Dist(head.rd, tail.rd) + Dist(tail.rd, w) = Dist(head.wr, w)
    BY DEF IInv, RingOrder
  <2>4. Succ(w) # tail.rd
    <3>1. Dist(head.wr, tail.rd) + Dist(tail.rd, w) = Dist(head.wr, w)
      BY Ring
    <3> QED
      BY <1>1, <2>1, <3>1, SuccOutside
  <2> QED
    BY <2>1, <2>2, <2>3, <2>4
<1>4. x \in 1 .. MaxItems + MaxDepth /\ x \in Nat
  <2>1. depth \in Allocating
    BY <1>1 DEF Allocating
  <2>2. IsFiniteSet(Allocating) /\ Cardinality(Allocating) \in Nat
    BY AllocatingFinite DEF IInv
  <2>3. Cardinality(Allocating) # 0
    BY <2>1, <2>2, FS_EmptySet
  <2> QED
    BY <2>2, <2>3, MaxItemsAssumption, MaxDepthAssumption DEF AllocatedInv, IInv, TypeOK
<1>5. buf \in [Slots -> Nat] /\ owner \in [Slots -> Nat] /\ owner' \in [Slots -> Nat] /\ owner'[w] = x
  BY <1>2, <1>3, <1>4, Ring
<1> HIDE DEF x
<1>6. Pending' = Append(Pending, x)
  <2>1. Contents(tail.rd, w, owner') = Contents(tail.rd, w, owner)
    <3>1. ASSUME NEW s \in Slots, Between(s, tail.rd, w) PROVE owner'[s] = owner[s]
      <4>1. Dist(tail.rd, w) \in Nat
        BY <1>3, DistRange
      <4>2. s # w
        BY <3>1, <4>1 DEF Between
      <4> QED
        BY <1>2, <1>5, <4>2
    <3> QED
      BY <1>3, <1>5, <3>1, ContentsSame
  <2>2. Contents(tail.rd, Succ(w), owner') = Append(Contents(tail.rd, w, owner'), x)
    BY <1>3, <1>5, ContentsAppend
  <2> QED
    BY <1>2, <2>1, <2>2, Primed DEF Pending
<1>7. Readable' = Readable /\ BeingRead' = BeingRead
  <2>1. \A s \in Slots : Between(s, head.wr, head.rd) \/ Between(s, head.rd, tail.rd) => buf'[s] = buf[s]
    BY <1>2, <1>3, <1>5, ReadRanges
  <2>2. buf' \in [Slots -> Nat]
    BY <1>2, <1>5 DEF NoItem
  <2>3. Contents(head.wr, head.rd, buf') = Contents(head.wr, head.rd, buf)
    BY <1>3, <1>5, <2>1, <2>2, ContentsSame
  <2>4. Contents(head.rd, tail.rd, buf') = Contents(head.rd, tail.rd, buf)
    BY <1>3, <1>5, <2>1, <2>2, ContentsSame
  <2> QED
    BY <1>2, <2>3, <2>4, Primed DEF Readable, BeingRead
<1>8. Len(Pending) + Len(Readable) + Len(BeingRead) < Capacity
  <2>7. \A p, q \in Slots, f \in [Slots -> Nat] : Len(Contents(p, q, f)) = Dist(p, q)
    BY ContentsSeq
  <2>8. w \in Slots /\ tail.rd \in Slots /\ head.wr \in Slots /\ head.rd \in Slots
    BY <1>3
  <2>1. Len(Pending) = Dist(tail.rd, w)
    BY <1>5, <2>7, <2>8 DEF Pending
  <2>3. Len(Readable) = Dist(head.rd, tail.rd)
    BY <1>5, <2>7, <2>8 DEF Readable
  <2>4. Len(BeingRead) = Dist(head.wr, head.rd)
    BY <1>5, <2>7, <2>8 DEF BeingRead
  <2>2. /\ Dist(tail.rd, w) \in Nat /\ Dist(head.rd, tail.rd) \in Nat /\ Dist(head.wr, head.rd) \in Nat
        /\ Dist(head.wr, w) \in Nat /\ Dist(head.wr, Succ(w)) \in Nat /\ Dist(head.wr, Succ(w)) < Capacity + 1
    BY <1>3, DistRange, CapacityAssumption
  <2>5. Len(BeingRead) + Len(Readable) + Len(Pending) = Dist(head.wr, w)
    BY <1>3, <2>1, <2>3, <2>4
  <2>6. Dist(head.wr, w) < Capacity
    BY <1>3, <2>2, CapacityAssumption
  <2> HIDE DEF w
  <2> QED
    BY <2>1, <2>2, <2>3, <2>4, <2>5, <2>6
<1>9. Fifo!Reserve(x)
  BY <1>6, <1>7, <1>8, SMTT(30) DEF Fifo!Reserve, Fifo!Held, Pending, Readable, BeingRead
<1> QED
  BY <1>4, <1>9

\* Writing an item does not concern the queue yet.
LEMMA ItemWriteStutters ==
  ASSUME IInv, ItemWrite
  PROVE  UNCHANGED Fifo!fifoVars
<1> DEFINE s == tag[depth].wr
<1>1. /\ depth \in Running /\ depth \in Frames /\ Writing(depth) /\ s \in Slots
      /\ Between(s, tail.rd, tail.wr)
  BY FrameFacts DEF ItemWrite, Top, Writing, IInv, WriterInv, WSlot
<1>2. UNCHANGED <<tail, head, owner>> /\ buf' = [buf EXCEPT ![s] = item[depth]]
  BY DEF ItemWrite
<1> HIDE DEF s
<1>3. \A r \in Slots : Between(r, head.wr, head.rd) \/ Between(r, head.rd, tail.rd) => buf'[r] = buf[r]
  BY <1>1, <1>2, Ring, ReadRanges
<1>4. buf \in [Slots -> Nat] /\ buf' \in [Slots -> Nat]
  <2>1. item[depth] \in Nat
    BY <1>1 DEF IInv, TypeOK, ItemIds, NoItem
  <2> QED
    BY <1>1, <1>2, <2>1, Ring
<1>6. Contents(head.wr, head.rd, buf') = Contents(head.wr, head.rd, buf)
  BY <1>3, <1>4, Ring, ContentsSame
<1>7. Contents(head.rd, tail.rd, buf') = Contents(head.rd, tail.rd, buf)
  BY <1>3, <1>4, Ring, ContentsSame, SMTT(30)
<1>5. UNCHANGED <<Pending, Readable, BeingRead>>
  BY <1>2, <1>6, <1>7, Primed DEF Pending, Readable, BeingRead
<1> QED
  BY <1>5 DEF Fifo!fifoVars, Pending, Readable, BeingRead

\* The outermost put shows all that is pending, an inner one nothing.
LEMMA ItemPutPublishes ==
  ASSUME IInv, ItemPut
  PROVE  Fifo!Publish \/ UNCHANGED Fifo!fifoVars
<1>1. CASE ~Outermost(tag[depth])
  <2>1. UNCHANGED <<tail, head, buf, owner>>
    BY <1>1 DEF ItemPut
  <2>2. UNCHANGED <<Pending, Readable, BeingRead>>
    BY <2>1, Primed DEF Pending, Readable, BeingRead
  <2> QED
    BY <2>2 DEF Fifo!fifoVars, Pending, Readable, BeingRead
<1>2. CASE Outermost(tag[depth])
  <2>1. tail'.wr = tail.wr /\ tail'.rd = tail.wr /\ UNCHANGED <<head, buf, owner>>
    BY <1>2 DEF ItemPut
  <2>2. /\ depth \in Running /\ op[depth] = "put" /\ Writing(depth) /\ WSlot(depth) = tail.rd
        /\ \A f \in Running : f \in Nat /\ f <= depth
    BY <1>2, FrameFacts DEF ItemPut, Top, Writing, Outermost, IInv, WriterInv, WSlot
  <2>3. \A f \in Running : op[f] # "write"
    <3>1. Dist(tail.rd, WSlot(depth)) = 0
      BY <2>2, Ring, DistZero
    <3>2. ASSUME NEW f \in Running, op[f] = "write" PROVE FALSE
      <4>1. Writing(f) /\ f # depth
        BY <2>2, <3>2 DEF Writing
      <4>2. f < depth
        BY <2>2, <3>2, <4>1
      <4>3. Dist(tail.rd, WSlot(f)) < 0
        BY <2>2, <3>1, <3>2, <4>1, <4>2 DEF IInv, WriterInv
      <4>4. WSlot(f) \in Slots
        BY <3>2, FrameFacts DEF IInv
      <4> QED
        BY <4>3, <4>4, Ring, DistRange, CapacityAssumption
    <3> QED
      BY <3>2
  <2>4. \A s \in Slots : Between(s, tail.rd, tail.wr) => buf[s] = owner[s]
    BY <2>3 DEF IInv, DataInv, Complete
  <2>5. Contents(tail.rd, tail.wr, buf) = Pending
    BY <2>4, Ring, ContentsSame DEF Pending
  <2>6. Contents(head.rd, tail.wr, buf) = Readable \o Pending
    <3>1. /\ head.rd \in Slots /\ tail.rd \in Slots /\ tail.wr \in Slots /\ buf \in [Slots -> Nat]
          /\ Dist(head.rd, tail.rd) + Dist(tail.rd, tail.wr) = Dist(head.rd, tail.wr)
      BY Ring
    <3>2. Contents(head.rd, tail.wr, buf) = Contents(head.rd, tail.rd, buf) \o Contents(tail.rd, tail.wr, buf)
      BY <3>1, ContentsConcat
    <3> QED
      BY <2>5, <3>2 DEF Readable
  <2>7. Contents(tail.wr, tail.wr, owner) = <<>>
    BY Ring, ContentsNone
  <2>8. Readable' = Readable \o Pending /\ Pending' = <<>> /\ BeingRead' = BeingRead
    BY <2>1, <2>6, <2>7, Primed DEF BeingRead
  <2> QED
    BY <2>8 DEF Fifo!Publish, Pending, Readable, BeingRead
<1> QED
  BY <1>1, <1>2

\* A request that stores its head takes the first item.
LEMMA GetStoreTakes ==
  ASSUME IInv, GetStore
  PROVE  Fifo!Take
<1>1. depth \in Running /\ tag[depth] = head /\ head.rd # tail.rd
  BY FrameFacts DEF GetStore, Top, NoData, IInv, FrameInv
<1>2. head'.wr = head.wr /\ head'.rd = Succ(head.rd) /\ UNCHANGED <<tail, buf, owner>>
  BY <1>1 DEF GetStore
<1>3. Readable # <<>>
  BY <1>1, Ring, ContentsNone DEF Readable
<1>4. Head(Readable) = buf[head.rd] /\ Tail(Readable) = Contents(Succ(head.rd), tail.rd, buf)
  BY <1>1, Ring, ContentsTail DEF Readable
<1>5. Succ(head.rd) # head.wr
  BY <1>1, Ring, SuccOutside
<1>6. Contents(head.wr, Succ(head.rd), buf) = Append(BeingRead, buf[head.rd])
  BY <1>5, Ring, ContentsAppend DEF BeingRead
<1>7. BeingRead' = Append(BeingRead, Head(Readable)) /\ Readable' = Tail(Readable) /\ Pending' = Pending
  BY <1>2, <1>4, <1>6, Primed DEF Pending
<1> QED
  BY <1>3, <1>7 DEF Fifo!Take, Pending, Readable, BeingRead

\* The outermost free releases all that was read, an inner one nothing.
LEMMA ItemFreeReleases ==
  ASSUME IInv, ItemFree
  PROVE  Fifo!Release \/ UNCHANGED Fifo!fifoVars
<1>1. CASE ~Outermost(tag[depth])
  <2>1. UNCHANGED <<tail, head, buf, owner>>
    BY <1>1 DEF ItemFree
  <2>2. UNCHANGED <<Pending, Readable, BeingRead>>
    BY <2>1, Primed DEF Pending, Readable, BeingRead
  <2> QED
    BY <2>2 DEF Fifo!fifoVars, Pending, Readable, BeingRead
<1>2. CASE Outermost(tag[depth])
  <2>1. head'.wr = head.rd /\ head'.rd = head.rd /\ UNCHANGED <<tail, buf, owner>>
    BY <1>2 DEF ItemFree
  <2>2. Contents(head.rd, head.rd, buf) = <<>>
    BY Ring, ContentsNone
  <2>3. BeingRead' = <<>> /\ Readable' = Readable /\ Pending' = Pending
    BY <2>1, <2>2, Primed DEF Readable, Pending
  <2> QED
    BY <2>3 DEF Fifo!Release, Pending, Readable, BeingRead
<1> QED
  BY <1>1, <1>2

\* Clearing drops what is visible, and its space is that of the open read.
LEMMA ClearDrops ==
  ASSUME IInv, Clear
  PROVE  Fifo!Drop
<1>1. head'.rd = tail.rd /\ UNCHANGED <<tail, buf, owner>>
  BY DEF Clear
<1>2. Contents(tail.rd, tail.rd, buf) = <<>>
  BY Ring, ContentsNone
<1>3. Readable' = <<>> /\ Pending' = Pending
  BY <1>1, <1>2, Primed DEF Pending
<1>4. CASE head.wr = head.rd
  <2>1. head'.wr = tail.rd /\ BeingRead = <<>>
    BY <1>4, Ring, ContentsNone DEF Clear, BeingRead
  <2>2. BeingRead' = <<>>
    BY <1>1, <1>2, <2>1, Primed
  <2> QED
    BY <1>3, <2>1, <2>2 DEF Fifo!Drop, Pending, Readable, BeingRead
<1>5. CASE head.wr # head.rd
  <2>1. head'.wr = head.wr /\ BeingRead # <<>>
    BY <1>5, Ring, ContentsNone DEF Clear, BeingRead
  <2>2. Contents(head.wr, tail.rd, buf) = BeingRead \o Readable
    BY Ring, ContentsConcat, SMTT(30) DEF Readable, BeingRead
  <2>3. BeingRead' = BeingRead \o Readable
    BY <1>1, <2>1, <2>2, Primed
  <2> QED
    BY <1>3, <2>1, <2>3 DEF Fifo!Drop, Pending, Readable, BeingRead
<1> QED
  BY <1>4, <1>5

LEMMA QuietStutters ==
  ASSUME UNCHANGED <<tail, head, buf, owner>>
  PROVE  UNCHANGED Fifo!fifoVars
<1>1. UNCHANGED <<Pending, Readable, BeingRead>>
  BY Primed DEF Pending, Readable, BeingRead
<1> QED
  BY <1>1 DEF Fifo!fifoVars, Pending, Readable, BeingRead

LEMMA InitIsFifoInit == Init => Fifo!FifoInit
<1> SUFFICES ASSUME Init PROVE Fifo!FifoInit
  OBVIOUS
<1>1. IInv /\ tail.wr = tail.rd /\ head.wr = head.rd /\ head.rd = tail.rd
  BY InitIInv DEF Init
<1>2. Pending = <<>> /\ Readable = <<>> /\ BeingRead = <<>>
  BY <1>1, Ring, ContentsNone DEF Pending, Readable, BeingRead
<1> QED
  BY <1>2 DEF Fifo!FifoInit, Pending, Readable, BeingRead

-----------------------------------------------------------------------------
\* The atomic FIFO is a queue: whatever the nesting of its operations, each of
\* their steps reserves, publishes, takes, releases or drops items as FifoSpec
\* says, or does not concern the queue (nrf_atfifo_item_alloc, item_put,
\* item_get, item_free and clear).
THEOREM ImplementsFifoHolds == Spec => ImplementsFifo
<1>1. Init => Fifo!FifoInit /\ AllocatedInv
  BY InitIsFifoInit, InitAllocatedInv
<1>2. IInv /\ AllocatedInv /\ [Next]_vars => AllocatedInv'
  BY NextAllocatedInv
<1>3. IInv /\ AllocatedInv /\ [Next]_vars => [Fifo!FifoNext]_(Fifo!fifoVars)
  <2> SUFFICES ASSUME IInv, AllocatedInv, [Next]_vars
               PROVE  Fifo!FifoNext \/ UNCHANGED Fifo!fifoVars
    OBVIOUS
  <2>1. CASE AllocStore
    BY <2>1, AllocStoreReserves DEF Fifo!FifoNext
  <2>2. CASE ItemWrite
    BY <2>2, ItemWriteStutters
  <2>3. CASE ItemPut
    BY <2>3, ItemPutPublishes DEF Fifo!FifoNext
  <2>4. CASE GetStore
    BY <2>4, GetStoreTakes DEF Fifo!FifoNext
  <2>5. CASE ItemFree
    BY <2>5, ItemFreeReleases DEF Fifo!FifoNext
  <2>6. CASE Clear
    BY <2>6, ClearDrops DEF Fifo!FifoNext
  <2>7. CASE \/ AllocBegin \/ AllocFull \/ AllocRetry \/ GetBegin \/ GetEmpty \/ GetRetry \/ ItemRead
             \/ UNCHANGED vars
    <3>1. UNCHANGED <<tail, head, buf, owner>>
      BY <2>7 DEF AllocBegin, AllocFull, AllocRetry, GetBegin, GetEmpty, GetRetry, ItemRead, vars
    <3> QED
      BY <3>1, QuietStutters
  <2> QED
    BY <2>1, <2>2, <2>3, <2>4, <2>5, <2>6, <2>7 DEF Next
<1> QED
  BY <1>1, <1>2, <1>3, InductiveInvariant, PTL DEF Spec, ImplementsFifo, Fifo!FifoSpecification
=============================================================================
