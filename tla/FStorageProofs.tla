--------------------------- MODULE FStorageProofs ---------------------------
(***************************************************************************)
(* Proofs about FStorage while the SoftDevice stays as it is and nobody    *)
(* else uses the flash, for every level that requests operations, every    *)
(* number and size of them, every depth of calls, refusals, timeouts and   *)
(* reinitializations.                                                      *)
(*                                                                         *)
(* Then the queue has one driver: m_flags.queue_running is handed from the *)
(* call that set it to the flash operation it starts, from there to the    *)
(* event that ends it, and given back when the queue is found empty.       *)
(*                                                                         *)
(* The last part is about the changes of the SoftDevice, with other users  *)
(* of the flash, and with operations requested by the main loop.           *)
(***************************************************************************)
EXTENDS FStorage, SequenceTheorems, TLAPS

Frames == [level : 1 .. 3, at : Points, flag : BOOLEAN]
Budgets == [changes : Nat, resets : Nat, others : Nat, rejects : Nat, failures : Nat]

\* The operations not yet taken, in the order they will be.
Waiting == ready \o pending
Queued == {Waiting[i] : i \in DOMAIN Waiting}
Ascending(s) == \A i, j \in DOMAIN s : i < j => s[i] < s[j]

\* The steps of a change of the SoftDevice, and of a wait for somebody else.
Unusual == {"busy", "request", "ask", "change", "changed"}
UsualFrames == \A i \in DOMAIN stack : stack[i].at \notin Unusual

\* The SoftDevice stays as it is, and nobody else uses the flash.
AloneInv ==
  /\ budget \in Budgets /\ budget.changes = 0 /\ budget.others = 0
  /\ ~paused /\ ~sdContinue
  /\ UsualFrames
  /\ initialized => sdOn = sdEnabled
  /\ ~initialized => stack = <<>>

\* Operations are numbered, accepted, taken and reported in one order, and
\* those that wait are untouched.
OrderInv ==
  /\ Ascending(Waiting)
  /\ \A o \in Queued : o <= accepted /\ progress[o] = 0 /\ size[o] > 0 /\ written[o] = {}
  /\ \A o \in Items : o > accepted => written[o] = {}
  /\ \A i \in DOMAIN reports :
       reports[i].op <= accepted /\ \A o \in Queued : reports[i].op < o
  /\ ReportedInOrder /\ ReportedMeansDone

\* The current operation is not reported, and n chunks of it are done.
CurrentInv(n) ==
  /\ cur \in Items /\ cur <= accepted
  /\ \A i \in DOMAIN reports : reports[i].op < cur
  /\ \A o \in Queued : cur < o
  /\ progress[cur] < size[cur]
  /\ written[cur] = 0 .. n - 1

\* The calls that drive the queue.  With the SoftDevice enabled a call whose
\* operation was accepted only returns: the event will drive the queue.
Drives(f) ==
  \/ f.at \in {"begin", "process", "stop", "execute", "issue", "failed", "reset",
               "event", "done", "free", "continue"}
  \/ f.at = "accepted" /\ ~sdOn

Executes(f) ==
  \/ f.at \in {"execute", "issue", "accepted", "event"}
  \/ f.at \in {"process", "continue"} /\ state = "executing"

ChunksDone(f) ==
  IF f.at = "accepted" \/ (f.at = "event" /\ f.flag) THEN progress[cur] + 1 ELSE progress[cur]

DriverInv(f) ==
  /\ running /\ flash = Free
  /\ f.at \in {"begin", "stop", "done", "free"} => state = "idle"
  /\ f.at \in {"issue", "accepted", "event"} => state = "executing"
  /\ Executes(f) => CurrentInv(ChunksDone(f))

FlashInv ==
  flash # Free =>
    /\ running /\ state = "executing" /\ sdEnabled /\ initialized
    /\ CurrentInv(progress[cur])
    /\ flash = Chunk(cur, progress[cur])

OneDriver == \A i, j \in DOMAIN stack : Drives(stack[i]) /\ Drives(stack[j]) => i = j
DriversInv == \A i \in DOMAIN stack : Drives(stack[i]) => DriverInv(stack[i])

StateInv == state \in {"idle", "executing"} /\ (~running => state = "idle")

ControlInv == OneDriver /\ DriversInv /\ FlashInv /\ StateInv

QueueInv == FStorageTypeOK /\ AloneInv /\ OrderInv /\ ControlInv

-----------------------------------------------------------------------------
(* The stack of calls.                                                     *)

\* The running call.
LEMMA FrameOnTop ==
  ASSUME stack \in Seq(Frames), stack # <<>>
  PROVE  /\ Len(stack) \in DOMAIN stack /\ Len(stack) \in Nat \ {0} /\ DOMAIN stack = 1 .. Len(stack)
         /\ Top = stack[Len(stack)] /\ Top \in Frames
         /\ Top.level \in 1 .. 3 /\ Top.at \in Points /\ Top.flag \in BOOLEAN
<1>1. stack \in Seq(Frames) /\ Len(stack) \in Nat /\ DOMAIN stack = 1 .. Len(stack) /\ Len(stack) # 0
  BY LenProperties, EmptySeq
<1>2. Len(stack) \in DOMAIN stack
  BY <1>1
<1>3. Top = stack[Len(stack)]
  BY DEF Top
<1>4. Top \in Frames
  BY <1>1, <1>2, <1>3, ElementOfSeq
<1> QED
  BY <1>1, <1>2, <1>3, <1>4 DEF Frames

\* The running call goes on.
LEMMA FrameBecomes ==
  ASSUME stack \in Seq(Frames), stack # <<>>, NEW at \in Points, NEW flag \in BOOLEAN, Become(at, flag)
  PROVE  /\ stack' \in Seq(Frames) /\ DOMAIN stack' = DOMAIN stack /\ Len(stack') = Len(stack)
         /\ stack'[Len(stack)].at = at /\ stack'[Len(stack)].flag = flag
         /\ \A i \in DOMAIN stack : i # Len(stack) => stack'[i] = stack[i]
<1> DEFINE f == [[Top EXCEPT !.at = at] EXCEPT !.flag = flag]
<1>1. /\ Len(stack) \in DOMAIN stack /\ DOMAIN stack = 1 .. Len(stack)
      /\ Top = stack[Len(stack)] /\ Top \in Frames
  BY FrameOnTop
<1>2. stack' = [stack EXCEPT ![Len(stack)] = f]
  BY <1>1 DEF Become
<1>3. f \in Frames /\ f.at = at /\ f.flag = flag
  BY <1>1 DEF Frames
<1> HIDE DEF f
<1>4. stack \in Seq(Frames)
  OBVIOUS
<1>5. stack' \in Seq(Frames)
  BY <1>1, <1>2, <1>3, <1>4, ExceptSeq
<1>6. DOMAIN stack' = DOMAIN stack
  BY <1>2
<1>7. stack'[Len(stack)] = f
  BY <1>1, <1>2
<1>8. \A i \in DOMAIN stack : i # Len(stack) => stack'[i] = stack[i]
  BY <1>2
<1>9. Len(stack') = Len(stack)
  BY <1>1, <1>5, <1>6, LenProperties
<1> QED
  BY <1>3, <1>5, <1>6, <1>7, <1>8, <1>9

\* A call begins.
LEMMA FrameCalls ==
  ASSUME stack \in Seq(Frames), NEW level \in 1 .. 3, NEW at \in Points, NEW flag \in BOOLEAN, Call(level, at, flag)
  PROVE  /\ stack' \in Seq(Frames) /\ Len(stack') = Len(stack) + 1
         /\ DOMAIN stack' = 1 .. Len(stack) + 1 /\ DOMAIN stack = 1 .. Len(stack) /\ Len(stack) \in Nat
         /\ stack'[Len(stack) + 1].at = at /\ stack'[Len(stack) + 1].flag = flag
         /\ \A i \in DOMAIN stack : stack'[i] = stack[i]
<1> DEFINE f == [level |-> level, at |-> at, flag |-> flag]
<1>1. f \in Frames /\ f.at = at /\ f.flag = flag /\ stack' = Append(stack, f)
  BY DEF Frames, Call
<1> HIDE DEF f
<1>2. stack \in Seq(Frames)
  OBVIOUS
<1>3. /\ stack' \in Seq(Frames) /\ Len(stack') = Len(stack) + 1
      /\ stack'[Len(stack) + 1] = f /\ \A i \in 1 .. Len(stack) : stack'[i] = stack[i]
  BY <1>1, <1>2, AppendProperties
<1> QED
  BY <1>1, <1>2, <1>3, LenProperties

\* The running call returns.
LEMMA FrameReturns ==
  ASSUME stack \in Seq(Frames), stack # <<>>, Return
  PROVE  /\ stack' \in Seq(Frames) /\ Len(stack') = Len(stack) - 1 /\ DOMAIN stack' = 1 .. Len(stack) - 1
         /\ \A i \in DOMAIN stack' : i \in DOMAIN stack /\ i # Len(stack) /\ stack'[i] = stack[i]
<1>1. stack \in Seq(Frames) /\ Len(stack) \in Nat \ {0} /\ DOMAIN stack = 1 .. Len(stack)
  BY FrameOnTop
<1>2. \A i \in 1 .. Len(stack) - 1 : stack[i] \in Frames
  BY <1>1, ElementOfSeq
<1>3. stack' = SubSeq(stack, 1, Len(stack) - 1)
  BY DEF Return
<1>4. /\ stack' \in Seq(Frames)
      /\ Len(stack') = IF 1 <= Len(stack) - 1 THEN Len(stack) - 1 - 1 + 1 ELSE 0
      /\ \A i \in 1 .. Len(stack) - 1 - 1 + 1 : stack'[i] = stack[1 + i - 1]
  BY <1>1, <1>2, <1>3, SubSeqProperties
<1>5. Len(stack') = Len(stack) - 1
  <2>1. CASE Len(stack) = 1
    <3> QED
      BY <2>1, <1>4
  <2>2. CASE Len(stack) # 1
    <3>1. 1 <= Len(stack) - 1 /\ Len(stack) - 1 - 1 + 1 = Len(stack) - 1
      BY <2>2, <1>1
    <3> QED
      BY <3>1, <1>4
  <2> QED
    BY <2>1, <2>2
<1>6. DOMAIN stack' = 1 .. Len(stack) - 1
  BY <1>4, <1>5, LenProperties
<1>7. ASSUME NEW i \in DOMAIN stack' PROVE i \in DOMAIN stack /\ i # Len(stack) /\ stack'[i] = stack[i]
  <2>1. i \in 1 .. Len(stack) - 1 /\ i \in Int
    BY <1>6
  <2>2. i \in 1 .. Len(stack) - 1 - 1 + 1 /\ 1 + i - 1 = i
    BY <2>1, <1>1
  <2>3. stack'[i] = stack[1 + i - 1]
    BY <2>2, <1>4
  <2> QED
    BY <2>1, <2>2, <2>3, <1>1
<1> QED
  BY <1>4, <1>5, <1>6, <1>7

\* The same with the type invariant.
LEMMA TopFrame ==
  ASSUME FStorageTypeOK, stack # <<>>
  PROVE  /\ Len(stack) \in DOMAIN stack /\ Len(stack) \in Nat \ {0} /\ DOMAIN stack = 1 .. Len(stack)
         /\ Top = stack[Len(stack)] /\ Top \in Frames
         /\ Top.level \in 1 .. 3 /\ Top.at \in Points /\ Top.flag \in BOOLEAN
<1>1. stack \in Seq(Frames)
  BY DEF FStorageTypeOK, Frames
<1> QED
  BY <1>1, FrameOnTop

LEMMA StackBecomes ==
  ASSUME FStorageTypeOK, stack # <<>>, NEW at \in Points, NEW flag \in BOOLEAN, Become(at, flag)
  PROVE  /\ stack' \in Seq(Frames) /\ DOMAIN stack' = DOMAIN stack
         /\ stack'[Len(stack)].at = at /\ stack'[Len(stack)].flag = flag
         /\ \A i \in DOMAIN stack : i # Len(stack) => stack'[i] = stack[i]
<1>1. stack \in Seq(Frames)
  BY DEF FStorageTypeOK, Frames
<1> QED
  BY <1>1, FrameBecomes

LEMMA StackCalls ==
  ASSUME FStorageTypeOK, NEW level \in 1 .. 3, NEW at \in Points, NEW flag \in BOOLEAN, Call(level, at, flag)
  PROVE  /\ stack' \in Seq(Frames)
         /\ DOMAIN stack' = 1 .. Len(stack) + 1 /\ DOMAIN stack = 1 .. Len(stack) /\ Len(stack) \in Nat
         /\ stack'[Len(stack) + 1].at = at /\ stack'[Len(stack) + 1].flag = flag
         /\ \A i \in DOMAIN stack : stack'[i] = stack[i]
<1>1. stack \in Seq(Frames)
  BY DEF FStorageTypeOK, Frames
<1> QED
  BY <1>1, FrameCalls

LEMMA StackReturns ==
  ASSUME FStorageTypeOK, stack # <<>>, Return
  PROVE  /\ stack' \in Seq(Frames)
         /\ \A i \in DOMAIN stack' : i \in DOMAIN stack /\ i # Len(stack) /\ stack'[i] = stack[i]
<1>1. stack \in Seq(Frames)
  BY DEF FStorageTypeOK, Frames
<1> QED
  BY <1>1, FrameReturns

-----------------------------------------------------------------------------
(* The operations that wait.                                               *)

LEMMA WaitingType ==
  ASSUME FStorageTypeOK
  PROVE  /\ Waiting \in Seq(Items) /\ Len(Waiting) = Len(ready) + Len(pending)
         /\ DOMAIN Waiting = 1 .. Len(Waiting) /\ Queued \subseteq Items
         /\ Len(ready) \in Nat /\ Len(pending) \in Nat
         /\ \A i \in 1 .. Len(ready) : Waiting[i] = ready[i]
         /\ \A i \in 1 .. Len(pending) : Waiting[Len(ready) + i] = pending[i]
<1>1. ready \in Seq(Items) /\ pending \in Seq(Items)
  BY DEF FStorageTypeOK, FifoTypeOK
<1>2. /\ Waiting \in Seq(Items) /\ Len(Waiting) = Len(ready) + Len(pending)
      /\ Len(ready) \in Nat /\ Len(pending) \in Nat
      /\ \A i \in 1 .. Len(ready) : Waiting[i] = ready[i]
      /\ \A i \in 1 .. Len(pending) : Waiting[Len(ready) + i] = pending[i]
  <2>1. Len(ready) \in Nat /\ Len(pending) \in Nat
    BY <1>1, LenProperties
  <2>2. /\ Waiting \in Seq(Items) /\ Len(Waiting) = Len(ready) + Len(pending)
        /\ \A i \in 1 .. Len(ready) + Len(pending) :
             Waiting[i] = IF i <= Len(ready) THEN ready[i] ELSE pending[i - Len(ready)]
    BY <1>1, ConcatProperties DEF Waiting
  <2>3. ASSUME NEW i \in 1 .. Len(ready) PROVE Waiting[i] = ready[i]
    BY <2>1, <2>2
  <2>4. ASSUME NEW i \in 1 .. Len(pending) PROVE Waiting[Len(ready) + i] = pending[i]
    <3>1. Len(ready) + i \in 1 .. Len(ready) + Len(pending) /\ ~(Len(ready) + i <= Len(ready))
          /\ Len(ready) + i - Len(ready) = i
      BY <2>1
    <3> QED
      BY <3>1, <2>2
  <2> QED
    BY <2>1, <2>2, <2>3, <2>4
<1>3. DOMAIN Waiting = 1 .. Len(Waiting)
  BY <1>2, LenProperties
<1>4. Queued \subseteq Items
  BY <1>2, <1>3, ElementOfSeq DEF Queued
<1> QED
  BY <1>2, <1>3, <1>4

LEMMA FifoTypes ==
  ASSUME FifoTypeOK,
         \/ \E o \in Items : Reserve(o)
         \/ Publish \/ Take \/ Release \/ Drop
         \/ UNCHANGED fifoVars
  PROVE  FifoTypeOK'
<1>1. ASSUME NEW o \in Items, Reserve(o) PROVE FifoTypeOK'
  BY <1>1, AppendProperties DEF FifoTypeOK, Reserve
<1>2. CASE Publish
  <2>1. ready' \in Seq(Items)
    BY <1>2, ConcatProperties DEF FifoTypeOK, Publish
  <2> QED
    BY <1>2, <2>1, EmptySeq DEF FifoTypeOK, Publish
<1>3. CASE Take
  <2>1. Head(ready) \in Items /\ Tail(ready) \in Seq(Items)
    BY <1>3, HeadTailProperties DEF FifoTypeOK, Take
  <2> QED
    BY <1>3, <2>1, AppendProperties DEF FifoTypeOK, Take
<1>4. CASE Release
  BY <1>4, EmptySeq DEF FifoTypeOK, Release
<1>5. CASE Drop
  <2>1. open \o ready \in Seq(Items)
    BY ConcatProperties DEF FifoTypeOK
  <2> QED
    BY <1>5, <2>1, EmptySeq DEF FifoTypeOK, Drop
<1>6. CASE UNCHANGED fifoVars
  BY <1>6 DEF FifoTypeOK, fifoVars
<1> QED
  BY <1>1, <1>2, <1>3, <1>4, <1>5, <1>6

\* An operation is accepted: it is the last one.
LEMMA WaitingReserved ==
  ASSUME FStorageTypeOK, NEW o \in Items, Reserve(o)
  PROVE  /\ Queued' = Queued \cup {o}
         /\ Ascending(Waiting) /\ (\A q \in Queued : q < o) => Ascending(Waiting')
<1>1. ready \in Seq(Items) /\ pending \in Seq(Items) /\ <<o>> \in Seq(Items)
  BY DEF FStorageTypeOK, FifoTypeOK
<1>2. Waiting' = Append(Waiting, o)
  <2>1. Waiting' = ready \o Append(pending, o)
    BY DEF Waiting, Reserve
  <2>2. Append(pending, o) = pending \o <<o>>
    BY <1>1, AppendIsConcat
  <2>3. ready \o (pending \o <<o>>) = (ready \o pending) \o <<o>>
    BY <1>1, ConcatAssociative
  <2>4. Append(Waiting, o) = Waiting \o <<o>>
    BY WaitingType, AppendIsConcat
  <2> QED
    BY <2>1, <2>2, <2>3, <2>4 DEF Waiting
<1>3. /\ DOMAIN Waiting = 1 .. Len(Waiting) /\ Len(Waiting) \in Nat /\ Waiting \in Seq(Items)
      /\ Queued \subseteq Items
  BY WaitingType, LenProperties
<1>4. /\ DOMAIN Waiting' = 1 .. Len(Waiting) + 1
      /\ \A i \in DOMAIN Waiting : Waiting'[i] = Waiting[i]
      /\ Waiting'[Len(Waiting) + 1] = o
  BY <1>2, <1>3, AppendProperties, LenProperties
<1>5. \A i \in DOMAIN Waiting' : (i \in DOMAIN Waiting /\ Waiting'[i] = Waiting[i]) \/ (i = Len(Waiting) + 1 /\ Waiting'[i] = o)
  BY <1>3, <1>4
<1>6. Queued' = Queued \cup {o}
  <2>1. Queued' \subseteq Queued \cup {o}
    BY <1>5 DEF Queued
  <2>2. Queued \subseteq Queued' /\ o \in Queued'
    BY <1>3, <1>4 DEF Queued
  <2> QED
    BY <2>1, <2>2
<1>7. ASSUME Ascending(Waiting), \A q \in Queued : q < o, NEW i \in DOMAIN Waiting', NEW j \in DOMAIN Waiting', i < j
      PROVE  Waiting'[i] < Waiting'[j]
  <2>1. i \in DOMAIN Waiting /\ Waiting'[i] = Waiting[i]
    BY <1>3, <1>4, <1>7
  <2>2. CASE j \in DOMAIN Waiting
    <3>1. Waiting'[j] = Waiting[j]
      BY <2>2, <1>4
    <3> QED
      BY <1>7, <2>1, <2>2, <3>1 DEF Ascending
  <2>3. CASE j \notin DOMAIN Waiting
    <3>1. Waiting'[j] = o
      BY <1>5, <2>3
    <3>2. Waiting[i] \in Queued
      BY <2>1 DEF Queued
    <3> QED
      BY <1>7, <2>1, <3>1, <3>2
  <2> QED
    BY <2>2, <2>3
<1> QED
  BY <1>6, <1>7 DEF Ascending

\* What is published waits as before.
LEMMA WaitingPublished ==
  ASSUME FStorageTypeOK, Publish
  PROVE  Waiting' = Waiting
<1>1. ready \in Seq(Items) /\ pending \in Seq(Items)
  BY DEF FStorageTypeOK, FifoTypeOK
<1>2. Waiting' = (ready \o pending) \o <<>>
  BY DEF Waiting, Publish
<1>3. ready \o pending \in Seq(Items)
  BY <1>1, ConcatProperties
<1> QED
  BY <1>2, <1>3, ConcatEmptySeq DEF Waiting

\* The first operation is taken.
LEMMA WaitingTaken ==
  ASSUME FStorageTypeOK, Ascending(Waiting), Take
  PROVE  /\ Head(ready) \in Queued /\ Queued' \subseteq Queued
         /\ \A o \in Queued' : Head(ready) < o
         /\ Ascending(Waiting')
<1>1. /\ ready \in Seq(Items) /\ pending \in Seq(Items) /\ ready # <<>>
      /\ pending' = pending /\ ready' = Tail(ready)
  BY DEF FStorageTypeOK, FifoTypeOK, Take
<1>2. /\ Tail(ready) \in Seq(Items) /\ Len(ready) \in Nat \ {0} /\ Head(ready) = ready[1]
      /\ Len(Tail(ready)) = Len(ready) - 1
      /\ \A i \in 1 .. Len(Tail(ready)) : Tail(ready)[i] = ready[i + 1]
  BY <1>1, HeadTailProperties, LenProperties, EmptySeq
<1>3. /\ DOMAIN Waiting = 1 .. Len(ready) + Len(pending)
      /\ Len(pending) \in Nat
      /\ \A i \in 1 .. Len(ready) : Waiting[i] = ready[i]
      /\ \A i \in 1 .. Len(pending) : Waiting[Len(ready) + i] = pending[i]
  BY WaitingType
<1>4. /\ Waiting' \in Seq(Items) /\ Len(Waiting') = Len(ready) - 1 + Len(pending)
      /\ \A i \in 1 .. Len(ready) - 1 + Len(pending) :
           Waiting'[i] = IF i <= Len(ready) - 1 THEN Tail(ready)[i] ELSE pending[i - (Len(ready) - 1)]
  BY <1>1, <1>2, ConcatProperties DEF Waiting
<1>5. DOMAIN Waiting' = 1 .. Len(ready) - 1 + Len(pending)
  BY <1>4, LenProperties
<1>6. ASSUME NEW i \in DOMAIN Waiting' PROVE i + 1 \in DOMAIN Waiting /\ i + 1 > 1 /\ i \in Int /\ Waiting'[i] = Waiting[i + 1]
  <2>1. i \in 1 .. Len(ready) - 1 + Len(pending) /\ i \in Int /\ i + 1 \in 1 .. Len(ready) + Len(pending)
    BY <1>2, <1>3, <1>5
  <2>2. CASE i <= Len(ready) - 1
    <3>1. i \in 1 .. Len(Tail(ready)) /\ i + 1 \in 1 .. Len(ready)
      BY <2>1, <2>2, <1>2
    <3>2. Waiting'[i] = Tail(ready)[i] /\ Waiting[i + 1] = ready[i + 1]
      BY <2>1, <2>2, <3>1, <1>3, <1>4
    <3> QED
      BY <2>1, <3>1, <3>2, <1>2, <1>3
  <2>3. CASE ~(i <= Len(ready) - 1)
    <3> DEFINE k == i - (Len(ready) - 1)
    <3>1. k \in 1 .. Len(pending) /\ Len(ready) + k = i + 1
      BY <2>1, <2>3, <1>2, <1>3
    <3>2. Waiting'[i] = pending[k]
      BY <2>1, <2>3, <1>4
    <3>3. Waiting[Len(ready) + k] = pending[k]
      BY <3>1, <1>3
    <3> QED
      BY <2>1, <3>1, <3>2, <3>3, <1>3
  <2> QED
    BY <2>2, <2>3
<1>7. 1 \in DOMAIN Waiting /\ Waiting[1] = Head(ready)
  BY <1>2, <1>3
<1>8. Queued' \subseteq Queued
  BY <1>6 DEF Queued
<1>9. ASSUME NEW o \in Queued' PROVE Head(ready) < o
  <2>1. PICK i \in DOMAIN Waiting' : o = Waiting'[i]
    BY DEF Queued
  <2> QED
    BY <2>1, <1>6, <1>7 DEF Ascending
<1>10. Ascending(Waiting')
  <2>1. ASSUME NEW i \in DOMAIN Waiting', NEW j \in DOMAIN Waiting', i < j
        PROVE  Waiting'[i] < Waiting'[j]
    <3>1. /\ i + 1 \in DOMAIN Waiting /\ j + 1 \in DOMAIN Waiting /\ i + 1 < j + 1
          /\ Waiting'[i] = Waiting[i + 1] /\ Waiting'[j] = Waiting[j + 1]
      BY <2>1, <1>6
    <3> QED
      BY <3>1 DEF Ascending
  <2> QED
    BY <2>1 DEF Ascending
<1> QED
  BY <1>7, <1>8, <1>9, <1>10 DEF Queued

\* What is visible is dropped.
LEMMA WaitingDropped ==
  ASSUME FStorageTypeOK, Ascending(Waiting), Drop
  PROVE  Queued' \subseteq Queued /\ Ascending(Waiting')
<1>1. pending \in Seq(Items) /\ Waiting' = <<>> \o pending
  BY DEF FStorageTypeOK, FifoTypeOK, Drop, Waiting
<1>2. Waiting' = pending
  BY <1>1, ConcatEmptySeq
<1>3. /\ Len(pending) \in Nat /\ Len(ready) \in Nat /\ DOMAIN pending = 1 .. Len(pending)
      /\ DOMAIN Waiting = 1 .. Len(ready) + Len(pending)
      /\ \A i \in 1 .. Len(pending) : Waiting[Len(ready) + i] = pending[i]
  BY <1>1, WaitingType, LenProperties
<1>4. \A i \in DOMAIN pending : i \in Int /\ Len(ready) + i \in DOMAIN Waiting /\ Waiting[Len(ready) + i] = pending[i]
  BY <1>3
<1>5. Queued' \subseteq Queued
  BY <1>2, <1>4 DEF Queued
<1>6. ASSUME NEW i \in DOMAIN pending, NEW j \in DOMAIN pending, i < j
      PROVE  pending[i] < pending[j]
  <2>1. /\ Len(ready) + i \in DOMAIN Waiting /\ Len(ready) + j \in DOMAIN Waiting
        /\ Len(ready) + i < Len(ready) + j
        /\ Waiting[Len(ready) + i] = pending[i] /\ Waiting[Len(ready) + j] = pending[j]
    BY <1>3, <1>4, <1>6
  <2> QED
    BY <2>1 DEF Ascending
<1> QED
  BY <1>2, <1>5, <1>6 DEF Ascending

-----------------------------------------------------------------------------
(* Who drives the queue after a step of the running call.                  *)

\* The call that drives the queue goes on doing it.
LEMMA DriverGoesOn ==
  ASSUME FStorageTypeOK, OneDriver, stack # <<>>, Drives(Top), UNCHANGED sdOn,
         NEW at \in Points, NEW flag \in BOOLEAN, Become(at, flag)
  PROVE  /\ stack' \in Seq(Frames) /\ OneDriver'
         /\ \A i \in DOMAIN stack' : Drives(stack[i])' => stack'[i].at = at /\ stack'[i].flag = flag
<1>1. /\ Len(stack) \in DOMAIN stack /\ Top = stack[Len(stack)]
      /\ stack' \in Seq(Frames) /\ DOMAIN stack' = DOMAIN stack
      /\ stack'[Len(stack)].at = at /\ stack'[Len(stack)].flag = flag
      /\ \A i \in DOMAIN stack : i # Len(stack) => stack'[i] = stack[i]
  BY TopFrame, StackBecomes
<1>2. \A i \in DOMAIN stack' : Drives(stack[i])' => i = Len(stack)
  BY <1>1 DEF OneDriver, Drives
<1> QED
  BY <1>1, <1>2 DEF OneDriver

\* It stops driving the queue, and nobody else does.
LEMMA DriverStops ==
  ASSUME FStorageTypeOK, OneDriver, stack # <<>>, Drives(Top), UNCHANGED sdOn,
         \/ Return
         \/ Become("freeFailed", Top.flag)
         \/ Become("accepted", Top.flag) /\ sdOn
  PROVE  /\ stack' \in Seq(Frames) /\ OneDriver'
         /\ \A i \in DOMAIN stack' : ~Drives(stack[i])'
<1>1. Len(stack) \in DOMAIN stack /\ Top = stack[Len(stack)] /\ Top.flag \in BOOLEAN
  BY TopFrame
<1>2. \A i \in DOMAIN stack : i # Len(stack) => ~Drives(stack[i])
  BY <1>1 DEF OneDriver
<1>3. CASE Return
  <2>1. /\ stack' \in Seq(Frames)
        /\ \A i \in DOMAIN stack' : i \in DOMAIN stack /\ i # Len(stack) /\ stack'[i] = stack[i]
    BY <1>3, StackReturns
  <2>2. \A i \in DOMAIN stack' : ~Drives(stack[i])'
    BY <1>2, <2>1 DEF Drives
  <2> QED
    BY <2>1, <2>2 DEF OneDriver
<1>4. CASE Become("freeFailed", Top.flag) \/ (Become("accepted", Top.flag) /\ sdOn)
  <2>1. /\ stack' \in Seq(Frames) /\ DOMAIN stack' = DOMAIN stack
        /\ stack'[Len(stack)].at = "freeFailed" \/ (stack'[Len(stack)].at = "accepted" /\ sdOn)
        /\ \A i \in DOMAIN stack : i # Len(stack) => stack'[i] = stack[i]
    <3>1. "freeFailed" \in Points /\ "accepted" \in Points
      BY DEF Points
    <3> QED
      BY <1>1, <1>4, <3>1, StackBecomes
  <2>2. \A i \in DOMAIN stack' : i = Len(stack) => ~Drives(stack[i])'
    BY <2>1 DEF Drives
  <2>3. \A i \in DOMAIN stack' : i # Len(stack) => ~Drives(stack[i])'
    BY <1>2, <2>1 DEF Drives
  <2>4. \A i \in DOMAIN stack' : ~Drives(stack[i])'
    BY <2>2, <2>3
  <2> QED
    BY <2>1, <2>4 DEF OneDriver
<1> QED
  BY <1>3, <1>4

\* Nobody drove the queue: the running call begins to.
LEMMA DriverBegins ==
  ASSUME FStorageTypeOK, \A i \in DOMAIN stack : ~Drives(stack[i]), UNCHANGED sdOn,
         NEW at \in Points, NEW flag \in BOOLEAN,
         \/ stack # <<>> /\ Become(at, flag)
         \/ Call(SdEvent, at, flag)
  PROVE  /\ stack' \in Seq(Frames) /\ OneDriver'
         /\ \A i \in DOMAIN stack' : Drives(stack[i])' => stack'[i].at = at /\ stack'[i].flag = flag
<1>1. CASE stack # <<>> /\ Become(at, flag)
  <2>1. /\ stack' \in Seq(Frames) /\ DOMAIN stack' = DOMAIN stack
        /\ stack'[Len(stack)].at = at /\ stack'[Len(stack)].flag = flag
        /\ \A i \in DOMAIN stack : i # Len(stack) => stack'[i] = stack[i]
    BY <1>1, StackBecomes
  <2>2. \A i \in DOMAIN stack' : Drives(stack[i])' => i = Len(stack)
    BY <2>1 DEF Drives
  <2> QED
    BY <2>1, <2>2 DEF OneDriver
<1>2. CASE Call(SdEvent, at, flag)
  <2>1. /\ stack' \in Seq(Frames)
        /\ DOMAIN stack' = 1 .. Len(stack) + 1 /\ DOMAIN stack = 1 .. Len(stack) /\ Len(stack) \in Nat
        /\ stack'[Len(stack) + 1].at = at /\ stack'[Len(stack) + 1].flag = flag
        /\ \A i \in DOMAIN stack : stack'[i] = stack[i]
    BY <1>2, StackCalls DEF SdEvent
  <2>2. \A i \in DOMAIN stack' : i \in DOMAIN stack \/ i = Len(stack) + 1
    BY <2>1
  <2>3. \A i \in DOMAIN stack' : Drives(stack[i])' => i = Len(stack) + 1
    BY <2>1, <2>2 DEF Drives
  <2> QED
    BY <2>1, <2>3 DEF OneDriver
<1> QED
  BY <1>1, <1>2

\* A call that does not drive the queue leaves it to who does.
LEMMA DriverStays ==
  ASSUME FStorageTypeOK, OneDriver, UNCHANGED sdOn,
         \/ stack # <<>> /\ ~Drives(Top) /\ Return
         \/ stack # <<>> /\ ~Drives(Top) /\ Become("start", Top.flag)
         \/ \E level \in 1 .. 3, flag \in BOOLEAN : Call(level, "put", flag)
  PROVE  /\ stack' \in Seq(Frames) /\ OneDriver'
         /\ \A i \in DOMAIN stack' :
              Drives(stack[i])' => i \in DOMAIN stack /\ Drives(stack[i]) /\ stack'[i] = stack[i]
<1>1. CASE stack # <<>> /\ Return
  <2>1. /\ stack' \in Seq(Frames)
        /\ \A i \in DOMAIN stack' : i \in DOMAIN stack /\ i # Len(stack) /\ stack'[i] = stack[i]
    BY <1>1, StackReturns
  <2>2. \A i \in DOMAIN stack' : Drives(stack[i])' => Drives(stack[i])
    BY <2>1 DEF Drives
  <2> QED
    BY <2>1, <2>2 DEF OneDriver
<1>2. CASE stack # <<>> /\ Become("start", Top.flag)
  <2>1. /\ stack' \in Seq(Frames) /\ DOMAIN stack' = DOMAIN stack
        /\ stack'[Len(stack)].at = "start"
        /\ \A i \in DOMAIN stack : i # Len(stack) => stack'[i] = stack[i]
    <3>1. "start" \in Points /\ Top.flag \in BOOLEAN
      BY <1>2, TopFrame DEF Points
    <3> QED
      BY <1>2, <3>1, StackBecomes
  <2>2. \A i \in DOMAIN stack' : Drives(stack[i])' => Drives(stack[i]) /\ i # Len(stack)
    BY <2>1 DEF Drives
  <2> QED
    BY <2>1, <2>2 DEF OneDriver
<1>3. CASE \E level \in 1 .. 3, flag \in BOOLEAN : Call(level, "put", flag)
  <2>1. PICK level \in 1 .. 3, flag \in BOOLEAN : Call(level, "put", flag)
    BY <1>3
  <2>2. /\ stack' \in Seq(Frames)
        /\ DOMAIN stack' = 1 .. Len(stack) + 1 /\ DOMAIN stack = 1 .. Len(stack) /\ Len(stack) \in Nat
        /\ stack'[Len(stack) + 1].at = "put"
        /\ \A i \in DOMAIN stack : stack'[i] = stack[i]
    <3>1. "put" \in Points
      BY DEF Points
    <3> QED
      BY <2>1, <3>1, StackCalls
  <2>3. \A i \in DOMAIN stack' : i \in DOMAIN stack \/ i = Len(stack) + 1
    BY <2>2
  <2>4. \A i \in DOMAIN stack' : Drives(stack[i])' => i \in DOMAIN stack /\ Drives(stack[i])
    BY <2>2, <2>3 DEF Drives
  <2> QED
    BY <2>2, <2>4 DEF OneDriver
<1> QED
  BY <1>1, <1>2, <1>3


LEMMA UsualFramesStay ==
  ASSUME FStorageTypeOK, UsualFrames,
         \/ stack # <<>> /\ Return
         \/ stack # <<>> /\ \E at \in Points \ Unusual, flag \in BOOLEAN : Become(at, flag)
         \/ \E level \in 1 .. 3, at \in Points \ Unusual, flag \in BOOLEAN : Call(level, at, flag)
  PROVE  UsualFrames'
<1>1. CASE stack # <<>> /\ Return
  BY <1>1, StackReturns DEF UsualFrames
<1>2. CASE stack # <<>> /\ \E at \in Points \ Unusual, flag \in BOOLEAN : Become(at, flag)
  <2>1. PICK at \in Points \ Unusual, flag \in BOOLEAN : Become(at, flag)
    BY <1>2
  <2>2. /\ DOMAIN stack' = DOMAIN stack /\ stack'[Len(stack)].at = at
        /\ \A i \in DOMAIN stack : i # Len(stack) => stack'[i] = stack[i]
    BY <1>2, <2>1, StackBecomes
  <2> QED
    BY <2>1, <2>2 DEF UsualFrames
<1>3. CASE \E level \in 1 .. 3, at \in Points \ Unusual, flag \in BOOLEAN : Call(level, at, flag)
  <2>1. PICK level \in 1 .. 3, at \in Points \ Unusual, flag \in BOOLEAN : Call(level, at, flag)
    BY <1>3
  <2>2. /\ DOMAIN stack' = 1 .. Len(stack) + 1 /\ DOMAIN stack = 1 .. Len(stack) /\ Len(stack) \in Nat
        /\ stack'[Len(stack) + 1].at = at
        /\ \A i \in DOMAIN stack : stack'[i] = stack[i]
    BY <2>1, StackCalls
  <2>3. \A i \in DOMAIN stack' : i \in DOMAIN stack \/ i = Len(stack) + 1
    BY <2>2
  <2> QED
    BY <2>1, <2>2, <2>3 DEF UsualFrames
<1> QED
  BY <1>1, <1>2, <1>3

-----------------------------------------------------------------------------
(* Steps that leave the operations as they are.                            *)

LEMMA OrderKept ==
  ASSUME OrderInv, Waiting' = Waiting, UNCHANGED <<progress, size, accepted, written, reports>>
  PROVE  OrderInv'
BY DEF OrderInv, Queued, ReportedInOrder, ReportedMeansDone, Ascending

LEMMA CurrentKept ==
  ASSUME NEW n, CurrentInv(n), Waiting' = Waiting,
         UNCHANGED <<cur, progress, size, accepted, written, reports>>
  PROVE  CurrentInv(n)'
BY DEF CurrentInv, Queued

\* Who drove the queue still does, as before.
LEMMA ControlKept ==
  ASSUME ControlInv, OneDriver', Waiting' = Waiting,
         UNCHANGED <<running, flash, state, sdEnabled, initialized,
                     cur, progress, size, accepted, written, reports>>,
         \A i \in DOMAIN stack' :
           Drives(stack[i])' => i \in DOMAIN stack /\ Drives(stack[i]) /\ stack'[i] = stack[i]
  PROVE  ControlInv'
<1>1. FlashInv'
  BY CurrentKept DEF ControlInv, FlashInv
<1>2. ASSUME NEW i \in DOMAIN stack', Drives(stack[i])' PROVE DriverInv(stack[i])'
  <2>1. DriverInv(stack[i]) /\ stack'[i] = stack[i]
    BY <1>2 DEF ControlInv, DriversInv
  <2>2. Executes(stack[i]) => CurrentInv(ChunksDone(stack[i]))'
    BY <2>1, CurrentKept DEF DriverInv, ChunksDone
  <2> QED
    BY <2>1, <2>2 DEF DriverInv, Executes, ChunksDone
<1>3. StateInv'
  BY DEF ControlInv, StateInv
<1> QED
  BY <1>1, <1>2, <1>3 DEF ControlInv, DriversInv


LEMMA AloneKept ==
  ASSUME AloneInv, stack # <<>>, UsualFrames', budget' \in Budgets,
         UNCHANGED <<budget.changes, budget.others, paused, sdContinue, initialized, sdOn, sdEnabled>>
  PROVE  AloneInv'
BY DEF AloneInv

\* What the invariant says of the running call.
LEMMA Running ==
  ASSUME QueueInv, stack # <<>>
  PROVE  /\ FStorageTypeOK /\ AloneInv /\ OrderInv /\ ControlInv
         /\ OneDriver /\ UsualFrames /\ initialized /\ sdOn = sdEnabled
         /\ Top.level \in 1 .. 3 /\ Top.at \in Points \ Unusual /\ Top.flag \in BOOLEAN
         /\ Drives(Top) => DriverInv(Top)
         /\ budget \in Budgets /\ ~paused /\ state \in {"idle", "executing"}
BY TopFrame DEF QueueInv, AloneInv, ControlInv, UsualFrames, DriversInv, StateInv

LEMMA PutStep ==
  ASSUME QueueInv, Put
  PROVE  QueueInv'
<1>1. /\ stack # <<>> /\ Top.at = "put" /\ Become("start", Top.flag)
      /\ UNCHANGED <<sdVars, flags, cur, ctxOuter, opVars, flash, history>>
      /\ Publish \/ UNCHANGED fifoVars
  BY DEF Put, Now, Goto
<1>2. /\ FStorageTypeOK /\ AloneInv /\ OrderInv /\ ControlInv /\ OneDriver /\ UsualFrames
      /\ Top.flag \in BOOLEAN
  BY <1>1, Running
<1>3. Waiting' = Waiting
  BY <1>1, <1>2, WaitingPublished DEF Waiting, fifoVars
<1>4. ~Drives(Top) /\ UNCHANGED sdOn
  BY <1>1 DEF Drives, flags
<1>5. /\ stack' \in Seq(Frames) /\ OneDriver'
      /\ \A i \in DOMAIN stack' :
           Drives(stack[i])' => i \in DOMAIN stack /\ Drives(stack[i]) /\ stack'[i] = stack[i]
  BY <1>1, <1>2, <1>4, DriverStays
<1>6. UsualFrames'
  BY <1>1, <1>2, UsualFramesStay DEF Points, Unusual
<1>7. FStorageTypeOK'
  <2>1. FifoTypeOK'
    BY <1>1, <1>2, FifoTypes DEF FStorageTypeOK
  <2> QED
    BY <1>1, <1>2, <1>5, <2>1 DEF FStorageTypeOK, SdTypeOK, sdVars, flags, opVars, history, Frames
<1>8. AloneInv'
  BY <1>1, <1>2, <1>6, AloneKept DEF AloneInv, sdVars, flags, history
<1>9. OrderInv'
  BY <1>1, <1>2, <1>3, OrderKept DEF opVars, history
<1>10. ControlInv'
  BY <1>1, <1>2, <1>3, <1>5, ControlKept DEF sdVars, flags, opVars, history
<1> QED
  BY <1>7, <1>8, <1>9, <1>10 DEF QueueInv


\* A step of the queue's driver: what there is to show of the next one.
LEMMA DriverMoves ==
  ASSUME QueueInv, stack # <<>>, Drives(Top),
         NEW at \in Points \ Unusual, NEW flag \in BOOLEAN, Become(at, flag),
         state' \in {"idle", "executing"}, cur' \in Items \cup {None}, ctxOuter' \in BOOLEAN, FifoTypeOK',
         retries' \in 0 .. MaxRetries, progress' \in [Items -> Nat],
         written' \in [Items -> SUBSET Nat], reports' \in Seq([op : Items, ok : BOOLEAN]),
         budget' \in Budgets,
         UNCHANGED <<initialized, running, sdOn, paused, sdVars, kind, size, flash, accepted,
                     budget.changes, budget.others>>,
         OrderInv',
         at \in {"begin", "stop", "done", "free"} => state' = "idle",
         at \in {"issue", "accepted", "event"} => state' = "executing",
         at \in {"execute", "issue"} => CurrentInv(progress[cur])',
         at \in {"process", "continue"} /\ state' = "executing" => CurrentInv(progress[cur])',
         at = "event" /\ ~flag => CurrentInv(progress[cur])',
         at = "event" /\ flag => CurrentInv(progress[cur] + 1)',
         at = "accepted" => CurrentInv(progress[cur] + 1)'
  PROVE  QueueInv'
<1>1. /\ FStorageTypeOK /\ AloneInv /\ ControlInv /\ OneDriver /\ UsualFrames
      /\ DriverInv(Top) /\ budget \in Budgets
  BY Running
<1>2. running /\ flash = Free
  BY <1>1 DEF DriverInv
<1>3. /\ stack' \in Seq(Frames) /\ OneDriver'
      /\ \A i \in DOMAIN stack' : Drives(stack[i])' => stack'[i].at = at /\ stack'[i].flag = flag
  BY <1>1, DriverGoesOn
<1>4. UsualFrames'
  BY <1>1, UsualFramesStay
<1>5. FStorageTypeOK'
  BY <1>1, <1>3 DEF FStorageTypeOK, SdTypeOK, sdVars, Frames
<1>6. AloneInv'
  BY <1>1, <1>4, AloneKept DEF sdVars
<1>7. ASSUME NEW i \in DOMAIN stack', Drives(stack[i])' PROVE DriverInv(stack[i])'
  <2>1. stack'[i].at = at /\ stack'[i].flag = flag
    BY <1>3, <1>7
  <2>2. Executes(stack[i])' => CurrentInv(ChunksDone(stack[i]))'
    <3>1. CASE at \in {"execute", "issue"} \/ (at \in {"process", "continue"} /\ state' = "executing")
      BY <2>1, <3>1 DEF ChunksDone
    <3>2. CASE at = "event"
      BY <2>1, <3>2 DEF ChunksDone
    <3>3. CASE at = "accepted"
      BY <2>1, <3>3 DEF ChunksDone
    <3> QED
      BY <2>1, <3>1, <3>2, <3>3 DEF Executes
  <2> QED
    BY <1>2, <2>1, <2>2 DEF DriverInv
<1>8. FlashInv'
  BY <1>2 DEF FlashInv
<1>9. StateInv'
  BY <1>2 DEF StateInv
<1> QED
  BY <1>3, <1>5, <1>6, <1>7, <1>8, <1>9 DEF QueueInv, ControlInv, DriversInv


\* One that changes neither operations nor flags but
\* the state: what there is to show of the next one.
LEMMA DriverStep ==
  ASSUME QueueInv, stack # <<>>, Drives(Top),
         NEW at \in Points \ Unusual, NEW flag \in BOOLEAN, Become(at, flag),
         state' \in {"idle", "executing"}, cur' \in Items \cup {None}, ctxOuter' \in BOOLEAN, FifoTypeOK',
         UNCHANGED <<initialized, running, retries, sdOn, paused, sdVars, opVars, flash, history>>,
         OrderInv',
         at \in {"begin", "stop", "done", "free"} => state' = "idle",
         at \in {"issue", "accepted", "event"} => state' = "executing",
         at \in {"execute", "issue"} => CurrentInv(progress[cur])',
         at \in {"process", "continue"} /\ state' = "executing" => CurrentInv(progress[cur])',
         at = "event" /\ ~flag => CurrentInv(progress[cur])',
         at = "event" /\ flag => CurrentInv(progress[cur] + 1)',
         at = "accepted" => CurrentInv(progress[cur] + 1)'
  PROVE  QueueInv'
<1>1. FStorageTypeOK /\ budget \in Budgets
  BY Running
<1>2. /\ retries' \in 0 .. MaxRetries /\ progress' \in [Items -> Nat]
      /\ written' \in [Items -> SUBSET Nat] /\ reports' \in Seq([op : Items, ok : BOOLEAN])
      /\ budget' \in Budgets
      /\ UNCHANGED <<initialized, running, sdOn, paused, sdVars, kind, size, flash, accepted,
                     budget.changes, budget.others>>
  BY <1>1 DEF FStorageTypeOK, opVars, history
<1> QED
  BY <1>2, DriverMoves

LEMMA CurrentStays ==
  ASSUME Waiting' = Waiting, UNCHANGED <<cur, progress, size, accepted, written, reports>>
  PROVE  /\ CurrentInv(progress[cur]) => CurrentInv(progress[cur])'
         /\ CurrentInv(progress[cur] + 1) => CurrentInv(progress[cur] + 1)'
BY DEF CurrentInv, Queued

\* The driver of the queue stops: nobody drives it, or the SoftDevice does.
LEMMA DriverEnds ==
  ASSUME QueueInv, stack # <<>>, Drives(Top),
         \/ Return
         \/ Become("freeFailed", Top.flag)
         \/ Become("accepted", Top.flag) /\ sdOn,
         FifoTypeOK', OrderInv', FlashInv', StateInv', running' \in BOOLEAN,
         flash' \in [op : Items \cup {None}, chunk : Nat],
         UNCHANGED <<initialized, retries, sdOn, paused, sdVars, cur, ctxOuter, opVars, history>>
  PROVE  QueueInv'
<1>1. /\ FStorageTypeOK /\ AloneInv /\ ControlInv /\ OneDriver /\ UsualFrames /\ budget \in Budgets
      /\ Top.flag \in BOOLEAN
  BY Running
<1>2. /\ stack' \in Seq(Frames) /\ OneDriver' /\ \A i \in DOMAIN stack' : ~Drives(stack[i])'
  BY <1>1, DriverStops
<1>3. UsualFrames'
  <2>1. "freeFailed" \in Points \ Unusual /\ "accepted" \in Points \ Unusual
    BY DEF Points, Unusual
  <2> QED
    BY <1>1, <2>1, UsualFramesStay
<1>4. FStorageTypeOK'
  BY <1>1, <1>2 DEF FStorageTypeOK, SdTypeOK, sdVars, opVars, history, Frames, StateInv
<1>5. AloneInv'
  BY <1>1, <1>3, AloneKept DEF sdVars, history
<1> QED
  BY <1>2, <1>4, <1>5 DEF QueueInv, ControlInv, DriversInv

\* A call that does not drive the queue and leaves it alone.
LEMMA BystanderStep ==
  ASSUME QueueInv, stack # <<>>, ~Drives(Top), Return, FifoTypeOK', Waiting' = Waiting,
         UNCHANGED <<sdVars, flags, cur, ctxOuter, opVars, flash, history>>
  PROVE  QueueInv'
<1>1. /\ FStorageTypeOK /\ AloneInv /\ OrderInv /\ ControlInv /\ OneDriver /\ UsualFrames
      /\ budget \in Budgets
  BY Running
<1>2. /\ stack' \in Seq(Frames) /\ OneDriver'
      /\ \A i \in DOMAIN stack' :
           Drives(stack[i])' => i \in DOMAIN stack /\ Drives(stack[i]) /\ stack'[i] = stack[i]
  BY <1>1, DriverStays DEF flags
<1>3. UsualFrames'
  BY <1>1, UsualFramesStay
<1>4. FStorageTypeOK'
  BY <1>1, <1>2 DEF FStorageTypeOK, SdTypeOK, sdVars, flags, opVars, history, Frames
<1>5. AloneInv'
  BY <1>1, <1>3, AloneKept DEF sdVars, flags, history
<1>6. OrderInv'
  BY <1>1, OrderKept DEF opVars, history
<1>7. ControlInv'
  BY <1>1, <1>2, ControlKept DEF sdVars, flags, opVars, history
<1> QED
  BY <1>4, <1>5, <1>6, <1>7 DEF QueueInv

-----------------------------------------------------------------------------
(* The steps of queue_start and queue_process.                             *)

LEMMA StartStep ==
  ASSUME QueueInv, Start
  PROVE  QueueInv'
<1>1. /\ stack # <<>> /\ Top.at = "start" /\ running' = TRUE
      /\ UNCHANGED <<fifoVars, sdVars, initialized, state, retries, sdOn, paused, cur,
                     ctxOuter, opVars, flash, history>>
  BY DEF Start, Now
<1>2. /\ FStorageTypeOK /\ AloneInv /\ OrderInv /\ ControlInv /\ OneDriver /\ UsualFrames
      /\ Top.flag \in BOOLEAN /\ budget \in Budgets
  BY <1>1, Running
<1>3. Waiting' = Waiting /\ FifoTypeOK' /\ ~Drives(Top)
  BY <1>1, <1>2, FifoTypes DEF Waiting, fifoVars, Drives, FStorageTypeOK
<1>4. CASE running
  <2>1. Return /\ UNCHANGED flags
    BY <1>1, <1>2, <1>4 DEF Start, flags, FStorageTypeOK
  <2> QED
    BY <1>1, <1>3, <2>1, BystanderStep
<1>5. CASE ~running
  <2>1. Become("begin", Top.flag) /\ "begin" \in Points \ Unusual
    BY <1>5 DEF Start, Goto, Points, Unusual
  <2>2. \A i \in DOMAIN stack : ~Drives(stack[i])
    BY <1>2, <1>5 DEF ControlInv, DriversInv, DriverInv
  <2>3. flash = Free /\ state = "idle"
    BY <1>2, <1>5 DEF ControlInv, FlashInv, StateInv
  <2>4. /\ stack' \in Seq(Frames) /\ OneDriver'
        /\ \A i \in DOMAIN stack' : Drives(stack[i])' => stack'[i].at = "begin" /\ stack'[i].flag = Top.flag
    BY <1>1, <1>2, <2>1, <2>2, DriverBegins
  <2>5. UsualFrames'
    BY <1>1, <1>2, <2>1, UsualFramesStay
  <2>6. FStorageTypeOK'
    BY <1>1, <1>2, <1>3, <2>4 DEF FStorageTypeOK, SdTypeOK, sdVars, opVars, history, Frames
  <2>7. AloneInv'
    BY <1>1, <1>2, <2>5, AloneKept DEF sdVars, history
  <2>8. OrderInv'
    BY <1>1, <1>2, <1>3, OrderKept DEF opVars, history
  <2>9. DriversInv'
    BY <1>1, <2>3, <2>4 DEF DriversInv, DriverInv, Executes
  <2>10. FlashInv' /\ StateInv'
    BY <1>1, <1>2, <2>3 DEF FlashInv, StateInv
  <2> QED
    BY <2>4, <2>6, <2>7, <2>8, <2>9, <2>10 DEF QueueInv, ControlInv
<1> QED
  BY <1>4, <1>5

LEMMA BeginStep ==
  ASSUME QueueInv, Begin
  PROVE  QueueInv'
<1>1. /\ stack # <<>> /\ Top.at = "begin" /\ Drives(Top)
      /\ UNCHANGED <<fifoVars, sdVars, flags, cur, ctxOuter, opVars, flash, history>>
  BY DEF Begin, Now, Drives
<1>2. /\ FStorageTypeOK /\ OrderInv /\ DriverInv(Top) /\ ~paused /\ Top.flag \in BOOLEAN
  BY <1>1, Running
<1>3. Become("process", Top.flag) /\ "process" \in Points \ Unusual
  BY <1>2 DEF Begin, Goto, Points, Unusual
<1>4. Waiting' = Waiting /\ FifoTypeOK'
  BY <1>1, <1>2, FifoTypes DEF Waiting, fifoVars, FStorageTypeOK
<1>5. OrderInv'
  BY <1>1, <1>2, <1>4, OrderKept DEF opVars, history
<1>6. state' = "idle" /\ cur' \in Items \cup {None} /\ ctxOuter' \in BOOLEAN
  BY <1>1, <1>2 DEF DriverInv, flags, FStorageTypeOK
<1> QED
  BY <1>1, <1>2, <1>3, <1>4, <1>5, <1>6, DriverStep DEF flags

LEMMA ProcessStep ==
  ASSUME QueueInv, Process
  PROVE  QueueInv'
<1>1. /\ stack # <<>> /\ Top.at = "process" /\ Drives(Top)
      /\ UNCHANGED <<sdVars, flags, opVars, flash, history>>
  BY DEF Process, Now, Drives
<1>2. /\ FStorageTypeOK /\ OrderInv /\ DriverInv(Top) /\ Top.flag \in BOOLEAN
      /\ state \in {"idle", "executing"}
  BY <1>1, Running
<1>3. "execute" \in Points \ Unusual /\ "stop" \in Points \ Unusual
  BY DEF Points, Unusual
<1>4. state' = state
  BY <1>1 DEF flags
<1>5. CASE state # "idle" /\ Goto("execute") /\ UNCHANGED <<fifoVars, cur, ctxOuter>>
  <2>1. Waiting' = Waiting /\ FifoTypeOK'
    BY <1>2, <1>5, FifoTypes DEF Waiting, fifoVars, FStorageTypeOK
  <2>2. OrderInv'
    BY <1>1, <1>2, <2>1, OrderKept DEF opVars, history
  <2>3. CurrentInv(progress[cur])'
    <3>1. CurrentInv(progress[cur])
      BY <1>1, <1>2, <1>5 DEF DriverInv, Executes, ChunksDone
    <3> QED
      BY <1>1, <1>5, <2>1, <3>1, CurrentStays DEF opVars, history
  <2>4. cur' \in Items \cup {None} /\ ctxOuter' \in BOOLEAN /\ Become("execute", Top.flag)
    BY <1>2, <1>5 DEF FStorageTypeOK, Goto
  <2> QED
    BY <1>1, <1>2, <1>3, <1>4, <2>1, <2>2, <2>3, <2>4, DriverStep DEF flags
<1>6. CASE state = "idle" /\ Take /\ cur' = Head(ready) /\ ctxOuter' = (open = <<>>) /\ Goto("execute")
  <2>1. /\ Head(ready) \in Queued /\ Queued' \subseteq Queued /\ Queued \subseteq Items
        /\ \A o \in Queued' : Head(ready) < o
        /\ Ascending(Waiting')
    BY <1>2, <1>6, WaitingTaken, WaitingType DEF OrderInv
  <2>2. FifoTypeOK'
    BY <1>2, <1>6, FifoTypes DEF FStorageTypeOK
  <2>3. OrderInv'
    BY <1>1, <1>2, <2>1 DEF OrderInv, ReportedInOrder, ReportedMeansDone, opVars, history
  <2>4. CurrentInv(progress[cur])'
    <3>1. /\ cur' \in Items /\ cur' <= accepted' /\ progress'[cur'] = 0
          /\ progress'[cur'] < size'[cur'] /\ written'[cur'] = {}
          /\ \A i \in DOMAIN reports' : reports'[i].op < cur'
      BY <1>1, <1>2, <1>6, <2>1 DEF OrderInv, opVars, history
    <3>2. 0 .. progress'[cur'] - 1 = {}
      BY <3>1
    <3> QED
      BY <1>6, <2>1, <3>1, <3>2 DEF CurrentInv
  <2>5. cur' \in Items \cup {None} /\ ctxOuter' \in BOOLEAN /\ Become("execute", Top.flag)
    BY <1>6, <2>1 DEF Goto
  <2> QED
    BY <1>1, <1>2, <1>3, <1>4, <2>2, <2>3, <2>4, <2>5, DriverStep DEF flags
<1>7. CASE /\ state = "idle" /\ ready = <<>> /\ cur' = None /\ ctxOuter' = (open = <<>>)
           /\ Goto("stop") /\ UNCHANGED fifoVars
  <2>1. Waiting' = Waiting /\ FifoTypeOK'
    BY <1>2, <1>7, FifoTypes DEF Waiting, fifoVars, FStorageTypeOK
  <2>2. OrderInv'
    BY <1>1, <1>2, <2>1, OrderKept DEF opVars, history
  <2>3. cur' \in Items \cup {None} /\ ctxOuter' \in BOOLEAN /\ Become("stop", Top.flag)
    BY <1>7 DEF Goto
  <2> QED
    BY <1>1, <1>2, <1>3, <1>4, <1>7, <2>1, <2>2, <2>3, DriverStep DEF flags
<1> QED
  BY <1>5, <1>6, <1>7 DEF Process


-----------------------------------------------------------------------------
(* What is done and reported of the current operation.                     *)

\* It is reported: those reported before were accepted before it.
LEMMA ReportedOne ==
  ASSUME FStorageTypeOK, OrderInv, NEW n, CurrentInv(n), NEW ok \in BOOLEAN, ok => n = size[cur],
         reports' = Append(reports, [op |-> cur, ok |-> ok]), Waiting' = Waiting,
         \A o \in Queued : progress'[o] = progress[o],
         UNCHANGED <<size, accepted, written>>
  PROVE  OrderInv' /\ reports' \in Seq([op : Items, ok : BOOLEAN])
<1> DEFINE r == [op |-> cur, ok |-> ok]
<1>1. /\ cur \in Items /\ cur <= accepted /\ \A o \in Queued : cur < o
      /\ \A i \in DOMAIN reports : reports[i].op < cur
      /\ written[cur] = 0 .. n - 1
  BY DEF CurrentInv
<1>2. r \in [op : Items, ok : BOOLEAN] /\ r.op = cur /\ r.ok = ok
  BY <1>1
<1>3. reports \in Seq([op : Items, ok : BOOLEAN]) /\ Len(reports) \in Nat /\ DOMAIN reports = 1 .. Len(reports)
  BY LenProperties DEF FStorageTypeOK
<1>4. reports' = Append(reports, r)
  OBVIOUS
<1> HIDE DEF r
<1>5. /\ reports' \in Seq([op : Items, ok : BOOLEAN]) /\ Len(reports') = Len(reports) + 1
      /\ reports'[Len(reports) + 1] = r /\ \A i \in 1 .. Len(reports) : reports'[i] = reports[i]
  BY <1>2, <1>3, <1>4, AppendProperties
<1>6. DOMAIN reports' = 1 .. Len(reports) + 1
  BY <1>5, LenProperties
<1>7. \A i \in DOMAIN reports' :
        (i \in DOMAIN reports /\ reports'[i] = reports[i]) \/ (i = Len(reports) + 1 /\ reports'[i] = r)
  BY <1>3, <1>5, <1>6
<1>8. \A i \in DOMAIN reports' :
        reports'[i].op <= accepted' /\ \A o \in Queued' : reports'[i].op < o
  BY <1>1, <1>2, <1>7 DEF OrderInv, Queued
<1>9. ReportedInOrder'
  <2>1. ASSUME NEW i \in DOMAIN reports', NEW j \in DOMAIN reports', i < j
        PROVE  reports'[i].op < reports'[j].op
    <3>1. i \in DOMAIN reports /\ reports'[i] = reports[i]
      BY <1>3, <1>6, <1>7, <2>1
    <3>2. CASE j \in DOMAIN reports
      <4>1. reports'[j] = reports[j]
        BY <1>3, <1>5, <3>2
      <4> QED
        BY <2>1, <3>1, <3>2, <4>1 DEF OrderInv, ReportedInOrder
    <3>3. CASE j \notin DOMAIN reports
      <4>1. reports'[j].op = cur
        BY <1>2, <1>7, <3>3
      <4> QED
        BY <1>1, <3>1, <4>1
    <3> QED
      BY <3>2, <3>3
  <2> QED
    BY <2>1 DEF ReportedInOrder
<1>10. ReportedMeansDone'
  <2>1. ASSUME NEW i \in DOMAIN reports', reports'[i].ok
        PROVE  written'[reports'[i].op] = 0 .. (size'[reports'[i].op] - 1)
    <3>1. CASE i \in DOMAIN reports
      <4>1. reports'[i] = reports[i]
        BY <1>3, <1>5, <3>1
      <4> QED
        BY <2>1, <3>1, <4>1 DEF OrderInv, ReportedMeansDone
    <3>2. CASE i \notin DOMAIN reports
      <4>1. reports'[i].op = cur /\ ok
        BY <1>2, <1>7, <2>1, <3>2
      <4> QED
        BY <1>1, <4>1
    <3> QED
      BY <3>1, <3>2
  <2> QED
    BY <2>1 DEF ReportedMeansDone
<1>11. /\ Ascending(Waiting')
       /\ \A o \in Queued' : o <= accepted' /\ progress'[o] = 0 /\ size'[o] > 0 /\ written'[o] = {}
       /\ \A o \in Items : o > accepted' => written'[o] = {}
  BY DEF OrderInv, Queued
<1> QED
  BY <1>5, <1>8, <1>9, <1>10, <1>11 DEF OrderInv

\* A chunk of it is done: this touches no other operation.
LEMMA ChunkDone ==
  ASSUME FStorageTypeOK, OrderInv, CurrentInv(progress[cur]), Waiting' = Waiting,
         written' = Done(Chunk(cur, progress[cur])),
         UNCHANGED <<cur, progress, size, accepted, reports>>
  PROVE  OrderInv' /\ CurrentInv(progress[cur] + 1)' /\ written' \in [Items -> SUBSET Nat]
<1>1. /\ cur \in Items /\ cur <= accepted /\ \A o \in Queued : cur < o
      /\ \A i \in DOMAIN reports : reports[i].op < cur
      /\ written[cur] = 0 .. progress[cur] - 1 /\ progress[cur] \in Nat
      /\ cur \in Nat \ {0} /\ accepted \in Nat
  BY ItemsAssumption DEF CurrentInv, FStorageTypeOK
<1>2. written' = [written EXCEPT ![cur] = @ \cup {progress[cur]}]
  BY <1>1 DEF Done, Ours, Chunk, None
<1>3. written \in [Items -> SUBSET Nat]
  BY DEF FStorageTypeOK
<1>4. /\ written' \in [Items -> SUBSET Nat] /\ written'[cur] = 0 .. progress[cur] + 1 - 1
      /\ \A o \in Items : o # cur => written'[o] = written[o]
  BY <1>1, <1>2, <1>3
<1>5. Queued \subseteq Items /\ Queued' = Queued
  BY WaitingType DEF Queued
<1>6. \A o \in Queued : o # cur
  BY <1>1, <1>5, ItemsAssumption
<1>7. \A o \in Items : o > accepted => o # cur
  BY <1>1, ItemsAssumption
<1>8. ASSUME NEW i \in DOMAIN reports PROVE reports[i].op \in Items /\ reports[i].op # cur
  <2> DEFINE R == [op : Items, ok : BOOLEAN]
  <2>3. reports \in Seq(R)
    BY DEF FStorageTypeOK
  <2>4. i \in 1 .. Len(reports)
    BY <2>3, LenProperties
  <2>5. reports[i] \in R
    BY ONLY <2>3, <2>4, ElementOfSeq
  <2>1. reports[i] \in [op : Items, ok : BOOLEAN]
    BY <2>5
  <2>2. reports[i].op \in Items /\ reports[i].op < cur
    BY <1>1, <2>1
  <2> QED
    BY <1>1, <2>2, ItemsAssumption
<1>9. OrderInv'
  <2>1. ReportedMeansDone'
    BY <1>4, <1>8 DEF OrderInv, ReportedMeansDone
  <2>2. ReportedInOrder' /\ Ascending(Waiting')
    BY DEF OrderInv, ReportedInOrder
  <2>3. \A o \in Queued' : o <= accepted' /\ progress'[o] = 0 /\ size'[o] > 0 /\ written'[o] = {}
    BY <1>4, <1>5, <1>6 DEF OrderInv
  <2>4. \A o \in Items : o > accepted' => written'[o] = {}
    BY <1>4, <1>7 DEF OrderInv
  <2>5. \A i \in DOMAIN reports' : reports'[i].op <= accepted' /\ \A o \in Queued' : reports'[i].op < o
    BY <1>5 DEF OrderInv
  <2> QED
    BY <2>1, <2>2, <2>3, <2>4, <2>5 DEF OrderInv
<1>10. CurrentInv(progress[cur] + 1)'
  <2>1. /\ cur' = cur /\ progress' = progress /\ size' = size /\ accepted' = accepted
        /\ reports' = reports
    OBVIOUS
  <2>2. progress[cur] < size[cur]
    BY DEF CurrentInv
  <2>3. written'[cur'] = 0 .. progress'[cur'] + 1 - 1
    BY <1>4, <2>1
  <2> QED
    BY <1>1, <1>5, <2>1, <2>2, <2>3 DEF CurrentInv
<1> QED
  BY <1>4, <1>9, <1>10


-----------------------------------------------------------------------------
(* The steps of an operation's execution.                                  *)

LEMMA StopStep ==
  ASSUME QueueInv, Stop
  PROVE  QueueInv'
<1>1. /\ stack # <<>> /\ Top.at = "stop" /\ Drives(Top) /\ Return /\ running' = FALSE
      /\ UNCHANGED <<fifoVars, sdVars, initialized, state, retries, sdOn, paused, cur,
                     ctxOuter, opVars, flash, history>>
  BY DEF Stop, Now, Drives
<1>2. /\ FStorageTypeOK /\ OrderInv /\ DriverInv(Top)
  BY <1>1, Running
<1>3. Waiting' = Waiting /\ FifoTypeOK'
  BY <1>1, <1>2, FifoTypes DEF Waiting, fifoVars, FStorageTypeOK
<1>4. OrderInv'
  BY <1>1, <1>2, <1>3, OrderKept DEF opVars, history
<1>5. FlashInv' /\ StateInv' /\ flash' \in [op : Items \cup {None}, chunk : Nat]
  BY <1>1, <1>2 DEF FlashInv, StateInv, DriverInv, FStorageTypeOK
<1> QED
  BY <1>1, <1>3, <1>4, <1>5, DriverEnds

LEMMA ExecuteStep ==
  ASSUME QueueInv, Execute
  PROVE  QueueInv'
<1>1. /\ stack # <<>> /\ Top.at = "execute" /\ Drives(Top) /\ Become("issue", Top.flag)
      /\ "issue" \in Points \ Unusual
      /\ UNCHANGED <<fifoVars, sdVars, initialized, running, retries, sdOn, paused, cur, ctxOuter,
                     opVars, flash, history>>
      /\ state' = "executing"
  BY DEF Execute, Now, Drives, SetState, Goto, Points, Unusual
<1>2. /\ FStorageTypeOK /\ OrderInv /\ DriverInv(Top) /\ Top.flag \in BOOLEAN
  BY <1>1, Running
<1>3. Waiting' = Waiting /\ FifoTypeOK'
  BY <1>1, <1>2, FifoTypes DEF Waiting, fifoVars, FStorageTypeOK
<1>4. OrderInv'
  BY <1>1, <1>2, <1>3, OrderKept DEF opVars, history
<1>5. CurrentInv(progress[cur])'
  <2>1. CurrentInv(progress[cur])
    BY <1>1, <1>2 DEF DriverInv, Executes, ChunksDone
  <2> QED
    BY <1>1, <1>3, <2>1, CurrentStays DEF opVars, history
<1>6. cur' \in Items \cup {None} /\ ctxOuter' \in BOOLEAN
  BY <1>1, <1>2 DEF FStorageTypeOK
<1> QED
  BY <1>1, <1>2, <1>3, <1>4, <1>5, <1>6, DriverStep

LEMMA IssueStep ==
  ASSUME QueueInv, Issue
  PROVE  QueueInv'
<1>1. /\ stack # <<>> /\ Top.at = "issue" /\ Drives(Top) /\ cur # None
      /\ UNCHANGED <<fifoVars, sdVars, flags, cur, ctxOuter, opVars, accepted>>
  BY DEF Issue, Now, Drives
<1>2. /\ FStorageTypeOK /\ OrderInv /\ DriverInv(Top) /\ Top.flag \in BOOLEAN /\ ControlInv
      /\ budget \in Budgets /\ initialized /\ sdOn = sdEnabled
  BY <1>1, Running
<1>3. Waiting' = Waiting /\ FifoTypeOK' /\ cur' \in Items \cup {None} /\ ctxOuter' \in BOOLEAN
  BY <1>1, <1>2, FifoTypes DEF Waiting, fifoVars, FStorageTypeOK
<1>4. /\ CurrentInv(progress[cur]) /\ state = "executing" /\ running /\ flash = Free
      /\ cur \in Items /\ progress[cur] \in Nat
  BY <1>1, <1>2 DEF DriverInv, Executes, ChunksDone, CurrentInv, FStorageTypeOK
<1>5. /\ "accepted" \in Points \ Unusual /\ "failed" \in Points \ Unusual
  BY DEF Points, Unusual
<1>6. CASE /\ sdEnabled /\ flash' = Chunk(cur, progress[cur]) /\ Goto("accepted")
           /\ UNCHANGED <<written, reports, budget>>
  <2>1. OrderInv'
    BY <1>1, <1>2, <1>3, <1>6, OrderKept DEF opVars
  <2>2. CurrentInv(progress[cur])'
    BY <1>1, <1>3, <1>4, <1>6, CurrentStays DEF opVars
  <2>3. FlashInv'
    BY <1>1, <1>2, <1>4, <1>6, <2>2 DEF FlashInv, flags, opVars, sdVars, Chunk
  <2>4. StateInv' /\ flash' \in [op : Items \cup {None}, chunk : Nat]
    BY <1>1, <1>4, <1>6 DEF StateInv, flags, Chunk
  <2>5. Become("accepted", Top.flag) /\ sdOn
    BY <1>2, <1>6 DEF Goto
  <2> QED
    BY <1>1, <1>3, <1>4, <1>6, <2>1, <2>3, <2>4, <2>5, DriverEnds DEF flags, history
<1>7. CASE sdEnabled /\ flash # Free
  BY <1>4, <1>7
<1>8. CASE /\ ~sdEnabled /\ written' = Done(Chunk(cur, progress[cur])) /\ Goto("accepted")
           /\ UNCHANGED <<flash, reports, budget>>
  <2>1. OrderInv' /\ CurrentInv(progress[cur] + 1)' /\ written' \in [Items -> SUBSET Nat]
    BY <1>1, <1>2, <1>3, <1>4, <1>8, ChunkDone DEF opVars
  <2>2. Become("accepted", Top.flag) /\ state' = "executing"
    BY <1>1, <1>4, <1>8 DEF Goto, flags
  <2> QED
    BY <1>1, <1>2, <1>3, <1>5, <1>8, <2>1, <2>2, DriverMoves DEF flags, opVars, FStorageTypeOK
<1>9. CASE Spend("rejects") /\ Report(FALSE) /\ Goto("failed") /\ UNCHANGED <<flash, written>>
  <2>1. OrderInv' /\ reports' \in Seq([op : Items, ok : BOOLEAN])
    BY <1>1, <1>2, <1>3, <1>4, <1>9, ReportedOne DEF Report, opVars
  <2>2. budget' \in Budgets /\ UNCHANGED <<budget.changes, budget.others>>
    BY <1>2, <1>9 DEF Spend, Budgets
  <2>3. Become("failed", Top.flag) /\ state' = "executing"
    BY <1>1, <1>4, <1>9 DEF Goto, flags
  <2> QED
    BY <1>1, <1>2, <1>3, <1>5, <1>9, <2>1, <2>2, <2>3, DriverMoves DEF flags, opVars, FStorageTypeOK
<1> QED
  BY <1>4, <1>6, <1>7, <1>8, <1>9 DEF Issue

LEMMA AcceptedStep ==
  ASSUME QueueInv, Accepted
  PROVE  QueueInv'
<1>1. /\ stack # <<>> /\ Top.at = "accepted"
      /\ UNCHANGED <<fifoVars, sdVars, flags, cur, ctxOuter, opVars, flash, history>>
  BY DEF Accepted, Now
<1>2. /\ FStorageTypeOK /\ OrderInv /\ Top.flag \in BOOLEAN /\ (Drives(Top) => DriverInv(Top))
  BY <1>1, Running
<1>3. Waiting' = Waiting /\ FifoTypeOK' /\ cur' \in Items \cup {None} /\ ctxOuter' \in BOOLEAN
  BY <1>1, <1>2, FifoTypes DEF Waiting, fifoVars, FStorageTypeOK
<1>4. CASE sdOn
  <2>1. Return /\ ~Drives(Top)
    BY <1>1, <1>4 DEF Accepted, Drives
  <2> QED
    BY <1>1, <1>3, <2>1, BystanderStep
<1>5. CASE ~sdOn
  <2>1. Become("event", TRUE) /\ Drives(Top) /\ "event" \in Points \ Unusual
    BY <1>1, <1>5 DEF Accepted, Drives, Points, Unusual
  <2>2. OrderInv'
    BY <1>1, <1>2, <1>3, OrderKept DEF opVars, history
  <2>3. state' = "executing" /\ CurrentInv(progress[cur] + 1)
    BY <1>1, <1>2, <2>1 DEF DriverInv, Executes, ChunksDone, flags
  <2>4. CurrentInv(progress[cur] + 1)'
    BY <1>1, <1>3, <2>3, CurrentStays DEF opVars, history
  <2> QED
    BY <1>1, <1>2, <1>3, <2>1, <2>2, <2>3, <2>4, DriverStep DEF flags
<1> QED
  BY <1>4, <1>5

LEMMA FailedHandledStep ==
  ASSUME QueueInv, FailedHandled
  PROVE  QueueInv'
<1>1. /\ stack # <<>> /\ Top.at = "failed" /\ Drives(Top) /\ Become("reset", Top.flag)
      /\ "reset" \in Points \ Unusual
      /\ UNCHANGED <<fifoVars, sdVars, flags, cur, ctxOuter, opVars, flash, history>>
  BY DEF FailedHandled, Now, Drives, Goto, Points, Unusual
<1>2. /\ FStorageTypeOK /\ OrderInv /\ Top.flag \in BOOLEAN /\ state \in {"idle", "executing"}
  BY <1>1, Running
<1>3. Waiting' = Waiting /\ FifoTypeOK' /\ cur' \in Items \cup {None} /\ ctxOuter' \in BOOLEAN
  BY <1>1, <1>2, FifoTypes DEF Waiting, fifoVars, FStorageTypeOK
<1>4. OrderInv'
  BY <1>1, <1>2, <1>3, OrderKept DEF opVars, history
<1> QED
  BY <1>1, <1>2, <1>3, <1>4, DriverStep DEF flags

LEMMA ResetStep ==
  ASSUME QueueInv, Reset
  PROVE  QueueInv'
<1>1. /\ stack # <<>> /\ Top.at = "reset" /\ Drives(Top) /\ Become("freeFailed", Top.flag)
      /\ state' = "idle" /\ running' = FALSE
      /\ UNCHANGED <<fifoVars, sdVars, initialized, retries, sdOn, paused, cur, ctxOuter,
                     opVars, flash, history>>
  BY DEF Reset, Now, Drives, Goto
<1>2. /\ FStorageTypeOK /\ OrderInv /\ DriverInv(Top)
  BY <1>1, Running
<1>3. Waiting' = Waiting /\ FifoTypeOK'
  BY <1>1, <1>2, FifoTypes DEF Waiting, fifoVars, FStorageTypeOK
<1>4. OrderInv'
  BY <1>1, <1>2, <1>3, OrderKept DEF opVars, history
<1>5. FlashInv' /\ StateInv' /\ flash' \in [op : Items \cup {None}, chunk : Nat]
  BY <1>1, <1>2 DEF FlashInv, StateInv, DriverInv, FStorageTypeOK
<1> QED
  BY <1>1, <1>3, <1>4, <1>5, DriverEnds

\* queue_free leaves alone what waits.
LEMMA Freed ==
  ASSUME FStorageTypeOK, QueueFree
  PROVE  Waiting' = Waiting /\ FifoTypeOK'
<1>1. Release \/ UNCHANGED fifoVars
  BY DEF QueueFree
<1> QED
  BY <1>1, FifoTypes DEF FStorageTypeOK, Release, Waiting, fifoVars

LEMMA FreeFailedStep ==
  ASSUME QueueInv, FreeFailed
  PROVE  QueueInv'
<1>1. /\ stack # <<>> /\ Top.at = "freeFailed" /\ ~Drives(Top) /\ Return /\ QueueFree
      /\ UNCHANGED <<sdVars, flags, cur, ctxOuter, opVars, flash, history>>
  BY DEF FreeFailed, Now, Drives
<1>2. Waiting' = Waiting /\ FifoTypeOK'
  BY <1>1, Freed DEF QueueInv
<1> QED
  BY <1>1, <1>2, BystanderStep

LEMMA DoneHandledStep ==
  ASSUME QueueInv, DoneHandled
  PROVE  QueueInv'
<1>1. /\ stack # <<>> /\ Top.at = "done" /\ Drives(Top) /\ Become("free", Top.flag)
      /\ "free" \in Points \ Unusual
      /\ UNCHANGED <<fifoVars, sdVars, flags, cur, ctxOuter, opVars, flash, history>>
  BY DEF DoneHandled, Now, Drives, Goto, Points, Unusual
<1>2. /\ FStorageTypeOK /\ OrderInv /\ Top.flag \in BOOLEAN /\ DriverInv(Top)
  BY <1>1, Running
<1>3. Waiting' = Waiting /\ FifoTypeOK' /\ cur' \in Items \cup {None} /\ ctxOuter' \in BOOLEAN
  BY <1>1, <1>2, FifoTypes DEF Waiting, fifoVars, FStorageTypeOK
<1>4. OrderInv' /\ state' = "idle"
  BY <1>1, <1>2, <1>3, OrderKept DEF opVars, history, flags, DriverInv
<1> QED
  BY <1>1, <1>2, <1>3, <1>4, DriverStep DEF flags

LEMMA FreeDoneStep ==
  ASSUME QueueInv, FreeDone
  PROVE  QueueInv'
<1>1. /\ stack # <<>> /\ Top.at = "free" /\ Drives(Top) /\ Become("continue", Top.flag) /\ QueueFree
      /\ "continue" \in Points \ Unusual
      /\ UNCHANGED <<sdVars, flags, cur, ctxOuter, opVars, flash, history>>
  BY DEF FreeDone, Now, Drives, Goto, Points, Unusual
<1>2. /\ FStorageTypeOK /\ OrderInv /\ Top.flag \in BOOLEAN /\ DriverInv(Top)
  BY <1>1, Running
<1>3. Waiting' = Waiting /\ FifoTypeOK' /\ cur' \in Items \cup {None} /\ ctxOuter' \in BOOLEAN
  BY <1>1, <1>2, Freed DEF FStorageTypeOK
<1>4. OrderInv' /\ state' = "idle"
  BY <1>1, <1>2, <1>3, OrderKept DEF opVars, history, flags, DriverInv
<1> QED
  BY <1>1, <1>2, <1>3, <1>4, DriverStep DEF flags

LEMMA ContinueStep ==
  ASSUME QueueInv, Continue
  PROVE  QueueInv'
<1>1. /\ stack # <<>> /\ Top.at = "continue" /\ Drives(Top)
      /\ UNCHANGED <<fifoVars, sdVars, flags, cur, ctxOuter, opVars, flash, history>>
  BY DEF Continue, Now, Drives
<1>2. /\ FStorageTypeOK /\ OrderInv /\ Top.flag \in BOOLEAN /\ DriverInv(Top) /\ ~paused
      /\ state \in {"idle", "executing"}
  BY <1>1, Running
<1>3. Become("process", Top.flag) /\ "process" \in Points \ Unusual
  BY <1>2 DEF Continue, Goto, Points, Unusual
<1>4. Waiting' = Waiting /\ FifoTypeOK' /\ cur' \in Items \cup {None} /\ ctxOuter' \in BOOLEAN
  BY <1>1, <1>2, FifoTypes DEF Waiting, fifoVars, FStorageTypeOK
<1>5. OrderInv'
  BY <1>1, <1>2, <1>4, OrderKept DEF opVars, history
<1>6. state' = "executing" => CurrentInv(progress[cur])'
  <2>1. state = "executing" => CurrentInv(progress[cur])
    BY <1>1, <1>2 DEF DriverInv, Executes, ChunksDone
  <2> QED
    BY <1>1, <1>4, <2>1, CurrentStays DEF opVars, history, flags
<1> QED
  BY <1>1, <1>2, <1>3, <1>4, <1>5, <1>6, DriverStep DEF flags


-----------------------------------------------------------------------------
(* The end of a flash operation.                                           *)

LEMMA FlashEventStep ==
  ASSUME QueueInv, NEW ok \in BOOLEAN, FlashEvent(ok)
  PROVE  QueueInv'
<1>1. /\ flash # Free /\ flash' = Free /\ Call(SdEvent, "event", ok)
      /\ written' = IF ok THEN Done(flash) ELSE written
      /\ UNCHANGED <<fifoVars, sdVars, flags, cur, ctxOuter, opVars, accepted, reports, budget>>
  BY DEF FlashEvent
<1>2. /\ FStorageTypeOK /\ AloneInv /\ OrderInv /\ ControlInv /\ UsualFrames
      /\ "event" \in Points \ Unusual
  BY DEF QueueInv, AloneInv, Points, Unusual
<1>3. /\ running /\ state = "executing" /\ initialized /\ CurrentInv(progress[cur])
      /\ flash = Chunk(cur, progress[cur]) /\ \A i \in DOMAIN stack : ~Drives(stack[i])
  BY <1>1, <1>2 DEF ControlInv, FlashInv, DriversInv, DriverInv
<1>4. Waiting' = Waiting /\ FifoTypeOK'
  BY <1>1, <1>2, FifoTypes DEF Waiting, fifoVars, FStorageTypeOK
<1>5. /\ stack' \in Seq(Frames) /\ OneDriver'
      /\ \A i \in DOMAIN stack' : Drives(stack[i])' => stack'[i].at = "event" /\ stack'[i].flag = ok
  BY <1>1, <1>2, <1>3, DriverBegins DEF flags
<1>6. UsualFrames'
  BY <1>1, <1>2, UsualFramesStay DEF SdEvent
<1>7. /\ OrderInv' /\ written' \in [Items -> SUBSET Nat]
      /\ ok => CurrentInv(progress[cur] + 1)'
      /\ ~ok => CurrentInv(progress[cur])'
  <2>1. CASE ok
    BY <1>1, <1>2, <1>3, <1>4, <2>1, ChunkDone DEF opVars
  <2>2. CASE ~ok
    <3>1. written' = written
      BY <1>1, <2>2
    <3> QED
      BY <1>1, <1>2, <1>3, <1>4, <2>2, <3>1, OrderKept, CurrentStays DEF opVars, FStorageTypeOK
  <2> QED
    BY <2>1, <2>2
<1>8. FStorageTypeOK'
  <2>1. Free \in [op : Items \cup {None}, chunk : Nat]
    BY DEF Free, Chunk
  <2> QED
    BY <1>1, <1>2, <1>4, <1>5, <1>7, <2>1 DEF FStorageTypeOK, SdTypeOK, sdVars, flags, opVars, Frames
<1>9. AloneInv'
  BY <1>1, <1>2, <1>3, <1>6 DEF AloneInv, sdVars, flags
<1>10. ASSUME NEW i \in DOMAIN stack', Drives(stack[i])' PROVE DriverInv(stack[i])'
  <2>1. stack'[i].at = "event" /\ stack'[i].flag = ok
    BY <1>5, <1>10
  <2>2. CurrentInv(ChunksDone(stack[i]))'
    BY <1>7, <2>1 DEF ChunksDone
  <2> QED
    BY <1>1, <1>3, <2>1, <2>2 DEF DriverInv, flags
<1>11. FlashInv' /\ StateInv'
  BY <1>1, <1>3 DEF FlashInv, StateInv, flags
<1> QED
  BY <1>5, <1>8, <1>7, <1>9, <1>10, <1>11 DEF QueueInv, ControlInv, DriversInv

\* What an event finds.
LEMMA EventFinds ==
  ASSUME QueueInv, Now("event")
  PROVE  /\ stack # <<>> /\ Top.at = "event" /\ Drives(Top) /\ state = "executing"
         /\ CurrentInv(IF Top.flag THEN progress[cur] + 1 ELSE progress[cur])
         /\ FStorageTypeOK /\ OrderInv /\ budget \in Budgets /\ Top.flag \in BOOLEAN
         /\ cur \in Items /\ progress[cur] \in Nat /\ size[cur] \in Nat /\ progress[cur] < size[cur]
         /\ Queued \subseteq Items /\ \A o \in Queued : o # cur
<1>1. stack # <<>> /\ Top.at = "event" /\ Drives(Top)
  BY DEF Now, Drives
<1>2. /\ FStorageTypeOK /\ OrderInv /\ budget \in Budgets /\ Top.flag \in BOOLEAN /\ DriverInv(Top)
  BY <1>1, Running
<1>3. state = "executing" /\ CurrentInv(IF Top.flag THEN progress[cur] + 1 ELSE progress[cur])
  BY <1>1, <1>2 DEF DriverInv, Executes, ChunksDone
<1>4. /\ cur \in Items /\ progress[cur] < size[cur] /\ \A o \in Queued : cur < o
  BY <1>3 DEF CurrentInv
<1>5. Queued \subseteq Items
  BY <1>2, WaitingType
<1>6. \A o \in Queued : o # cur
  BY <1>4, <1>5, ItemsAssumption
<1>7. progress[cur] \in Nat /\ size[cur] \in Nat
  BY <1>2, <1>4 DEF FStorageTypeOK, Chunks
<1> QED
  BY <1>1, <1>2, <1>3, <1>4, <1>5, <1>6, <1>7

LEMMA EventSuccessStep ==
  ASSUME QueueInv, EventSuccess
  PROVE  QueueInv'
<1>1. /\ Now("event") /\ Top.flag /\ cur # None /\ retries' = 0
      /\ progress' = [progress EXCEPT ![cur] =
           @ + (IF kind[cur] = "write" /\ Complete(cur, progress[cur]) THEN 0 ELSE 1)]
      /\ IF Complete(cur, progress'[cur])
         THEN Finish(TRUE)
         ELSE Goto("continue") /\ UNCHANGED <<state, reports>>
      /\ UNCHANGED <<fifoVars, sdVars, initialized, running, sdOn, paused, cur, ctxOuter,
                     kind, size, flash, accepted, written, budget>>
  BY DEF EventSuccess
<1>2. /\ stack # <<>> /\ Top.at = "event" /\ Drives(Top) /\ state = "executing"
      /\ CurrentInv(progress[cur] + 1)
      /\ FStorageTypeOK /\ OrderInv /\ budget \in Budgets /\ Top.flag \in BOOLEAN
      /\ cur \in Items /\ progress[cur] \in Nat /\ size[cur] \in Nat /\ progress[cur] < size[cur]
      /\ Queued \subseteq Items /\ \A o \in Queued : o # cur
  BY <1>1, EventFinds
<1>3. ~Complete(cur, progress[cur])
  BY <1>2 DEF Complete
<1>4. /\ progress' \in [Items -> Nat] /\ progress'[cur] = progress[cur] + 1
      /\ \A o \in Items : o # cur => progress'[o] = progress[o]
  BY <1>1, <1>2, <1>3 DEF FStorageTypeOK
<1>5. Waiting' = Waiting /\ FifoTypeOK' /\ cur' \in Items \cup {None} /\ ctxOuter' \in BOOLEAN
  BY <1>1, <1>2, FifoTypes DEF Waiting, fifoVars, FStorageTypeOK
<1>6. /\ "done" \in Points \ Unusual /\ "continue" \in Points \ Unusual
      /\ retries' \in 0 .. MaxRetries /\ written' \in [Items -> SUBSET Nat]
  BY <1>1, <1>2, BoundsAssumption DEF Points, Unusual, FStorageTypeOK
<1>7. CASE Complete(cur, progress'[cur])
  <2>1. state' = "idle" /\ Report(TRUE) /\ Become("done", Top.flag)
    BY <1>1, <1>7 DEF Finish, Goto
  <2>2. progress[cur] + 1 = size[cur]
    BY <1>4, <1>7 DEF Complete
  <2>3. OrderInv' /\ reports' \in Seq([op : Items, ok : BOOLEAN])
    BY <1>1, <1>2, <1>4, <1>5, <2>1, <2>2, ReportedOne DEF Report
  <2> QED
    BY <1>1, <1>2, <1>4, <1>5, <1>6, <2>1, <2>3, DriverMoves
<1>8. CASE ~Complete(cur, progress'[cur])
  <2>1. Become("continue", Top.flag) /\ UNCHANGED <<state, reports>>
    BY <1>1, <1>8 DEF Goto
  <2>2. progress[cur] + 1 < size[cur]
    BY <1>2, <1>4, <1>8 DEF Complete
  <2>3. OrderInv'
    BY <1>1, <1>2, <1>4, <1>5, <2>1 DEF OrderInv, Queued, ReportedInOrder, ReportedMeansDone
  <2>4. CurrentInv(progress[cur])'
    BY <1>1, <1>2, <1>4, <1>5, <2>1, <2>2 DEF CurrentInv, Queued
  <2>5. reports' \in Seq([op : Items, ok : BOOLEAN])
    BY <1>2, <2>1 DEF FStorageTypeOK
  <2> QED
    BY <1>1, <1>2, <1>4, <1>5, <1>6, <2>1, <2>3, <2>4, <2>5, DriverMoves
<1> QED
  BY <1>7, <1>8

LEMMA EventErrorStep ==
  ASSUME QueueInv, EventError
  PROVE  QueueInv'
<1>1. /\ Now("event") /\ ~Top.flag
      /\ IF LastRetry
         THEN retries' = 0 /\ Finish(FALSE)
         ELSE retries' = retries + 1 /\ Goto("continue") /\ UNCHANGED <<state, reports>>
      /\ UNCHANGED <<fifoVars, sdVars, initialized, running, sdOn, paused, cur, ctxOuter,
                     opVars, flash, accepted, written, budget>>
  BY DEF EventError
<1>2. /\ stack # <<>> /\ Top.at = "event" /\ Drives(Top) /\ state = "executing"
      /\ CurrentInv(progress[cur])
      /\ FStorageTypeOK /\ OrderInv /\ budget \in Budgets /\ Top.flag \in BOOLEAN
      /\ progress[cur] \in Nat
  BY <1>1, EventFinds
<1>3. Waiting' = Waiting /\ FifoTypeOK' /\ cur' \in Items \cup {None} /\ ctxOuter' \in BOOLEAN
  BY <1>1, <1>2, FifoTypes DEF Waiting, fifoVars, FStorageTypeOK
<1>4. /\ "done" \in Points \ Unusual /\ "continue" \in Points \ Unusual
      /\ written' \in [Items -> SUBSET Nat] /\ progress' \in [Items -> Nat]
  BY <1>1, <1>2 DEF Points, Unusual, FStorageTypeOK, opVars
<1>5. CASE LastRetry
  <2>1. retries' \in 0 .. MaxRetries /\ state' = "idle" /\ Report(FALSE) /\ Become("done", Top.flag)
    <3>1. retries' = 0 /\ Finish(FALSE)
      BY <1>1, <1>5
    <3>2. 0 \in 0 .. MaxRetries
      BY BoundsAssumption
    <3> QED
      BY <3>1, <3>2 DEF Finish, Goto
  <2>2. OrderInv' /\ reports' \in Seq([op : Items, ok : BOOLEAN])
    BY <1>1, <1>2, <1>3, <2>1, ReportedOne DEF Report, opVars
  <2> QED
    BY <1>1, <1>2, <1>3, <1>4, <2>1, <2>2, DriverMoves DEF opVars
<1>6. CASE ~LastRetry
  <2>1. /\ retries' \in 0 .. MaxRetries /\ Become("continue", Top.flag) /\ UNCHANGED <<state, reports>>
    BY <1>1, <1>2, <1>6, BoundsAssumption DEF Goto, LastRetry, FStorageTypeOK
  <2>2. OrderInv'
    BY <1>1, <1>2, <1>3, <2>1, OrderKept DEF opVars
  <2>3. CurrentInv(progress[cur])'
    BY <1>1, <1>2, <1>3, <2>1, CurrentStays DEF opVars
  <2>4. reports' \in Seq([op : Items, ok : BOOLEAN])
    BY <1>2, <2>1 DEF FStorageTypeOK
  <2> QED
    BY <1>1, <1>2, <1>3, <1>4, <2>1, <2>2, <2>3, <2>4, DriverMoves DEF opVars
<1> QED
  BY <1>5, <1>6


-----------------------------------------------------------------------------
(* Requests, and init and uninit.                                          *)

LEMMA WriteStep ==
  ASSUME QueueInv, NEW level \in 1 .. 3, Write(level)
  PROVE  QueueInv'
<1> DEFINE o == accepted + 1
<1>1. PICK k \in Kinds, n \in 1 .. MaxSize :
        kind' = [kind EXCEPT ![accepted + 1] = k] /\ size' = [size EXCEPT ![accepted + 1] = n]
  BY DEF Write
<1>2. /\ initialized /\ accepted + 1 \in Items /\ Reserve(accepted + 1) /\ accepted' = accepted + 1
      /\ Call(level, "put", pending = <<>>) /\ (pending = <<>>) \in BOOLEAN
      /\ progress' = [progress EXCEPT ![accepted + 1] = 0]
      /\ UNCHANGED <<sdVars, flags, cur, ctxOuter, flash, written, reports, budget>>
  BY DEF Write
<1>3. /\ FStorageTypeOK /\ AloneInv /\ OrderInv /\ ControlInv /\ UsualFrames /\ OneDriver
      /\ "put" \in Points \ Unusual
  BY DEF QueueInv, AloneInv, ControlInv, Points, Unusual
<1>4. o \in Items /\ o \in Nat /\ accepted \in Nat /\ o > accepted /\ Items \subseteq Nat
  BY <1>2, <1>3, ItemsAssumption DEF FStorageTypeOK
<1>5. /\ kind' \in [Items -> {"write", "erase"}] /\ size' \in [Items -> Chunks] /\ progress' \in [Items -> Nat]
      /\ size'[o] > 0 /\ progress'[o] = 0
      /\ \A q \in Items : q # o => size'[q] = size[q] /\ progress'[q] = progress[q]
  BY <1>1, <1>2, <1>3, <1>4, KindsAssumption, BoundsAssumption DEF FStorageTypeOK, Chunks
<1>6. Queued \subseteq Items /\ \A q \in Queued : q < o
  <2>1. Queued \subseteq Items
    BY <1>3, WaitingType
  <2>2. ASSUME NEW q \in Queued PROVE q < o
    <3>1. q \in Nat
      BY <2>1, <1>4
    <3>2. q <= accepted
      BY <1>3 DEF OrderInv
    <3> QED
      BY <3>1, <3>2, <1>4
  <2> QED
    BY <2>1, <2>2
<1>7. Reserve(o) /\ accepted' = o
  BY <1>2
<1> HIDE DEF o
<1>8. Queued' = Queued \cup {o} /\ Ascending(Waiting') /\ FifoTypeOK'
  BY <1>3, <1>4, <1>6, <1>7, WaitingReserved, FifoTypes DEF OrderInv, FStorageTypeOK
<1>9. ASSUME NEW i \in DOMAIN reports PROVE reports[i].op \in Items /\ reports[i].op # o
  <2> DEFINE R == [op : Items, ok : BOOLEAN]
  <2>1. reports \in Seq(R) /\ i \in 1 .. Len(reports)
    BY <1>3, LenProperties DEF FStorageTypeOK
  <2>2. reports[i] \in R
    BY ONLY <2>1, ElementOfSeq
  <2>3. reports[i].op \in Items /\ reports[i].op <= accepted
    BY <1>3, <2>2 DEF OrderInv
  <2> QED
    BY <1>4, <2>3
<1>10. OrderInv'
  <2>1. \A q \in Queued' : q <= accepted' /\ progress'[q] = 0 /\ size'[q] > 0 /\ written'[q] = {}
    <3>1. ASSUME NEW q \in Queued PROVE q <= accepted' /\ progress'[q] = 0 /\ size'[q] > 0 /\ written'[q] = {}
      <4>1. q \in Items /\ q < o /\ q # o
        BY <1>4, <1>6
      <4> QED
        <5>1. progress[q] = 0 /\ size[q] > 0 /\ written[q] = {}
          BY <1>3 DEF OrderInv
        <5>2. progress'[q] = progress[q] /\ size'[q] = size[q]
          BY <1>5, <4>1
        <5>3. q <= accepted'
          BY <1>4, <1>7, <4>1
        <5>4. written' = written
          BY <1>2
        <5> QED
          BY <5>1, <5>2, <5>3, <5>4
    <3>2. o <= accepted' /\ progress'[o] = 0 /\ size'[o] > 0 /\ written'[o] = {}
      BY <1>2, <1>3, <1>4, <1>5, <1>7 DEF OrderInv
    <3> QED
      BY <1>8, <3>1, <3>2
  <2>2. \A q \in Items : q > accepted' => written'[q] = {}
    <3>1. accepted' = accepted + 1 /\ accepted \in Nat /\ Items \subseteq Nat /\ written' = written
      BY <1>2, <1>4
    <3>2. \A q \in Items : q > accepted => written[q] = {}
      BY <1>3 DEF OrderInv
    <3> QED
      BY <3>1, <3>2
  <2>3. \A i \in DOMAIN reports' : reports'[i].op <= accepted' /\ \A q \in Queued' : reports'[i].op < q
    <3>1. ASSUME NEW i \in DOMAIN reports PROVE reports[i].op <= accepted' /\ \A q \in Queued' : reports[i].op < q
      <4>1. reports[i].op \in Nat /\ reports[i].op <= accepted /\ \A q \in Queued : reports[i].op < q
        BY <1>3, <1>4, <1>9 DEF OrderInv
      <4> QED
        BY <1>4, <1>7, <1>8, <4>1
    <3> QED
      BY <1>2, <3>1
  <2>4. ReportedInOrder' /\ ReportedMeansDone'
    BY <1>2, <1>3, <1>5, <1>9 DEF OrderInv, ReportedInOrder, ReportedMeansDone
  <2> QED
    BY <1>8, <2>1, <2>2, <2>3, <2>4 DEF OrderInv
<1>11. ASSUME NEW m, CurrentInv(m) PROVE CurrentInv(m)' /\ progress'[cur] = progress[cur]
  <2>1. cur \in Items /\ cur <= accepted /\ cur < o /\ cur # o
    <3>1. cur \in Items /\ cur <= accepted
      BY <1>11 DEF CurrentInv
    <3>2. cur \in Nat
      BY <1>4, <3>1
    <3> QED
      BY <1>4, <3>1, <3>2
  <2>2. progress'[cur] = progress[cur] /\ size'[cur] = size[cur]
    BY <1>5, <2>1
  <2>3. UNCHANGED <<cur, reports, written>> /\ accepted' = o
    BY <1>2, <1>7
  <2>4. cur' \in Items /\ cur' <= accepted'
    BY <1>4, <2>1, <2>3
  <2>5. \A i \in DOMAIN reports' : reports'[i].op < cur'
    BY <1>11, <2>3 DEF CurrentInv
  <2>6. \A q \in Queued' : cur' < q
    BY <1>8, <1>11, <2>1, <2>3 DEF CurrentInv
  <2>7. progress'[cur'] < size'[cur'] /\ written'[cur'] = 0 .. m - 1
    BY <1>11, <2>2, <2>3 DEF CurrentInv
  <2>8. CurrentInv(m)'
    BY <2>4, <2>5, <2>6, <2>7 DEF CurrentInv
  <2> QED
    BY <2>2, <2>8
<1>12. /\ stack' \in Seq(Frames) /\ OneDriver'
       /\ \A i \in DOMAIN stack' :
            Drives(stack[i])' => i \in DOMAIN stack /\ Drives(stack[i]) /\ stack'[i] = stack[i]
  BY <1>2, <1>3, DriverStays DEF flags
<1>13. UsualFrames'
  BY <1>2, <1>3, UsualFramesStay
<1>14. ASSUME NEW i \in DOMAIN stack', Drives(stack[i])' PROVE DriverInv(stack[i])'
  <2>1. DriverInv(stack[i]) /\ stack'[i] = stack[i]
    BY <1>3, <1>12, <1>14 DEF ControlInv, DriversInv
  <2>2. Executes(stack[i]) => CurrentInv(ChunksDone(stack[i]))'
    <3>1. ASSUME Executes(stack[i]) PROVE CurrentInv(ChunksDone(stack[i]))'
      <4>1. CurrentInv(ChunksDone(stack[i]))
        BY <2>1, <3>1 DEF DriverInv
      <4>2. progress'[cur'] = progress[cur]
        BY <1>2, <1>11, <4>1
      <4>3. CASE stack[i].at = "accepted" \/ (stack[i].at = "event" /\ stack[i].flag)
        <5>1. CurrentInv(progress[cur] + 1)
          BY <4>1, <4>3 DEF ChunksDone
        <5>2. CurrentInv(progress[cur] + 1)'
          BY <1>2, <1>11, <5>1, <4>2 DEF CurrentInv
        <5> QED
          BY <2>1, <4>3, <5>2 DEF ChunksDone
      <4>4. CASE ~(stack[i].at = "accepted" \/ (stack[i].at = "event" /\ stack[i].flag))
        <5>1. CurrentInv(progress[cur])
          BY <4>1, <4>4 DEF ChunksDone
        <5>2. CurrentInv(progress[cur])'
          BY <1>2, <1>11, <5>1, <4>2 DEF CurrentInv
        <5> QED
          BY <2>1, <4>4, <5>2 DEF ChunksDone
      <4> QED
        BY <4>3, <4>4
    <3> QED
      BY <3>1
  <2> QED
    BY <1>2, <2>1, <2>2 DEF DriverInv, Executes, flags
<1>15. FlashInv'
  <2>1. ASSUME flash # Free
        PROVE /\ running /\ state = "executing" /\ sdEnabled /\ initialized
              /\ CurrentInv(progress[cur])' /\ flash = Chunk(cur, progress[cur]) /\ progress'[cur] = progress[cur]
    <3>1. CurrentInv(progress[cur]) /\ running /\ state = "executing" /\ sdEnabled
          /\ flash = Chunk(cur, progress[cur])
      BY <1>3, <2>1 DEF ControlInv, FlashInv
    <3>2. progress'[cur] = progress[cur]
      BY <1>11, <3>1
    <3>3. CurrentInv(progress[cur])'
      BY <1>2, <1>11, <3>1, <3>2 DEF CurrentInv
    <3> QED
      BY <1>2, <3>1, <3>2, <3>3
  <2> QED
    BY <1>2, <2>1 DEF FlashInv, flags, sdVars
<1>16. FStorageTypeOK'
  BY <1>2, <1>3, <1>4, <1>5, <1>7, <1>8, <1>12 DEF FStorageTypeOK, SdTypeOK, sdVars, flags, Frames
<1>17. AloneInv'
  BY <1>2, <1>3, <1>13 DEF AloneInv, sdVars, flags
<1>18. StateInv'
  BY <1>2, <1>3 DEF ControlInv, StateInv, flags
<1> QED
  BY <1>10, <1>12, <1>14, <1>15, <1>16, <1>17, <1>18 DEF QueueInv, ControlInv, DriversInv

LEMMA UninitStep ==
  ASSUME QueueInv, "uninit" \notin Environment, Uninit
  PROVE  QueueInv'
<1>1. /\ stack = <<>> /\ state = "idle" /\ Drop /\ Spend("resets")
      /\ initialized' = FALSE /\ state' = "idle" /\ running' = FALSE /\ retries' = 0
      /\ sdOn' = FALSE /\ paused' = FALSE
      /\ UNCHANGED <<sdVars, stack, cur, ctxOuter, opVars, flash, accepted, written, reports>>
  BY DEF Uninit
<1>2. FStorageTypeOK /\ AloneInv /\ OrderInv /\ ControlInv
  BY DEF QueueInv
<1>3. flash = Free
  BY <1>1, <1>2 DEF ControlInv, FlashInv
<1>4. Queued' \subseteq Queued /\ Ascending(Waiting') /\ FifoTypeOK'
  BY <1>1, <1>2, WaitingDropped, FifoTypes DEF OrderInv, FStorageTypeOK
<1>5. OrderInv'
  BY <1>1, <1>2, <1>4 DEF OrderInv, ReportedInOrder, ReportedMeansDone, opVars
<1>6. DOMAIN stack' = {} /\ stack' = <<>>
  BY <1>1, EmptySeq
<1>7. budget' \in Budgets /\ budget'.changes = 0 /\ budget'.others = 0
  BY <1>1, <1>2 DEF AloneInv, Budgets, Spend
<1>8. AloneInv'
  BY <1>1, <1>2, <1>6, <1>7 DEF AloneInv, UsualFrames, sdVars
<1>9. ControlInv'
  BY <1>1, <1>3, <1>6 DEF ControlInv, OneDriver, DriversInv, FlashInv, StateInv
<1>10. retries' \in 0 .. MaxRetries
  BY <1>1, BoundsAssumption
<1>11. FStorageTypeOK'
  BY <1>1, <1>2, <1>4, <1>10 DEF FStorageTypeOK, SdTypeOK, sdVars, opVars
<1> QED
  BY <1>5, <1>8, <1>9, <1>11 DEF QueueInv

LEMMA ReinitStep ==
  ASSUME QueueInv, Reinit
  PROVE  QueueInv'
<1>1. /\ stack = <<>> /\ ~initialized /\ initialized' = TRUE /\ sdOn' = sdEnabled
      /\ pending' = <<>> /\ ready' = <<>> /\ open' = <<>>
      /\ UNCHANGED <<sdVars, stack, state, running, retries, paused, cur, ctxOuter, opVars,
                     flash, history>>
  BY DEF Reinit
<1>2. FStorageTypeOK /\ AloneInv /\ OrderInv /\ ControlInv
  BY DEF QueueInv
<1>3. Waiting' = <<>> /\ DOMAIN Waiting' = {} /\ DOMAIN stack' = {} /\ FifoTypeOK'
  BY <1>1, EmptySeq, ConcatEmptySeq DEF Waiting, FifoTypeOK
<1>4. OrderInv'
  BY <1>1, <1>2, <1>3 DEF OrderInv, Queued, Ascending, ReportedInOrder, ReportedMeansDone, opVars, history
<1>5. AloneInv'
  BY <1>1, <1>2, <1>3 DEF AloneInv, UsualFrames, sdVars, history
<1>6. ControlInv'
  BY <1>1, <1>2, <1>3 DEF ControlInv, OneDriver, DriversInv, FlashInv, StateInv
<1>7. FStorageTypeOK'
  BY <1>1, <1>2, <1>3 DEF FStorageTypeOK, SdTypeOK, sdVars, opVars, history
<1> QED
  BY <1>4, <1>5, <1>6, <1>7 DEF QueueInv

\* What leaves the operations, the flags and the calls alone.
LEMMA StutterStep ==
  ASSUME QueueInv, SdTypeOK',
         UNCHANGED <<fifoVars, sdEnabled, sdContinue, stack, flags, cur, ctxOuter, opVars, flash, history>>
  PROVE  QueueInv'
<1>1. FStorageTypeOK /\ AloneInv /\ OrderInv /\ ControlInv
  BY DEF QueueInv
<1>2. Waiting' = Waiting /\ FifoTypeOK'
  BY <1>1, FifoTypes DEF Waiting, fifoVars, FStorageTypeOK
<1>3. FStorageTypeOK'
  BY <1>1, <1>2 DEF FStorageTypeOK, flags, opVars, history
<1>4. AloneInv'
  BY <1>1 DEF AloneInv, UsualFrames, flags, history
<1>5. OrderInv'
  BY <1>1, <1>2, OrderKept DEF opVars, history
<1>6. ControlInv'
  <2>1. OneDriver' /\ \A i \in DOMAIN stack' :
          Drives(stack[i])' => i \in DOMAIN stack /\ Drives(stack[i]) /\ stack'[i] = stack[i]
    BY <1>1 DEF ControlInv, OneDriver, Drives, flags
  <2> QED
    BY <1>1, <1>2, <2>1, ControlKept DEF flags, opVars, history
<1> QED
  BY <1>3, <1>4, <1>5, <1>6 DEF QueueInv

-----------------------------------------------------------------------------
(* The theorems.                                                           *)

\* Nobody else uses the flash, the SoftDevice stays as it is, and the module
\* is uninitialized only with no operation in progress.
UsedAlone == MaxOthers = 0 /\ MaxChanges = 0 /\ "uninit" \notin Environment

LEMMA InitQueueInv ==
  ASSUME UsedAlone, Init
  PROVE  QueueInv
<1>1. pending = <<>> /\ ready = <<>> /\ open = <<>> /\ sdEnabled \in BOOLEAN /\ sdContinue = FALSE /\ sdSuspended = FALSE
  BY DEF Init, FifoInit, SdInit
<1>2. Waiting = <<>> /\ DOMAIN Waiting = {} /\ DOMAIN stack = {} /\ DOMAIN reports = {} /\ FifoTypeOK
  BY <1>1, EmptySeq, ConcatEmptySeq DEF Init, Waiting, FifoTypeOK
<1>3. retries \in 0 .. MaxRetries /\ 0 \in Chunks
  BY BoundsAssumption DEF Init, Chunks
<1>4. /\ size \in [Items -> Chunks] /\ progress \in [Items -> Nat] /\ written \in [Items -> SUBSET Nat]
      /\ kind \in [Items -> {"write", "erase"}]
      /\ \A o \in Items : written[o] = {}
  BY <1>3 DEF Init
<1>5. flash \in [op : Items \cup {None}, chunk : Nat]
  BY DEF Init, Free, Chunk
<1>6. stack \in Seq([level : 1 .. 3, at : Points, flag : BOOLEAN]) /\ reports \in Seq([op : Items, ok : BOOLEAN])
  BY EmptySeq DEF Init
<1>7. FStorageTypeOK
  BY <1>1, <1>2, <1>3, <1>4, <1>5, <1>6 DEF Init, FStorageTypeOK, SdTypeOK
<1>8. AloneInv
  BY <1>1, <1>2, BoundsAssumption DEF Init, AloneInv, UsualFrames, Budget, Budgets, UsedAlone
<1>9. OrderInv
  BY <1>2, <1>4 DEF OrderInv, Queued, Ascending, ReportedInOrder, ReportedMeansDone
<1>10. ControlInv
  BY <1>2 DEF Init, ControlInv, OneDriver, DriversInv, FlashInv, StateInv
<1> QED
  BY <1>7, <1>8, <1>9, <1>10 DEF QueueInv

LEMMA NextQueueInv ==
  ASSUME UsedAlone, QueueInv, [Next]_vars
  PROVE  QueueInv'
<1>1. \A at \in Unusual : ~Now(at)
  BY Running DEF Now
<1>2. CASE Run
  <2>1. ~(Busy \/ Request \/ Ask \/ Change \/ ChangeFails \/ Changed)
    BY <1>1 DEF Unusual, Busy, Request, Ask, Change, ChangeFails, Changed
  <2>2. ~(EventIdle \/ EventPending)
    BY EventFinds DEF EventIdle, EventPending
  <2> QED
    BY <1>2, <2>1, <2>2, PutStep, StartStep, BeginStep, ProcessStep, StopStep, ExecuteStep, IssueStep,
       AcceptedStep, FailedHandledStep, ResetStep, FreeFailedStep, EventSuccessStep, EventErrorStep,
       DoneHandledStep, FreeDoneStep, ContinueStep DEF Run
<1>3. CASE RequestChange \/ Suspend \/ OtherOperation
  <2>1. budget.changes = 0 /\ budget.others = 0
    BY DEF QueueInv, AloneInv
  <2>2. ~(budget["changes"] > 0) /\ ~(budget["others"] > 0)
    BY <2>1
  <2> QED
    BY <1>3, <2>2 DEF RequestChange, Suspend, OtherOperation, Spend
<1>4. CASE Resume
  BY <1>4, StutterStep DEF Resume, SdResume, SdTypeOK, QueueInv, FStorageTypeOK
<1>5. CASE UNCHANGED vars
  BY <1>5, StutterStep DEF vars, sdVars, SdTypeOK, QueueInv, FStorageTypeOK
<1> QED
  BY <1>2, <1>3, <1>4, <1>5, WriteStep, FlashEventStep, UninitStep, ReinitStep DEF Next, UsedAlone

\* The inductive invariant: the queue of nrf_fstorage_sd.c has one driver at a
\* time, whichever levels request operations and whatever interrupts whatever.
THEOREM QueueHasOneDriver ==
  ASSUME UsedAlone
  PROVE  Spec => []QueueInv
<1>1. Init => QueueInv
  BY InitQueueInv
<1>2. QueueInv /\ [Next]_vars => QueueInv'
  BY NextQueueInv
<1> QED
  BY <1>1, <1>2, PTL DEF Spec

\* An operation is reported as a success only when all of its chunks are in
\* the flash (queue_process, on_sys_evt of nrf_fstorage_sd.c).
THEOREM SuccessIsDone ==
  ASSUME UsedAlone
  PROVE  Spec => []ReportedMeansDone
<1>1. QueueInv => ReportedMeansDone
  BY DEF QueueInv, OrderInv
<1> QED
  BY <1>1, QueueHasOneDriver, PTL

\* Operations are reported in the order of their requests, each at most once,
\* though interrupts request some in the middle of other requests.
THEOREM ReportsAreInOrder ==
  ASSUME UsedAlone
  PROVE  Spec => []ReportedInOrder
<1>1. QueueInv => ReportedInOrder
  BY DEF QueueInv, OrderInv
<1> QED
  BY <1>1, QueueHasOneDriver, PTL

\* What the SoftDevice executes is the chunk of m_p_cur_op that comes next,
\* and then the module waits for its event and for no other.
THEOREM FlashIsCurrent ==
  ASSUME UsedAlone
  PROVE  Spec => []InFlightIsCurrent
<1>1. QueueInv => InFlightIsCurrent
  BY DEF QueueInv, ControlInv, FlashInv, InFlightIsCurrent, Ours, Free, Chunk
<1> QED
  BY <1>1, QueueHasOneDriver, PTL

-----------------------------------------------------------------------------
(* Nothing is left behind when no call is in progress.                     *)

\* A call that another one interrupts is here: waiting for its own part, for
\* the event of its operation, or in the event handler of the application.
Below == {"put", "start", "accepted", "done", "failed"}

\* The item taken from the FIFO is held.
Holding == {"execute", "done", "free", "freeFailed"}

PlacesInv ==
  \A i \in DOMAIN stack :
    /\ i # Len(stack) => stack[i].at \in Below
    /\ stack[i].at = "stop" => ready = <<>>
    /\ stack[i].at = "freeFailed" => ~running
    /\ stack[i].at \in {"failed", "reset"} => Refused

\* Whoever marks the queue as running drives it, or the SoftDevice will.
RunningInv == running /\ flash = Free => \E i \in DOMAIN stack : Drives(stack[i])

\* What waits in a queue that does not run will be started.
ReadyInv == ready # <<>> /\ ~running /\ ~Refused => \E i \in DOMAIN stack : stack[i].at = "start"
PendingInv == pending # <<>> => \E i \in DOMAIN stack : stack[i].at = "put" /\ stack[i].flag

\* The item taken is the only one and is held by the operation in progress.
OpenInv ==
  open # <<>> =>
    /\ ctxOuter
    /\ state = "executing" \/ \E i \in DOMAIN stack : stack[i].at \in Holding

RestInv ==
  /\ PlacesInv /\ RunningInv /\ ReadyInv /\ PendingInv /\ OpenInv
  /\ budget.rejects <= MaxRejects

\* The running call goes on.
LEMMA RestMoves ==
  ASSUME FStorageTypeOK, RestInv, stack # <<>>, UNCHANGED sdOn,
         NEW at \in Points, NEW flag \in BOOLEAN, Become(at, flag),
         at = "stop" => ready' = <<>>,
         at = "freeFailed" => ~running',
         at \in {"failed", "reset"} => Refused',
         Refused => Refused',
         budget'.rejects <= MaxRejects,
         running' /\ flash' = Free =>
           \/ at \in {"begin", "process", "stop", "execute", "issue", "failed", "reset",
                      "event", "done", "free", "continue"}
           \/ at = "accepted" /\ ~sdOn
           \/ running /\ flash = Free /\ ~Drives(Top),
         ready' # <<>> /\ ~running' /\ ~Refused' =>
           at = "start" \/ (ready # <<>> /\ ~running /\ Top.at # "start"),
         pending' # <<>> => pending # <<>> /\ ~(Top.at = "put" /\ Top.flag),
         open' # <<>> =>
           /\ ctxOuter'
           /\ \/ state' = "executing" \/ at \in Holding
              \/ open # <<>> /\ state # "executing" /\ Top.at \notin Holding
  PROVE  RestInv'
<1>1. /\ Len(stack) \in DOMAIN stack /\ Top = stack[Len(stack)]
      /\ DOMAIN stack' = DOMAIN stack
      /\ stack'[Len(stack)].at = at /\ stack'[Len(stack)].flag = flag
      /\ \A i \in DOMAIN stack : i # Len(stack) => stack'[i] = stack[i]
  BY TopFrame, StackBecomes
<1>2. PlacesInv'
  <2>1. ASSUME NEW i \in DOMAIN stack'
        PROVE  /\ i # Len(stack) => stack'[i].at \in Below
               /\ stack'[i].at = "stop" => ready' = <<>>
               /\ stack'[i].at = "freeFailed" => ~running'
               /\ stack'[i].at \in {"failed", "reset"} => Refused'
    <3>1. CASE i = Len(stack)
      BY <1>1, <3>1
    <3>2. CASE i # Len(stack)
      BY <1>1, <3>2 DEF RestInv, PlacesInv, Below
    <3> QED
      BY <3>1, <3>2
  <2>2. Len(stack') = Len(stack)
    BY DEF Become
  <2> QED
    BY <2>1, <2>2 DEF PlacesInv
<1>3. RunningInv'
  <2>1. ASSUME running', flash' = Free PROVE \E i \in DOMAIN stack' : Drives(stack[i])'
    <3>1. CASE running /\ flash = Free /\ ~Drives(Top)
      <4>1. PICK i \in DOMAIN stack : Drives(stack[i])
        BY <3>1 DEF RestInv, RunningInv
      <4>2. i # Len(stack)
        BY <1>1, <3>1, <4>1
      <4> QED
        BY <1>1, <4>1, <4>2 DEF Drives
    <3>2. CASE ~(running /\ flash = Free /\ ~Drives(Top))
      <4>1. \A i \in DOMAIN stack' : stack'[i].at = at => Drives(stack[i])'
        BY <2>1, <3>2 DEF Drives
      <4> QED
        BY <1>1, <4>1
    <3> QED
      BY <3>1, <3>2
  <2> QED
    BY <2>1 DEF RunningInv, Free, Chunk
<1>4. ReadyInv'
  BY <1>1 DEF RestInv, ReadyInv
<1>5. PendingInv'
  BY <1>1 DEF RestInv, PendingInv
<1>6. OpenInv'
  BY <1>1 DEF RestInv, OpenInv
<1> QED
  BY <1>2, <1>3, <1>4, <1>5, <1>6 DEF RestInv

\* The running call returns.
LEMMA RestReturns ==
  ASSUME FStorageTypeOK, RestInv, stack # <<>>, UNCHANGED <<sdOn, budget>>, Return,
         running' /\ flash' = Free => running /\ flash = Free /\ ~Drives(Top),
         ready' # <<>> /\ ~running' /\ ~Refused' => ready # <<>> /\ ~running /\ Top.at # "start",
         pending' # <<>> => pending # <<>> /\ Top.at # "put",
         open' # <<>> =>
           /\ ctxOuter'
           /\ state' = "executing" \/ (open # <<>> /\ state # "executing" /\ Top.at \notin Holding)
  PROVE  RestInv'
<1>1. /\ Len(stack) \in DOMAIN stack /\ Top = stack[Len(stack)]
      /\ \A i \in DOMAIN stack' : i \in DOMAIN stack /\ i # Len(stack) /\ stack'[i] = stack[i]
      /\ \A i \in DOMAIN stack : i # Len(stack) => i \in DOMAIN stack'
  <2>1. stack' = SubSeq(stack, 1, Len(stack) - 1) /\ Len(stack) \in Nat /\ DOMAIN stack = 1 .. Len(stack)
    BY TopFrame DEF Return
  <2>2. stack \in Seq(Frames)
    BY DEF FStorageTypeOK, Frames
  <2>3. DOMAIN stack' = 1 .. Len(stack) - 1
    BY <2>1
  <2> QED
    BY <2>1, <2>3, TopFrame, StackReturns
<1>2. PlacesInv'
  BY <1>1 DEF RestInv, PlacesInv, Below, Refused
<1>3. RunningInv'
  <2>1. ASSUME running', flash' = Free PROVE \E i \in DOMAIN stack' : Drives(stack[i])'
    <3>1. PICK i \in DOMAIN stack : Drives(stack[i])
      BY <2>1 DEF RestInv, RunningInv
    <3>2. i # Len(stack)
      BY <1>1, <2>1, <3>1
    <3> QED
      BY <1>1, <3>1, <3>2 DEF Drives
  <2> QED
    BY <2>1 DEF RunningInv, Free, Chunk
<1>4. ReadyInv'
  BY <1>1 DEF RestInv, ReadyInv, Refused
<1>5. PendingInv'
  BY <1>1 DEF RestInv, PendingInv
<1>6. OpenInv'
  BY <1>1 DEF RestInv, OpenInv
<1> QED
  BY <1>2, <1>3, <1>4, <1>5, <1>6 DEF RestInv

\* A call begins: the one it interrupts is where it may be.
LEMMA RestCalls ==
  ASSUME FStorageTypeOK, RestInv, stack = <<>> \/ Top.at \in Below,
         NEW level \in 1 .. 3, NEW at \in {"put", "event"}, NEW flag \in BOOLEAN,
         Call(level, at, flag),
         UNCHANGED <<sdOn, budget, running, ready, open, ctxOuter, state>>,
         flash' = Free => flash = Free \/ at = "event",
         pending' # <<>> => pending # <<>> \/ (at = "put" /\ flag)
  PROVE  RestInv'
<1>1. /\ DOMAIN stack' = 1 .. Len(stack) + 1 /\ DOMAIN stack = 1 .. Len(stack) /\ Len(stack) \in Nat
      /\ stack'[Len(stack) + 1].at = at /\ stack'[Len(stack) + 1].flag = flag
      /\ \A i \in DOMAIN stack : stack'[i] = stack[i]
  BY StackCalls DEF Points
<1>2. Len(stack) + 1 \in DOMAIN stack' /\ \A i \in DOMAIN stack : i \in DOMAIN stack'
  BY <1>1
<1>3. PlacesInv'
  <2>1. ASSUME NEW i \in DOMAIN stack, i = Len(stack) PROVE stack[i].at \in Below
    BY <2>1, <1>1, EmptySeq DEF Top
  <2>2. \A i \in DOMAIN stack' : i \in DOMAIN stack \/ i = Len(stack) + 1
    BY <1>1
  <2>3. Len(stack') = Len(stack) + 1
    BY <1>1 DEF Call
  <2> QED
    BY <1>1, <2>1, <2>2, <2>3 DEF RestInv, PlacesInv, Refused
<1>4. RunningInv'
  <2>1. ASSUME running', flash' = Free PROVE \E i \in DOMAIN stack' : Drives(stack[i])'
    <3>1. CASE at = "event"
      BY <1>1, <1>2, <3>1 DEF Drives
    <3>2. CASE at # "event"
      <4>1. PICK i \in DOMAIN stack : Drives(stack[i])
        BY <2>1, <3>2 DEF RestInv, RunningInv
      <4> QED
        BY <1>1, <1>2, <4>1 DEF Drives
    <3> QED
      BY <3>1, <3>2
  <2> QED
    BY <2>1 DEF RunningInv, Free, Chunk
<1>5. ReadyInv'
  BY <1>1, <1>2 DEF RestInv, ReadyInv, Refused
<1>6. PendingInv'
  BY <1>1, <1>2 DEF RestInv, PendingInv
<1>7. OpenInv'
  BY <1>1, <1>2 DEF RestInv, OpenInv
<1> QED
  BY <1>3, <1>4, <1>5, <1>6, <1>7 DEF RestInv


\* What the invariants say of the running call, in the terms of the steps.
LEMMA RunningRest ==
  ASSUME QueueInv, RestInv, stack # <<>>
  PROVE  /\ FStorageTypeOK /\ Top.flag \in BOOLEAN /\ ~paused /\ state \in {"idle", "executing"}
         /\ budget \in Budgets /\ budget.rejects <= MaxRejects
         /\ Top.at = "stop" => ready = <<>>
         /\ Top.at = "freeFailed" => ~running
         /\ Top.at \in {"failed", "reset"} => Refused
         /\ open # <<>> => ctxOuter
         /\ Drives(Top) => running /\ flash = Free /\ DriverInv(Top)
         /\ Drives(Top) /\ open # <<>> => state = "executing" \/ Top.at \in Holding
         /\ Top.at # "put" /\ pending # <<>> => \E i \in DOMAIN stack : i # Len(stack) /\ stack[i].at = "put"
         /\ UNCHANGED budget => (Refused => Refused') /\ budget'.rejects <= MaxRejects
<1>1. /\ FStorageTypeOK /\ Top.flag \in BOOLEAN /\ ~paused /\ state \in {"idle", "executing"}
      /\ budget \in Budgets /\ OneDriver /\ (Drives(Top) => DriverInv(Top))
  BY Running
<1>2. Len(stack) \in DOMAIN stack /\ Top = stack[Len(stack)]
  BY <1>1, TopFrame
<1>3. ASSUME Drives(Top), open # <<>>, state # "executing" PROVE Top.at \in Holding
  <2>1. PICK i \in DOMAIN stack : stack[i].at \in Holding
    BY <1>3 DEF RestInv, OpenInv
  <2>2. CASE i = Len(stack)
    BY <1>2, <2>1, <2>2
  <2>3. CASE i # Len(stack)
    <3>1. stack[i].at = "done"
      BY <2>1, <2>3 DEF RestInv, PlacesInv, Below, Holding
    <3>2. Drives(stack[i])
      BY <3>1 DEF Drives
    <3> QED
      BY <1>1, <1>2, <1>3, <2>3, <3>2 DEF OneDriver
  <2> QED
    BY <2>2, <2>3
<1> QED
  BY <1>1, <1>2, <1>3 DEF RestInv, PlacesInv, OpenInv, PendingInv, DriverInv, Refused

LEMMA RunRest ==
  ASSUME QueueInv, RestInv, Run
  PROVE  RestInv'
<1>1. \A at \in Unusual : ~Now(at)
  BY Running DEF Now
<1>2. ~(Busy \/ Request \/ Ask \/ Change \/ ChangeFails \/ Changed)
  BY <1>1 DEF Unusual, Busy, Request, Ask, Change, ChangeFails, Changed
<1>3. ~(EventIdle \/ EventPending)
  BY EventFinds DEF EventIdle, EventPending
<1> USE DEF Points
<1>4. CASE Put
  <2>1. stack # <<>> /\ Top.at = "put" /\ Become("start", Top.flag) /\ ~Drives(Top)
        /\ UNCHANGED <<sdVars, flags, cur, ctxOuter, opVars, flash, history>>
        /\ IF Top.flag THEN Publish ELSE UNCHANGED fifoVars
    BY <1>4 DEF Put, Now, Goto, Drives
  <2> QED
    BY <2>1, RunningRest, RestMoves DEF flags, history, fifoVars, Publish, Holding, RestInv, OpenInv
<1>5. CASE Start
  <2>1. stack # <<>> /\ Top.at = "start" /\ ~Drives(Top) /\ running'
        /\ (IF running THEN Return ELSE Become("begin", Top.flag))
        /\ UNCHANGED <<fifoVars, sdVars, initialized, state, retries, sdOn, paused, cur,
                       ctxOuter, opVars, flash, history>>
    BY <1>5 DEF Start, Now, Goto, Drives
  <2>2. CASE running
    BY <2>1, <2>2, RunningRest, RestReturns DEF history, fifoVars, Holding, RestInv, OpenInv
  <2>3. CASE ~running
    BY <2>1, <2>3, RunningRest, RestMoves DEF history, fifoVars, Holding, RestInv, OpenInv
  <2> QED
    BY <2>2, <2>3
<1>6. CASE Begin
  <2>1. stack # <<>> /\ Top.at = "begin" /\ Drives(Top) /\ Become("process", Top.flag)
        /\ UNCHANGED <<fifoVars, sdVars, flags, cur, ctxOuter, opVars, flash, history>>
    BY <1>6, RunningRest DEF Begin, Now, Goto, Drives
  <2> QED
    BY <2>1, RunningRest, RestMoves DEF flags, history, fifoVars, Holding
<1>7. CASE Process
  <2>1. stack # <<>> /\ Top.at = "process" /\ Drives(Top)
        /\ UNCHANGED <<sdVars, flags, opVars, flash, history>>
    BY <1>7 DEF Process, Now, Drives
  <2>2. state # "executing" => open = <<>>
    BY <2>1, RunningRest DEF Holding
  <2>3. CASE state # "idle" /\ Goto("execute") /\ UNCHANGED <<fifoVars, cur, ctxOuter>>
    BY <2>1, <2>3, RunningRest, RestMoves DEF flags, history, fifoVars, Holding, Goto
  <2>4. CASE state = "idle" /\ Take /\ cur' = Head(ready) /\ ctxOuter' = (open = <<>>) /\ Goto("execute")
    BY <2>1, <2>2, <2>4, RunningRest, RestMoves DEF flags, history, Take, Holding, Goto
  <2>5. CASE /\ state = "idle" /\ ready = <<>> /\ ctxOuter' = (open = <<>>)
             /\ Goto("stop") /\ UNCHANGED fifoVars
    BY <2>1, <2>2, <2>5, RunningRest, RestMoves DEF flags, history, fifoVars, Holding, Goto
  <2> QED
    BY <1>7, <2>3, <2>4, <2>5 DEF Process
<1>8. CASE Stop
  <2>1. stack # <<>> /\ Top.at = "stop" /\ Drives(Top) /\ Return /\ ~running'
        /\ UNCHANGED <<fifoVars, sdVars, initialized, state, retries, sdOn, paused, cur,
                       ctxOuter, opVars, flash, history>>
    BY <1>8 DEF Stop, Now, Drives
  <2> QED
    BY <2>1, RunningRest, RestReturns DEF history, fifoVars, Holding
<1>9. CASE Execute
  <2>1. stack # <<>> /\ Top.at = "execute" /\ Drives(Top) /\ Become("issue", Top.flag) /\ state' = "executing"
        /\ UNCHANGED <<initialized, running, retries, sdOn, paused>>
        /\ UNCHANGED <<fifoVars, sdVars, cur, ctxOuter, opVars, flash, history>>
    BY <1>9 DEF Execute, Now, Goto, SetState, Drives
  <2> QED
    BY <2>1, RunningRest, RestMoves DEF history, fifoVars, Holding
<1>10. CASE Issue
  <2>1. stack # <<>> /\ Top.at = "issue" /\ Drives(Top) /\ sdOn = sdEnabled
        /\ UNCHANGED <<fifoVars, sdVars, flags, cur, ctxOuter, opVars, accepted>>
    BY <1>10, Running DEF Issue, Now, Drives
  <2>2. running /\ flash = Free /\ state = "executing"
    BY <2>1, RunningRest DEF DriverInv
  <2>3. CASE sdEnabled /\ flash' = Chunk(cur, progress[cur]) /\ Goto("accepted") /\ UNCHANGED <<written, reports, budget>>
    <3>1. cur # None
      BY <1>10 DEF Issue
    <3>2. flash' # Free
      BY <2>3, <3>1 DEF Chunk, Free, None
    <3> QED
      BY <2>1, <2>2, <2>3, <3>2, RunningRest, RestMoves DEF flags, sdVars, fifoVars, Holding, Goto
  <2>4. CASE ~sdEnabled /\ Goto("accepted") /\ UNCHANGED <<flash, reports, budget>>
    BY <2>1, <2>2, <2>4, RunningRest, RestMoves DEF flags, sdVars, fifoVars, Holding, Goto
  <2>5. CASE Spend("rejects") /\ Report(FALSE) /\ Goto("failed") /\ UNCHANGED <<flash, written>>
    <3>1. budget'.rejects = budget.rejects - 1 /\ budget.rejects \in Nat /\ budget.rejects > 0
      BY <2>1, <2>5, RunningRest DEF Spend, Budgets
    <3>2. Refused' /\ budget'.rejects <= MaxRejects
      BY <2>1, <3>1, RunningRest, BoundsAssumption DEF Refused
    <3> QED
      BY <2>1, <2>2, <2>5, <3>2, RunningRest, RestMoves DEF flags, sdVars, fifoVars, Holding, Goto
  <2> QED
    BY <1>10, <2>2, <2>3, <2>4, <2>5 DEF Issue
<1>11. CASE Accepted
  <2>1. stack # <<>> /\ Top.at = "accepted" /\ (IF sdOn THEN Return ELSE Become("event", TRUE))
        /\ UNCHANGED <<fifoVars, sdVars, flags, cur, ctxOuter, opVars, flash, history>>
    BY <1>11 DEF Accepted, Now
  <2>2. CASE sdOn
    BY <2>1, <2>2, RunningRest, RestReturns DEF flags, history, fifoVars, Holding, Drives, RestInv, OpenInv
  <2>3. CASE ~sdOn
    <3>1. Drives(Top)
      BY <2>1, <2>3 DEF Drives
    <3>2. state = "executing"
      BY <2>1, <3>1, RunningRest DEF DriverInv
    <3> QED
      BY <2>1, <2>3, <3>1, <3>2, RunningRest, RestMoves DEF flags, history, fifoVars, Holding
  <2> QED
    BY <2>2, <2>3
<1>12. CASE FailedHandled
  <2>1. stack # <<>> /\ Top.at = "failed" /\ Drives(Top) /\ Become("reset", Top.flag)
        /\ UNCHANGED <<fifoVars, sdVars, flags, cur, ctxOuter, opVars, flash, history>>
    BY <1>12 DEF FailedHandled, Now, Goto, Drives
  <2> QED
    BY <2>1, RunningRest, RestMoves DEF flags, history, fifoVars, Holding
<1>13. CASE Reset
  <2>1. stack # <<>> /\ Top.at = "reset" /\ Drives(Top) /\ Become("freeFailed", Top.flag)
        /\ state' = "idle" /\ running' = FALSE
        /\ UNCHANGED <<fifoVars, sdVars, initialized, retries, sdOn, paused, cur, ctxOuter,
                       opVars, flash, history>>
    BY <1>13 DEF Reset, Now, Goto, Drives
  <2> QED
    BY <2>1, RunningRest, RestMoves DEF history, fifoVars, Holding
<1>14. CASE FreeFailed
  <2>1. stack # <<>> /\ Top.at = "freeFailed" /\ ~Drives(Top) /\ QueueFree /\ Return
        /\ UNCHANGED <<sdVars, flags, cur, ctxOuter, opVars, flash, history>>
    BY <1>14 DEF FreeFailed, Now, Drives
  <2>2. open' = <<>> /\ UNCHANGED <<pending, ready>>
    BY <2>1, RunningRest DEF QueueFree, Release, fifoVars
  <2> QED
    BY <2>1, <2>2, RunningRest, RestReturns DEF flags, history
<1>15. CASE EventSuccess \/ EventError
  <2>1. stack # <<>> /\ Top.at = "event" /\ Drives(Top) /\ state = "executing"
        /\ UNCHANGED <<fifoVars, running, sdOn, ctxOuter, flash, budget>>
        /\ \/ state' = "idle" /\ Become("done", Top.flag)
           \/ state' = state /\ Become("continue", Top.flag)
    BY <1>15 DEF EventSuccess, EventError, Now, Goto, Drives, Finish
  <2> QED
    BY <2>1, RunningRest, RestMoves DEF fifoVars, Holding
<1>16. CASE DoneHandled
  <2>1. stack # <<>> /\ Top.at = "done" /\ Drives(Top) /\ Become("free", Top.flag)
        /\ UNCHANGED <<fifoVars, sdVars, flags, cur, ctxOuter, opVars, flash, history>>
    BY <1>16 DEF DoneHandled, Now, Goto, Drives
  <2> QED
    BY <2>1, RunningRest, RestMoves DEF flags, history, fifoVars, Holding
<1>17. CASE FreeDone
  <2>1. stack # <<>> /\ Top.at = "free" /\ Drives(Top) /\ QueueFree /\ Become("continue", Top.flag)
        /\ UNCHANGED <<sdVars, flags, cur, ctxOuter, opVars, flash, history>>
    BY <1>17 DEF FreeDone, Now, Goto, Drives
  <2>2. open' = <<>> /\ UNCHANGED <<pending, ready>>
    BY <2>1, RunningRest DEF QueueFree, Release, fifoVars
  <2> QED
    BY <2>1, <2>2, RunningRest, RestMoves DEF flags, history
<1>18. CASE Continue
  <2>1. stack # <<>> /\ Top.at = "continue" /\ Drives(Top) /\ Become("process", Top.flag)
        /\ UNCHANGED <<fifoVars, sdVars, flags, cur, ctxOuter, opVars, flash, history>>
    BY <1>18, RunningRest DEF Continue, Now, Goto, Drives
  <2> QED
    BY <2>1, RunningRest, RestMoves DEF flags, history, fifoVars, Holding
<1> QED
  BY <1>2, <1>3, <1>4, <1>5, <1>6, <1>7, <1>8, <1>9, <1>10, <1>11, <1>12, <1>13, <1>14, <1>15,
     <1>16, <1>17, <1>18 DEF Run


LEMMA WriteRest ==
  ASSUME QueueInv, RestInv, Callers \subseteq {Thread}, NEW level \in 1 .. 3, Write(level)
  PROVE  RestInv'
<1>1. /\ AppAt(level) /\ Call(level, "put", pending = <<>>) /\ (pending = <<>>) \in BOOLEAN
      /\ UNCHANGED <<sdVars, flags, cur, ctxOuter, flash, written, reports, budget, ready, open>>
  BY DEF Write, Reserve
<1>2. FStorageTypeOK
  BY DEF QueueInv
<1>3. stack = <<>> \/ Top.at \in Below
  <2>1. ASSUME stack # <<>> PROVE Level \in 1 .. 3
    BY <1>2, <2>1, TopFrame DEF Level
  <2> QED
    BY <1>1, <2>1 DEF AppAt, InHandler, Now, Below, Thread
<1> QED
  BY <1>1, <1>2, <1>3, RestCalls DEF flags

LEMMA FlashEventRest ==
  ASSUME QueueInv, RestInv, NEW ok \in BOOLEAN, FlashEvent(ok)
  PROVE  RestInv'
<1>1. /\ flash # Free /\ flash' = Free /\ Call(SdEvent, "event", ok)
      /\ UNCHANGED <<fifoVars, sdVars, flags, cur, ctxOuter, opVars, accepted, reports, budget>>
  BY DEF FlashEvent
<1>2. FStorageTypeOK /\ running
  BY <1>1 DEF QueueInv, ControlInv, FlashInv
<1>3. ASSUME stack # <<>> PROVE Top.at \in Below
  <2>1. ~Drives(Top) /\ Top.at # "freeFailed" /\ Top.at \in Points \ Unusual
    BY <1>1, <1>2, <1>3, Running, RunningRest
  <2> QED
    BY <2>1 DEF Drives, Points, Unusual, Below
<1> QED
  BY <1>1, <1>2, <1>3, RestCalls DEF flags, fifoVars, SdEvent

\* With no call in progress and the operation over, the FIFO is empty.
LEMMA RestIsEmpty ==
  ASSUME QueueInv, RestInv, stack = <<>>
  PROVE  /\ pending = <<>> /\ (state = "idle" => open = <<>>)
         /\ running => flash # Free
         /\ ~running /\ ~Refused => ready = <<>>
BY EmptySeq DEF RestInv, RunningInv, ReadyInv, PendingInv, OpenInv

LEMMA UninitRest ==
  ASSUME QueueInv, RestInv, "uninit" \notin Environment, Uninit
  PROVE  RestInv'
<1>1. /\ stack = <<>> /\ stack' = <<>> /\ state = "idle" /\ ~running' /\ ready' = <<>> /\ pending' = pending
      /\ open' = IF open = <<>> THEN <<>> ELSE open \o ready
      /\ budget' = [budget EXCEPT !["resets"] = @ - 1]
  BY DEF Uninit, Drop, Spend
<1>2. pending' = <<>> /\ open' = <<>>
  BY <1>1, RestIsEmpty
<1>3. DOMAIN stack' = {}
  BY <1>1, EmptySeq
<1>4. budget'.rejects <= MaxRejects
  BY <1>1 DEF RestInv, QueueInv, AloneInv, Budgets
<1> QED
  BY <1>1, <1>2, <1>3, <1>4 DEF RestInv, PlacesInv, RunningInv, ReadyInv, PendingInv, OpenInv

LEMMA ReinitRest ==
  ASSUME QueueInv, RestInv, Reinit
  PROVE  RestInv'
<1>1. /\ stack = <<>> /\ stack' = <<>> /\ pending' = <<>> /\ ready' = <<>> /\ open' = <<>>
      /\ UNCHANGED <<running, flash, budget>>
  BY DEF Reinit, history
<1>2. DOMAIN stack' = {} /\ DOMAIN stack = {}
  BY <1>1, EmptySeq
<1>3. RunningInv'
  BY <1>1, <1>2 DEF RestInv, RunningInv, Free, Chunk
<1> QED
  BY <1>1, <1>2, <1>3 DEF RestInv, PlacesInv, ReadyInv, PendingInv, OpenInv

LEMMA StutterRest ==
  ASSUME RestInv,
         UNCHANGED <<fifoVars, stack, flags, ctxOuter, flash, budget>>
  PROVE  RestInv'
<1>1. /\ UNCHANGED <<pending, ready, open, stack, running, state, sdOn, ctxOuter, flash, budget>>
  BY DEF fifoVars, flags
<1>2. \A i \in DOMAIN stack : Drives(stack[i])' <=> Drives(stack[i])
  BY <1>1 DEF Drives
<1>3. RunningInv'
  BY <1>1, <1>2 DEF RestInv, RunningInv, Free, Chunk
<1> QED
  BY <1>1, <1>3 DEF RestInv, PlacesInv, ReadyInv, PendingInv, OpenInv, Refused

\* Operations are requested in the thread, and in the event handler.
UsedFromThread == UsedAlone /\ Callers \subseteq {Thread}

\* Whenever no call is in progress no operation is left behind in the queue
\* and no space is lost, and what the SoftDevice executes is the current
\* operation: nrf_fstorage_sd.c as a whole, for every size of the queue, of the
\* operations and of the retries.
THEOREM NothingIsLeftBehind ==
  ASSUME UsedFromThread
  PROVE  Spec => []FStorageInv
<1>1. Init => RestInv
  <2>1. ASSUME Init PROVE RestInv
    <3>1. DOMAIN stack = {} /\ budget.rejects <= MaxRejects
      BY <2>1, EmptySeq, BoundsAssumption DEF Init, Budget
    <3> QED
      BY <2>1, <3>1 DEF Init, FifoInit, RestInv, PlacesInv, RunningInv, ReadyInv, PendingInv, OpenInv
  <2> QED
    BY <2>1
<1>2. QueueInv /\ RestInv /\ [Next]_vars => RestInv'
  <2> SUFFICES ASSUME QueueInv, RestInv, [Next]_vars PROVE RestInv'
    OBVIOUS
  <2>1. CASE RequestChange \/ Suspend \/ OtherOperation
    <3>1. budget.changes = 0 /\ budget.others = 0
      BY DEF QueueInv, AloneInv
    <3>2. ~(budget["changes"] > 0) /\ ~(budget["others"] > 0)
      BY <3>1
    <3> QED
      BY <2>1, <3>2 DEF RequestChange, Suspend, OtherOperation, Spend
  <2>2. CASE Resume
    BY <2>2, StutterRest DEF Resume, history
  <2>3. CASE UNCHANGED vars
    BY <2>3, StutterRest DEF vars, history
  <2> QED
    BY <2>1, <2>2, <2>3, RunRest, WriteRest, FlashEventRest, UninitRest, ReinitRest
    DEF Next, UsedFromThread, UsedAlone
<1>3. QueueInv /\ RestInv => FStorageInv
  <2> SUFFICES ASSUME QueueInv, RestInv PROVE FStorageInv
    OBVIOUS
  <2>1. NothingWaits
    <3> SUFFICES ASSUME stack = <<>>, ~Refused
                 PROVE  /\ state = "idle" => ready = <<>> /\ ~running
                        /\ state = "pending" => flash # Free
                        /\ state = "executing" => flash = Chunk(cur, progress[cur])
      BY DEF NothingWaits, Quiet
    <3> QED
      BY RestIsEmpty DEF QueueInv, ControlInv, FlashInv, StateInv
  <2>2. SpaceReturned
    BY RestIsEmpty DEF SpaceReturned, Quiet
  <2> QED
    BY <2>1, <2>2 DEF FStorageInv, QueueInv, ControlInv, FlashInv, InFlightIsCurrent, Ours, Free, Chunk
<1>4. Spec => []QueueInv
  BY QueueHasOneDriver DEF UsedFromThread
<1> QED
  BY <1>1, <1>2, <1>3, <1>4, PTL DEF Spec

-----------------------------------------------------------------------------
(* Changes of the SoftDevice.  They come while operations are executed, and *)
(* others use the flash, so that there may be two drivers of the queue; no  *)
(* change is made under an operation all the same.                          *)

\* Operations are requested by the main loop and the event handler, which does
\* not request changes; none is refused, and the module is not uninitialized.
UsedWithChanges ==
  Callers \subseteq {Thread} /\ MaxRejects = 0 /\ MaxResets = 0 /\ "handler" \notin Environment

\* The call that takes an operation from the queue and starts it, the change of
\* the SoftDevice, and an event between the operation it ended and the next.
Starting == {"process", "execute", "issue"}
Requesting == {"request", "ask", "change", "changed"}
Between == {"done", "free", "continue", "process", "execute"}

\* A pause begins only when nothing is being started.
StartingInv ==
  \A i \in DOMAIN stack : stack[i].at \in Starting =>
    ~paused /\ \A j \in DOMAIN stack : i < j => stack[j].at \notin Requesting

\* Once all agreed to a change nothing but an event of others' runs before it.
ChangeInv ==
  \A i \in DOMAIN stack : stack[i].at = "change" =>
    state = "idle" /\ \A j \in DOMAIN stack : i < j => stack[j].at = "event"

\* An event is dealt with while the flash is free, and without interruption.
EventInv ==
  \A i \in DOMAIN stack : stack[i].at \in {"event", "changed"} => i = Len(stack) /\ flash = Free

\* The module knows whether the SoftDevice is enabled.
EnabledInv ==
  /\ ~sdEnabled => flash = Free
  /\ sdOn = sdEnabled \/ Now("changed")

\* What is issued is an operation in progress, although an event may end it.
IssueInv ==
  /\ \A i \in DOMAIN stack : stack[i].at = "issue" =>
       \/ state # "idle" \/ cur = None
       \/ \E j \in DOMAIN stack : i < j /\ stack[j].at \in Between
  /\ Ours(flash) => state # "idle"

UsualInv ==
  /\ FifoTypeOK /\ initialized /\ state \in {"idle", "pending", "executing"}
  /\ budget \in Budgets /\ budget.rejects = 0 /\ budget.resets = 0

FramesInv ==
  /\ stack \in Seq(Frames)
  /\ \A i \in DOMAIN stack : stack[i].at \notin {"failed", "reset", "freeFailed"}

ChangesInv ==
  UsualInv /\ FramesInv /\ StartingInv /\ ChangeInv /\ EventInv /\ EnabledInv /\ IssueInv

\* The running call goes on.
LEMMA ChangesMove ==
  ASSUME ChangesInv, stack # <<>>, UsualInv',
         NEW at \in Points \ {"failed", "reset", "freeFailed"}, NEW flag \in BOOLEAN,
         Become(at, flag),
         at \in {"event", "changed"} => flash' = Free,
         ~sdEnabled' => flash' = Free,
         sdOn' = sdEnabled' \/ at = "changed",
         at \in Starting => ~paused',
         paused' => paused \/ Top.at \in Requesting,
         at \in Requesting => paused \/ Top.at \in Requesting,
         at = "change" => state' = "idle",
         Top.at = "event" => state # "idle",
         at = "issue" => state' # "idle" \/ cur' = None,
         state' = "idle" /\ cur' # None /\ at \notin Between =>
           state = "idle" /\ cur # None /\ (Top.at \notin Between \/ paused),
         Ours(flash') => state' # "idle"
  PROVE  ChangesInv'
<1> DEFINE n == Len(stack)
<1>1. /\ n \in DOMAIN stack /\ n \in Nat /\ DOMAIN stack = 1 .. n /\ Top = stack[n]
  BY FrameOnTop DEF ChangesInv, FramesInv
<1>2. /\ stack' \in Seq(Frames) /\ DOMAIN stack' = DOMAIN stack /\ Len(stack') = n
      /\ stack'[n].at = at
      /\ \A i \in DOMAIN stack : i # n => stack'[i] = stack[i]
  BY FrameBecomes DEF ChangesInv, FramesInv
<1> HIDE DEF n
<1>3. FramesInv'
  BY <1>2 DEF ChangesInv, FramesInv
<1>4. StartingInv'
  <2>1. ASSUME NEW i \in DOMAIN stack, stack'[i].at \in Starting,
               NEW j \in DOMAIN stack, i < j
        PROVE  stack'[j].at \notin Requesting
    <3>1. i # n /\ stack'[i] = stack[i]
      BY <1>1, <1>2, <2>1
    <3>2. ~paused /\ stack[j].at \notin Requesting /\ Top.at \notin Requesting
      BY <1>1, <2>1, <3>1 DEF ChangesInv, StartingInv
    <3> QED
      BY <1>1, <1>2, <2>1, <3>2
  <2>2. ASSUME NEW i \in DOMAIN stack, stack'[i].at \in Starting
        PROVE  ~paused'
    <3>1. CASE i = n
      BY <1>2, <2>2, <3>1
    <3>2. CASE i # n
      BY <1>1, <1>2, <2>2, <3>2 DEF ChangesInv, StartingInv
    <3> QED
      BY <3>1, <3>2
  <2> QED
    BY <1>2, <2>1, <2>2 DEF StartingInv
<1>5. ChangeInv'
  <2>1. ASSUME NEW i \in DOMAIN stack, stack'[i].at = "change"
        PROVE  state' = "idle" /\ \A j \in DOMAIN stack : i < j => stack'[j].at = "event"
    <3>1. CASE i = n
      BY <1>1, <1>2, <2>1, <3>1
    <3>2. CASE i # n
      BY <1>1, <1>2, <2>1, <3>2 DEF ChangesInv, ChangeInv
    <3> QED
      BY <3>1, <3>2
  <2> QED
    BY <1>2, <2>1 DEF ChangeInv
<1>6. EventInv'
  <2>1. ASSUME NEW i \in DOMAIN stack, stack'[i].at \in {"event", "changed"}
        PROVE  i = n /\ flash' = Free
    <3>1. i = n
      BY <1>1, <1>2, <2>1 DEF ChangesInv, EventInv, n
    <3> QED
      BY <1>2, <2>1, <3>1
  <2> QED
    BY <1>2, <2>1 DEF EventInv, Free, Chunk
<1>7. EnabledInv'
  <2>1. at = "changed" => Now("changed")'
    BY <1>1, <1>2, EmptySeq DEF Now, Top
  <2> QED
    BY <2>1 DEF EnabledInv, Free, Chunk
<1>8. IssueInv'
  <2>1. ASSUME NEW i \in DOMAIN stack, stack'[i].at = "issue", state' = "idle", cur' # None
        PROVE  \E j \in DOMAIN stack : i < j /\ stack'[j].at \in Between
    <3>1. i # n /\ i < n /\ stack'[i] = stack[i]
      BY <1>1, <1>2, <2>1
    <3>2. CASE at \in Between
      BY <1>1, <1>2, <3>1, <3>2
    <3>3. CASE at \notin Between
      <4>1. state = "idle" /\ cur # None /\ (Top.at \notin Between \/ paused)
        BY <2>1, <3>3
      <4>2. ~paused
        BY <2>1, <3>1 DEF ChangesInv, StartingInv, Starting
      <4>3. PICK j \in DOMAIN stack : i < j /\ stack[j].at \in Between
        BY <2>1, <3>1, <4>1 DEF ChangesInv, IssueInv
      <4>4. j # n
        BY <1>1, <4>1, <4>2, <4>3
      <4> QED
        BY <1>2, <4>3, <4>4
    <3> QED
      BY <3>2, <3>3
  <2> QED
    BY <1>2, <2>1 DEF IssueInv, None, Ours
<1> QED
  BY <1>3, <1>4, <1>5, <1>6, <1>7, <1>8 DEF ChangesInv

\* The running call returns.
LEMMA ChangesReturn ==
  ASSUME ChangesInv, stack # <<>>, UsualInv', Return,
         UNCHANGED <<flash, sdEnabled, sdOn, cur>>,
         Top.at # "changed",
         paused' => paused \/ Top.at \in Requesting,
         state' = "idle" => state = "idle",
         Top.at = "event" => UNCHANGED state,
         Top.at \notin Between \/ paused
  PROVE  ChangesInv'
<1> DEFINE n == Len(stack)
<1>1. /\ n \in DOMAIN stack /\ n \in Nat /\ DOMAIN stack = 1 .. n /\ Top = stack[n]
  BY FrameOnTop DEF ChangesInv, FramesInv
<1>2. /\ stack' \in Seq(Frames) /\ Len(stack') = n - 1 /\ DOMAIN stack' = 1 .. n - 1
      /\ \A i \in DOMAIN stack' : i \in DOMAIN stack /\ i # n /\ stack'[i] = stack[i]
  BY FrameReturns DEF ChangesInv, FramesInv
<1> HIDE DEF n
<1>3. FramesInv'
  BY <1>2 DEF ChangesInv, FramesInv
<1>4. StartingInv'
  <2>1. ASSUME NEW i \in DOMAIN stack', stack'[i].at \in Starting
        PROVE  ~paused' /\ \A j \in DOMAIN stack' : i < j => stack'[j].at \notin Requesting
    <3>1. stack[i].at \in Starting /\ i \in DOMAIN stack /\ i < n
      BY <1>1, <1>2, <2>1
    <3>2. ~paused /\ \A j \in DOMAIN stack : i < j => stack[j].at \notin Requesting
      BY <3>1 DEF ChangesInv, StartingInv
    <3>3. Top.at \notin Requesting
      BY <1>1, <3>1, <3>2
    <3> QED
      BY <1>2, <3>2, <3>3
  <2> QED
    BY <2>1 DEF StartingInv
<1>5. ChangeInv'
  <2>1. ASSUME NEW i \in DOMAIN stack', stack'[i].at = "change"
        PROVE  state' = "idle" /\ \A j \in DOMAIN stack' : i < j => stack'[j].at = "event"
    <3>1. stack[i].at = "change" /\ i \in DOMAIN stack /\ i < n
      BY <1>1, <1>2, <2>1
    <3>2. state = "idle" /\ \A j \in DOMAIN stack : i < j => stack[j].at = "event"
      BY <3>1 DEF ChangesInv, ChangeInv
    <3>3. Top.at = "event"
      BY <1>1, <3>1, <3>2
    <3> QED
      BY <1>2, <3>2, <3>3
  <2> QED
    BY <2>1 DEF ChangeInv
<1>6. EventInv'
  <2>1. \A i \in DOMAIN stack' : stack'[i].at \notin {"event", "changed"}
    BY <1>2 DEF ChangesInv, EventInv, n
  <2> QED
    BY <2>1 DEF EventInv
<1>7. EnabledInv'
  <2>1. (~sdEnabled => flash = Free) /\ sdOn = sdEnabled
    BY DEF ChangesInv, EnabledInv, Now
  <2> QED
    BY <2>1 DEF EnabledInv, Free, Chunk
<1>8. IssueInv'
  <2>1. ASSUME NEW i \in DOMAIN stack', stack'[i].at = "issue", state' = "idle", cur' # None
        PROVE  \E j \in DOMAIN stack' : i < j /\ stack'[j].at \in Between
    <3>1. stack[i].at = "issue" /\ i \in DOMAIN stack /\ state = "idle" /\ cur # None
      BY <1>2, <2>1
    <3>2. ~paused
      BY <3>1 DEF ChangesInv, StartingInv, Starting
    <3>3. PICK j \in DOMAIN stack : i < j /\ stack[j].at \in Between
      BY <3>1 DEF ChangesInv, IssueInv
    <3>4. j # n
      BY <1>1, <3>2, <3>3
    <3>5. j \in DOMAIN stack'
      BY <1>1, <1>2, <3>3, <3>4
    <3> QED
      BY <1>2, <3>3, <3>5
  <2>2. Ours(flash') => state' # "idle"
    BY DEF ChangesInv, IssueInv
  <2> QED
    BY <2>1, <2>2 DEF IssueInv, None, Ours
<1> QED
  BY <1>3, <1>4, <1>5, <1>6, <1>7, <1>8 DEF ChangesInv

\* A call begins: an event, or a call of the application.
LEMMA ChangesCall ==
  ASSUME ChangesInv, UsualInv',
         NEW level \in 1 .. 3, NEW at \in {"put", "event", "request"}, NEW flag \in BOOLEAN,
         Call(level, at, flag),
         UNCHANGED <<state, paused, sdOn, sdEnabled, cur>>,
         at = "event" => flash # Free /\ flash' = Free,
         at # "event" =>
           UNCHANGED flash /\ (stack = <<>> \/ (at = "put" /\ Top.at = "done"))
  PROVE  ChangesInv'
<1> DEFINE n == Len(stack)
<1>1. /\ stack \in Seq(Frames) /\ stack' \in Seq(Frames) /\ Len(stack') = n + 1 /\ n \in Nat
      /\ DOMAIN stack' = 1 .. n + 1 /\ DOMAIN stack = 1 .. n
      /\ stack'[n + 1].at = at
      /\ \A i \in DOMAIN stack : stack'[i] = stack[i]
  <2>1. at \in Points
    BY DEF Points
  <2> QED
    BY <2>1, FrameCalls DEF ChangesInv, FramesInv
<1>2. at # "event" => DOMAIN stack = {} \/ (stack # <<>> /\ at = "put" /\ stack[n].at = "done")
  BY EmptySeq DEF Top
<1> HIDE DEF n
<1>3. FramesInv'
  BY <1>1 DEF ChangesInv, FramesInv
<1>4. StartingInv'
  <2>1. ASSUME NEW i \in DOMAIN stack', stack'[i].at \in Starting
        PROVE  ~paused' /\ \A j \in DOMAIN stack' : i < j => stack'[j].at \notin Requesting
    <3>1. i \in DOMAIN stack /\ stack[i].at \in Starting
      BY <1>1, <2>1 DEF Starting
    <3>2. ~paused /\ \A j \in DOMAIN stack : i < j => stack[j].at \notin Requesting
      BY <3>1 DEF ChangesInv, StartingInv
    <3>3. at \notin Requesting
      BY <1>2, <3>1 DEF Requesting
    <3> QED
      BY <1>1, <3>2, <3>3
  <2> QED
    BY <2>1 DEF StartingInv
<1>5. ChangeInv'
  <2>1. ASSUME NEW i \in DOMAIN stack', stack'[i].at = "change"
        PROVE  state' = "idle" /\ \A j \in DOMAIN stack' : i < j => stack'[j].at = "event"
    <3>1. i \in DOMAIN stack /\ stack[i].at = "change"
      BY <1>1, <2>1
    <3>2. state = "idle" /\ \A j \in DOMAIN stack : i < j => stack[j].at = "event"
      BY <3>1 DEF ChangesInv, ChangeInv
    <3>3. at = "event"
      BY <1>1, <1>2, <3>1, <3>2
    <3> QED
      BY <1>1, <3>2, <3>3
  <2> QED
    BY <2>1 DEF ChangeInv
<1>6. EventInv'
  <2>1. ASSUME NEW i \in DOMAIN stack', stack'[i].at \in {"event", "changed"}
        PROVE  i = n + 1 /\ flash' = Free
    <3>1. CASE i = n + 1
      BY <1>1, <2>1, <3>1
    <3>2. CASE i # n + 1
      <4>1. i \in DOMAIN stack /\ stack[i].at \in {"event", "changed"}
        BY <1>1, <2>1, <3>2
      <4>2. i = n /\ flash = Free
        BY <4>1 DEF ChangesInv, EventInv, n
      <4> QED
        BY <1>2, <4>1, <4>2
    <3> QED
      BY <3>1, <3>2
  <2> QED
    BY <1>1, <2>1 DEF EventInv, Free, Chunk
<1>7. EnabledInv'
  <2>1. ~Now("changed")
    <3>1. SUFFICES ASSUME Now("changed") PROVE FALSE
      OBVIOUS
    <3>2. n \in DOMAIN stack /\ stack[n].at = "changed"
      BY <3>1, FrameOnTop DEF Now, ChangesInv, FramesInv, n
    <3>3. flash = Free
      BY <3>2 DEF ChangesInv, EventInv
    <3> QED
      BY <1>2, <3>2, <3>3
  <2>2. (~sdEnabled => flash = Free) /\ sdOn = sdEnabled
    BY <2>1 DEF ChangesInv, EnabledInv
  <2> QED
    BY <2>2 DEF EnabledInv, Free, Chunk
<1>8. IssueInv'
  <2>1. ASSUME NEW i \in DOMAIN stack', stack'[i].at = "issue", state' = "idle", cur' # None
        PROVE  \E j \in DOMAIN stack' : i < j /\ stack'[j].at \in Between
    <3>1. i \in DOMAIN stack /\ stack[i].at = "issue"
      BY <1>1, <2>1
    <3>2. PICK j \in DOMAIN stack : i < j /\ stack[j].at \in Between
      BY <2>1, <3>1 DEF ChangesInv, IssueInv
    <3> QED
      BY <1>1, <3>2
  <2>2. Ours(flash') => state' # "idle"
    BY DEF ChangesInv, IssueInv, Ours, Free, Chunk
  <2> QED
    BY <2>1, <2>2 DEF IssueInv, None, Ours
<1> QED
  BY <1>3, <1>4, <1>5, <1>6, <1>7, <1>8 DEF ChangesInv

\* With no call in progress, nothing is said about calls.
LEMMA ChangesAtRest ==
  ASSUME ChangesInv, UsualInv', stack = <<>>, UNCHANGED <<stack, state, sdOn, sdEnabled>>,
         flash' = flash \/ (sdEnabled /\ ~Ours(flash'))
  PROVE  ChangesInv'
<1>1. DOMAIN stack' = {} /\ stack' = <<>> /\ stack' \in Seq(Frames)
  BY EmptySeq
<1>2. FramesInv' /\ StartingInv' /\ ChangeInv' /\ EventInv'
  BY <1>1 DEF FramesInv, StartingInv, ChangeInv, EventInv
<1>3. EnabledInv'
  BY <1>1 DEF ChangesInv, EnabledInv, Now, Free, Chunk
<1>4. IssueInv'
  <2>1. Ours(flash') => state' # "idle"
    BY DEF ChangesInv, IssueInv
  <2> QED
    BY <1>1, <2>1 DEF IssueInv, Ours, None
<1> QED
  BY <1>2, <1>3, <1>4 DEF ChangesInv

\* What the invariant says of the running call.
LEMMA ChangesTop ==
  ASSUME ChangesInv, stack # <<>>
  PROVE  /\ Top \in Frames /\ Top.at \in Points /\ Top.flag \in BOOLEAN /\ Top.level \in 1 .. 3
         /\ Top.at \notin {"failed", "reset", "freeFailed"}
         /\ Top.at \in Starting => ~paused
         /\ Top.at = "change" => state = "idle"
         /\ Top.at \in {"event", "changed"} => flash = Free
         /\ Top.at = "issue" => state # "idle" \/ cur = None
         /\ ~sdEnabled => flash = Free
         /\ Top.at # "changed" => sdOn = sdEnabled
         /\ Ours(flash) => state # "idle"
<1>1. /\ Len(stack) \in DOMAIN stack /\ Len(stack) \in Nat /\ DOMAIN stack = 1 .. Len(stack)
      /\ Top = stack[Len(stack)] /\ Top \in Frames
      /\ Top.at \in Points /\ Top.flag \in BOOLEAN /\ Top.level \in 1 .. 3
  BY FrameOnTop DEF ChangesInv, FramesInv
<1>2. Top.at \notin {"failed", "reset", "freeFailed"}
  BY <1>1 DEF ChangesInv, FramesInv
<1>3. Top.at \in Starting => ~paused
  BY <1>1 DEF ChangesInv, StartingInv
<1>4. Top.at = "change" => state = "idle"
  BY <1>1 DEF ChangesInv, ChangeInv
<1>5. Top.at \in {"event", "changed"} => flash = Free
  BY <1>1 DEF ChangesInv, EventInv
<1>6. Top.at = "issue" => state # "idle" \/ cur = None
  BY <1>1 DEF ChangesInv, IssueInv
<1>7. (~sdEnabled => flash = Free) /\ (Top.at # "changed" => sdOn = sdEnabled)
  BY DEF ChangesInv, EnabledInv, Now
<1>8. Ours(flash) => state # "idle"
  BY DEF ChangesInv, IssueInv
<1> QED
  BY <1>1, <1>2, <1>3, <1>4, <1>5, <1>6, <1>7, <1>8

\* The queue is used, or not.
LEMMA UsualStays ==
  ASSUME UsualInv, initialized', state' \in {"idle", "pending", "executing"},
         \/ UNCHANGED budget
         \/ Spend("changes") \/ Spend("others") \/ Spend("failures"),
         \/ \E o \in Items : Reserve(o)
         \/ Publish \/ Take \/ Release \/ UNCHANGED fifoVars
  PROVE  UsualInv'
<1>1. FifoTypeOK'
  BY FifoTypes DEF UsualInv
<1>2. budget' \in Budgets /\ budget'.rejects = 0 /\ budget'.resets = 0
  BY DEF UsualInv, Spend, Budgets
<1> QED
  BY <1>1, <1>2 DEF UsualInv

\* The steps that only go on: the queue is used, or the next event is found.
LEMMA GoesOn ==
  ASSUME ChangesInv, stack # <<>>, UsualInv',
         UNCHANGED <<state, paused, sdOn, sdEnabled, flash>>,
         \/ Top.at = "put" /\ Goto("start")
         \/ Top.at = "start" /\ Goto("begin")
         \/ Top.at = "begin" /\ ~paused /\ Goto("process")
         \/ Top.at = "process" /\ (Goto("execute") \/ (cur' = None /\ Goto("stop")))
         \/ Top.at = "event" /\ state # "idle" /\ Goto("continue")
         \/ Top.at = "done" /\ Goto("free")
         \/ Top.at = "free" /\ Goto("continue")
         \/ Top.at = "continue" /\ (IF paused THEN Goto("request") ELSE Goto("process"))
         \/ Top.at = "request" /\ Goto("ask"),
         UNCHANGED cur \/ Top.at = "process"
  PROVE  ChangesInv'
<1> USE DEF Goto
<1>1. /\ Top.flag \in BOOLEAN /\ (sdOn = sdEnabled \/ Top.at = "changed")
      /\ ~sdEnabled => flash = Free
      /\ Top.at = "process" => ~paused
      /\ Ours(flash) => state # "idle"
  BY ChangesTop DEF Starting
<1>2. {"start", "begin", "process", "execute", "stop", "continue", "free", "request", "ask"}
        \subseteq Points \ {"failed", "reset", "freeFailed"}
  BY DEF Points
<1>3. CASE Top.at = "put" /\ Goto("start")
  BY <1>1, <1>2, <1>3, ChangesMove DEF Starting, Requesting, Between
<1>4. CASE Top.at = "start" /\ Goto("begin")
  BY <1>1, <1>2, <1>4, ChangesMove DEF Starting, Requesting, Between
<1>5. CASE Top.at = "begin" /\ Goto("process") /\ ~paused
  BY <1>1, <1>2, <1>5, ChangesMove DEF Starting, Requesting, Between
<1>6. CASE Top.at = "process" /\ Goto("execute")
  BY <1>1, <1>2, <1>6, ChangesMove DEF Starting, Requesting, Between
<1>7. CASE Top.at = "process" /\ Goto("stop") /\ cur' = None
  BY <1>1, <1>2, <1>7, ChangesMove DEF Starting, Requesting, Between
<1>8. CASE Top.at = "event" /\ Goto("continue") /\ state # "idle"
  BY <1>1, <1>2, <1>8, ChangesMove DEF Starting, Requesting, Between
<1>9. CASE Top.at = "done" /\ Goto("free")
  BY <1>1, <1>2, <1>9, ChangesMove DEF Starting, Requesting, Between
<1>10. CASE Top.at = "free" /\ Goto("continue")
  BY <1>1, <1>2, <1>10, ChangesMove DEF Starting, Requesting, Between
<1>11. CASE Top.at = "continue" /\ Goto("request") /\ paused
  BY <1>1, <1>2, <1>11, ChangesMove DEF Starting, Requesting, Between
<1>12. CASE Top.at = "continue" /\ Goto("process") /\ ~paused
  BY <1>1, <1>2, <1>12, ChangesMove DEF Starting, Requesting, Between
<1>13. CASE Top.at = "request" /\ Goto("ask")
  BY <1>1, <1>2, <1>13, ChangesMove DEF Starting, Requesting, Between
<1> QED
  BY <1>3, <1>4, <1>5, <1>6, <1>7, <1>8, <1>9, <1>10, <1>11, <1>12, <1>13

LEMMA RunChanges ==
  ASSUME ChangesInv, Run
  PROVE  ChangesInv'
<1> USE DEF Goto
<1>1. UsualInv
  BY DEF ChangesInv
<1>2. /\ initialized /\ budget.rejects = 0 /\ budget.resets = 0
      /\ state \in {"idle", "pending", "executing"}
  BY <1>1 DEF UsualInv
<1>3. stack # <<>>
  BY DEF Run, Now, Put, Start, Begin, Process, Stop, Execute, Issue, Accepted, Busy,
         FailedHandled, Reset, FreeFailed, EventIdle, EventPending, EventSuccess, EventError,
         DoneHandled, FreeDone, Continue, Request, Ask, Change, ChangeFails, Changed
<1>4. ~(FailedHandled \/ Reset \/ FreeFailed)
  BY <1>3, ChangesTop DEF FailedHandled, Reset, FreeFailed, Now
<1>5. {"accepted", "busy", "event", "done", "continue", "issue", "change", "changed", "process"}
        \subseteq Points \ {"failed", "reset", "freeFailed"}
  BY DEF Points
<1>6. Top.flag \in BOOLEAN
  BY <1>3, ChangesTop
<1>7. CASE Put
  <2>1. UsualInv'
    BY <1>1, <1>2, <1>7, UsualStays DEF Put, flags, history
  <2>2. Top.at = "put" /\ Goto("start") /\ UNCHANGED <<state, paused, sdOn, sdEnabled, flash, cur>>
    BY <1>7 DEF Put, Now, flags, sdVars
  <2> QED
    BY <1>3, <2>1, <2>2, GoesOn
<1>8. CASE Start
  <2>1. UsualInv'
    BY <1>1, <1>2, <1>8, UsualStays DEF Start, history
  <2>2. /\ Top.at = "start" /\ (Return \/ Goto("begin"))
        /\ UNCHANGED <<state, paused, sdOn, sdEnabled, flash, cur>>
    BY <1>8 DEF Start, Now, sdVars
  <2>3. CASE Goto("begin")
    BY <1>3, <2>1, <2>2, <2>3, GoesOn
  <2>4. CASE Return
    BY <1>3, <2>1, <2>2, <2>4, ChangesReturn DEF Between
  <2> QED
    BY <2>2, <2>3, <2>4
<1>9. CASE Begin
  <2>1. UsualInv'
    BY <1>1, <1>2, <1>9, UsualStays DEF Begin, flags, history
  <2>2. /\ Top.at = "begin" /\ IF paused THEN Return ELSE Goto("process")
        /\ UNCHANGED <<state, paused, sdOn, sdEnabled, flash, cur>>
    BY <1>9 DEF Begin, Now, flags, sdVars
  <2>3. CASE ~paused
    BY <1>3, <2>1, <2>2, <2>3, GoesOn
  <2>4. CASE paused
    BY <1>3, <2>1, <2>2, <2>4, ChangesReturn
  <2> QED
    BY <2>3, <2>4
<1>10. CASE Process
  <2>1. UsualInv'
    BY <1>1, <1>2, <1>10, UsualStays DEF Process, flags, history
  <2>2. /\ Top.at = "process" /\ (Goto("execute") \/ (cur' = None /\ Goto("stop")))
        /\ UNCHANGED <<state, paused, sdOn, sdEnabled, flash>>
    BY <1>10 DEF Process, Now, flags, sdVars
  <2> QED
    BY <1>3, <2>1, <2>2, GoesOn
<1>11. CASE Stop
  <2>1. UsualInv'
    BY <1>1, <1>2, <1>11, UsualStays DEF Stop, history
  <2>2. Top.at = "stop" /\ Return /\ UNCHANGED <<state, paused, sdOn, sdEnabled, flash, cur>>
    BY <1>11 DEF Stop, Now, sdVars
  <2> QED
    BY <1>3, <2>1, <2>2, ChangesReturn DEF Between
<1>12. CASE Execute
  <2>1. UsualInv'
    BY <1>1, <1>2, <1>12, UsualStays DEF Execute, SetState, history
  <2>2. /\ Top.at = "execute" /\ Goto("issue") /\ state' = "executing"
        /\ UNCHANGED <<paused, sdOn, sdEnabled, flash, cur>>
    BY <1>12 DEF Execute, SetState, Now, sdVars
  <2> QED
    BY <1>3, <1>5, <1>6, <2>1, <2>2, ChangesTop, ChangesMove DEF Starting, Requesting
<1>13. CASE Issue
  <2>1. /\ Top.at = "issue" /\ cur # None /\ ~Spend("rejects")
        /\ UNCHANGED <<fifoVars, initialized, state, paused, sdOn, sdEnabled, cur>>
    BY <1>2, <1>13 DEF Issue, Now, flags, sdVars, Spend
  <2>2. /\ UNCHANGED budget
        /\ \/ Goto("accepted") /\ flash' # flash /\ sdEnabled
           \/ Goto("accepted") /\ UNCHANGED flash
           \/ Goto("busy") /\ UNCHANGED flash
    BY <1>13, <2>1 DEF Issue
  <2>3. UsualInv'
    BY <1>1, <1>2, <2>1, <2>2, UsualStays
  <2>4. /\ state # "idle" /\ sdOn = sdEnabled /\ (~sdEnabled => flash = Free)
    BY <1>3, <2>1, ChangesTop
  <2>5. CASE Goto("accepted")
    BY <1>3, <1>5, <1>6, <2>1, <2>2, <2>3, <2>4, <2>5, ChangesMove DEF Starting, Requesting, Between
  <2>6. CASE Goto("busy")
    BY <1>3, <1>5, <1>6, <2>1, <2>2, <2>3, <2>4, <2>6, ChangesMove DEF Starting, Requesting, Between
  <2> QED
    BY <2>2, <2>5, <2>6
<1>14. CASE Accepted
  <2>1. UsualInv'
    BY <1>1, <1>2, <1>14, UsualStays DEF Accepted, flags, history
  <2>2. /\ Top.at = "accepted" /\ IF sdOn THEN Return ELSE Become("event", TRUE)
        /\ UNCHANGED <<state, paused, sdOn, sdEnabled, flash, cur>>
    BY <1>14 DEF Accepted, Now, flags, sdVars
  <2>3. CASE sdOn
    BY <1>3, <2>1, <2>2, <2>3, ChangesReturn DEF Between
  <2>4. CASE ~sdOn
    <3>1. flash = Free /\ sdOn = sdEnabled /\ (Ours(flash) => state # "idle")
      BY <1>3, <2>2, <2>4, ChangesTop
    <3> QED
      BY <1>3, <1>5, <2>1, <2>2, <2>4, <3>1, ChangesMove DEF Starting, Requesting, Between
  <2> QED
    BY <2>3, <2>4
<1>15. CASE Busy
  <2>1. UsualInv'
    BY <1>1, <1>2, <1>15, UsualStays DEF Busy, SetState, history
  <2>2. /\ Top.at = "busy" /\ Return /\ state' = "pending"
        /\ UNCHANGED <<paused, sdOn, sdEnabled, flash, cur>>
    BY <1>15 DEF Busy, SetState, Now, sdVars
  <2> QED
    BY <1>3, <2>1, <2>2, ChangesReturn DEF Between
<1>16. CASE EventIdle
  <2>1. UsualInv'
    BY <1>1, <1>2, <1>16, UsualStays DEF EventIdle, flags, history
  <2>2. Top.at = "event" /\ Return /\ UNCHANGED <<state, paused, sdOn, sdEnabled, flash, cur>>
    BY <1>16 DEF EventIdle, Now, flags, sdVars
  <2> QED
    BY <1>3, <2>1, <2>2, ChangesReturn DEF Between
<1>17. CASE EventPending
  <2>1. UsualInv'
    BY <1>1, <1>2, <1>17, UsualStays DEF EventPending, flags, history
  <2>2. /\ Top.at = "event" /\ state # "idle" /\ Goto("continue")
        /\ UNCHANGED <<state, paused, sdOn, sdEnabled, flash, cur>>
    BY <1>17 DEF EventPending, Now, flags, sdVars
  <2> QED
    BY <1>3, <2>1, <2>2, GoesOn
<1>18. CASE EventSuccess \/ EventError
  <2>1. /\ Top.at = "event" /\ state = "executing" /\ state' \in {"idle", "executing"}
        /\ UNCHANGED <<fifoVars, initialized, budget>>
        /\ UNCHANGED <<paused, sdOn, sdEnabled, flash, cur>>
        /\ Goto("done") \/ (Goto("continue") /\ UNCHANGED state)
    BY <1>18 DEF EventSuccess, EventError, Finish, Now, sdVars, history
  <2>2. UsualInv'
    BY <1>1, <1>2, <2>1, UsualStays
  <2>3. flash = Free /\ sdOn = sdEnabled /\ ~Ours(flash)
    BY <1>3, <2>1, ChangesTop DEF Ours, Free, Chunk
  <2>4. CASE Goto("done")
    BY <1>3, <1>5, <1>6, <2>1, <2>2, <2>3, <2>4, ChangesMove DEF Starting, Requesting, Between
  <2>5. CASE Goto("continue") /\ UNCHANGED state
    BY <1>3, <2>1, <2>2, <2>5, GoesOn
  <2> QED
    BY <2>1, <2>4, <2>5
<1>19. CASE DoneHandled
  <2>1. UsualInv'
    BY <1>1, <1>2, <1>19, UsualStays DEF DoneHandled, flags, history
  <2>2. Top.at = "done" /\ Goto("free") /\ UNCHANGED <<state, paused, sdOn, sdEnabled, flash, cur>>
    BY <1>19 DEF DoneHandled, Now, flags, sdVars
  <2> QED
    BY <1>3, <2>1, <2>2, GoesOn
<1>20. CASE FreeDone
  <2>1. UsualInv'
    BY <1>1, <1>2, <1>20, UsualStays DEF FreeDone, QueueFree, flags, history
  <2>2. Top.at = "free" /\ Goto("continue") /\ UNCHANGED <<state, paused, sdOn, sdEnabled, flash, cur>>
    BY <1>20 DEF FreeDone, Now, flags, sdVars
  <2> QED
    BY <1>3, <2>1, <2>2, GoesOn
<1>21. CASE Continue
  <2>1. UsualInv'
    BY <1>1, <1>2, <1>21, UsualStays DEF Continue, flags, history
  <2>2. /\ Top.at = "continue"
        /\ \/ ~paused /\ Goto("process")
           \/ paused /\ Goto("request")
           \/ paused /\ Return
        /\ UNCHANGED <<state, paused, sdOn, sdEnabled, flash, cur>>
    BY <1>21 DEF Continue, Now, flags, sdVars
  <2>3. CASE ~paused /\ Goto("process")
    BY <1>3, <2>1, <2>2, <2>3, GoesOn
  <2>4. CASE paused /\ Goto("request")
    BY <1>3, <2>1, <2>2, <2>4, GoesOn
  <2>5. CASE paused /\ Return
    BY <1>3, <2>1, <2>2, <2>5, ChangesReturn
  <2> QED
    BY <2>2, <2>3, <2>4, <2>5
<1>22. CASE Request
  <2>1. UsualInv'
    BY <1>1, <1>2, <1>22, UsualStays DEF Request, flags, history
  <2>2. Top.at = "request" /\ Goto("ask") /\ UNCHANGED <<state, paused, sdOn, sdEnabled, flash, cur>>
    BY <1>22 DEF Request, SdRequest, Now, flags
  <2> QED
    BY <1>3, <2>1, <2>2, GoesOn
<1>23. CASE Ask
  <2>1. UsualInv'
    BY <1>1, <1>2, <1>23, UsualStays DEF Ask, history
  <2>2. /\ Top.at = "ask" /\ paused' /\ IF state = "idle" THEN Goto("change") ELSE Return
        /\ UNCHANGED <<state, sdOn, sdEnabled, flash, cur>>
    BY <1>23 DEF Ask, MayChange, Now, sdVars
  <2>3. sdOn = sdEnabled /\ (~sdEnabled => flash = Free) /\ (Ours(flash) => state # "idle")
    BY <1>3, <2>2, ChangesTop
  <2>4. CASE state = "idle"
    BY <1>3, <1>5, <1>6, <2>1, <2>2, <2>3, <2>4, ChangesMove DEF Starting, Requesting, Between
  <2>5. CASE state # "idle"
    BY <1>3, <2>1, <2>2, <2>5, ChangesReturn DEF Requesting, Between
  <2> QED
    BY <2>4, <2>5
<1>24. CASE Change
  <2>1. UsualInv'
    BY <1>1, <1>2, <1>24, UsualStays DEF Change, flags, history
  <2>2. /\ Top.at = "change" /\ Goto("changed") /\ flash' = (IF sdEnabled THEN Free ELSE flash)
        /\ UNCHANGED <<state, paused, sdOn, cur>>
    BY <1>24 DEF Change, Now, flags
  <2>3. flash' = Free /\ ~Ours(flash')
    BY <1>3, <2>2, ChangesTop DEF Ours, Free, Chunk
  <2> QED
    BY <1>3, <1>5, <1>6, <2>1, <2>2, <2>3, ChangesMove DEF Starting, Requesting, Between
<1>25. CASE ChangeFails
  <2>1. UsualInv'
    BY <1>1, <1>2, <1>25, UsualStays DEF ChangeFails, flags
  <2>2. Top.at = "change" /\ Return /\ UNCHANGED <<state, paused, sdOn, sdEnabled, flash, cur>>
    BY <1>25 DEF ChangeFails, SdEnableFails, Now, flags, sdVars
  <2> QED
    BY <1>3, <2>1, <2>2, ChangesReturn DEF Between
<1>26. CASE Changed
  <2>1. UsualInv'
    BY <1>1, <1>2, <1>26, UsualStays DEF Changed, history
  <2>2. /\ Top.at = "changed" /\ Goto("process") /\ ~paused' /\ sdOn' = sdEnabled
        /\ UNCHANGED <<state, sdEnabled, flash, cur>>
    BY <1>26 DEF Changed, Now, sdVars
  <2>3. (~sdEnabled => flash = Free) /\ (Ours(flash) => state # "idle")
    BY <1>3, ChangesTop
  <2> QED
    BY <1>3, <1>5, <1>6, <2>1, <2>2, <2>3, ChangesMove DEF Starting, Requesting, Between
<1> QED
  BY <1>4, <1>7, <1>8, <1>9, <1>10, <1>11, <1>12, <1>13, <1>14, <1>15, <1>16, <1>17, <1>18,
     <1>19, <1>20, <1>21, <1>22, <1>23, <1>24, <1>25, <1>26 DEF Run

LEMMA OthersChanges ==
  ASSUME ChangesInv, UsedWithChanges, Next, ~Run
  PROVE  ChangesInv'
<1>1. UsualInv
  BY DEF ChangesInv
<1>2. /\ initialized /\ budget.rejects = 0 /\ budget.resets = 0
      /\ state \in {"idle", "pending", "executing"}
  BY <1>1 DEF UsualInv
<1>3. ASSUME NEW level \in 1 .. 3, Write(level) PROVE ChangesInv'
  <2>1. /\ Call(level, "put", pending = <<>>) /\ AppAt(level) /\ (\E o \in Items : Reserve(o))
        /\ UNCHANGED <<initialized, state, paused, sdOn, sdEnabled, cur, flash, budget>>
    BY <1>3 DEF Write, flags, sdVars
  <2>2. UsualInv'
    BY <1>1, <1>2, <2>1, UsualStays
  <2>3. stack = <<>> \/ (stack # <<>> /\ Top.at = "done")
    <3>1. stack # <<>> => Top.level \in 1 .. 3 /\ Top.at # "failed"
      BY ChangesTop
    <3>2. CASE level \in Callers /\ (stack = <<>> \/ Level < level)
      <4>1. level = 1
        BY <3>2 DEF UsedWithChanges, Thread
      <4> QED
        BY <3>1, <3>2, <4>1 DEF Level
    <3>3. CASE InHandler
      BY <3>1, <3>3 DEF InHandler, Now
    <3> QED
      BY <2>1, <3>2, <3>3 DEF AppAt
  <2> QED
    BY <2>1, <2>2, <2>3, ChangesCall
<1>4. ASSUME NEW ok \in BOOLEAN, FlashEvent(ok) PROVE ChangesInv'
  <2>1. /\ Call(2, "event", ok) /\ flash # Free /\ flash' = Free
        /\ UNCHANGED <<fifoVars, initialized, state, paused, sdOn, sdEnabled, cur, budget>>
    BY <1>4 DEF FlashEvent, SdEvent, flags, sdVars
  <2>2. UsualInv'
    BY <1>1, <1>2, <2>1, UsualStays
  <2> QED
    BY <2>1, <2>2, ChangesCall
<1>5. CASE RequestChange
  <2>1. /\ stack = <<>> /\ Call(1, "request", FALSE) /\ Spend("changes")
        /\ UNCHANGED <<fifoVars, initialized, state, paused, sdOn, sdEnabled, cur, flash>>
    BY <1>5 DEF RequestChange, UsedWithChanges, Level, Thread, flags, sdVars
  <2>2. UsualInv'
    BY <1>1, <1>2, <2>1, UsualStays
  <2>3. 1 \in 1 .. 3 /\ "request" \in {"put", "event", "request"} /\ FALSE \in BOOLEAN
    OBVIOUS
  <2> QED
    BY <2>1, <2>2, <2>3, ChangesCall
<1>6. CASE Suspend \/ Resume
  <2>1. /\ stack = <<>> /\ (Spend("changes") \/ UNCHANGED budget)
        /\ UNCHANGED <<fifoVars, stack, initialized, state, sdOn, sdEnabled, flash>>
    BY <1>6 DEF Suspend, Resume, SdSuspend, SdResume, flags, history
  <2>2. UsualInv'
    BY <1>1, <1>2, <2>1, UsualStays
  <2> QED
    BY <2>1, <2>2, ChangesAtRest
<1>7. CASE OtherOperation
  <2>1. /\ stack = <<>> /\ Spend("others") /\ sdEnabled /\ ~Ours(flash')
        /\ UNCHANGED <<fifoVars, stack, initialized, state, sdOn, sdEnabled>>
    BY <1>7 DEF OtherOperation, flags, sdVars, Ours, Other, Chunk
  <2>2. UsualInv'
    BY <1>1, <1>2, <2>1, UsualStays
  <2> QED
    BY <2>1, <2>2, ChangesAtRest
<1>8. ~Uninit /\ ~Reinit
  BY <1>2 DEF Uninit, Reinit, Spend
<1> QED
  BY <1>3, <1>4, <1>5, <1>6, <1>7, <1>8 DEF Next

LEMMA InitChanges ==
  ASSUME UsedWithChanges, Init
  PROVE  ChangesInv
<1>1. FifoTypeOK /\ stack \in Seq(Frames) /\ DOMAIN stack = {}
  BY EmptySeq DEF Init, FifoInit, FifoTypeOK
<1>2. UsualInv
  BY <1>1, BoundsAssumption DEF Init, UsedWithChanges, UsualInv, Budget, Budgets
<1>3. FramesInv /\ StartingInv /\ ChangeInv /\ EventInv
  BY <1>1 DEF FramesInv, StartingInv, ChangeInv, EventInv
<1>4. EnabledInv /\ IssueInv
  BY <1>1 DEF Init, EnabledInv, IssueInv, Ours, Free, Chunk
<1> QED
  BY <1>2, <1>3, <1>4 DEF ChangesInv

LEMMA StutterChanges ==
  ASSUME ChangesInv, UNCHANGED vars
  PROVE  ChangesInv'
<1>1. UNCHANGED <<pending, ready, open, sdEnabled, sdOn, stack, initialized, state, paused, cur,
                  flash, budget>>
  BY DEF vars, fifoVars, sdVars, flags, history
<1>2. UsualInv' /\ FramesInv' /\ StartingInv'
  BY <1>1 DEF ChangesInv, UsualInv, FifoTypeOK, FramesInv, StartingInv
<1>3. ChangeInv' /\ EventInv' /\ EnabledInv' /\ IssueInv'
  BY <1>1 DEF ChangesInv, ChangeInv, EventInv, EnabledInv, IssueInv, Now, Top, Free, Chunk, Ours, None
<1> QED
  BY <1>2, <1>3 DEF ChangesInv

\* Only the change itself enables or disables the SoftDevice, and only
\* queue_process takes an operation from the queue.
LEMMA WhoChanges ==
  ASSUME ChangesInv, UsedWithChanges, [Next]_vars
  PROVE  /\ sdEnabled' # sdEnabled => Change
         /\ Process \/ open' = open \/ open' = <<>>
<1>1. CASE UNCHANGED vars
  BY <1>1 DEF vars, fifoVars, sdVars
<1>2. CASE Put \/ Start \/ Begin \/ Stop \/ Execute \/ Issue
  BY <1>2 DEF Put, Start, Begin, Stop, Execute, Issue, Publish, fifoVars, sdVars
<1>3. CASE Accepted \/ Busy \/ FailedHandled \/ Reset \/ FreeFailed \/ EventIdle \/ EventPending
  BY <1>3 DEF Accepted, Busy, FailedHandled, Reset, FreeFailed, EventIdle, EventPending,
              QueueFree, Release, fifoVars, sdVars
<1>4. CASE EventSuccess \/ EventError \/ DoneHandled \/ FreeDone \/ Continue
  BY <1>4 DEF EventSuccess, EventError, DoneHandled, FreeDone, Continue, QueueFree, Release,
              fifoVars, sdVars
<1>5. CASE Request \/ Ask \/ ChangeFails \/ Changed
  BY <1>5 DEF Request, SdRequest, Ask, ChangeFails, SdEnableFails, Changed, fifoVars, sdVars
<1>6. CASE Change
  BY <1>6 DEF Change, fifoVars
<1>7. CASE Process
  BY <1>7 DEF Process, sdVars
<1>8. ASSUME NEW level \in 1 .. 3, Write(level) PROVE sdEnabled' = sdEnabled /\ open' = open
  BY <1>8 DEF Write, Reserve, sdVars
<1>9. ASSUME NEW ok \in BOOLEAN, FlashEvent(ok) PROVE sdEnabled' = sdEnabled /\ open' = open
  BY <1>9 DEF FlashEvent, fifoVars, sdVars
<1>10. CASE RequestChange \/ Suspend \/ Resume \/ OtherOperation
  BY <1>10 DEF RequestChange, Suspend, Resume, OtherOperation, SdSuspend, SdResume, fifoVars, sdVars
<1>11. ~Uninit /\ ~Reinit
  <2>1. initialized /\ budget.resets = 0
    BY DEF ChangesInv, UsualInv
  <2> QED
    BY <2>1 DEF Uninit, Reinit, Spend
<1> QED
  BY <1>1, <1>2, <1>3, <1>4, <1>5, <1>6, <1>7, <1>8, <1>9, <1>10, <1>11 DEF Next, Run

\* The SoftDevice is enabled and disabled only with no flash operation of
\* fstorage under way, and while that is awaited no operation is taken from
\* the queue (nrf_fstorage_sdh_req_handler, on_sys_evt of nrf_fstorage_sd.c).
THEOREM ChangesAreMadeAtRest ==
  ASSUME UsedWithChanges
  PROVE  Spec => ChangesAreSafe
<1>1. Init => ChangesInv
  BY InitChanges
<1>2. ChangesInv /\ [Next]_vars => ChangesInv'
  BY RunChanges, OthersChanges, StutterChanges
<1>3. ChangesInv /\ [Next]_vars => [sdEnabled' # sdEnabled => state = "idle" /\ ~Ours(flash)]_vars
  <2>1. ASSUME ChangesInv, Change PROVE state = "idle" /\ ~Ours(flash)
    <3>1. stack # <<>> /\ Top.at = "change"
      BY <2>1 DEF Change, Now
    <3> QED
      BY <2>1, <3>1, ChangesTop
  <2> QED
    BY <2>1, WhoChanges
<1>4. ChangesInv /\ [Next]_vars => [paused => Len(open') <= Len(open)]_vars
  <2>1. ASSUME ChangesInv, Process PROVE ~paused
    <3>1. stack # <<>> /\ Top.at = "process"
      BY <2>1 DEF Process, Now
    <3> QED
      BY <2>1, <3>1, ChangesTop DEF Starting
  <2>2. ChangesInv => open \in Seq(Items) /\ Len(open) \in Nat /\ Len(<<>>) = 0
    BY LenProperties, EmptySeq DEF ChangesInv, UsualInv, FifoTypeOK
  <2>3. ASSUME ChangesInv, [Next]_vars, paused PROVE Len(open') <= Len(open)
    <3>1. open' = open \/ open' = <<>>
      BY <2>1, <2>3, WhoChanges
    <3> QED
      BY <2>2, <2>3, <3>1
  <2> QED
    BY <2>3
<1> QED
  BY <1>1, <1>2, <1>3, <1>4, PTL DEF Spec, ChangesAreSafe, ChangeOnlyWhenIdle, PausedTakesNothing

=============================================================================
