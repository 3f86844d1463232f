---------------------------- MODULE UsbHidProofs ----------------------------
(***************************************************************************)
(* Proofs about UsbHid: its invariant UsbHidInv and its action property    *)
(* FetchedOnce, for a host that is Patient.                                *)
(*                                                                         *)
(* The inductive invariant is HidInv.  An interrupt is a chain of stages,  *)
(* and between two of them the driver has causes it has not got to yet and *)
(* events that are not in the queue yet.  The parts of the invariant are   *)
(* therefore stated of a driver u, of the events q that were reported, in  *)
(* the queue or behind it, of the acknowledgements a and causes c that are *)
(* still to be handled, and of r: an interrupt is certain to come, or is   *)
(* under way.                                                              *)
(***************************************************************************)
EXTENDS UsbHid, SequenceTheorems, TLAPS

\* The two endpoints.
I == "IN1"
O == "OUT1"

Causes == {"RESET", "SUSPEND", "RESUME", "SETUP"}
Packets == [data : Nat, size : Nat]
DriverType == [
  waiting : SUBSET Endpoints, ready : SUBSET Endpoints,
  handler : [Endpoints -> {"NULL", "feeder", "feeder_zlp", "consumer"}],
  left : [Endpoints -> Nat], status : [Endpoints -> {"OK", "ABORTED", "OVERLOAD"}],
  dma : Endpoints \cup {"none"}, setupDir : {"OUT0"}, suspended : BOOLEAN,
  acked : SUBSET Endpoints, causes : SUBSET Causes, raised : BOOLEAN,
  enabled : {{}, Endpoints}, stalled : SUBSET Endpoints, rcvOut : BOOLEAN, irqs : BOOLEAN,
  data : [Endpoints -> Nat], buffer : [Endpoints -> Packets], received : [Endpoints -> Packets],
  evts : Seq(Events)]

RESET == <<"RESET", "">>
SUSPEND == <<"SUSPEND", "">>
RESUME == <<"RESUME", "">>
SETUP == <<"SETUP", "">>
REQUEST == <<"SUSPEND_REQ", "">>
READY == <<"HFCLK_READY", "">>
InOk == <<I, "OK">>
InAborted == <<I, "ABORTED">>
OutOk == <<O, "OK">>
OutWaiting == <<O, "WAITING">>
InEvents == {InOk, InAborted}
OutEvents == {OutOk, OutWaiting}
BusEvents == {RESET, SUSPEND, RESUME, SETUP, REQUEST, READY}
Repeatable == {RESET, READY} \cup InEvents

\* The events that wait in q, and those that wait there at most once.
In(q) == {q[i] : i \in DOMAIN q}
Once(q, event) == \A i, j \in DOMAIN q : q[i] = event /\ q[j] = event => i = j

Sleeping == sustate \in {"SUSPENDING", "SUSPEND"}

QueueInv(q) ==
  /\ q \in Seq(Events) /\ In(q) \subseteq BusEvents \cup InEvents \cup OutEvents
  /\ ~(OutEvents \subseteq In(q))

ClockFollows(q) ==
  \A i \in DOMAIN q : q[i] = RESUME => \E j \in DOMAIN q : i < j /\ q[j] = READY

\* The order of the events: only some may wait twice, a configuration is not
\* behind another event, and the clock a RESUME needs is reported after it.
OrderInv(q) ==
  /\ \A event \in In(q) \ Repeatable : Once(q, event)
  /\ SETUP \in In(q) => Head(q) = SETUP
  /\ sustate = "ACTIVE" /\ ~clock => ClockFollows(q)

ResetInv(u, q, a, c) ==
  /\ "RESET" \in c \/ RESET \in In(q) => host.state = "default" /\ ~host.asleep
  /\ host.state = "default" /\ "RESET" \notin c /\ RESET \notin In(q) =>
       u.enabled = {} /\ "SETUP" \notin c /\ SETUP \notin In(q)
  /\ host.state # "configured" => ghost.out = host.sent
  /\ RESUME \in In(q) /\ sustate = "ACTIVE" => u.enabled = {}

SetupInv(u, q, a, c) ==
  /\ "SETUP" \in c \/ SETUP \in In(q) =>
       /\ host.state # "configured" /\ ~host.asleep /\ sustate = "ACTIVE" /\ ~clock
       /\ a = {} /\ u.dma = "none" /\ u.enabled = {}
  /\ "SETUP" \in c => c = {"SETUP"} /\ In(q) = {} /\ host.state = "configuring"
  /\ SETUP \in In(q) => In(q) \subseteq {SETUP, RESET} /\ c \subseteq {"RESET"}
  /\ host.state = "configured" => u.enabled = Endpoints
  /\ host.state = "configuring" => "SETUP" \in c \/ SETUP \in In(q)

SleepInv(u, q, a, c) ==
  /\ u.irqs = (sustate = "ACTIVE")
  /\ "SUSPEND" \in c => SUSPEND \notin In(q)
  /\ "SUSPEND" \in c \/ SUSPEND \in In(q) => host.asleep /\ sustate = "ACTIVE" /\ REQUEST \notin In(q)
  /\ REQUEST \in In(q) => host.asleep /\ sustate = "SUSPENDING"
  /\ host.asleep =>
       /\ a = {} /\ In(q) \cap (InEvents \cup OutEvents) = {}
       /\ "SUSPEND" \in c \/ SUSPEND \in In(q) \/ Sleeping
  /\ sustate # "ACTIVE" => u.dma = "none" /\ u.waiting \cap u.ready = {}

ResumeInv(q, c, r) ==
  /\ "RESUME" \in c =>
       ~host.asleep /\ RESUME \notin In(q) /\ Sleeping /\ (~r => In(q) = {} /\ ~clock)
  /\ RESUME \in In(q) =>
       ~host.asleep /\ (Sleeping \/ (sustate = "ACTIVE" /\ host.state = "default"))
  /\ Sleeping => asleep /\ (host.asleep \/ "RESUME" \in c \/ RESUME \in In(q))
  /\ sustate = "RESUMING" => ~host.asleep /\ (clock \/ READY \in In(q))

\* Where the OUT report under way is.
Report1 == Packet(host.sent, EpSize)
Full(u) == u.buffer[O] # NoPacket
Outstanding(u, q) == Full(u) \/ u.dma = O \/ OutOk \in In(q)

OutInv(u, q, a, r) ==
  /\ Full(u) =>
       /\ u.buffer[O] = Report1 /\ O \in u.enabled /\ u.dma # O /\ OutOk \notin In(q)
       /\ O \in a \/ (O \in u.ready /\ (O \in u.waiting \/ OutWaiting \in In(q)))
  /\ u.dma = O =>
       /\ u.received[O] = Report1 /\ O \in u.waiting \ (u.ready \cup a)
       /\ u.handler[O] = "NULL" /\ u.status[O] = "OK" /\ In(q) \cap OutEvents = {}
  /\ OutOk \in In(q) => u.received[O] = Report1 /\ O \notin u.waiting \cup u.ready \cup a
  /\ OutWaiting \in In(q) =>
       O \notin u.waiting \cup a /\ (O \in u.enabled => Full(u) /\ O \in u.ready)
  /\ O \in a => O \notin u.ready /\ In(q) \cap OutEvents = {} /\ (O \in u.enabled => Full(u))
  /\ O \in u.ready /\ O \in u.enabled => Full(u)
  /\ O \in u.waiting =>
       /\ O \in u.enabled
       /\ u.dma # O => u.left[O] = EpSize /\ u.handler[O] = "consumer" /\ u.status[O] = "OK"
       /\ O \in u.ready => r \/ u.dma # "none"

HandedInv(u, q) ==
  /\ Outstanding(u, q) =>
       /\ host.sent > 0 /\ ~host.asleep
       /\ host.unanswered \/ host.state = "default"
       /\ \A i \in DOMAIN handed : handed[i] < host.sent
  /\ \A i \in DOMAIN handed : handed[i] <= host.sent
  /\ OutInOrder /\ handed \in Seq(1 .. MaxOut) /\ (apdu > 0 => handed # <<>>)
  /\ \A report \in ghost.out + 1 .. host.sent :
       \/ report \in Range(handed) \cup ghost.refused
       \/ report = host.sent /\ Outstanding(u, q)

\* The transfer of an IN report.
InInv(u, r) ==
  /\ I \in u.waiting =>
       /\ I \in u.enabled /\ (r \/ u.dma = I)
       /\ u.dma # I => I \in u.ready /\ u.left[I] = EpSize /\ u.handler[I] = "feeder"
  /\ u.dma = I => I \in u.waiting /\ u.handler[I] = "NULL"
  /\ u.enabled = {} => I \in u.ready /\ u.buffer[I] = NoPacket

Clear(u, q, a) ==
  I \in u.ready \ (u.waiting \cup a) /\ u.buffer[I] = NoPacket /\ In(q) \cap InEvents = {}

\* What holds unless a sleep left a packet in the endpoint.
StrictInv(u, q, a) ==
  /\ u.buffer[I] # NoPacket =>
       I \notin u.ready \cup a /\ In(q) \cap InEvents = {} /\ (I \in u.waiting => u.dma = I)
  /\ I \in a => I \notin u.ready \cup u.waiting /\ In(q) \cap InEvents = {} /\ inProgress
  /\ In(q) \cap InEvents # {} =>
       /\ In(q) \cap InEvents = {InOk} /\ Once(q, InOk)
       /\ I \in u.ready \ u.waiting /\ inProgress
  /\ I \in u.waiting => inProgress
  /\ ~inProgress => Clear(u, q, a)
  /\ sustate # "ACTIVE" /\ REQUEST \notin In(q) => Clear(u, q, a)
  /\ u.stalled = {}

ServedInv(u, q, a) ==
  /\ u.enabled # {} /\ sustate # "ACTIVE" => In(q) \cap (InEvents \cup OutEvents) = {}
  /\ host.state = "configured" =>
       O \notin u.stalled /\ (~ghost.leftover => StrictInv(u, q, a))

\* The numbers of the IN reports under way.
FetchInv(u) ==
  /\ host.got <= given /\ u.buffer[I].data <= given
  /\ u.buffer[I] # NoPacket => host.got < u.buffer[I].data
  /\ I \in u.waiting /\ u.dma # I =>
       u.data[I] <= given /\ host.got < u.data[I] /\ u.buffer[I].data < u.data[I]
  /\ reports # <<>> =>
       /\ Head(reports) <= given /\ host.got < Head(reports) /\ u.buffer[I].data < Head(reports)
       /\ I \in u.waiting => u.data[I] < Head(reports)

RestTypes ==
  /\ sustate \in {"ACTIVE", "SUSPENDING", "SUSPEND", "RESUMING"}
  /\ clock \in BOOLEAN /\ inProgress \in BOOLEAN /\ asleep \in BOOLEAN
  /\ reports = <<>> \/ \E n \in 1 .. MaxIn + 1 : reports = <<n>>
  /\ apdu \in 0 .. ApduSize /\ given \in 0 .. MaxIn
  /\ host \in [state : {"default", "configuring", "configured"}, asleep : BOOLEAN,
               sent : 0 .. MaxOut, unanswered : BOOLEAN, got : 0 .. MaxIn, bus : 0 .. MaxBus]
  /\ ghost \in [out : 0 .. MaxOut, in : 0 .. MaxIn, refused : SUBSET (1 .. MaxOut), leftover : BOOLEAN]

\* The transfers and the bus.
TransfersInv(u, q, a, r) ==
  OutInv(u, q, a, r) /\ HandedInv(u, q) /\ InInv(u, r) /\ ServedInv(u, q, a) /\ FetchInv(u)

BusInv(u, q, a, c, r) ==
  /\ QueueInv(q) /\ OrderInv(q)
  /\ ResetInv(u, q, a, c) /\ SetupInv(u, q, a, c)
  /\ SleepInv(u, q, a, c) /\ ResumeInv(q, c, r)

Core(u, q, a, c, r) == u \in DriverType /\ BusInv(u, q, a, c, r) /\ TransfersInv(u, q, a, r)

HidInv ==
  /\ usbd.evts = <<>> /\ RestTypes
  /\ Core(usbd, queue, usbd.acked, usbd.causes, usbd.raised)
-----------------------------------------------------------------------------
(* The endpoints, the events and the queue.                                *)

\* UsbHid has endpoint 1 in both directions.
LEMMA TwoEndpoints ==
  /\ Endpoints = {I, O} /\ Ins = {I} /\ Outs = {O} /\ I # O
  /\ I \notin Control /\ O \notin Control /\ EpSize \in Nat /\ EpSize > 0
  BY UsbHidAssumption, EpSizeAssumption DEF I, O, Ins, Outs, Control

\* The events are different from each other.
LEMMA EventsDiffer ==
  /\ RESET \notin {SUSPEND, RESUME, SETUP, REQUEST, READY, InOk, InAborted, OutOk, OutWaiting}
  /\ SUSPEND \notin {RESUME, SETUP, REQUEST, READY, InOk, InAborted, OutOk, OutWaiting}
  /\ RESUME \notin {SETUP, REQUEST, READY, InOk, InAborted, OutOk, OutWaiting}
  /\ SETUP \notin {REQUEST, READY, InOk, InAborted, OutOk, OutWaiting}
  /\ REQUEST \notin {READY, InOk, InAborted, OutOk, OutWaiting}
  /\ READY \notin {InOk, InAborted, OutOk, OutWaiting}
  /\ InOk \notin {InAborted, OutOk, OutWaiting}
  /\ InAborted \notin {OutOk, OutWaiting} /\ OutOk # OutWaiting
  BY DEF RESET, SUSPEND, RESUME, SETUP, REQUEST, READY, InOk, InAborted, OutOk, OutWaiting, I, O

\* All of them are among the events of UsbHid.
LEMMA EventsAreEvents == BusEvents \cup InEvents \cup OutEvents \subseteq Events
  BY TwoEndpoints DEF Events, BusEvents, InEvents, OutEvents, RESET, SUSPEND, RESUME, SETUP,
     REQUEST, READY, InOk, InAborted, OutOk, OutWaiting

\* What an event added to the queue changes.
LEMMA AppendIn ==
  ASSUME NEW S, NEW q \in Seq(S), NEW e \in S
  PROVE  /\ Append(q, e) \in Seq(S)
         /\ In(Append(q, e)) = In(q) \cup {e}
         /\ \A f : Once(q, f) /\ f # e => Once(Append(q, e), f)
         /\ e \notin In(q) => Once(Append(q, e), e)
         /\ q # <<>> => Head(Append(q, e)) = Head(q)
  <1> DEFINE p == Append(q, e)
  <1>1. p \in Seq(S) /\ Len(p) = Len(q) + 1 /\ p[Len(q) + 1] = e /\ (q # <<>> => Head(p) = Head(q))
    OBVIOUS
  <1>2. \A i \in DOMAIN q : i \in DOMAIN p /\ p[i] = q[i]
    OBVIOUS
  <1>3. \A i \in DOMAIN p : i \in DOMAIN q \/ i = Len(q) + 1
    OBVIOUS
  <1>4. Len(q) + 1 \in DOMAIN p
    OBVIOUS
  <1> HIDE DEF p
  <1>5. In(p) = In(q) \cup {e}
    BY <1>1, <1>2, <1>3, <1>4 DEF In
  <1>6. \A f : Once(q, f) /\ f # e => Once(p, f)
    BY <1>1, <1>2, <1>3 DEF Once
  <1>7. e \notin In(q) => Once(p, e)
    BY <1>1, <1>2, <1>3 DEF Once, In
  <1> QED BY <1>1, <1>5, <1>6, <1>7 DEF p

\* What the event taken from the queue leaves.
LEMMA TailIn ==
  ASSUME NEW S, NEW q \in Seq(S), q # <<>>
  PROVE  /\ Tail(q) \in Seq(S) /\ Head(q) \in S
         /\ In(q) = In(Tail(q)) \cup {Head(q)}
         /\ \A f : Once(q, f) => Once(Tail(q), f)
         /\ Once(q, Head(q)) => Head(q) \notin In(Tail(q))
  <1> DEFINE p == Tail(q)
  <1>1. p \in Seq(S) /\ Head(q) \in S /\ q[1] = Head(q) /\ 1 \in DOMAIN q
    OBVIOUS
  <1>2. \A i \in DOMAIN p : i + 1 \in DOMAIN q /\ p[i] = q[i + 1] /\ i \in Nat \ {0}
    OBVIOUS
  <1>3. \A i \in DOMAIN q : i = 1 \/ (i - 1 \in DOMAIN p /\ q[i] = p[i - 1])
    OBVIOUS
  <1> HIDE DEF p
  <1>4. \A i \in DOMAIN q : q[i] \in In(p) \cup {Head(q)}
    BY <1>1, <1>3 DEF In
  <1>5. \A i \in DOMAIN p : p[i] \in In(q)
    BY <1>2 DEF In
  <1>6. In(q) = In(p) \cup {Head(q)}
    BY <1>4, <1>5, <1>1 DEF In
  <1>7. \A f : Once(q, f) => Once(p, f)
    BY <1>2 DEF Once
  <1>8. Once(q, Head(q)) => Head(q) \notin In(p)
    BY <1>1, <1>2 DEF Once, In
  <1> QED BY <1>1, <1>6, <1>7, <1>8 DEF p

\* Only the empty queue holds no event.
LEMMA NothingIn == ASSUME NEW S, NEW q \in Seq(S) PROVE In(q) = {} <=> q = <<>>
  BY DEF In

\* The clock a RESUME waits for, when an event is added or taken.
LEMMA FollowsAppended ==
  ASSUME NEW S, NEW q \in Seq(S), NEW e \in S
  PROVE  /\ ClockFollows(q) /\ e # RESUME => ClockFollows(Append(q, e))
         /\ e = READY => ClockFollows(Append(q, e))
  <1> DEFINE p == Append(q, e)
  <1>1. \A i \in DOMAIN q : i \in DOMAIN p /\ p[i] = q[i] /\ i < Len(q) + 1
    OBVIOUS
  <1>2. \A i \in DOMAIN p : i \in DOMAIN q \/ i = Len(q) + 1
    OBVIOUS
  <1>3. Len(q) + 1 \in DOMAIN p /\ p[Len(q) + 1] = e
    OBVIOUS
  <1> HIDE DEF p
  <1>4. ClockFollows(q) /\ e # RESUME => ClockFollows(p)
    BY <1>1, <1>2, <1>3 DEF ClockFollows
  <1>5. e = READY => ClockFollows(p)
    BY <1>1, <1>2, <1>3, EventsDiffer DEF ClockFollows
  <1> QED BY <1>4, <1>5 DEF p

\* What is left keeps the order, and the clock is behind a RESUME taken.
LEMMA FollowsTaken ==
  ASSUME NEW S, NEW q \in Seq(S), q # <<>>, ClockFollows(q)
  PROVE  /\ ClockFollows(Tail(q))
         /\ Head(q) = RESUME => READY \in In(Tail(q))
  <1> DEFINE p == Tail(q)
  <1>1. \A i \in DOMAIN p : i + 1 \in DOMAIN q /\ p[i] = q[i + 1] /\ i \in Nat
    OBVIOUS
  <1>2. \A i \in DOMAIN q : i > 1 => i - 1 \in DOMAIN p /\ q[i] = p[i - 1]
    OBVIOUS
  <1>3. 1 \in DOMAIN q /\ q[1] = Head(q) /\ DOMAIN q \subseteq Nat
    OBVIOUS
  <1> HIDE DEF p
  <1>4. ASSUME NEW i \in DOMAIN p, p[i] = RESUME
        PROVE  \E j \in DOMAIN p : i < j /\ p[j] = READY
    <2>1. i + 1 \in DOMAIN q /\ q[i + 1] = RESUME /\ i \in Nat
      BY <1>1, <1>4
    <2>2. PICK j \in DOMAIN q : i + 1 < j /\ q[j] = READY
      BY <2>1 DEF ClockFollows
    <2>3. j - 1 \in DOMAIN p /\ p[j - 1] = READY /\ i < j - 1
      BY <2>1, <2>2, <1>2, <1>3
    <2> QED BY <2>3
  <1>5. ASSUME Head(q) = RESUME PROVE READY \in In(p)
    <2>1. PICK j \in DOMAIN q : 1 < j /\ q[j] = READY
      BY <1>3, <1>5 DEF ClockFollows
    <2> QED BY <2>1, <1>2, <1>3 DEF In
  <1> QED BY <1>4, <1>5 DEF p, ClockFollows

\* A queue without a RESUME waits for no clock.
LEMMA FollowsNothing == \A q : RESUME \notin In(q) => ClockFollows(q)
  BY DEF ClockFollows, In
-----------------------------------------------------------------------------
(* The driver: what changes nothing that the invariant looks at.           *)

\* The fields of the driver.
LEMMA Fields ==
  ASSUME NEW u \in DriverType
  PROVE  DOMAIN u = {"waiting", "ready", "handler", "left", "status", "dma", "setupDir", "suspended",
                     "acked", "causes", "raised", "enabled", "stalled", "rcvOut", "irqs", "data",
                     "buffer", "received", "evts"}
  BY DEF DriverType

\* A field replaced by another of its type.
LEMMA FieldReplaced ==
  ASSUME NEW u \in DriverType
  PROVE  /\ \A x \in SUBSET Endpoints : [u EXCEPT !.waiting = x] \in DriverType
         /\ \A x \in SUBSET Endpoints : [u EXCEPT !.ready = x] \in DriverType
         /\ \A x \in [Endpoints -> {"NULL", "feeder", "feeder_zlp", "consumer"}] : [u EXCEPT !.handler = x] \in DriverType
         /\ \A x \in [Endpoints -> Nat] : [u EXCEPT !.left = x] \in DriverType
         /\ \A x \in [Endpoints -> {"OK", "ABORTED", "OVERLOAD"}] : [u EXCEPT !.status = x] \in DriverType
         /\ \A x \in Endpoints \cup {"none"} : [u EXCEPT !.dma = x] \in DriverType
         /\ \A x \in SUBSET Endpoints : [u EXCEPT !.acked = x] \in DriverType
         /\ \A x \in SUBSET Causes : [u EXCEPT !.causes = x] \in DriverType
         /\ \A x \in BOOLEAN : [u EXCEPT !.raised = x] \in DriverType
         /\ \A x \in {{}, Endpoints} : [u EXCEPT !.enabled = x] \in DriverType
         /\ \A x \in SUBSET Endpoints : [u EXCEPT !.stalled = x] \in DriverType
         /\ \A x \in BOOLEAN : [u EXCEPT !.irqs = x] \in DriverType
         /\ \A x \in [Endpoints -> Nat] : [u EXCEPT !.data = x] \in DriverType
         /\ \A x \in [Endpoints -> Packets] : [u EXCEPT !.buffer = x] \in DriverType
         /\ \A x \in [Endpoints -> Packets] : [u EXCEPT !.received = x] \in DriverType
         /\ \A x \in Seq(Events) : [u EXCEPT !.evts = x] \in DriverType
  <1>1. \A x \in SUBSET Endpoints : [u EXCEPT !.waiting = x] \in DriverType
    BY DEF DriverType
  <1>2. \A x \in SUBSET Endpoints : [u EXCEPT !.ready = x] \in DriverType
    BY DEF DriverType
  <1>3. \A x \in [Endpoints -> {"NULL", "feeder", "feeder_zlp", "consumer"}] : [u EXCEPT !.handler = x] \in DriverType
    BY DEF DriverType
  <1>4. \A x \in [Endpoints -> Nat] : [u EXCEPT !.left = x] \in DriverType
    BY DEF DriverType
  <1>5. \A x \in [Endpoints -> {"OK", "ABORTED", "OVERLOAD"}] : [u EXCEPT !.status = x] \in DriverType
    BY DEF DriverType
  <1>6. \A x \in Endpoints \cup {"none"} : [u EXCEPT !.dma = x] \in DriverType
    BY DEF DriverType
  <1>7. \A x \in SUBSET Endpoints : [u EXCEPT !.acked = x] \in DriverType
    BY DEF DriverType
  <1>8. \A x \in SUBSET Causes : [u EXCEPT !.causes = x] \in DriverType
    BY DEF DriverType
  <1>9. \A x \in BOOLEAN : [u EXCEPT !.raised = x] \in DriverType
    BY DEF DriverType
  <1>10. \A x \in {{}, Endpoints} : [u EXCEPT !.enabled = x] \in DriverType
    BY DEF DriverType
  <1>11. \A x \in SUBSET Endpoints : [u EXCEPT !.stalled = x] \in DriverType
    BY DEF DriverType
  <1>12. \A x \in BOOLEAN : [u EXCEPT !.irqs = x] \in DriverType
    BY DEF DriverType
  <1>13. \A x \in [Endpoints -> Nat] : [u EXCEPT !.data = x] \in DriverType
    BY DEF DriverType
  <1>14. \A x \in [Endpoints -> Packets] : [u EXCEPT !.buffer = x] \in DriverType
    BY DEF DriverType
  <1>15. \A x \in [Endpoints -> Packets] : [u EXCEPT !.received = x] \in DriverType
    BY DEF DriverType
  <1>16. \A x \in Seq(Events) : [u EXCEPT !.evts = x] \in DriverType
    BY DEF DriverType
  <1> QED BY <1>1, <1>2, <1>3, <1>4, <1>5, <1>6, <1>7, <1>8, <1>9, <1>10, <1>11, <1>12, <1>13, <1>14, <1>15, <1>16

Same(u, w) ==
  /\ w \in DriverType
  /\ w.waiting = u.waiting /\ w.ready = u.ready /\ w.handler = u.handler /\ w.left = u.left
  /\ w.status = u.status /\ w.dma = u.dma /\ w.enabled = u.enabled /\ w.stalled = u.stalled
  /\ w.irqs = u.irqs /\ w.data = u.data /\ w.buffer = u.buffer /\ w.received = u.received

\* A report of an event changes the events only.
LEMMA Reported ==
  ASSUME NEW u \in DriverType, NEW e \in Events, NEW w,
         w = [u EXCEPT !.evts = Append(u.evts, e)]
  PROVE  /\ Same(u, w) /\ w.evts = Append(u.evts, e)
         /\ w.acked = u.acked /\ w.causes = u.causes /\ w.suspended = u.suspended
         /\ w.raised = u.raised /\ w.rcvOut = u.rcvOut
  <1>1. u.evts \in Seq(Events)
    BY DEF DriverType
  <1>2. Append(u.evts, e) \in Seq(Events)
    BY <1>1
  <1>3. w.evts = Append(u.evts, e)
    BY DEF DriverType
  <1>4. w \in DriverType
    <2>1. w = [u EXCEPT !.evts = w.evts]
      BY <1>3
    <2> QED BY <2>1, <1>2, <1>3 DEF DriverType
  <1>5. /\ w.acked = u.acked /\ w.causes = u.causes /\ w.suspended = u.suspended
        /\ w.raised = u.raised /\ w.rcvOut = u.rcvOut
    BY DEF DriverType
  <1>6. Same(u, w)
    BY <1>4 DEF Same, DriverType
  <1> QED BY <1>3, <1>5, <1>6

\* The parts about the transfers do not see the events of the bus.
LEMMA BusEventAdded ==
  ASSUME NEW u, NEW w, Same(u, w), NEW q, NEW p, NEW e \in BusEvents, In(p) = In(q) \cup {e},
         Once(q, InOk) => Once(p, InOk), NEW a, NEW r, TransfersInv(u, q, a, r)
  PROVE  TransfersInv(w, p, a, r)
  <1>1. /\ InOk \notin BusEvents /\ InAborted \notin BusEvents
        /\ OutOk \notin BusEvents /\ OutWaiting \notin BusEvents
    BY EventsDiffer DEF BusEvents
  <1>2. /\ OutOk \in In(p) <=> OutOk \in In(q)
        /\ OutWaiting \in In(p) <=> OutWaiting \in In(q)
        /\ In(p) \cap OutEvents = In(q) \cap OutEvents
        /\ In(p) \cap InEvents = In(q) \cap InEvents
    BY <1>1 DEF OutEvents, InEvents
  <1>3. Full(w) = Full(u) /\ (Outstanding(w, p) <=> Outstanding(u, q))
    BY <1>2 DEF Full, Outstanding, Same
  <1>4. OutInv(w, p, a, r)
    BY <1>2, <1>3 DEF TransfersInv, OutInv, Same
  <1>5. HandedInv(w, p)
    BY <1>3 DEF TransfersInv, HandedInv
  <1>6. InInv(w, r) /\ FetchInv(w)
    BY DEF TransfersInv, InInv, FetchInv, Same
  <1>7. ServedInv(w, p, a)
    <2>1. Clear(w, p, a) <=> Clear(u, q, a)
      BY <1>2 DEF Clear, Same
    <2>2. (In(p) \cap (InEvents \cup OutEvents) = {}) <=> (In(q) \cap (InEvents \cup OutEvents) = {})
      BY <1>2
    <2>3. StrictInv(u, q, a) => StrictInv(w, p, a)
      BY <1>2, <2>1 DEF StrictInv, Same
    <2> QED BY <2>2, <2>3 DEF TransfersInv, ServedInv, Same
  <1> QED BY <1>4, <1>5, <1>6, <1>7 DEF TransfersInv

\* Without a new event either.
LEMMA SameTransfers ==
  ASSUME NEW u, NEW w, Same(u, w), NEW q, NEW a, NEW r, TransfersInv(u, q, a, r)
  PROVE  TransfersInv(w, q, a, r)
  <1>1. Full(w) = Full(u) /\ (Outstanding(w, q) <=> Outstanding(u, q))
    BY DEF Full, Outstanding, Same
  <1>2. OutInv(w, q, a, r) /\ HandedInv(w, q)
    BY <1>1 DEF TransfersInv, OutInv, HandedInv, Same
  <1>3. InInv(w, r) /\ FetchInv(w)
    BY DEF TransfersInv, InInv, FetchInv, Same
  <1>4. ServedInv(w, q, a)
    <2>1. Clear(w, q, a) <=> Clear(u, q, a)
      BY DEF Clear, Same
    <2> QED BY <2>1 DEF TransfersInv, ServedInv, StrictInv, Same
  <1> QED BY <1>2, <1>3, <1>4 DEF TransfersInv

\* What an event added to a queue that keeps its order leaves of the order.
LEMMA OrderAppended ==
  ASSUME NEW q, QueueInv(q), OrderInv(q), NEW e \in BusEvents \cup InEvents \cup OutEvents,
         e \notin Repeatable => e \notin In(q),
         e = SETUP => In(q) = {},
         e = RESUME => ~(sustate = "ACTIVE" /\ ~clock)
  PROVE  OrderInv(Append(q, e))
  <1>1. q \in Seq(Events) /\ e \in Events
    BY EventsAreEvents DEF QueueInv
  <1>2. In(Append(q, e)) = In(q) \cup {e}
    BY <1>1, AppendIn
  <1>3. \A f \in In(Append(q, e)) \ Repeatable : Once(Append(q, e), f)
    BY <1>1, <1>2, AppendIn DEF OrderInv
  <1>4. SETUP \in In(Append(q, e)) => Head(Append(q, e)) = SETUP
    <2>1. CASE SETUP \in In(q)
      <3>1. q # <<>>
        BY <2>1 DEF In
      <3> QED BY <1>1, <2>1, <3>1, AppendIn DEF OrderInv
    <2>2. CASE SETUP \notin In(q) /\ e = SETUP
      <3>1. q = <<>>
        BY <1>1, <2>2, NothingIn
      <3> QED BY <2>2, <3>1
    <2> QED BY <1>2, <2>1, <2>2
  <1>5. sustate = "ACTIVE" /\ ~clock => ClockFollows(Append(q, e))
    BY <1>1, FollowsAppended DEF OrderInv
  <1> QED BY <1>3, <1>4, <1>5 DEF OrderInv

\* What holds of a queue that an event was added to.
LEMMA QueueAppended ==
  ASSUME NEW q, QueueInv(q), NEW e \in BusEvents \cup InEvents \cup OutEvents,
         e \in OutEvents => In(q) \cap OutEvents = {}
  PROVE  /\ QueueInv(Append(q, e)) /\ In(Append(q, e)) = In(q) \cup {e}
         /\ e # InOk /\ Once(q, InOk) => Once(Append(q, e), InOk)
         /\ InOk \notin In(q) /\ e = InOk => Once(Append(q, e), InOk)
  <1>1. q \in Seq(Events) /\ e \in Events
    BY EventsAreEvents DEF QueueInv
  <1>2. Append(q, e) \in Seq(Events) /\ In(Append(q, e)) = In(q) \cup {e}
    BY <1>1, AppendIn
  <1>3. OutOk # OutWaiting /\ \A f \in BusEvents \cup InEvents : f \notin OutEvents
    BY EventsDiffer DEF OutEvents, BusEvents, InEvents
  <1>4. ~(OutEvents \subseteq In(Append(q, e)))
    BY <1>2, <1>3 DEF QueueInv, OutEvents
  <1>5. In(Append(q, e)) \subseteq BusEvents \cup InEvents \cup OutEvents
    BY <1>2 DEF QueueInv
  <1>6. /\ e # InOk /\ Once(q, InOk) => Once(Append(q, e), InOk)
        /\ InOk \notin In(q) /\ e = InOk => Once(Append(q, e), InOk)
    BY <1>1, AppendIn
  <1> QED BY <1>2, <1>4, <1>5, <1>6 DEF QueueInv

-----------------------------------------------------------------------------
(* The stages of an interrupt.                                             *)

\* Within an interrupt: w is the driver so far, a and c are still to be handled.
\* The driver's record keeps all that caused the interrupt until its end.
Mid(w, a, c, r) ==
  /\ RestTypes /\ Core(w, queue \o w.evts, a, c, r)
  /\ w.acked = usbd.acked /\ w.causes = usbd.causes
  /\ a \subseteq Endpoints /\ c \subseteq Causes /\ queue \in Seq(Events)

\* What is reported comes after what was.
LEMMA EventsBehind ==
  ASSUME NEW u \in DriverType, NEW e \in Events, queue \in Seq(Events)
  PROVE  queue \o Append(u.evts, e) = Append(queue \o u.evts, e)
  <1>1. u.evts \in Seq(Events)
    BY DEF DriverType
  <1> QED BY <1>1

\* A cause f is handled by reporting the event e of the bus.
LEMMA BusStage ==
  ASSUME NEW u, NEW a, NEW c, NEW r, Mid(u, a, c, r), NEW e \in BusEvents, NEW f, NEW v, NEW w,
         Same(u, v), v.evts = u.evts, v.acked = u.acked, v.causes = u.causes,
         w = [v EXCEPT !.evts = Append(v.evts, e)],
         e \notin Repeatable => e \notin In(queue \o u.evts),
         e = SETUP => In(queue \o u.evts) = {},
         e = RESUME => ~(sustate = "ACTIVE" /\ ~clock),
         \A p : In(p) = In(queue \o u.evts) \cup {e} =>
                 /\ ResetInv(u, p, a, c \ {f}) /\ SetupInv(u, p, a, c \ {f})
                 /\ SleepInv(u, p, a, c \ {f}) /\ ResumeInv(p, c \ {f}, r)
  PROVE  Mid(w, a, c \ {f}, r)
  <1> DEFINE q == queue \o u.evts
             p == queue \o w.evts
             d == c \ {f}
  <1>1. u \in DriverType /\ v \in DriverType /\ e \in Events
    BY EventsAreEvents DEF Mid, Core, Same
  <1>2. Same(v, w) /\ w.evts = Append(v.evts, e) /\ w.acked = v.acked /\ w.causes = v.causes
    BY <1>1, Reported
  <1>3. /\ Same(u, w) /\ w.evts = Append(u.evts, e)
        /\ w.acked = u.acked /\ w.causes = u.causes
    BY <1>2 DEF Same
  <1>4. p = Append(q, e)
    BY <1>1, <1>3, EventsBehind DEF Mid
  <1> HIDE DEF q, p, d
  <1>5. Core(u, q, a, c, r) /\ d \subseteq Causes
    BY DEF Mid, q, d
  <1>6. e \notin OutEvents /\ e # InOk
    BY EventsDiffer DEF OutEvents, BusEvents
  <1>7. QueueInv(p) /\ In(p) = In(q) \cup {e} /\ (Once(q, InOk) => Once(p, InOk))
    BY <1>4, <1>5, <1>6, QueueAppended DEF Core, BusInv
  <1>8. OrderInv(p)
    BY <1>4, <1>5, OrderAppended DEF Core, BusInv, q
  <1>9. TransfersInv(w, p, a, r)
    BY <1>3, <1>5, <1>7, BusEventAdded DEF Core
  <1>10. ResetInv(u, p, a, d) /\ SetupInv(u, p, a, d) /\ SleepInv(u, p, a, d) /\ ResumeInv(p, d, r)
    BY <1>7 DEF q, d
  <1>11. ResetInv(w, p, a, d) /\ SetupInv(w, p, a, d) /\ SleepInv(w, p, a, d)
    BY <1>3, <1>10 DEF Same, ResetInv, SetupInv, SleepInv
  <1>12. Core(w, p, a, d, r)
    BY <1>3, <1>7, <1>8, <1>9, <1>10, <1>11 DEF Core, BusInv, Same
  <1> QED BY <1>3, <1>5, <1>12 DEF Mid, p, d

\* The stages of USBEVENT: a reset is reported,
LEMMA ResetStage ==
  ASSUME NEW u, NEW a, NEW c, Mid(u, a, c, TRUE), "RESET" \in usbd.causes <=> "RESET" \in c
  PROVE  Mid(UsbReset(u), a, c \ {"RESET"}, TRUE)
  <1>1. CASE "RESET" \notin c
    <2>1. UsbReset(u) = u /\ c \ {"RESET"} = c
      BY <1>1 DEF UsbReset, Mid
    <2> QED BY <2>1
  <1>2. CASE "RESET" \in c
    <2> DEFINE v == [u EXCEPT !.suspended = FALSE, !.setupDir = "OUT0"]
               w == UsbReset(u)
               q == queue \o u.evts
               d == c \ {"RESET"}
    <2>1. u \in DriverType /\ RESET \in BusEvents
      BY DEF Mid, Core, BusEvents
    <2>2. v \in DriverType /\ Same(u, v) /\ v.evts = u.evts /\ v.acked = u.acked /\ v.causes = u.causes
      BY <2>1 DEF DriverType, Same
    <2>3. w = [v EXCEPT !.evts = Append(v.evts, RESET)]
      BY <1>2 DEF UsbReset, Mid, Report, RESET
    <2> HIDE DEF v, w, q, d
    <2>4. BusInv(u, q, a, c, TRUE) /\ c \subseteq Causes
      BY DEF Mid, Core, q
    <2>5. /\ "RESET" \notin d /\ d \subseteq c
          /\ \A f \in Causes \ {"RESET"} : f \in d <=> f \in c
      BY DEF d
    <2>6. RESET \in Repeatable /\ RESET # SETUP /\ RESET # RESUME
      BY EventsDiffer DEF Repeatable
    <2>7. ASSUME NEW p, In(p) = In(q) \cup {RESET}
          PROVE  ResetInv(u, p, a, d) /\ SetupInv(u, p, a, d) /\ SleepInv(u, p, a, d) /\ ResumeInv(p, d, TRUE)
      <3>1. ResetInv(u, p, a, d)
        BY <1>2, <2>4, <2>6, <2>7 DEF BusInv, ResetInv
      <3>2. SetupInv(u, p, a, d)
        BY <1>2, <2>4, <2>5, <2>7, EventsDiffer DEF BusInv, SetupInv, Causes, d
      <3>3. SleepInv(u, p, a, d)
        <4>1. In(p) \cap (InEvents \cup OutEvents) = In(q) \cap (InEvents \cup OutEvents)
          BY <2>7, EventsDiffer DEF InEvents, OutEvents
        <4> QED BY <2>4, <2>5, <2>7, <4>1, EventsDiffer DEF BusInv, SleepInv, Causes
      <3>4. ResumeInv(p, d, TRUE)
        BY <2>4, <2>5, <2>7, EventsDiffer DEF BusInv, ResumeInv, Causes
      <3> QED BY <3>1, <3>2, <3>3, <3>4
    <2> QED BY <2>1, <2>2, <2>3, <2>6, <2>7, BusStage DEF w, q, d
  <1> QED BY <1>1, <1>2

\* a suspend,
LEMMA SuspendStage ==
  ASSUME NEW u, NEW a, NEW c, Mid(u, a, c, TRUE), "SUSPEND" \in c, NEW w,
         w = Report([u EXCEPT !.suspended = TRUE], "SUSPEND", "")
  PROVE  Mid(w, a, c \ {"SUSPEND"}, TRUE)
  <1> DEFINE v == [u EXCEPT !.suspended = TRUE]
             q == queue \o u.evts
             d == c \ {"SUSPEND"}
  <1>1. u \in DriverType /\ SUSPEND \in BusEvents
    BY DEF Mid, Core, BusEvents
  <1>2. v \in DriverType /\ Same(u, v) /\ v.evts = u.evts /\ v.acked = u.acked /\ v.causes = u.causes
    BY <1>1 DEF DriverType, Same
  <1>3. w = [v EXCEPT !.evts = Append(v.evts, SUSPEND)]
    BY DEF Report, SUSPEND
  <1> HIDE DEF v, q, d
  <1>4. BusInv(u, q, a, c, TRUE) /\ c \subseteq Causes
    BY DEF Mid, Core, q
  <1>5. /\ "SUSPEND" \notin d /\ d \subseteq c
        /\ \A f \in Causes \ {"SUSPEND"} : f \in d <=> f \in c
    BY DEF d
  <1>6. SUSPEND \notin In(q) /\ SUSPEND # SETUP /\ SUSPEND # RESUME
    BY <1>4, EventsDiffer DEF BusInv, SleepInv
  <1>7. ASSUME NEW p, In(p) = In(q) \cup {SUSPEND}
        PROVE  ResetInv(u, p, a, d) /\ SetupInv(u, p, a, d) /\ SleepInv(u, p, a, d) /\ ResumeInv(p, d, TRUE)
    <2>1. ResetInv(u, p, a, d)
      BY <1>4, <1>5, <1>7, EventsDiffer DEF BusInv, ResetInv, Causes
    <2>2. SetupInv(u, p, a, d)
      <3>1. host.asleep
        BY <1>4 DEF BusInv, SleepInv
      <3> QED BY <1>4, <1>5, <1>7, <3>1, EventsDiffer DEF BusInv, SetupInv, Causes
    <2>3. SleepInv(u, p, a, d)
      <3>1. In(p) \cap (InEvents \cup OutEvents) = In(q) \cap (InEvents \cup OutEvents)
        BY <1>7, EventsDiffer DEF InEvents, OutEvents
      <3> QED BY <1>4, <1>5, <1>7, <3>1, EventsDiffer DEF BusInv, SleepInv, Causes
    <2>4. ResumeInv(p, d, TRUE)
      BY <1>4, <1>5, <1>7, EventsDiffer DEF BusInv, ResumeInv, Causes
    <2> QED BY <2>1, <2>2, <2>3, <2>4
  <1> QED BY <1>1, <1>2, <1>3, <1>6, <1>7, BusStage DEF q, d

\* and a resume.
LEMMA ResumeStage ==
  ASSUME NEW u, NEW a, NEW c, Mid(u, a, c, TRUE), "RESUME" \in c, NEW w,
         w = Report([u EXCEPT !.suspended = FALSE], "RESUME", "")
  PROVE  Mid(w, a, c \ {"RESUME"}, TRUE)
  <1> DEFINE v == [u EXCEPT !.suspended = FALSE]
             q == queue \o u.evts
             d == c \ {"RESUME"}
  <1>1. u \in DriverType /\ RESUME \in BusEvents
    BY DEF Mid, Core, BusEvents
  <1>2. v \in DriverType /\ Same(u, v) /\ v.evts = u.evts /\ v.acked = u.acked /\ v.causes = u.causes
    BY <1>1 DEF DriverType, Same
  <1>3. w = [v EXCEPT !.evts = Append(v.evts, RESUME)]
    BY DEF Report, RESUME
  <1> HIDE DEF v, q, d
  <1>4. BusInv(u, q, a, c, TRUE) /\ c \subseteq Causes
    BY DEF Mid, Core, q
  <1>5. /\ "RESUME" \notin d /\ d \subseteq c
        /\ \A f \in Causes \ {"RESUME"} : f \in d <=> f \in c
    BY DEF d
  <1>6. RESUME \notin In(q) /\ RESUME # SETUP /\ Sleeping /\ ~host.asleep
    BY <1>4, EventsDiffer DEF BusInv, ResumeInv
  <1>7. sustate # "ACTIVE"
    BY <1>6 DEF Sleeping
  <1>8. ASSUME NEW p, In(p) = In(q) \cup {RESUME}
        PROVE  ResetInv(u, p, a, d) /\ SetupInv(u, p, a, d) /\ SleepInv(u, p, a, d) /\ ResumeInv(p, d, TRUE)
    <2>1. ResetInv(u, p, a, d)
      BY <1>4, <1>5, <1>7, <1>8, EventsDiffer DEF BusInv, ResetInv, Causes
    <2>2. SetupInv(u, p, a, d)
      BY <1>4, <1>5, <1>7, <1>8, EventsDiffer DEF BusInv, SetupInv, Causes
    <2>3. SleepInv(u, p, a, d)
      <3>1. In(p) \cap (InEvents \cup OutEvents) = In(q) \cap (InEvents \cup OutEvents)
        BY <1>8, EventsDiffer DEF InEvents, OutEvents
      <3> QED BY <1>4, <1>5, <1>8, <3>1, EventsDiffer DEF BusInv, SleepInv, Causes
    <2>4. ResumeInv(p, d, TRUE)
      BY <1>4, <1>5, <1>6, <1>8 DEF BusInv, ResumeInv, Causes
    <2> QED BY <2>1, <2>2, <2>3, <2>4
  <1> QED BY <1>1, <1>2, <1>3, <1>6, <1>7, <1>8, BusStage DEF q, d

\* The parts about the bus see of the driver only what is enabled, whether the
\* interrupts are, and that no transfer goes on where none may.
LEMMA BusKept ==
  ASSUME NEW u, NEW w, NEW q, NEW a, NEW c, NEW r, BusInv(u, q, a, c, r),
         NEW b, b \subseteq a,
         w.enabled = u.enabled, w.irqs = u.irqs,
         w.dma = u.dma \/ w.dma = "none" \/ (sustate = "ACTIVE" /\ u.enabled # {}),
         sustate # "ACTIVE" => w.waiting \cap w.ready \subseteq u.waiting \cap u.ready
  PROVE  BusInv(w, q, b, c, r)
  <1>1. ResetInv(w, q, b, c)
    BY DEF BusInv, ResetInv
  <1>2. SetupInv(w, q, b, c)
    BY DEF BusInv, SetupInv
  <1>3. SleepInv(w, q, b, c)
    BY DEF BusInv, SleepInv
  <1> QED BY <1>1, <1>2, <1>3 DEF BusInv

\* An event of an endpoint comes from an active device that is not configured
\* at that moment.
LEMMA BusAppended ==
  ASSUME NEW u, NEW q, NEW a, NEW c, NEW r, BusInv(u, q, a, c, r),
         NEW e \in InEvents \cup OutEvents,
         e \in OutEvents => In(q) \cap OutEvents = {},
         sustate = "ACTIVE", ~host.asleep, "SETUP" \notin c, SETUP \notin In(q)
  PROVE  BusInv(u, Append(q, e), a, c, r)
  <1> DEFINE p == Append(q, e)
  <1>1. e \notin BusEvents /\ e # SETUP /\ e # RESUME /\ e # RESET /\ e # SUSPEND /\ e # REQUEST /\ e # READY
    BY EventsDiffer DEF BusEvents, InEvents, OutEvents
  <1>2. QueueInv(p) /\ In(p) = In(q) \cup {e}
    BY QueueAppended DEF BusInv
  <1>3. e \notin Repeatable => e \notin In(q)
    BY DEF Repeatable
  <1>4. OrderInv(p)
    BY <1>1, <1>3, OrderAppended DEF BusInv
  <1> HIDE DEF p
  <1>5. ResetInv(u, p, a, c)
    BY <1>1, <1>2 DEF BusInv, ResetInv
  <1>6. SetupInv(u, p, a, c)
    BY <1>1, <1>2 DEF BusInv, SetupInv
  <1>7. SleepInv(u, p, a, c)
    BY <1>1, <1>2 DEF BusInv, SleepInv
  <1>8. ResumeInv(p, c, r)
    BY <1>1, <1>2 DEF BusInv, ResumeInv, Sleeping
  <1> QED BY <1>2, <1>4, <1>5, <1>6, <1>7, <1>8 DEF BusInv, p

\* The last packet of the IN transfer is in the endpoint.
LEMMA InDoneStage ==
  ASSUME NEW u, NEW a, NEW c, Mid(u, a, c, TRUE)
  PROVE  Mid(DmaEnd(u, Ins), a, c, TRUE) /\ DmaEnd(u, Ins).dma # I
  <1>1. CASE u.dma # I
    <2>1. DmaEnd(u, Ins) = u
      BY <1>1, TwoEndpoints DEF DmaEnd
    <2> QED BY <1>1, <2>1
  <1>2. CASE u.dma = I
    <2> DEFINE w == DmaEnd(u, Ins)
               q == queue \o u.evts
    <2>1. u \in DriverType /\ I \in u.waiting /\ u.handler[I] = "NULL"
      BY <1>2 DEF Mid, Core, TransfersInv, InInv
    <2>2. w = [u EXCEPT !.dma = "none", !.waiting = @ \ {I}]
      <3>1. I \in Ins /\ I \notin Outs
        BY TwoEndpoints
      <3> QED BY <1>2, <2>1, <3>1 DEF DmaEnd, DriverType
    <2>3. /\ w \in DriverType /\ w.dma = "none" /\ w.waiting = u.waiting \ {I}
          /\ w.ready = u.ready /\ w.handler = u.handler /\ w.left = u.left
          /\ w.status = u.status /\ w.enabled = u.enabled /\ w.stalled = u.stalled
          /\ w.irqs = u.irqs /\ w.data = u.data /\ w.buffer = u.buffer /\ w.received = u.received
          /\ w.evts = u.evts /\ w.acked = u.acked /\ w.causes = u.causes
      <3> DEFINE x == u.waiting \ {I}
                 v == [u EXCEPT !.waiting = x]
      <3>1. x \in SUBSET Endpoints /\ "none" \in Endpoints \cup {"none"}
        BY <2>1 DEF DriverType
      <3>2. w = [v EXCEPT !.dma = "none"]
        BY <2>1, <2>2, Fields
      <3>3. v \in DriverType
        BY <2>1, <3>1, FieldReplaced
      <3> HIDE DEF w
      <3>4. w \in DriverType
        <4> HIDE DEF v
        <4> QED BY <3>1, <3>2, <3>3, FieldReplaced
      <3> QED BY <2>1, <3>2, <3>4, Fields
    <2> HIDE DEF w, q
    <2>4. BusInv(u, q, a, c, TRUE) /\ TransfersInv(u, q, a, TRUE)
      BY DEF Mid, Core, q
    <2>5. BusInv(w, q, a, c, TRUE)
      BY <2>3, <2>4, BusKept
    <2>6. Full(w) = Full(u) /\ (Outstanding(w, q) <=> Outstanding(u, q))
      BY <1>2, <2>3, TwoEndpoints DEF Full, Outstanding, I, O
    <2>7. OutInv(w, q, a, TRUE)
      <3>1. O \in w.waiting <=> O \in u.waiting
        BY <2>3, TwoEndpoints
      <3>2. u.dma # O /\ w.dma # O
        BY <1>2, <2>3 DEF I, O
      <3> QED BY <2>3, <2>4, <2>6, <3>1, <3>2 DEF TransfersInv, OutInv
    <2>8. HandedInv(w, q)
      BY <2>4, <2>6 DEF TransfersInv, HandedInv
    <2>9. InInv(w, TRUE)
      BY <2>3, <2>4, TwoEndpoints DEF TransfersInv, InInv, I
    <2>10. ServedInv(w, q, a)
      <3>1. Clear(u, q, a) => Clear(w, q, a)
        BY <2>3 DEF Clear
      <3>2. StrictInv(u, q, a) => StrictInv(w, q, a)
        BY <2>3, <3>1 DEF StrictInv
      <3> QED BY <2>3, <2>4, <3>2 DEF TransfersInv, ServedInv
    <2>11. FetchInv(w)
      BY <2>3, <2>4 DEF TransfersInv, FetchInv
    <2>12. Core(w, q, a, c, TRUE)
      BY <2>3, <2>5, <2>7, <2>8, <2>9, <2>10, <2>11 DEF Core, TransfersInv
    <2>13. w.dma # I
      BY <2>3 DEF I
    <2> QED BY <2>3, <2>12, <2>13 DEF Mid, w, q
  <1> QED BY <1>1, <1>2


\* An OUT transfer that is done is reported.
LEMMA OutDoneStage ==
  ASSUME NEW u, NEW a, NEW c, Mid(u, a, c, TRUE), u.dma # I
  PROVE  Mid(DmaEnd(u, Outs), a, c, TRUE) /\ DmaEnd(u, Outs).dma = "none"
  <1>1. CASE u.dma # O
    <2>1. DmaEnd(u, Outs) = u
      BY <1>1, TwoEndpoints DEF DmaEnd
    <2>2. u.dma = "none"
      BY <1>1, TwoEndpoints DEF Mid, Core, DriverType
    <2> QED BY <2>1, <2>2
  <1>2. CASE u.dma = O
    <2> DEFINE v == [u EXCEPT !.dma = "none", !.waiting = @ \ {O}]
               w == DmaEnd(u, Outs)
               q == queue \o u.evts
               p == queue \o w.evts
    <2>1. /\ u \in DriverType /\ O \in u.waiting /\ u.handler[O] = "NULL" /\ u.status[O] = "OK"
          /\ OutOk \in Events /\ OutOk \in OutEvents
      BY <1>2, EventsAreEvents DEF Mid, Core, TransfersInv, OutInv, OutEvents
    <2>2. w = [v EXCEPT !.evts = Append(v.evts, OutOk)]
      <3>1. O \notin Ins /\ O \in Outs
        BY TwoEndpoints
      <3> QED BY <1>2, <2>1, <3>1 DEF DmaEnd, DriverType, Report, OutOk
    <2>3. /\ v \in DriverType /\ v.dma = "none" /\ v.waiting = u.waiting \ {O}
          /\ v.ready = u.ready /\ v.handler = u.handler /\ v.left = u.left
          /\ v.status = u.status /\ v.enabled = u.enabled /\ v.stalled = u.stalled
          /\ v.irqs = u.irqs /\ v.data = u.data /\ v.buffer = u.buffer /\ v.received = u.received
          /\ v.evts = u.evts /\ v.acked = u.acked /\ v.causes = u.causes
      BY <2>1 DEF DriverType
    <2> HIDE DEF v
    <2>4. Same(v, w) /\ w.evts = Append(v.evts, OutOk) /\ w.acked = v.acked /\ w.causes = v.causes
      BY <2>1, <2>2, <2>3, Reported
    <2>5. p = Append(q, OutOk)
      BY <2>1, <2>3, <2>4, EventsBehind DEF Mid
    <2> HIDE DEF w, q, p
    <2>6. BusInv(u, q, a, c, TRUE) /\ TransfersInv(u, q, a, TRUE)
      BY DEF Mid, Core, q
    <2>7. Outstanding(u, q) /\ ~host.asleep
      BY <1>2, <2>6 DEF Outstanding, TransfersInv, HandedInv
    <2>8. sustate = "ACTIVE" /\ "SETUP" \notin c /\ SETUP \notin In(q)
      BY <1>2, <2>6, TwoEndpoints DEF BusInv, SetupInv, SleepInv, O
    <2>9. In(q) \cap OutEvents = {}
      BY <1>2, <2>6 DEF TransfersInv, OutInv
    <2>10. BusInv(v, q, a, c, TRUE)
      BY <2>3, <2>6, BusKept
    <2>11. BusInv(v, p, a, c, TRUE) /\ In(p) = In(q) \cup {OutOk}
      <3>1. OutOk \in InEvents \cup OutEvents
        BY <2>1
      <3>2. BusInv(v, p, a, c, TRUE)
        BY <2>5, <2>7, <2>8, <2>9, <2>10, <3>1, BusAppended
      <3>3. QueueInv(q)
        BY <2>6 DEF BusInv
      <3>4. In(p) = In(q) \cup {OutOk}
        BY <2>5, <2>9, <3>1, <3>3, QueueAppended
      <3> QED BY <3>2, <3>4
    <2>12. BusInv(w, p, a, c, TRUE)
      <3>1. w.enabled = v.enabled /\ w.irqs = v.irqs /\ w.dma = v.dma /\ w.waiting = v.waiting /\ w.ready = v.ready
        BY <2>4 DEF Same
      <3> QED BY <2>11, <3>1, BusKept
    <2>13. /\ w \in DriverType /\ w.dma = "none" /\ w.waiting = u.waiting \ {O}
           /\ w.ready = u.ready /\ w.handler = u.handler /\ w.left = u.left
           /\ w.status = u.status /\ w.enabled = u.enabled /\ w.stalled = u.stalled
           /\ w.data = u.data /\ w.buffer = u.buffer /\ w.received = u.received
      BY <2>3, <2>4 DEF Same
    <2>14. /\ Full(w) = Full(u) /\ Outstanding(w, p) /\ OutWaiting \notin In(p)
           /\ In(p) \cap InEvents = In(q) \cap InEvents
      BY <2>9, <2>11, <2>13, EventsDiffer DEF Full, Outstanding, OutEvents, InEvents
    <2>15. OutInv(w, p, a, TRUE)
      <3>1. ~Full(u) /\ u.received[O] = Report1 /\ O \notin u.ready \cup a
        BY <1>2, <2>6 DEF TransfersInv, OutInv
      <3>2. w.dma # O /\ O \notin w.waiting
        BY <2>13 DEF O
      <3> QED BY <2>13, <2>14, <3>1, <3>2 DEF OutInv
    <2>16. HandedInv(w, p)
      BY <2>6, <2>7, <2>14 DEF TransfersInv, HandedInv
    <2>17. InInv(w, TRUE)
      BY <1>2, <2>6, <2>13, TwoEndpoints DEF TransfersInv, InInv, I, O
    <2>18. ServedInv(w, p, a)
      <3>1. I \in w.waiting <=> I \in u.waiting
        BY <2>13, TwoEndpoints
      <3>2. Clear(u, q, a) => Clear(w, p, a)
        BY <2>13, <2>14, <3>1 DEF Clear
      <3>3. Once(q, InOk) => Once(p, InOk)
        <4>1. OutOk \in BusEvents \cup InEvents \cup OutEvents /\ OutOk # InOk /\ QueueInv(q)
          BY <2>1, <2>6, EventsDiffer DEF BusInv
        <4> QED BY <2>5, <2>9, <4>1, QueueAppended
      <3>4. u.dma # I
        BY <1>2 DEF I, O
      <3>5. REQUEST \in In(q) <=> REQUEST \in In(p)
        BY <2>11, EventsDiffer
      <3>6. StrictInv(u, q, a) => StrictInv(w, p, a)
        BY <2>13, <2>14, <3>1, <3>2, <3>3, <3>4, <3>5 DEF StrictInv
      <3> QED BY <2>6, <2>8, <2>13, <3>6 DEF TransfersInv, ServedInv
    <2>19. FetchInv(w)
      <3>1. (I \in w.waiting <=> I \in u.waiting) /\ (w.dma # I <=> u.dma # I)
        BY <1>2, <2>13, TwoEndpoints DEF I, O
      <3> QED BY <2>6, <2>13, <3>1 DEF TransfersInv, FetchInv
    <2>20. Core(w, p, a, c, TRUE)
      BY <2>12, <2>13, <2>15, <2>16, <2>17, <2>18, <2>19 DEF Core, TransfersInv
    <2> QED BY <2>3, <2>4, <2>13, <2>20 DEF Mid, w, p
  <1> QED BY <1>1, <1>2


\* What was suspended or resumed is reported: it cannot be both.
LEMMA EventStage ==
  ASSUME NEW u, NEW a, NEW c, Mid(u, a, c, TRUE),
         "SUSPEND" \in usbd.causes <=> "SUSPEND" \in c, "RESUME" \in usbd.causes <=> "RESUME" \in c
  PROVE  /\ Mid(UsbEvent(u), a, (c \ {"SUSPEND"}) \ {"RESUME"}, TRUE)
         /\ UsbEvent(u).dma = u.dma
  <1>1. ~("SUSPEND" \in c /\ "RESUME" \in c)
    BY DEF Mid, Core, BusInv, SleepInv, ResumeInv
  <1>2. u.causes = usbd.causes /\ u \in DriverType
    BY DEF Mid, Core
  <1>3. CASE "SUSPEND" \in c
    <2> DEFINE w == Report([u EXCEPT !.suspended = TRUE], "SUSPEND", "")
    <2>1. UsbEvent(u) = w
      BY <1>1, <1>2, <1>3 DEF UsbEvent
    <2>2. w.dma = u.dma
      BY <1>2 DEF Report, DriverType
    <2>3. (c \ {"SUSPEND"}) \ {"RESUME"} = c \ {"SUSPEND"}
      BY <1>1, <1>3
    <2> HIDE DEF w
    <2>4. Mid(w, a, c \ {"SUSPEND"}, TRUE)
      BY <1>3, SuspendStage DEF w
    <2> QED BY <2>1, <2>2, <2>3, <2>4
  <1>4. CASE "SUSPEND" \notin c /\ "RESUME" \in c
    <2> DEFINE w == Report([u EXCEPT !.suspended = FALSE], "RESUME", "")
    <2>1. UsbEvent(u) = w
      BY <1>2, <1>4 DEF UsbEvent
    <2>2. w.dma = u.dma
      BY <1>2 DEF Report, DriverType
    <2>3. (c \ {"SUSPEND"}) \ {"RESUME"} = c \ {"RESUME"}
      BY <1>4
    <2> HIDE DEF w
    <2>4. Mid(w, a, c \ {"RESUME"}, TRUE)
      BY <1>4, ResumeStage DEF w
    <2> QED BY <2>1, <2>2, <2>3, <2>4
  <1>5. CASE "SUSPEND" \notin c /\ "RESUME" \notin c
    <2>1. UsbEvent(u) = u /\ (c \ {"SUSPEND"}) \ {"RESUME"} = c
      BY <1>2, <1>5 DEF UsbEvent
    <2> QED BY <2>1
  <1> QED BY <1>3, <1>4, <1>5

\* The host has fetched a packet: the endpoint is ready, and it is reported
\* unless the next transfer waits for it.
LEMMA InDataStage ==
  ASSUME NEW u, NEW a, NEW c, Mid(u, a, c, TRUE), I \in a, u.irqs, u.dma = "none"
  PROVE  Mid(DataHandler(u, I), a \ {I}, c, TRUE) /\ DataHandler(u, I).dma = "none"
  <1> DEFINE v == [u EXCEPT !.ready = @ \cup {I}]
             w == DataHandler(u, I)
             q == queue \o u.evts
             p == queue \o w.evts
             b == a \ {I}
  <1>1. u \in DriverType /\ BusInv(u, q, a, c, TRUE) /\ TransfersInv(u, q, a, TRUE)
    BY DEF Mid, Core
  <1>2. I \in Ins /\ I \in Endpoints /\ I # O
    BY TwoEndpoints
  <1>3. /\ v \in DriverType /\ v.dma = "none" /\ v.waiting = u.waiting
        /\ v.ready = u.ready \cup {I} /\ v.handler = u.handler /\ v.left = u.left
        /\ v.status = u.status /\ v.enabled = u.enabled /\ v.stalled = u.stalled
        /\ v.irqs = u.irqs /\ v.data = u.data /\ v.buffer = u.buffer /\ v.received = u.received
        /\ v.evts = u.evts /\ v.acked = u.acked /\ v.causes = u.causes
    <2> DEFINE x == u.ready \cup {I}
    <2>1. x \in SUBSET Endpoints
      BY <1>1, <1>2 DEF DriverType
    <2>2. v = [u EXCEPT !.ready = x]
      OBVIOUS
    <2> HIDE DEF v, x
    <2>3. v \in DriverType
      BY <1>1, <2>1, <2>2, FieldReplaced
    <2> QED BY <1>1, <2>2, <2>3, Fields DEF x
  <1>4. w = IF I \in u.waiting THEN v ELSE [v EXCEPT !.evts = Append(v.evts, InOk)]
    BY <1>2 DEF DataHandler, Report, InOk
  <1> HIDE DEF v, w, q, p, b
  <1>5. sustate = "ACTIVE" /\ ~host.asleep /\ "SETUP" \notin c /\ SETUP \notin In(q)
    BY <1>1 DEF BusInv, SleepInv, SetupInv
  <1>6. b \subseteq a /\ I \notin b /\ (O \in b <=> O \in a)
    BY <1>2 DEF b
  <1>7. BusInv(v, q, b, c, TRUE)
    BY <1>1, <1>3, <1>5, <1>6, BusKept
  <1>8. Full(v) = Full(u) /\ (Outstanding(v, q) <=> Outstanding(u, q))
    BY <1>3 DEF Full, Outstanding
  <1>9. OutInv(v, q, b, TRUE)
    <2>1. O \in v.ready <=> O \in u.ready
      BY <1>2, <1>3
    <2>2. u.dma # O
      BY DEF O
    <2> QED BY <1>1, <1>3, <1>6, <1>8, <2>1, <2>2 DEF TransfersInv, OutInv
  <1>10. HandedInv(v, q)
    BY <1>1, <1>8 DEF TransfersInv, HandedInv
  <1>11. InInv(v, TRUE)
    BY <1>1, <1>3 DEF TransfersInv, InInv, I
  <1>12. FetchInv(v)
    BY <1>1, <1>3 DEF TransfersInv, FetchInv
  <1>13. CASE I \in u.waiting
    <2>1. w = v /\ p = q
      BY <1>3, <1>4, <1>13 DEF p, q
    <2>2. ServedInv(v, q, b)
      <3>1. ~StrictInv(u, q, a)
        BY <1>13 DEF StrictInv
      <3> QED BY <1>1, <1>3, <3>1 DEF TransfersInv, ServedInv
    <2>3. Core(w, p, b, c, TRUE)
      BY <1>3, <1>7, <1>9, <1>10, <1>11, <1>12, <2>1, <2>2 DEF Core, TransfersInv
    <2> QED BY <1>3, <1>6, <2>1, <2>3 DEF Mid, p, w, b
  <1>14. CASE I \notin u.waiting
    <2>1. InOk \in Events /\ InOk \in InEvents /\ InOk \in InEvents \cup OutEvents /\ InOk \notin OutEvents
      BY EventsAreEvents, EventsDiffer DEF InEvents, OutEvents
    <2>2. Same(v, w) /\ w.evts = Append(v.evts, InOk) /\ w.acked = v.acked /\ w.causes = v.causes
      BY <1>3, <1>4, <1>14, <2>1, Reported
    <2>3. p = Append(q, InOk)
      BY <1>1, <1>3, <2>1, <2>2, EventsBehind DEF Mid, p, q
    <2>4. BusInv(v, p, b, c, TRUE)
      BY <1>5, <1>7, <2>1, <2>3, BusAppended
    <2>5. BusInv(w, p, b, c, TRUE)
      <3>1. w.enabled = v.enabled /\ w.irqs = v.irqs /\ w.dma = v.dma /\ w.waiting = v.waiting /\ w.ready = v.ready
        BY <2>2 DEF Same
      <3> QED BY <2>4, <3>1, BusKept
    <2>6. QueueInv(q)
      BY <1>1 DEF BusInv
    <2>7. /\ In(p) = In(q) \cup {InOk} /\ (InOk \notin In(q) => Once(p, InOk))
          /\ (OutOk \in In(p) <=> OutOk \in In(q)) /\ (OutWaiting \in In(p) <=> OutWaiting \in In(q))
          /\ In(p) \cap OutEvents = In(q) \cap OutEvents
      <3>1. In(p) = In(q) \cup {InOk} /\ (InOk \notin In(q) => Once(p, InOk))
        BY <2>1, <2>3, <2>6, QueueAppended
      <3> QED BY <3>1, EventsDiffer DEF OutEvents
    <2>8. Full(w) = Full(v) /\ (Outstanding(w, p) <=> Outstanding(v, q))
      BY <2>2, <2>7 DEF Full, Outstanding, Same
    <2>9. OutInv(w, p, b, TRUE)
      BY <1>9, <2>2, <2>7, <2>8 DEF OutInv, Same
    <2>10. HandedInv(w, p)
      BY <1>10, <2>8 DEF HandedInv
    <2>11. InInv(w, TRUE) /\ FetchInv(w)
      BY <1>11, <1>12, <2>2 DEF InInv, FetchInv, Same
    <2>12. ServedInv(w, p, b)
      <3>1. ASSUME StrictInv(u, q, a) PROVE StrictInv(w, p, b)
        <4>1. /\ I \notin u.ready \cup u.waiting /\ In(q) \cap InEvents = {} /\ inProgress
              /\ u.buffer[I] = NoPacket /\ u.stalled = {}
          BY <3>1 DEF StrictInv
        <4>2. In(p) \cap InEvents = {InOk} /\ Once(p, InOk)
          BY <2>1, <2>7, <4>1
        <4>3. I \in w.ready /\ I \notin w.waiting /\ w.buffer[I] = NoPacket /\ w.stalled = {}
          BY <1>3, <1>14, <2>2, <4>1 DEF Same
        <4> QED BY <1>5, <1>6, <4>1, <4>2, <4>3 DEF StrictInv
      <3> QED BY <1>1, <1>3, <1>5, <2>2, <3>1 DEF TransfersInv, ServedInv, Same
    <2>13. Core(w, p, b, c, TRUE)
      BY <2>2, <2>5, <2>9, <2>10, <2>11, <2>12 DEF Core, TransfersInv, Same
    <2> QED BY <1>3, <1>6, <2>2, <2>13 DEF Mid, p, w, b, Same
  <1> QED BY <1>13, <1>14


\* The host has sent a packet: the endpoint is ready, and it is reported unless
\* a transfer waits for it.
LEMMA OutDataStage ==
  ASSUME NEW u, NEW a, NEW c, Mid(u, a, c, TRUE), O \in a, u.irqs, u.dma = "none"
  PROVE  Mid(DataHandler(u, O), a \ {O}, c, TRUE) /\ DataHandler(u, O).dma = "none"
  <1> DEFINE v == [u EXCEPT !.ready = @ \cup {O}]
             w == DataHandler(u, O)
             q == queue \o u.evts
             p == queue \o w.evts
             b == a \ {O}
  <1>1. u \in DriverType /\ BusInv(u, q, a, c, TRUE) /\ TransfersInv(u, q, a, TRUE)
    BY DEF Mid, Core
  <1>2. O \notin Ins /\ O \in Endpoints /\ I # O
    BY TwoEndpoints
  <1>3. /\ v \in DriverType /\ v.dma = "none" /\ v.waiting = u.waiting
        /\ v.ready = u.ready \cup {O} /\ v.handler = u.handler /\ v.left = u.left
        /\ v.status = u.status /\ v.enabled = u.enabled /\ v.stalled = u.stalled
        /\ v.irqs = u.irqs /\ v.data = u.data /\ v.buffer = u.buffer /\ v.received = u.received
        /\ v.evts = u.evts /\ v.acked = u.acked /\ v.causes = u.causes
    <2> DEFINE x == u.ready \cup {O}
    <2>1. x \in SUBSET Endpoints
      BY <1>1, <1>2 DEF DriverType
    <2>2. v = [u EXCEPT !.ready = x]
      OBVIOUS
    <2> HIDE DEF v, x
    <2>3. v \in DriverType
      BY <1>1, <2>1, <2>2, FieldReplaced
    <2> QED BY <1>1, <2>2, <2>3, Fields DEF x
  <1>4. w = IF O \in u.waiting THEN v ELSE [v EXCEPT !.evts = Append(v.evts, OutWaiting)]
    BY <1>2 DEF DataHandler, Report, OutWaiting
  <1> HIDE DEF v, w, q, p, b
  <1>5. sustate = "ACTIVE" /\ ~host.asleep /\ "SETUP" \notin c /\ SETUP \notin In(q)
    BY <1>1 DEF BusInv, SleepInv, SetupInv
  <1>6. b \subseteq a /\ O \notin b /\ (I \in b <=> I \in a)
    BY <1>2 DEF b
  <1>7. BusInv(v, q, b, c, TRUE)
    BY <1>1, <1>3, <1>5, <1>6, BusKept
  <1>8. Full(v) = Full(u) /\ (Outstanding(v, q) <=> Outstanding(u, q))
    BY <1>3 DEF Full, Outstanding
  <1>9. /\ O \notin u.ready /\ In(q) \cap OutEvents = {} /\ OutOk \notin In(q) /\ OutWaiting \notin In(q)
        /\ O \in u.enabled => Full(u)
    BY <1>1 DEF TransfersInv, OutInv, OutEvents
  <1>10. HandedInv(v, q)
    BY <1>1, <1>8 DEF TransfersInv, HandedInv
  <1>11. I \in v.ready <=> I \in u.ready
    BY <1>2, <1>3
  <1>12. InInv(v, TRUE)
    BY <1>1, <1>3, <1>11 DEF TransfersInv, InInv
  <1>13. FetchInv(v)
    BY <1>1, <1>3 DEF TransfersInv, FetchInv
  <1>14. ServedInv(v, q, b)
    <2>1. Clear(u, q, a) => Clear(v, q, b)
      BY <1>3, <1>6, <1>11 DEF Clear
    <2>2. StrictInv(u, q, a) => StrictInv(v, q, b)
      BY <1>3, <1>6, <1>11, <2>1 DEF StrictInv
    <2> QED BY <1>1, <1>3, <2>2 DEF TransfersInv, ServedInv
  <1>15. CASE O \in u.waiting
    <2>1. w = v /\ p = q
      BY <1>3, <1>4, <1>15 DEF p, q
    <2>2. OutInv(v, q, b, TRUE)
      BY <1>1, <1>3, <1>6, <1>8, <1>9, <1>15 DEF TransfersInv, OutInv, O
    <2>3. Core(w, p, b, c, TRUE)
      BY <1>3, <1>7, <1>10, <1>12, <1>13, <1>14, <2>1, <2>2 DEF Core, TransfersInv
    <2> QED BY <1>3, <1>6, <2>1, <2>3 DEF Mid, p, w, b
  <1>16. CASE O \notin u.waiting
    <2>1. OutWaiting \in Events /\ OutWaiting \in OutEvents /\ OutWaiting \in InEvents \cup OutEvents
      BY EventsAreEvents DEF OutEvents
    <2>2. Same(v, w) /\ w.evts = Append(v.evts, OutWaiting) /\ w.acked = v.acked /\ w.causes = v.causes
      BY <1>3, <1>4, <1>16, <2>1, Reported
    <2>3. p = Append(q, OutWaiting)
      BY <1>1, <1>3, <2>1, <2>2, EventsBehind DEF Mid, p, q
    <2>4. BusInv(v, p, b, c, TRUE)
      BY <1>5, <1>7, <1>9, <2>1, <2>3, BusAppended
    <2>5. BusInv(w, p, b, c, TRUE)
      <3>1. w.enabled = v.enabled /\ w.irqs = v.irqs /\ w.dma = v.dma /\ w.waiting = v.waiting /\ w.ready = v.ready
        BY <2>2 DEF Same
      <3> QED BY <2>4, <3>1, BusKept
    <2>6. QueueInv(q)
      BY <1>1 DEF BusInv
    <2>7. /\ In(p) = In(q) \cup {OutWaiting} /\ (Once(q, InOk) => Once(p, InOk))
          /\ OutOk \notin In(p) /\ In(p) \cap InEvents = In(q) \cap InEvents
          /\ (REQUEST \in In(p) <=> REQUEST \in In(q))
      <3>1. OutWaiting \in BusEvents \cup InEvents \cup OutEvents /\ OutWaiting # InOk
        BY <2>1, EventsDiffer
      <3>2. In(p) = In(q) \cup {OutWaiting} /\ (Once(q, InOk) => Once(p, InOk))
        BY <1>9, <2>3, <2>6, <3>1, QueueAppended
      <3> QED BY <1>9, <3>2, EventsDiffer DEF InEvents
    <2>8. Full(w) = Full(v) /\ (Outstanding(w, p) <=> Outstanding(v, q))
      BY <1>9, <2>2, <2>7 DEF Full, Outstanding, Same
    <2>9. OutInv(w, p, b, TRUE)
      <3>1. /\ w.waiting = u.waiting /\ w.ready = u.ready \cup {O} /\ w.dma = "none"
            /\ w.enabled = u.enabled /\ w.buffer = u.buffer /\ Full(w) = Full(u)
        BY <1>3, <1>8, <2>2, <2>8 DEF Same
      <3>2. Full(u) => u.buffer[O] = Report1 /\ O \in u.enabled
        BY <1>1 DEF TransfersInv, OutInv
      <3> QED BY <1>6, <1>9, <1>16, <2>7, <3>1, <3>2 DEF OutInv, O
    <2>10. HandedInv(w, p)
      BY <1>10, <2>8 DEF HandedInv
    <2>11. InInv(w, TRUE) /\ FetchInv(w)
      BY <1>12, <1>13, <2>2 DEF InInv, FetchInv, Same
    <2>12. ServedInv(w, p, b)
      <3>1. Clear(v, q, b) => Clear(w, p, b)
        BY <2>2, <2>7 DEF Clear, Same
      <3>2. StrictInv(v, q, b) => StrictInv(w, p, b)
        BY <2>2, <2>7, <3>1 DEF StrictInv, Same
      <3> QED BY <1>5, <1>14, <2>2, <3>2 DEF ServedInv, Same
    <2>13. Core(w, p, b, c, TRUE)
      BY <2>2, <2>5, <2>9, <2>10, <2>11, <2>12 DEF Core, TransfersInv, Same
    <2> QED BY <1>3, <1>6, <2>2, <2>13 DEF Mid, p, w, b, Same
  <1> QED BY <1>15, <1>16



\* The endpoints of a loop are among the two that UsbHid has.
LEMMA EpDataIs ==
  ASSUME NEW u, u.acked \subseteq Endpoints, u.irqs, NEW v, NEW w,
         v = IF I \in u.acked THEN DataHandler(u, I) ELSE u,
         w = IF O \in u.acked THEN DataHandler(v, O) ELSE v
  PROVE  EpData(u) = w
  <1>1. /\ "IN0" \notin u.acked \ Control /\ "OUT0" \notin u.acked \ Control
        /\ "IN1" \in u.acked \ Control <=> I \in u.acked
        /\ "OUT1" \in u.acked \ Control <=> O \in u.acked
    BY TwoEndpoints DEF Control, I, O
  <1> DEFINE eps == u.acked \ Control
             At(x, ep) == IF ep \in eps THEN DataHandler(x, ep) ELSE x
             t1 == CHOOSE x \in {At(y, "IN1") : y \in {At(u, "IN0")}} : TRUE
             t2 == CHOOSE x \in {At(y, "OUT0") : y \in {t1}} : TRUE
             t3 == CHOOSE x \in {At(y, "OUT1") : y \in {t2}} : TRUE
  <1>2. EpData(u) = t3
    BY DEF EpData, InTurn, Then
  <1>3. At(u, "IN0") = u /\ At(u, "IN1") = v
    BY <1>1 DEF I
  <1>4. t1 = v
    <2> HIDE DEF At
    <2>1. {At(y, "IN1") : y \in {At(u, "IN0")}} = {v}
      BY <1>3
    <2> QED BY <2>1
  <1>5. At(v, "OUT0") = v /\ At(v, "OUT1") = w
    BY <1>1 DEF O
  <1>6. t2 = v
    <2> HIDE DEF At, t1
    <2>1. {At(y, "OUT0") : y \in {t1}} = {v}
      BY <1>4, <1>5
    <2> QED BY <2>1
  <1>7. t3 = w
    <2> HIDE DEF At, t1, t2
    <2>1. {At(y, "OUT1") : y \in {t2}} = {w}
      BY <1>5, <1>6
    <2> QED BY <2>1
  <1> QED BY <1>2, <1>7


\* EPDATA: every endpoint that was acknowledged has its turn.
LEMMA EpDataStage ==
  ASSUME NEW u, NEW c, Mid(u, usbd.acked, c, TRUE), u.dma = "none"
  PROVE  /\ Mid(EpData(u), IF u.irqs THEN {} ELSE usbd.acked, c, TRUE)
         /\ EpData(u).dma = "none" /\ EpData(u).irqs = u.irqs
  <1> DEFINE a == usbd.acked
             v == IF I \in u.acked THEN DataHandler(u, I) ELSE u
             w == IF O \in u.acked THEN DataHandler(v, O) ELSE v
             b == a \ {I}
  <1>1. u.acked = a /\ a \subseteq Endpoints /\ u \in DriverType
    BY DEF Mid, Core
  <1>2. CASE ~u.irqs
    <2>1. EpData(u) = u
      BY <1>2 DEF EpData
    <2> QED BY <1>2, <2>1
  <1>3. CASE u.irqs
    <2> HIDE DEF a, v, w
    <2>1. Mid(v, b, c, TRUE) /\ v.dma = "none" /\ v.irqs = u.irqs
      <3>1. CASE I \in a
        <4>1. v = DataHandler(u, I)
          BY <1>1, <3>1 DEF v
        <4>2. v.irqs = u.irqs
          BY <1>1, <4>1 DEF DataHandler, Report, DriverType
        <4>3. Mid(u, a, c, TRUE)
          BY DEF a
        <4> QED BY <1>3, <3>1, <4>1, <4>2, <4>3, InDataStage
      <3>2. CASE I \notin a
        <4>1. v = u /\ b = a
          BY <1>1, <3>2 DEF v
        <4> QED BY <4>1 DEF a
      <3> QED BY <3>1, <3>2
    <2>2. v.acked = a
      BY <2>1 DEF Mid, a
    <2>3. Mid(w, b \ {O}, c, TRUE) /\ w.dma = "none" /\ w.irqs = u.irqs
      <3>1. CASE O \in a
        <4>1. w = DataHandler(v, O) /\ O \in b
          BY <1>1, <3>1, TwoEndpoints DEF w
        <4>2. v \in DriverType
          BY <2>1 DEF Mid, Core
        <4>3. w.irqs = v.irqs
          BY <4>1, <4>2 DEF DataHandler, Report, DriverType
        <4> HIDE DEF b
        <4> QED BY <1>3, <2>1, <4>1, <4>3, OutDataStage
      <3>2. CASE O \notin a
        <4>1. w = v /\ b \ {O} = b
          BY <1>1, <3>2 DEF w
        <4> QED BY <2>1, <4>1
      <3> QED BY <3>1, <3>2
    <2>4. b \ {O} = {}
      BY <1>1, TwoEndpoints
    <2>5. EpData(u) = w
      <3>1. w = IF O \in u.acked THEN DataHandler(v, O) ELSE v
        BY DEF w
      <3>2. v = IF I \in u.acked THEN DataHandler(u, I) ELSE u
        BY DEF v
      <3> QED BY <1>1, <1>3, <3>1, <3>2, EpDataIs
    <2> QED BY <1>3, <2>3, <2>4, <2>5
  <1> QED BY <1>2, <1>3

\* What a transfer moves: one full packet, and it is done with it.
LEMMA StartIn ==
  ASSUME NEW u, NEW q, NEW a, NEW c, Core(u, q, a, c, TRUE), I \in u.waiting, u.dma = "none"
  PROVE  /\ Overloaded(u, I) = FALSE
         /\ StartDma(u, I) = [u EXCEPT !.dma = I, !.ready = @ \ {I}, !.left[I] = 0,
                                !.handler[I] = "NULL", !.buffer[I] = Packet(u.data[I], EpSize)]
  <1>1. u \in DriverType /\ u.left[I] = EpSize /\ u.handler[I] = "feeder"
    BY DEF Core, TransfersInv, InInv, I
  <1>2. I \in Ins /\ I \notin Outs /\ I \in Endpoints /\ EpSize \in Nat
    BY TwoEndpoints
  <1>3. Chunk(u, I) = EpSize
    <2>1. {u.left[I], EpSize} = {EpSize}
      BY <1>1
    <2>2. Min({EpSize}) = EpSize
      BY <1>2 DEF Min
    <2> QED BY <1>2, <2>1, <2>2 DEF Chunk
  <1>4. Continues(u, I) = FALSE
    BY <1>1, <1>3 DEF Continues
  <1>5. u.left[I] - EpSize = 0
    BY <1>1, <1>2
  <1> QED BY <1>1, <1>2, <1>3, <1>4, <1>5 DEF StartDma, Overloaded, DriverType

\* A transfer of the OUT endpoint starts its DMA.
LEMMA StartOut ==
  ASSUME NEW u, NEW q, NEW a, NEW c, Core(u, q, a, c, TRUE), O \in u.waiting, O \in u.ready,
         u.dma = "none"
  PROVE  /\ Full(u) /\ u.buffer[O] = Report1 /\ Overloaded(u, O) = FALSE
         /\ StartDma(u, O) = [u EXCEPT !.dma = O, !.ready = @ \ {O}, !.left[O] = 0,
                                !.handler[O] = "NULL", !.received[O] = Report1,
                                !.buffer[O] = NoPacket]
  <1>1. /\ u \in DriverType /\ u.left[O] = EpSize /\ u.handler[O] = "consumer"
        /\ Full(u) /\ u.buffer[O] = Report1
    BY DEF Core, TransfersInv, OutInv, O
  <1>2. O \notin Ins /\ O \in Outs /\ O \in Endpoints /\ EpSize \in Nat /\ u.buffer[O].size = EpSize
    BY <1>1, TwoEndpoints DEF Report1, Packet
  <1>3. Chunk(u, O) = EpSize
    BY <1>2 DEF Chunk
  <1>4. Continues(u, O) = FALSE
    BY <1>1, <1>3 DEF Continues
  <1>5. u.left[O] - EpSize = 0 /\ ~(u.left[O] < u.buffer[O].size)
    BY <1>1, <1>2
  <1> QED BY <1>1, <1>2, <1>3, <1>4, <1>5 DEF StartDma, Overloaded, DriverType


\* After the interrupt is handled nothing is certain to come but the end of the DMA.
LEMMA NoMoreCertain ==
  ASSUME NEW u, NEW q, NEW a, NEW c, BusInv(u, q, a, c, TRUE), c \subseteq {"SETUP"}
  PROVE  BusInv(u, q, a, c, FALSE)
  BY DEF BusInv, ResumeInv

\* The invariant when the DMA of the IN endpoint was started,
LEMMA InStarted ==
  ASSUME NEW u, NEW q, NEW a, NEW c, Core(u, q, a, c, TRUE), c \subseteq {"SETUP"},
         I \in u.waiting, u.dma = "none", NEW w,
         w = [u EXCEPT !.dma = I, !.ready = @ \ {I}, !.left[I] = 0,
                       !.handler[I] = "NULL", !.buffer[I] = Packet(u.data[I], EpSize)]
  PROVE  Core(w, q, a, c, FALSE) /\ w.evts = u.evts /\ w.acked = u.acked /\ w.causes = u.causes
  <1>1. u \in DriverType /\ BusInv(u, q, a, c, TRUE) /\ TransfersInv(u, q, a, TRUE)
    BY DEF Core
  <1>2. I \in Endpoints /\ O \in Endpoints /\ I # O /\ EpSize \in Nat /\ EpSize > 0
    BY TwoEndpoints
  <1>3. /\ w.dma = I /\ w.waiting = u.waiting /\ w.ready = u.ready \ {I}
        /\ w.handler[I] = "NULL" /\ w.handler[O] = u.handler[O]
        /\ w.left[O] = u.left[O] /\ w.status = u.status
        /\ w.enabled = u.enabled /\ w.stalled = u.stalled
        /\ w.irqs = u.irqs /\ w.data = u.data /\ w.buffer[O] = u.buffer[O]
        /\ w.buffer[I] = Packet(u.data[I], EpSize) /\ w.received = u.received
        /\ w.evts = u.evts /\ w.acked = u.acked /\ w.causes = u.causes
    BY <1>1, <1>2 DEF DriverType
  <1>4. w \in DriverType
    <2>1. Packet(u.data[I], EpSize) \in Packets
      BY <1>1, <1>2 DEF DriverType, Packet, Packets
    <2> DEFINE left == [u.left EXCEPT ![I] = 0]
               handler == [u.handler EXCEPT ![I] = "NULL"]
               buffer == [u.buffer EXCEPT ![I] = Packet(u.data[I], EpSize)]
               ready == u.ready \ {I}
    <2>2. /\ left \in [Endpoints -> Nat] /\ buffer \in [Endpoints -> Packets]
          /\ handler \in [Endpoints -> {"NULL", "feeder", "feeder_zlp", "consumer"}]
          /\ ready \in SUBSET Endpoints /\ I \in Endpoints \cup {"none"}
      BY <1>1, <1>2, <2>1 DEF DriverType
    <2> DEFINE w1 == [u EXCEPT !.dma = I]
               w2 == [w1 EXCEPT !.ready = ready]
               w3 == [w2 EXCEPT !.left = left]
               w4 == [w3 EXCEPT !.handler = handler]
               w5 == [w4 EXCEPT !.buffer = buffer]
    <2>3. w = w5
      BY <1>1 DEF DriverType
    <2> HIDE DEF left, handler, buffer, ready
    <2>4. w1 \in DriverType
      BY <1>1, <2>2, FieldReplaced
    <2> HIDE DEF w1
    <2>5. w2 \in DriverType
      BY <2>2, <2>4, FieldReplaced
    <2> HIDE DEF w2
    <2>6. w3 \in DriverType
      BY <2>2, <2>5, FieldReplaced
    <2> HIDE DEF w3
    <2>7. w4 \in DriverType
      BY <2>2, <2>6, FieldReplaced
    <2> HIDE DEF w4
    <2>8. w5 \in DriverType
      BY <2>2, <2>7, FieldReplaced
    <2> QED BY <2>3, <2>8
  <1>5. I \in u.ready /\ u.enabled # {} /\ sustate = "ACTIVE"
    BY <1>1 DEF TransfersInv, InInv, BusInv, SleepInv, I
  <1>6. BusInv(w, q, a, c, FALSE)
    <2>1. BusInv(w, q, a, c, TRUE)
      BY <1>1, <1>3, <1>5, BusKept
    <2> QED BY <2>1, NoMoreCertain
  <1>7. Full(w) = Full(u) /\ (Outstanding(w, q) <=> Outstanding(u, q)) /\ w.dma # O /\ u.dma # O
    BY <1>2, <1>3 DEF Full, Outstanding, I, O
  <1>8. OutInv(w, q, a, FALSE)
    <2>1. (O \in w.ready <=> O \in u.ready) /\ w.dma # "none"
      BY <1>2, <1>3 DEF I
    <2> QED BY <1>1, <1>3, <1>7, <2>1 DEF TransfersInv, OutInv
  <1>9. HandedInv(w, q)
    BY <1>1, <1>7 DEF TransfersInv, HandedInv
  <1>10. InInv(w, FALSE)
    BY <1>1, <1>3, <1>5 DEF TransfersInv, InInv
  <1>11. ServedInv(w, q, a)
    <2>1. ASSUME StrictInv(u, q, a) PROVE StrictInv(w, q, a)
      <3>1. I \notin a /\ In(q) \cap InEvents = {} /\ inProgress /\ u.stalled = {}
        BY <2>1, <1>5 DEF StrictInv
      <3> QED BY <1>3, <1>5, <3>1 DEF StrictInv
    <2> QED BY <1>1, <1>3, <2>1 DEF TransfersInv, ServedInv
  <1>12. FetchInv(w)
    <2>1. w.buffer[I].data = u.data[I]
      BY <1>3 DEF Packet
    <2>2. u.dma # I
      BY DEF I
    <2> QED BY <1>1, <1>3, <2>1, <2>2 DEF TransfersInv, FetchInv
  <1> QED BY <1>3, <1>4, <1>6, <1>8, <1>9, <1>10, <1>11, <1>12 DEF Core, TransfersInv

\* and when that of the OUT endpoint was.
LEMMA OutStarted ==
  ASSUME NEW u, NEW q, NEW a, NEW c, Core(u, q, a, c, TRUE), c \subseteq {"SETUP"},
         O \in u.waiting, O \in u.ready, I \notin u.waiting, u.dma = "none", NEW w,
         w = [u EXCEPT !.dma = O, !.ready = @ \ {O}, !.left[O] = 0,
                       !.handler[O] = "NULL", !.received[O] = Report1, !.buffer[O] = NoPacket]
  PROVE  Core(w, q, a, c, FALSE) /\ w.evts = u.evts /\ w.acked = u.acked /\ w.causes = u.causes
  <1>1. u \in DriverType /\ BusInv(u, q, a, c, TRUE) /\ TransfersInv(u, q, a, TRUE)
    BY DEF Core
  <1>2. I \in Endpoints /\ O \in Endpoints /\ I # O /\ EpSize \in Nat /\ EpSize > 0
    BY TwoEndpoints
  <1>3. Full(u) /\ u.buffer[O] = Report1 /\ u.status[O] = "OK"
    BY <1>1 DEF TransfersInv, OutInv, O
  <1>4. /\ w.dma = O /\ w.waiting = u.waiting /\ w.ready = u.ready \ {O}
        /\ w.handler[O] = "NULL" /\ w.handler[I] = u.handler[I]
        /\ w.left[I] = u.left[I] /\ w.status = u.status
        /\ w.enabled = u.enabled /\ w.stalled = u.stalled
        /\ w.irqs = u.irqs /\ w.data = u.data /\ w.buffer[O] = NoPacket
        /\ w.buffer[I] = u.buffer[I] /\ w.received[O] = Report1
        /\ w.evts = u.evts /\ w.acked = u.acked /\ w.causes = u.causes
    BY <1>1, <1>2 DEF DriverType
  <1>5. w \in DriverType
    <2>1. Report1 \in Packets /\ NoPacket \in Packets
      BY <1>1, <1>2, <1>3 DEF DriverType, NoPacket, Packet, Packets
    <2> DEFINE left == [u.left EXCEPT ![O] = 0]
               handler == [u.handler EXCEPT ![O] = "NULL"]
               buffer == [u.buffer EXCEPT ![O] = NoPacket]
               received == [u.received EXCEPT ![O] = Report1]
               ready == u.ready \ {O}
    <2>2. /\ left \in [Endpoints -> Nat] /\ buffer \in [Endpoints -> Packets]
          /\ handler \in [Endpoints -> {"NULL", "feeder", "feeder_zlp", "consumer"}]
          /\ received \in [Endpoints -> Packets]
          /\ ready \in SUBSET Endpoints /\ O \in Endpoints \cup {"none"}
      BY <1>1, <1>2, <2>1 DEF DriverType
    <2> DEFINE w1 == [u EXCEPT !.dma = O]
               w2 == [w1 EXCEPT !.ready = ready]
               w3 == [w2 EXCEPT !.left = left]
               w4 == [w3 EXCEPT !.handler = handler]
               w5 == [w4 EXCEPT !.received = received]
               w6 == [w5 EXCEPT !.buffer = buffer]
    <2>3. w = w6
      BY <1>1 DEF DriverType
    <2> HIDE DEF left, handler, buffer, ready, received
    <2>4. w1 \in DriverType
      BY <1>1, <2>2, FieldReplaced
    <2> HIDE DEF w1
    <2>5. w2 \in DriverType
      BY <2>2, <2>4, FieldReplaced
    <2> HIDE DEF w2
    <2>6. w3 \in DriverType
      BY <2>2, <2>5, FieldReplaced
    <2> HIDE DEF w3
    <2>7. w4 \in DriverType
      BY <2>2, <2>6, FieldReplaced
    <2> HIDE DEF w4
    <2>8. w5 \in DriverType
      BY <2>2, <2>7, FieldReplaced
    <2> HIDE DEF w5
    <2>9. w6 \in DriverType
      BY <2>2, <2>8, FieldReplaced
    <2> QED BY <2>3, <2>9
  <1>6. u.enabled # {} /\ sustate = "ACTIVE"
    BY <1>1 DEF TransfersInv, OutInv, BusInv, SleepInv
  <1>7. BusInv(w, q, a, c, FALSE)
    <2>1. BusInv(w, q, a, c, TRUE)
      BY <1>1, <1>4, <1>6, BusKept
    <2> QED BY <2>1, NoMoreCertain
  <1>8. ~Full(w) /\ Outstanding(w, q) /\ Outstanding(u, q)
    BY <1>3, <1>4 DEF Full, Outstanding
  <1>9. In(q) \cap OutEvents = {} /\ OutOk \notin In(q) /\ OutWaiting \notin In(q) /\ O \notin a
    BY <1>1, <1>3 DEF TransfersInv, OutInv, OutEvents
  <1>10. OutInv(w, q, a, FALSE)
    BY <1>1, <1>3, <1>4, <1>8, <1>9 DEF TransfersInv, OutInv
  <1>11. HandedInv(w, q)
    BY <1>1, <1>8 DEF TransfersInv, HandedInv
  <1>12. (I \in w.ready <=> I \in u.ready) /\ w.dma # I /\ u.dma # I
    BY <1>2, <1>4 DEF I, O
  <1>13. InInv(w, FALSE)
    BY <1>1, <1>4, <1>12 DEF TransfersInv, InInv
  <1>14. ServedInv(w, q, a)
    <2>1. Clear(u, q, a) => Clear(w, q, a)
      BY <1>4, <1>12 DEF Clear
    <2>2. StrictInv(u, q, a) => StrictInv(w, q, a)
      BY <1>4, <1>12, <2>1 DEF StrictInv
    <2> QED BY <1>1, <1>4, <2>2 DEF TransfersInv, ServedInv
  <1>15. FetchInv(w)
    BY <1>1, <1>4, <1>12 DEF TransfersInv, FetchInv
  <1> QED BY <1>4, <1>5, <1>7, <1>10, <1>11, <1>13, <1>14, <1>15 DEF Core, TransfersInv


\* No endpoint is left over: nothing is reported.
LEMMA NoTurns == ASSUME NEW u PROVE InTurn(u, {}, Overload) = u
  <1> DEFINE At(x, ep) == IF ep \in {} THEN Overload(x, ep) ELSE x
             t1 == CHOOSE x \in {At(y, "IN1") : y \in {At(u, "IN0")}} : TRUE
             t2 == CHOOSE x \in {At(y, "OUT0") : y \in {t1}} : TRUE
             t3 == CHOOSE x \in {At(y, "OUT1") : y \in {t2}} : TRUE
  <1>1. InTurn(u, {}, Overload) = t3
    BY DEF InTurn, Then
  <1>2. \A x, ep : At(x, ep) = x
    OBVIOUS
  <1> HIDE DEF At
  <1>3. t1 = u
    <2>1. {At(y, "IN1") : y \in {At(u, "IN0")}} = {u}
      BY <1>2
    <2> QED BY <2>1
  <1> HIDE DEF t1
  <1>4. t2 = u
    <2>1. {At(y, "OUT0") : y \in {t1}} = {u}
      BY <1>2, <1>3
    <2> QED BY <2>1
  <1> HIDE DEF t2
  <1>5. t3 = u
    <2>1. {At(y, "OUT1") : y \in {t2}} = {u}
      BY <1>2, <1>4
    <2> QED BY <2>1
  <1> QED BY <1>1, <1>5

\* The scheduler: an IN transfer goes first, and nothing overflows.
LEMMA SchedulerIs ==
  ASSUME NEW u, NEW q, NEW a, NEW c, Core(u, q, a, c, TRUE), u.dma = "none"
  PROVE  DmaReqProcess(u) = IF I \in u.waiting THEN StartDma(u, I)
                            ELSE IF O \in u.waiting \cap u.ready THEN StartDma(u, O) ELSE u
  <1> DEFINE todo == u.waiting \cap u.ready
             fits == {ep \in todo : ~Overloaded(u, ep)}
             next == CHOOSE ep \in fits : \A f \in fits \ {ep} : Before(ep, f)
             skipped == {ep \in todo \ fits : fits # {} => Before(ep, next)}
             v == InTurn(u, skipped, Overload)
  <1>1. DmaReqProcess(u) = IF fits = {} THEN v ELSE StartDma(v, next)
    BY DEF DmaReqProcess
  <1>2. u.waiting \subseteq {I, O} /\ (I \in u.waiting => I \in u.ready)
    <2>1. u \in DriverType /\ u.dma # I
      BY DEF Core, I
    <2> QED BY <2>1, TwoEndpoints DEF Core, TransfersInv, InInv, DriverType
  <1>3. \A ep \in todo : ~Overloaded(u, ep)
    <2>1. ASSUME I \in u.waiting PROVE ~Overloaded(u, I)
      BY <2>1, StartIn
    <2>2. ASSUME O \in u.waiting, O \in u.ready PROVE ~Overloaded(u, O)
      BY <2>2, StartOut
    <2> QED BY <1>2, <2>1, <2>2
  <1>4. fits = todo
    BY <1>3
  <1>5. skipped = {}
    BY <1>4
  <1>6. v = u
    <2> HIDE DEF skipped
    <2> QED BY <1>5, NoTurns
  <1> HIDE DEF v, skipped
  <1>7. Before(I, O) /\ ~Before(O, I)
    BY DEF Before, Bit, I, O
  <1>8. CASE I \in u.waiting
    <2>1. I \in fits /\ fits \subseteq {I, O} /\ I # O
      BY <1>2, <1>4, <1>8, TwoEndpoints
    <2> HIDE DEF fits
    <2>2. \A f \in fits \ {I} : Before(I, f)
      BY <1>7, <2>1
    <2>3. next \in fits /\ \A f \in fits \ {next} : Before(next, f)
      BY <2>1, <2>2
    <2>4. next = I
      BY <1>7, <2>1, <2>3
    <2> QED BY <1>1, <1>6, <1>8, <2>1, <2>4
  <1>9. CASE I \notin u.waiting /\ O \in u.waiting \cap u.ready
    <2>1. fits = {O}
      BY <1>2, <1>4, <1>9
    <2> HIDE DEF fits
    <2>2. next = O
      BY <2>1
    <2> QED BY <1>1, <1>6, <1>9, <2>1, <2>2
  <1>10. CASE I \notin u.waiting /\ O \notin u.waiting \cap u.ready
    <2>1. fits = {}
      BY <1>2, <1>4, <1>10
    <2> HIDE DEF fits
    <2> QED BY <1>1, <1>6, <1>10, <2>1
  <1> QED BY <1>8, <1>9, <1>10

\* usbd_dmareq_process, the stage that starts at most one DMA.
LEMMA DmaStage ==
  ASSUME NEW u, NEW a, NEW c, Mid(u, a, c, TRUE), u.dma = "none", c \subseteq {"SETUP"}
  PROVE  Mid(DmaReqProcess(u), a, c, FALSE)
  <1> DEFINE q == queue \o u.evts
             w == DmaReqProcess(u)
  <1>1. Core(u, q, a, c, TRUE)
    BY DEF Mid
  <1> HIDE DEF w
  <1>2. Core(w, q, a, c, FALSE) /\ w.evts = u.evts /\ w.acked = u.acked /\ w.causes = u.causes
    <2> HIDE DEF q
    <2>1. CASE I \in u.waiting
      <3>1. w = [u EXCEPT !.dma = I, !.ready = @ \ {I}, !.left[I] = 0,
                          !.handler[I] = "NULL", !.buffer[I] = Packet(u.data[I], EpSize)]
        BY <1>1, <2>1, SchedulerIs, StartIn DEF w
      <3> QED BY <1>1, <2>1, <3>1, InStarted
    <2>2. CASE I \notin u.waiting /\ O \in u.waiting \cap u.ready
      <3>1. w = [u EXCEPT !.dma = O, !.ready = @ \ {O}, !.left[O] = 0,
                          !.handler[O] = "NULL", !.received[O] = Report1, !.buffer[O] = NoPacket]
        BY <1>1, <2>2, SchedulerIs, StartOut DEF w
      <3> QED BY <1>1, <2>2, <3>1, OutStarted
    <2>3. CASE I \notin u.waiting /\ O \notin u.waiting \cap u.ready
      <3>1. w = u
        BY <1>1, <2>3, SchedulerIs DEF w
      <3>2. BusInv(u, q, a, c, FALSE) /\ TransfersInv(u, q, a, TRUE)
        BY <1>1, NoMoreCertain DEF Core
      <3>3. OutInv(u, q, a, FALSE)
        BY <2>3, <3>2 DEF TransfersInv, OutInv
      <3>4. InInv(u, FALSE)
        BY <2>3, <3>2 DEF TransfersInv, InInv
      <3>5. Core(u, q, a, c, FALSE)
        BY <1>1, <3>2, <3>3, <3>4 DEF Core, TransfersInv
      <3> QED BY <3>1, <3>5
    <2> QED BY <2>1, <2>2, <2>3
  <1> QED BY <1>2 DEF Mid, w

\* The stage of a SETUP packet.
LEMMA SetupStage ==
  ASSUME NEW u, NEW a, NEW c, Mid(u, a, c, FALSE), "SETUP" \in usbd.causes <=> "SETUP" \in c
  PROVE  Mid(Setup(u, "OUT0"), a, c \ {"SETUP"}, FALSE)
  <1> DEFINE q == queue \o u.evts
             w == Setup(u, "OUT0")
             d == c \ {"SETUP"}
  <1>1. u \in DriverType /\ u.causes = usbd.causes /\ BusInv(u, q, a, c, FALSE) /\ c \subseteq Causes
    BY DEF Mid, Core
  <1>2. ~Busy(u, u.setupDir) /\ u.setupDir = "OUT0"
    BY <1>1, UsbHidAssumption DEF DriverType, Busy, Ins
  <1>3. u.waiting \ Control = u.waiting /\ u.ready \cup (Control \cap Ins) = u.ready
    BY <1>1, UsbHidAssumption DEF DriverType, Control, Ins
  <1> DEFINE v == [u EXCEPT !.setupDir = "OUT0", !.waiting = @ \ Control,
                     !.ready = @ \cup (Control \cap Ins)]
  <1>4. Same(u, v) /\ v.evts = u.evts /\ v.acked = u.acked /\ v.causes = u.causes
    BY <1>1, <1>3 DEF DriverType, Same
  <1>5. w = IF "SETUP" \in u.causes /\ u.irqs THEN [v EXCEPT !.evts = Append(v.evts, SETUP)] ELSE u
    BY <1>2 DEF Setup, Report, SETUP
  <1> HIDE DEF v, w, q, d
  <1>6. CASE "SETUP" \notin c
    <2>1. w = u /\ d = c
      BY <1>1, <1>5, <1>6 DEF d
    <2> QED BY <2>1 DEF w, d
  <1>7. CASE "SETUP" \in c
    <2>1. /\ c = {"SETUP"} /\ In(q) = {} /\ host.state = "configuring" /\ ~host.asleep
          /\ sustate = "ACTIVE" /\ ~clock /\ a = {} /\ u.dma = "none" /\ u.enabled = {}
      BY <1>1, <1>7 DEF BusInv, SetupInv
    <2>2. w = [v EXCEPT !.evts = Append(v.evts, SETUP)]
      BY <1>1, <1>5, <1>7, <2>1 DEF BusInv, SleepInv
    <2>3. SETUP \in BusEvents /\ SETUP # RESUME /\ d = {}
      BY <2>1, EventsDiffer DEF BusEvents, d
    <2>4. ASSUME NEW p, In(p) = In(q) \cup {SETUP}
          PROVE  /\ ResetInv(u, p, a, d) /\ SetupInv(u, p, a, d)
                 /\ SleepInv(u, p, a, d) /\ ResumeInv(p, d, FALSE)
      <3>1. In(p) = {SETUP}
        BY <2>1, <2>4
      <3>2. ResetInv(u, p, a, d)
        BY <1>1, <2>1, <2>3, <3>1, EventsDiffer DEF BusInv, ResetInv
      <3>3. SetupInv(u, p, a, d)
        BY <2>1, <2>3, <3>1 DEF SetupInv
      <3>4. SleepInv(u, p, a, d)
        BY <1>1, <2>1, <2>3, <3>1, EventsDiffer DEF BusInv, SleepInv
      <3>5. ResumeInv(p, d, FALSE)
        BY <2>1, <2>3, <3>1, EventsDiffer DEF ResumeInv, Sleeping
      <3> QED BY <3>2, <3>3, <3>4, <3>5
    <2>5. SETUP \notin In(q)
      BY <2>1
    <2> QED BY <1>4, <2>1, <2>2, <2>3, <2>4, <2>5, BusStage DEF w, q, d
  <1> QED BY <1>6, <1>7


\* The interrupt is the chain of its stages.
LEMMA InterruptIs ==
  ASSUME NEW u, NEW v1, NEW v2, NEW v3, NEW v4, NEW v5, NEW v6, NEW v7, NEW v8, NEW v9,
         v1 = UsbReset(u), v2 = DmaEnd(v1, Ins), v3 = SetupDataDone(v2), v4 = DmaEnd(v3, Outs),
         v5 = UsbEvent(v4), v6 = EpData(v5), v7 = DmaReqProcess(v6), v8 = Setup(v7, "OUT0"),
         v9 = Handled(v8)
  PROVE  Interrupt(u, "OUT0") = v9
  <1> DEFINE t1 == CHOOSE w \in {UsbReset(v) : v \in {u}} : TRUE
             t2 == CHOOSE w \in {DmaEnd(v, Ins) : v \in {t1}} : TRUE
             t3 == CHOOSE w \in {SetupDataDone(v) : v \in {t2}} : TRUE
             t4 == CHOOSE w \in {DmaEnd(v, Outs) : v \in {t3}} : TRUE
             t5 == CHOOSE w \in {UsbEvent(v) : v \in {t4}} : TRUE
             t6 == CHOOSE w \in {EpData(v) : v \in {t5}} : TRUE
             t7 == CHOOSE w \in {DmaReqProcess(v) : v \in {t6}} : TRUE
             t8 == CHOOSE w \in {Setup(v, "OUT0") : v \in {t7}} : TRUE
             t9 == CHOOSE w \in {Handled(v) : v \in {t8}} : TRUE
  <1>0. Interrupt(u, "OUT0") = t9
    BY DEF Interrupt, Then
  <1>1. t1 = v1
    <2>1. {UsbReset(v) : v \in {u}} = {v1}
      OBVIOUS
    <2> QED BY <2>1
  <1> HIDE DEF t1
  <1>2. t2 = v2
    <2>1. {DmaEnd(v, Ins) : v \in {t1}} = {v2}
      BY <1>1
    <2> QED BY <2>1
  <1> HIDE DEF t2
  <1>3. t3 = v3
    <2>1. {SetupDataDone(v) : v \in {t2}} = {v3}
      BY <1>2
    <2> QED BY <2>1
  <1> HIDE DEF t3
  <1>4. t4 = v4
    <2>1. {DmaEnd(v, Outs) : v \in {t3}} = {v4}
      BY <1>3
    <2> QED BY <2>1
  <1> HIDE DEF t4
  <1>5. t5 = v5
    <2>1. {UsbEvent(v) : v \in {t4}} = {v5}
      BY <1>4
    <2> QED BY <2>1
  <1> HIDE DEF t5
  <1>6. t6 = v6
    <2>1. {EpData(v) : v \in {t5}} = {v6}
      BY <1>5
    <2> QED BY <2>1
  <1> HIDE DEF t6
  <1>7. t7 = v7
    <2>1. {DmaReqProcess(v) : v \in {t6}} = {v7}
      BY <1>6
    <2> QED BY <2>1
  <1> HIDE DEF t7
  <1>8. t8 = v8
    <2>1. {Setup(v, "OUT0") : v \in {t7}} = {v8}
      BY <1>7
    <2> QED BY <2>1
  <1> HIDE DEF t8
  <1>9. t9 = v9
    <2>1. {Handled(v) : v \in {t8}} = {v9}
      BY <1>8
    <2> QED BY <2>1
  <1> QED BY <1>0, <1>9

\* An interrupt that is pending is certain.
LEMMA Certain ==
  ASSUME NEW u, NEW q, NEW a, NEW c, NEW r \in BOOLEAN, Core(u, q, a, c, r)
  PROVE  Core(u, q, a, c, TRUE)
  <1>1. BusInv(u, q, a, c, TRUE)
    BY DEF Core, BusInv, ResumeInv
  <1>2. OutInv(u, q, a, TRUE)
    BY DEF Core, TransfersInv, OutInv
  <1>3. InInv(u, TRUE)
    BY DEF Core, TransfersInv, InInv
  <1> QED BY <1>1, <1>2, <1>3 DEF Core, TransfersInv

\* Nothing was appended.
LEMMA BehindNothing == ASSUME NEW S, NEW q \in Seq(S) PROVE q \o <<>> = q
  OBVIOUS

\* All the stages of the interrupt, one after the other.
LEMMA InterruptStages ==
  ASSUME HidInv
  PROVE  \E v \in DriverType :
           /\ Interrupt(usbd, "OUT0") = Handled(v)
           /\ Mid(v, IF v.irqs THEN {} ELSE usbd.acked, {}, FALSE)
  <1> DEFINE a == usbd.acked
             c == usbd.causes
             c1 == c \ {"RESET"}
             c5 == (c1 \ {"SUSPEND"}) \ {"RESUME"}
  <1>1. /\ usbd \in DriverType /\ queue \in Seq(Events) /\ usbd.evts = <<>>
        /\ a \in SUBSET Endpoints /\ c \in SUBSET Causes /\ usbd.raised \in BOOLEAN
    BY DEF HidInv, Core, DriverType, BusInv, QueueInv
  <1>2. Mid(usbd, a, c, TRUE)
    <2>1. queue \o usbd.evts = queue
      BY <1>1, BehindNothing
    <2>2. Core(usbd, queue, a, c, TRUE)
      <3>1. Core(usbd, queue, a, c, usbd.raised)
        BY DEF HidInv
      <3> HIDE DEF a, c
      <3> QED BY <1>1, <3>1, Certain
    <2> QED BY <1>1, <2>1, <2>2 DEF Mid, HidInv
  <1> DEFINE v1 == UsbReset(usbd)
             v2 == DmaEnd(v1, Ins)
             v3 == SetupDataDone(v2)
             v4 == DmaEnd(v3, Outs)
             v5 == UsbEvent(v4)
             v6 == EpData(v5)
             v7 == DmaReqProcess(v6)
             v8 == Setup(v7, "OUT0")
             b == IF v5.irqs THEN {} ELSE a
  <1>3. Interrupt(usbd, "OUT0") = Handled(v8)
    BY InterruptIs
  <1> HIDE DEF v1
  <1>4. Mid(v1, a, c1, TRUE)
    BY <1>2, ResetStage DEF v1
  <1> HIDE DEF v2
  <1>5. Mid(v2, a, c1, TRUE) /\ v2.dma # I
    BY <1>4, InDoneStage DEF v2
  <1> HIDE DEF v3
  <1>6. v3 = v2
    <2>1. v2.acked \cap Control = {}
      BY <1>1, <1>5, UsbHidAssumption DEF Mid, Control
    <2> QED BY <2>1 DEF v3, SetupDataDone
  <1> HIDE DEF v4
  <1>7. Mid(v4, a, c1, TRUE) /\ v4.dma = "none"
    BY <1>5, <1>6, OutDoneStage DEF v4
  <1> HIDE DEF v5
  <1>8. Mid(v5, a, c5, TRUE) /\ v5.dma = "none"
    <2>1. ("SUSPEND" \in c <=> "SUSPEND" \in c1) /\ ("RESUME" \in c <=> "RESUME" \in c1)
      OBVIOUS
    <2> HIDE DEF c1
    <2> QED BY <1>7, <2>1, EventStage DEF v5
  <1> HIDE DEF v6
  <1>9. Mid(v6, b, c5, TRUE) /\ v6.dma = "none" /\ v6.irqs = v5.irqs
    <2> HIDE DEF c5
    <2> QED BY <1>8, EpDataStage DEF v6
  <1>10. c5 \subseteq {"SETUP"} /\ ("SETUP" \in c <=> "SETUP" \in c5) /\ c5 \ {"SETUP"} = {}
    BY <1>1 DEF Causes
  <1> HIDE DEF v7, b, c5
  <1>11. Mid(v7, b, c5, FALSE)
    BY <1>9, <1>10, DmaStage DEF v7
  <1> HIDE DEF v8
  <1>12. Mid(v8, b, {}, FALSE)
    BY <1>10, <1>11, SetupStage DEF v8
  <1>13. v8 \in DriverType /\ v8.irqs = (sustate = "ACTIVE") /\ v5.irqs = (sustate = "ACTIVE")
    BY <1>8, <1>12 DEF Mid, Core, BusInv, SleepInv
  <1>14. b = IF v8.irqs THEN {} ELSE usbd.acked
    BY <1>13 DEF b
  <1> QED BY <1>3, <1>12, <1>13, <1>14

\* An interrupt keeps the invariant.
LEMMA UsbInterruptKeeps == ASSUME HidInv, UsbInterrupt PROVE HidInv'
  <1>1. PICK v \in DriverType :
          /\ Interrupt(usbd, "OUT0") = Handled(v)
          /\ Mid(v, IF v.irqs THEN {} ELSE usbd.acked, {}, FALSE)
    BY InterruptStages
  <1> DEFINE a == IF v.irqs THEN {} ELSE usbd.acked
             q == queue \o v.evts
             w == [Handled(v) EXCEPT !.evts = <<>>]
  <1>2. usbd' = w /\ queue' = q
    <2>1. PICK x \in {Handled(v)} : usbd' = [x EXCEPT !.evts = <<>>] /\ queue' = queue \o x.evts
      BY <1>1 DEF UsbInterrupt, Put
    <2>2. Handled(v).evts = v.evts
      BY DEF Handled, DriverType
    <2> QED BY <2>1, <2>2
  <1>3. /\ v \in DriverType /\ v.acked = usbd.acked /\ v.causes = usbd.causes
        /\ Core(v, q, a, {}, FALSE) /\ RestTypes /\ v.irqs \in BOOLEAN
    BY <1>1 DEF Mid, DriverType
  <1>4. "SETUP" \in usbd.causes => v.irqs
    <2>1. "SETUP" \in usbd.causes => sustate = "ACTIVE"
      BY DEF HidInv, Core, BusInv, SetupInv
    <2>2. v.irqs = (sustate = "ACTIVE")
      BY <1>3 DEF Core, BusInv, SleepInv
    <2> QED BY <2>1, <2>2
  <1>5. /\ w.waiting = v.waiting /\ w.ready = v.ready /\ w.handler = v.handler /\ w.left = v.left
        /\ w.status = v.status /\ w.dma = v.dma /\ w.enabled = v.enabled /\ w.stalled = v.stalled
        /\ w.irqs = v.irqs /\ w.data = v.data /\ w.buffer = v.buffer /\ w.received = v.received
        /\ w.evts = <<>> /\ w.raised = FALSE
        /\ w.acked = IF v.irqs THEN {} ELSE v.acked
        /\ w.causes = IF v.irqs THEN {} ELSE v.causes \cap {"SETUP"}
    BY <1>3 DEF Handled, DriverType
  <1>6. w.acked = a /\ w.causes = {}
    BY <1>3, <1>4, <1>5
  <1>7. w \in DriverType
    <2> DEFINE w1 == [v EXCEPT !.raised = FALSE]
               w2 == [w1 EXCEPT !.causes = {}]
               w3 == [w2 EXCEPT !.acked = a]
               w4 == [w3 EXCEPT !.evts = <<>>]
    <2>1. w = w4
      <3>1. (IF v.irqs THEN {} ELSE v.causes \cap {"SETUP"}) = {}
        BY <1>3, <1>4
      <3>2. (IF v.irqs THEN {} ELSE v.acked) = a
        BY <1>3
      <3>3. \A x, y : [v EXCEPT !.raised = FALSE, !.causes = x, !.acked = y]
                        = [[[v EXCEPT !.raised = FALSE] EXCEPT !.causes = x] EXCEPT !.acked = y]
        BY <1>3 DEF DriverType
      <3>4. Handled(v) = w3
        BY <3>1, <3>2, <3>3 DEF Handled
      <3> QED BY <3>4
    <2>2. /\ FALSE \in BOOLEAN /\ {} \in SUBSET Causes /\ a \in SUBSET Endpoints
          /\ <<>> \in Seq(Events)
      BY <1>3 DEF DriverType
    <2>3. w1 \in DriverType
      BY <1>3, <2>2, FieldReplaced
    <2> HIDE DEF w1, a
    <2>4. w2 \in DriverType
      BY <2>2, <2>3, FieldReplaced
    <2> HIDE DEF w2
    <2>5. w3 \in DriverType
      BY <2>2, <2>4, FieldReplaced
    <2> HIDE DEF w3
    <2>6. w4 \in DriverType
      BY <2>2, <2>5, FieldReplaced
    <2> QED BY <2>1, <2>6
  <1> HIDE DEF w, q, a
  <1>8. Same(v, w)
    BY <1>5, <1>7 DEF Same
  <1>9. Core(w, q, a, {}, FALSE)
    <2>1. BusInv(w, q, a, {}, FALSE)
      BY <1>3, <1>5, BusKept DEF Core
    <2>2. TransfersInv(w, q, a, FALSE)
      BY <1>3, <1>8, SameTransfers DEF Core
    <2> QED BY <1>7, <2>1, <2>2 DEF Core
  <1>10. UNCHANGED <<sustate, clock, inProgress, asleep, reports, apdu, given, handed, ghost, host>>
    BY DEF UsbInterrupt, class, application
  <1>11. RestTypes'
    BY <1>3, <1>10 DEF RestTypes
  <1>12. usbd'.acked = a /\ usbd'.causes = {} /\ usbd'.raised = FALSE /\ usbd'.evts = <<>>
    BY <1>2, <1>5, <1>6
  <1>13. BusInv(usbd, queue, usbd.acked, usbd.causes, usbd.raised)'
    <2>1. QueueInv(queue)'
      BY <1>2, <1>9 DEF Core, BusInv, QueueInv
    <2>2. OrderInv(queue)'
      BY <1>2, <1>9, <1>10 DEF Core, BusInv, OrderInv
    <2>3. ResetInv(usbd, queue, usbd.acked, usbd.causes)'
      BY <1>2, <1>9, <1>10, <1>12 DEF Core, BusInv, ResetInv
    <2>4. SetupInv(usbd, queue, usbd.acked, usbd.causes)'
      BY <1>2, <1>9, <1>10, <1>12 DEF Core, BusInv, SetupInv
    <2>5. SleepInv(usbd, queue, usbd.acked, usbd.causes)'
      BY <1>2, <1>9, <1>10, <1>12 DEF Core, BusInv, SleepInv, Sleeping
    <2>6. ResumeInv(queue, usbd.causes, usbd.raised)'
      BY <1>2, <1>9, <1>10, <1>12 DEF Core, BusInv, ResumeInv, Sleeping
    <2> QED BY <2>1, <2>2, <2>3, <2>4, <2>5, <2>6 DEF BusInv
  <1>14. TransfersInv(usbd, queue, usbd.acked, usbd.raised)'
    <2>1. OutInv(usbd, queue, usbd.acked, usbd.raised)'
      BY <1>2, <1>9, <1>10, <1>12 DEF Core, TransfersInv, OutInv, Full, Report1
    <2>2. HandedInv(usbd, queue)'
      BY <1>2, <1>9, <1>10, <1>12 DEF Core, TransfersInv, HandedInv, Outstanding, Full, OutInOrder
    <2>3. InInv(usbd, usbd.raised)'
      BY <1>2, <1>9, <1>10, <1>12 DEF Core, TransfersInv, InInv
    <2>4. ServedInv(usbd, queue, usbd.acked)'
      BY <1>2, <1>9, <1>10, <1>12 DEF Core, TransfersInv, ServedInv, StrictInv, Clear
    <2>5. FetchInv(usbd)'
      BY <1>2, <1>9, <1>10, <1>12 DEF Core, TransfersInv, FetchInv
    <2> QED BY <2>1, <2>2, <2>3, <2>4, <2>5 DEF TransfersInv
  <1> QED BY <1>2, <1>7, <1>11, <1>12, <1>13, <1>14 DEF HidInv, Core

-----------------------------------------------------------------------------
(* The other steps.                                                        *)

\* The parts of the invariant, and the whole after a step.
LEMMA Parts ==
  ASSUME HidInv
  PROVE  /\ usbd \in DriverType /\ usbd.evts = <<>> /\ RestTypes
         /\ QueueInv(queue) /\ OrderInv(queue)
         /\ ResetInv(usbd, queue, usbd.acked, usbd.causes)
         /\ SetupInv(usbd, queue, usbd.acked, usbd.causes)
         /\ SleepInv(usbd, queue, usbd.acked, usbd.causes)
         /\ ResumeInv(queue, usbd.causes, usbd.raised)
         /\ OutInv(usbd, queue, usbd.acked, usbd.raised) /\ HandedInv(usbd, queue)
         /\ InInv(usbd, usbd.raised) /\ ServedInv(usbd, queue, usbd.acked) /\ FetchInv(usbd)
  BY DEF HidInv, Core, BusInv, TransfersInv

\* The parts of the next state, one by one, are its invariant.
LEMMA Whole ==
  ASSUME usbd' \in DriverType, usbd'.evts = <<>>, RestTypes',
         QueueInv(queue)', OrderInv(queue)',
         ResetInv(usbd, queue, usbd.acked, usbd.causes)',
         SetupInv(usbd, queue, usbd.acked, usbd.causes)',
         SleepInv(usbd, queue, usbd.acked, usbd.causes)',
         ResumeInv(queue, usbd.causes, usbd.raised)',
         OutInv(usbd, queue, usbd.acked, usbd.raised)', HandedInv(usbd, queue)',
         InInv(usbd, usbd.raised)', ServedInv(usbd, queue, usbd.acked)', FetchInv(usbd)'
  PROVE  HidInv'
  BY DEF HidInv, Core, BusInv, TransfersInv

\* A step that changes nothing.
LEMMA StutterKeeps == ASSUME HidInv, UNCHANGED vars PROVE HidInv'
  <1>1. UNCHANGED <<usbd, queue, sustate, clock, inProgress, asleep, reports, apdu, given, handed, ghost, host>>
    BY DEF vars, class, application
  <1> QED BY SMTT(20), <1>1, Parts DEF HidInv, RestTypes, Core, BusInv, QueueInv, OrderInv, ResetInv, SetupInv,
        SleepInv, ResumeInv, Sleeping, TransfersInv, OutInv, Full, Report1, Outstanding, HandedInv, OutInOrder, InInv, ServedInv, StrictInv, Clear, FetchInv

\* The clock is reported.
LEMMA ClockReadyKeeps == ASSUME HidInv, ClockReady PROVE HidInv'
  <1> DEFINE q == Append(queue, READY)
             a == usbd.acked
             c == usbd.causes
             r == usbd.raised
  <1>1. /\ clock /\ clock' = FALSE /\ queue' = q
        /\ UNCHANGED <<usbd, sustate, inProgress, asleep, reports, apdu, given, handed, ghost, host>>
    BY DEF ClockReady, READY, class, application
  <1>2. READY \in BusEvents /\ READY \in Repeatable /\ READY \notin OutEvents /\ READY # SETUP /\ READY # RESUME
    BY EventsDiffer DEF BusEvents, Repeatable, OutEvents
  <1>3. QueueInv(q) /\ In(q) = In(queue) \cup {READY} /\ (Once(queue, InOk) => Once(q, InOk))
    BY <1>2, Parts, QueueAppended, EventsDiffer DEF BusEvents
  <1>4. OrderInv(q)
    BY <1>2, Parts, OrderAppended
  <1>5. ClockFollows(q)
    BY <1>2, Parts, EventsAreEvents, FollowsAppended DEF QueueInv
  <1>6. TransfersInv(usbd, q, a, r)
    <2>1. TransfersInv(usbd, queue, a, r)
      BY DEF HidInv, Core
    <2>2. Same(usbd, usbd)
      BY Parts DEF Same
    <2> QED BY <2>1, <2>2, <1>2, <1>3, BusEventAdded
  <1>7. SETUP \notin In(queue) /\ "SETUP" \notin c
    BY <1>1, Parts DEF SetupInv
  <1>8. "RESUME" \in c => r
    BY <1>1, Parts DEF ResumeInv
  <1> HIDE DEF q
  <1>9. \A f \in {RESET, SUSPEND, RESUME, SETUP, REQUEST, InOk, InAborted, OutOk, OutWaiting} :
            f \in In(q) <=> f \in In(queue)
    BY <1>3, EventsDiffer
  <1>10. In(q) \cap (InEvents \cup OutEvents) = In(queue) \cap (InEvents \cup OutEvents)
    BY <1>9 DEF InEvents, OutEvents
  <1> HIDE DEF a, c, r
  <1>11. UNCHANGED RestTypes
    BY <1>1 DEF RestTypes
  <1>12. QueueInv(queue)' /\ OrderInv(queue)'
    BY <1>1, <1>3, <1>4, <1>5 DEF QueueInv, OrderInv
  <1>13. ResetInv(usbd, queue, usbd.acked, usbd.causes)'
    BY <1>1, <1>9, Parts DEF ResetInv
  <1>14. SetupInv(usbd, queue, usbd.acked, usbd.causes)'
    BY <1>1, <1>7, <1>9, Parts DEF SetupInv, c
  <1>15. SleepInv(usbd, queue, usbd.acked, usbd.causes)'
    BY <1>1, <1>9, <1>10, Parts DEF SleepInv, Sleeping
  <1>16. ResumeInv(queue, usbd.causes, usbd.raised)'
    BY <1>1, <1>3, <1>8, <1>9, Parts DEF ResumeInv, Sleeping, c, r
  <1>17. OutInv(usbd, queue, usbd.acked, usbd.raised)'
    BY <1>1, <1>6 DEF TransfersInv, OutInv, Full, Report1, a, r
  <1>18. HandedInv(usbd, queue)'
    BY <1>1, <1>6 DEF TransfersInv, HandedInv, Outstanding, Full, OutInOrder
  <1>19. InInv(usbd, usbd.raised)' /\ FetchInv(usbd)'
    BY <1>1, <1>6 DEF TransfersInv, InInv, FetchInv, r
  <1>20. ServedInv(usbd, queue, usbd.acked)'
    BY <1>1, <1>6 DEF TransfersInv, ServedInv, StrictInv, Clear, a
  <1> QED BY <1>1, <1>11, <1>12, <1>13, <1>14, <1>15, <1>16, <1>17, <1>18, <1>19, <1>20, Parts, Whole

\* The commands are executed.
LEMMA TakeCommandsKeeps == ASSUME HidInv, TakeCommands PROVE HidInv'
  <1>1. /\ apdu > 0 /\ apdu' = 0 /\ usbd.dma = "none" /\ ~usbd.raised
        /\ host' = [host EXCEPT !.unanswered = host.unanswered /\ host.sent # Last(handed)]
        /\ UNCHANGED <<usbd, queue, sustate, clock, inProgress, asleep, reports, given, handed, ghost>>
    BY DEF TakeCommands, ThreadRuns, class
  <1>2. /\ host'.state = host.state /\ host'.asleep = host.asleep /\ host'.sent = host.sent
        /\ host'.unanswered = (host.unanswered /\ host.sent # Last(handed))
        /\ host'.got = host.got /\ host'.bus = host.bus
    BY <1>1, Parts DEF RestTypes
  <1>3. RestTypes'
    <2>1. host' \in [state : {"default", "configuring", "configured"}, asleep : BOOLEAN,
               sent : 0 .. MaxOut, unanswered : BOOLEAN, got : 0 .. MaxIn, bus : 0 .. MaxBus]
      BY <1>1, Parts DEF RestTypes
    <2>2. 0 \in 0 .. ApduSize
      BY UsbHidAssumption
    <2> QED BY <1>1, <2>1, <2>2, Parts DEF RestTypes
  <1>4. Outstanding(usbd, queue) => host.sent # Last(handed)
    <2> SUFFICES ASSUME Outstanding(usbd, queue) PROVE host.sent # Last(handed)
      OBVIOUS
    <2>1. handed \in Seq(1 .. MaxOut) /\ handed # <<>> /\ \A i \in DOMAIN handed : handed[i] < host.sent
      BY <1>1, Parts DEF HandedInv
    <2>2. Len(handed) \in DOMAIN handed /\ Last(handed) = handed[Len(handed)]
      BY <2>1 DEF Last
    <2>3. handed[Len(handed)] < host.sent
      BY <2>1, <2>2
    <2>4. handed[Len(handed)] \in Nat /\ host.sent \in Nat
      <3>1. \A i \in DOMAIN handed : handed[i] \in Nat
        BY Parts, UsbHidAssumption DEF HandedInv
      <3>2. host.sent \in 0 .. MaxOut
        BY Parts DEF RestTypes
      <3> QED BY <2>2, <3>1, <3>2, UsbHidAssumption
    <2> QED BY <2>2, <2>3, <2>4
  <1>5. QueueInv(queue)' /\ OrderInv(queue)'
    BY <1>1, Parts DEF QueueInv, OrderInv
  <1>6. ResetInv(usbd, queue, usbd.acked, usbd.causes)' /\ SetupInv(usbd, queue, usbd.acked, usbd.causes)'
    BY <1>1, <1>2, Parts DEF ResetInv, SetupInv
  <1>7. SleepInv(usbd, queue, usbd.acked, usbd.causes)' /\ ResumeInv(queue, usbd.causes, usbd.raised)'
    BY <1>1, <1>2, Parts DEF SleepInv, ResumeInv, Sleeping
  <1>8. OutInv(usbd, queue, usbd.acked, usbd.raised)'
    BY <1>1, <1>2, Parts DEF OutInv, Full, Report1
  <1>9. HandedInv(usbd, queue)'
    BY <1>1, <1>2, <1>4, Parts DEF HandedInv, Outstanding, Full, OutInOrder
  <1>10. InInv(usbd, usbd.raised)' /\ FetchInv(usbd)'
    BY <1>1, <1>2, Parts DEF InInv, FetchInv
  <1>11. ServedInv(usbd, queue, usbd.acked)'
    BY <1>1, <1>2, Parts DEF ServedInv, StrictInv, Clear
  <1> QED BY <1>1, <1>3, <1>5, <1>6, <1>7, <1>8, <1>9, <1>10, <1>11, Parts, Whole


\* The host sends a report.
LEMMA HostOutKeeps == ASSUME HidInv, Patient, HostOut PROVE HidInv'
  <1> DEFINE a == usbd.acked \cup {O}
             p == Packet(host.sent + 1, EpSize)
  <1>1. /\ host.state = "configured" /\ ~host.asleep /\ O \in usbd.enabled \ usbd.stalled
        /\ host.sent < MaxOut /\ usbd.buffer[O] = NoPacket /\ O \notin usbd.acked /\ ~host.unanswered
        /\ host' = [host EXCEPT !.sent = host.sent + 1, !.unanswered = TRUE]
        /\ usbd' = [usbd EXCEPT !.buffer[O] = p, !.acked = a]
        /\ UNCHANGED <<queue, sustate, clock, inProgress, asleep, reports, apdu, given, handed, ghost>>
    BY DEF HostOut, Reachable, Attached, O, class, application
  <1>2. /\ host'.state = host.state /\ host'.asleep = host.asleep /\ host'.sent = host.sent + 1
        /\ host'.unanswered = TRUE /\ host'.got = host.got /\ host'.bus = host.bus
        /\ host.sent \in Nat /\ host.sent + 1 \in 0 .. MaxOut /\ host.got \in Nat
    BY <1>1, Parts, UsbHidAssumption DEF RestTypes
  <1>3. RestTypes'
    <2>1. host' \in [state : {"default", "configuring", "configured"}, asleep : BOOLEAN,
               sent : 0 .. MaxOut, unanswered : BOOLEAN, got : 0 .. MaxIn, bus : 0 .. MaxBus]
      BY <1>1, <1>2, Parts DEF RestTypes
    <2> QED BY <1>1, <2>1, Parts DEF RestTypes
  <1>4. p \in Packets /\ p # NoPacket /\ O \in Endpoints /\ I # O /\ a \in SUBSET Endpoints
    <2>1. host.sent + 1 \in Nat /\ host.sent + 1 # 0
      BY <1>2
    <2>2. p \in Packets /\ p # NoPacket
      BY <2>1, TwoEndpoints DEF Packets, Packet, NoPacket
    <2> QED BY <2>2, TwoEndpoints, Parts DEF DriverType
  <1> HIDE DEF a, p
  <1>5. usbd' \in DriverType
    <2> DEFINE b == [usbd.buffer EXCEPT ![O] = p]
               w == [usbd EXCEPT !.buffer = b]
    <2>1. b \in [Endpoints -> Packets]
      BY <1>4, Parts DEF DriverType
    <2> HIDE DEF b
    <2>2. w \in DriverType
      BY <2>1, Parts, FieldReplaced
    <2> HIDE DEF w
    <2>3. [w EXCEPT !.acked = a] \in DriverType
      BY <1>4, <2>2, FieldReplaced
    <2>4. usbd' = [w EXCEPT !.acked = a]
      BY <1>1, Parts DEF w, b, DriverType
    <2> QED BY <2>3, <2>4
  <1>6. /\ usbd'.waiting = usbd.waiting /\ usbd'.ready = usbd.ready /\ usbd'.handler = usbd.handler
        /\ usbd'.left = usbd.left /\ usbd'.status = usbd.status /\ usbd'.dma = usbd.dma
        /\ usbd'.enabled = usbd.enabled /\ usbd'.stalled = usbd.stalled /\ usbd'.irqs = usbd.irqs
        /\ usbd'.data = usbd.data /\ usbd'.received = usbd.received /\ usbd'.evts = usbd.evts
        /\ usbd'.raised = usbd.raised /\ usbd'.causes = usbd.causes /\ usbd'.acked = a
        /\ usbd'.buffer[I] = usbd.buffer[I] /\ usbd'.buffer[O] = p
    BY <1>1, <1>4, Parts, TwoEndpoints DEF DriverType
  <1>7. ~Outstanding(usbd, queue)
    BY <1>1, Parts DEF HandedInv
  <1>8. /\ ~Full(usbd) /\ usbd.dma # O /\ OutOk \notin In(queue)
        /\ OutWaiting \notin In(queue) /\ O \notin usbd.ready
    BY <1>1, <1>7, Parts DEF Outstanding, OutInv
  <1>9. O \notin usbd.acked /\ In(queue) \cap OutEvents = {}
    BY <1>1, <1>8 DEF OutEvents
  <1>10. QueueInv(queue)' /\ OrderInv(queue)'
    BY <1>1, Parts DEF QueueInv, OrderInv
  <1>11. ResetInv(usbd, queue, usbd.acked, usbd.causes)'
    BY <1>1, <1>2, <1>6, Parts DEF ResetInv
  <1>12. SetupInv(usbd, queue, usbd.acked, usbd.causes)'
    BY <1>1, <1>2, <1>6, Parts DEF SetupInv
  <1>13. SleepInv(usbd, queue, usbd.acked, usbd.causes)'
    BY <1>1, <1>2, <1>6, Parts DEF SleepInv, Sleeping
  <1>14. ResumeInv(queue, usbd.causes, usbd.raised)'
    BY <1>1, <1>2, <1>6, Parts DEF ResumeInv, Sleeping
  <1>15. OutInv(usbd, queue, usbd.acked, usbd.raised)'
    <2>1. Full(usbd)' /\ Report1' = p
      BY <1>2, <1>4, <1>6 DEF Full, Report1, p
    <2>2. O \in usbd'.acked
      BY <1>6 DEF a
    <2> QED BY <1>1, <1>2, <1>6, <1>8, <1>9, <2>1, <2>2, Parts DEF OutInv
  <1>16. HandedInv(usbd, queue)'
    <2>1. Outstanding(usbd, queue)'
      BY <1>4, <1>6 DEF Outstanding, Full
    <2>2. /\ \A i \in DOMAIN handed : handed[i] <= host.sent /\ handed[i] \in Nat
      BY Parts, UsbHidAssumption DEF HandedInv
    <2>3. \A i \in DOMAIN handed : handed[i] < host.sent + 1 /\ handed[i] <= host.sent + 1
      BY <2>2, <1>2
    <2>4. \A report \in ghost.out + 1 .. host.sent + 1 :
             \/ report \in Range(handed) \cup ghost.refused
             \/ report = host.sent + 1
      BY <1>2, <1>7, Parts DEF HandedInv, RestTypes
    <2>5. OutInOrder' /\ handed' \in Seq(1 .. MaxOut) /\ (apdu' > 0 => handed' # <<>>)
      BY <1>1, Parts DEF HandedInv, OutInOrder
    <2> QED BY <1>1, <1>2, <2>1, <2>3, <2>4, <2>5 DEF HandedInv
  <1>17. InInv(usbd, usbd.raised)'
    BY <1>1, <1>2, <1>6, Parts DEF InInv
  <1>18. FetchInv(usbd)'
    BY <1>1, <1>2, <1>6, Parts DEF FetchInv
  <1>19. I \in a <=> I \in usbd.acked
    BY <1>4 DEF a
  <1>20. ServedInv(usbd, queue, usbd.acked)'
    BY <1>1, <1>2, <1>6, <1>19, Parts DEF ServedInv, StrictInv, Clear
  <1> QED BY <1>3, <1>5, <1>6, <1>10, <1>11, <1>12, <1>13, <1>14, <1>15, <1>16, <1>17, <1>18, <1>20, Parts, Whole

\* The host fetches a report.
LEMMA HostInKeeps == ASSUME HidInv, HostIn PROVE HidInv'
  <1> DEFINE a == usbd.acked \cup {I}
  <1>1. /\ host.state = "configured" /\ ~host.asleep /\ I \in usbd.enabled \ usbd.stalled
        /\ usbd.dma # I /\ usbd.buffer[I] # NoPacket
        /\ host' = [host EXCEPT !.got = usbd.buffer[I].data]
        /\ usbd' = [usbd EXCEPT !.buffer[I] = NoPacket, !.acked = a]
        /\ UNCHANGED <<queue, sustate, clock, inProgress, asleep, reports, apdu, given, handed, ghost>>
    BY DEF HostIn, Reachable, Attached, I, class, application
  <1>2. NoPacket \in Packets /\ NoPacket.data = 0 /\ I \in Endpoints /\ I # O /\ a \in SUBSET Endpoints
    BY TwoEndpoints, Parts DEF DriverType, Packets, NoPacket, Packet
  <1>3. usbd.buffer[I].data \in Nat /\ usbd.buffer[I].data <= given /\ given \in 0 .. MaxIn /\ host.got < usbd.buffer[I].data
    BY <1>1, <1>2, Parts DEF FetchInv, RestTypes, DriverType, Packets
  <1>4. /\ host'.state = host.state /\ host'.asleep = host.asleep /\ host'.sent = host.sent
        /\ host'.unanswered = host.unanswered /\ host'.got = usbd.buffer[I].data /\ host'.bus = host.bus
        /\ usbd.buffer[I].data \in 0 .. MaxIn
    BY <1>1, <1>3, Parts, UsbHidAssumption DEF RestTypes
  <1>5. RestTypes'
    <2>1. host' \in [state : {"default", "configuring", "configured"}, asleep : BOOLEAN,
               sent : 0 .. MaxOut, unanswered : BOOLEAN, got : 0 .. MaxIn, bus : 0 .. MaxBus]
      BY <1>1, <1>4, Parts DEF RestTypes
    <2> QED BY <1>1, <2>1, Parts DEF RestTypes
  <1> HIDE DEF a
  <1>6. usbd' \in DriverType
    <2> DEFINE b == [usbd.buffer EXCEPT ![I] = NoPacket]
               w == [usbd EXCEPT !.buffer = b]
    <2>1. b \in [Endpoints -> Packets]
      BY <1>2, Parts DEF DriverType
    <2> HIDE DEF b
    <2>2. w \in DriverType
      BY <2>1, Parts, FieldReplaced
    <2> HIDE DEF w
    <2>3. [w EXCEPT !.acked = a] \in DriverType
      BY <1>2, <2>2, FieldReplaced
    <2>4. usbd' = [w EXCEPT !.acked = a]
      BY <1>1, Parts DEF w, b, DriverType
    <2> QED BY <2>3, <2>4
  <1>7. /\ usbd'.waiting = usbd.waiting /\ usbd'.ready = usbd.ready /\ usbd'.handler = usbd.handler
        /\ usbd'.left = usbd.left /\ usbd'.status = usbd.status /\ usbd'.dma = usbd.dma
        /\ usbd'.enabled = usbd.enabled /\ usbd'.stalled = usbd.stalled /\ usbd'.irqs = usbd.irqs
        /\ usbd'.data = usbd.data /\ usbd'.received = usbd.received /\ usbd'.evts = usbd.evts
        /\ usbd'.raised = usbd.raised /\ usbd'.causes = usbd.causes /\ usbd'.acked = a
        /\ usbd'.buffer[I] = NoPacket /\ usbd'.buffer[O] = usbd.buffer[O]
    BY <1>1, <1>2, Parts, TwoEndpoints DEF DriverType
  <1>8. QueueInv(queue)' /\ OrderInv(queue)'
    BY <1>1, Parts DEF QueueInv, OrderInv
  <1>9. ResetInv(usbd, queue, usbd.acked, usbd.causes)'
    BY <1>1, <1>4, <1>7, Parts DEF ResetInv
  <1>10. SetupInv(usbd, queue, usbd.acked, usbd.causes)'
    BY <1>1, <1>4, <1>7, Parts DEF SetupInv
  <1>11. SleepInv(usbd, queue, usbd.acked, usbd.causes)'
    BY <1>1, <1>4, <1>7, Parts DEF SleepInv, Sleeping
  <1>12. ResumeInv(queue, usbd.causes, usbd.raised)'
    BY <1>1, <1>4, <1>7, Parts DEF ResumeInv, Sleeping
  <1>13. O \in a <=> O \in usbd.acked
    BY <1>2 DEF a
  <1>14. OutInv(usbd, queue, usbd.acked, usbd.raised)'
    BY <1>1, <1>4, <1>7, <1>13, Parts DEF OutInv, Full, Report1
  <1>15. HandedInv(usbd, queue)'
    BY <1>1, <1>4, <1>7, Parts DEF HandedInv, Outstanding, Full, OutInOrder
  <1>16. InInv(usbd, usbd.raised)'
    BY <1>1, <1>4, <1>7, Parts DEF InInv
  <1>17. FetchInv(usbd)'
    <2>1. usbd'.buffer[I].data = 0
      BY <1>2, <1>7
    <2>2. given' = given /\ reports' = reports /\ given \in Nat
      BY <1>1, <1>3, UsbHidAssumption
    <2>3. usbd.data[I] \in Nat
      BY <1>2, Parts DEF DriverType
    <2>4. reports # <<>> => Head(reports) \in Nat
      BY Parts, UsbHidAssumption DEF RestTypes
    <2>5. host'.got <= given /\ host'.got = usbd.buffer[I].data /\ host'.got \in Nat /\ host'.got > 0
      BY <1>3, <1>4, UsbHidAssumption, Parts DEF RestTypes
    <2>6. I \in usbd.waiting /\ usbd.dma # I =>
            usbd.data[I] <= given /\ host'.got < usbd.data[I] /\ 0 < usbd.data[I]
      BY <2>3, <2>4, <2>5, Parts DEF FetchInv
    <2>7. reports # <<>> =>
            /\ Head(reports) <= given /\ host'.got < Head(reports) /\ 0 < Head(reports)
            /\ I \in usbd.waiting => usbd.data[I] < Head(reports)
      BY <2>3, <2>4, <2>5, Parts DEF FetchInv
    <2> QED BY <1>7, <2>1, <2>2, <2>5, <2>6, <2>7 DEF FetchInv
  <1>18. ServedInv(usbd, queue, usbd.acked)'
    <2>1. I \in a
      BY DEF a
    <2> SUFFICES ASSUME ~ghost.leftover PROVE StrictInv(usbd, queue, usbd.acked)'
      BY <1>1, <1>4, <1>7, Parts DEF ServedInv
    <2>2. StrictInv(usbd, queue, usbd.acked) /\ sustate = "ACTIVE"
      BY <1>1, Parts DEF ServedInv, SleepInv, ResumeInv, Sleeping, StrictInv, Clear
    <2> QED BY <1>1, <1>4, <1>7, <2>1, <2>2 DEF StrictInv, Clear
  <1> QED BY <1>5, <1>6, <1>7, <1>8, <1>9, <1>10, <1>11, <1>12, <1>14, <1>15, <1>16, <1>17, <1>18, Parts, Whole


\* A cause is raised.
LEMMA CauseRaised ==
  ASSUME HidInv, NEW f \in Causes, usbd' = [usbd EXCEPT !.causes = @ \cup {f}]
  PROVE  /\ usbd' \in DriverType /\ usbd'.causes = usbd.causes \cup {f}
         /\ usbd'.waiting = usbd.waiting /\ usbd'.ready = usbd.ready /\ usbd'.handler = usbd.handler
         /\ usbd'.left = usbd.left /\ usbd'.status = usbd.status /\ usbd'.dma = usbd.dma
         /\ usbd'.enabled = usbd.enabled /\ usbd'.stalled = usbd.stalled /\ usbd'.irqs = usbd.irqs
         /\ usbd'.data = usbd.data /\ usbd'.received = usbd.received /\ usbd'.evts = usbd.evts
         /\ usbd'.raised = usbd.raised /\ usbd'.acked = usbd.acked /\ usbd'.buffer = usbd.buffer
  <1>1. usbd.causes \cup {f} \in SUBSET Causes
    BY Parts DEF DriverType
  <1>2. usbd' \in DriverType
    BY <1>1, Parts, FieldReplaced
  <1> QED BY <1>2, Parts DEF DriverType

\* What the host does to the bus, as far as the transfers see it.
LEMMA HostActs ==
  ASSUME HidInv, NEW f \in Causes, usbd' = [usbd EXCEPT !.causes = @ \cup {f}],
         host' \in [state : {"default", "configuring", "configured"}, asleep : BOOLEAN,
                    sent : 0 .. MaxOut, unanswered : BOOLEAN, got : 0 .. MaxIn, bus : 0 .. MaxBus],
         host'.sent = host.sent, host'.got = host.got,
         host'.state = "configured" => host.state = "configured",
         ghost' = [ghost EXCEPT !.out = host.sent],
         UNCHANGED <<queue, sustate, clock, inProgress, asleep, reports, apdu, given, handed>>,
         Outstanding(usbd, queue) => host'.state = "default" /\ ~host'.asleep,
         ResetInv(usbd, queue, usbd.acked, usbd.causes)',
         SetupInv(usbd, queue, usbd.acked, usbd.causes)',
         SleepInv(usbd, queue, usbd.acked, usbd.causes)',
         ResumeInv(queue, usbd.causes, usbd.raised)'
  PROVE  HidInv'
  <1>1. /\ usbd' \in DriverType
        /\ usbd'.waiting = usbd.waiting /\ usbd'.ready = usbd.ready /\ usbd'.handler = usbd.handler
        /\ usbd'.left = usbd.left /\ usbd'.status = usbd.status /\ usbd'.dma = usbd.dma
        /\ usbd'.enabled = usbd.enabled /\ usbd'.stalled = usbd.stalled /\ usbd'.irqs = usbd.irqs
        /\ usbd'.data = usbd.data /\ usbd'.received = usbd.received /\ usbd'.evts = usbd.evts
        /\ usbd'.raised = usbd.raised /\ usbd'.acked = usbd.acked /\ usbd'.buffer = usbd.buffer
    BY CauseRaised
  <1>2. /\ ghost'.out = host.sent /\ ghost'.in = ghost.in /\ ghost'.refused = ghost.refused
        /\ ghost'.leftover = ghost.leftover
        /\ ghost' \in [out : 0 .. MaxOut, in : 0 .. MaxIn, refused : SUBSET (1 .. MaxOut), leftover : BOOLEAN]
        /\ host.sent \in Nat
    BY Parts, UsbHidAssumption DEF RestTypes
  <1>3. RestTypes'
    BY <1>2, Parts DEF RestTypes
  <1>4. QueueInv(queue)' /\ OrderInv(queue)'
    BY Parts DEF QueueInv, OrderInv
  <1>5. OutInv(usbd, queue, usbd.acked, usbd.raised)'
    BY <1>1, Parts DEF OutInv, Full, Report1
  <1>6. HandedInv(usbd, queue)'
    <2>1. Outstanding(usbd, queue)' <=> Outstanding(usbd, queue)
      BY <1>1 DEF Outstanding, Full
    <2>2. OutInOrder' /\ handed' \in Seq(1 .. MaxOut) /\ (apdu' > 0 => handed' # <<>>)
      BY Parts DEF HandedInv, OutInOrder
    <2>3. \A report \in host.sent + 1 .. host.sent : FALSE
      BY <1>2
    <2>4. \A report \in ghost'.out + 1 .. host'.sent : FALSE
      BY <1>2, <2>3
    <2>5. \A i \in DOMAIN handed' : handed'[i] <= host'.sent
      BY Parts DEF HandedInv
    <2>6. Outstanding(usbd, queue)' =>
           /\ host'.sent > 0 /\ ~host'.asleep
           /\ host'.unanswered \/ host'.state = "default"
           /\ \A i \in DOMAIN handed' : handed'[i] < host'.sent
      BY <2>1, Parts DEF HandedInv
    <2> QED BY <2>2, <2>4, <2>5, <2>6 DEF HandedInv
  <1>7. InInv(usbd, usbd.raised)'
    BY <1>1, Parts DEF InInv
  <1>8. FetchInv(usbd)'
    BY <1>1, Parts DEF FetchInv
  <1>9. ServedInv(usbd, queue, usbd.acked)'
    BY <1>1, <1>2, Parts DEF ServedInv, StrictInv, Clear
  <1> QED BY <1>1, <1>3, <1>4, <1>5, <1>6, <1>7, <1>8, <1>9, Parts, Whole

\* A patient host acts when nothing is under way.
LEMMA WhenSettled ==
  ASSUME HidInv, Settled
  PROVE  /\ queue = <<>> /\ In(queue) = {} /\ usbd.acked = {} /\ ~clock /\ usbd.dma = "none" /\ ~usbd.raised
         /\ usbd.causes \subseteq {"SETUP"} /\ ~Outstanding(usbd, queue)
         /\ sustate # "RESUMING" /\ (sustate = "ACTIVE" => usbd.causes = {})
  <1>1. /\ queue = <<>> /\ usbd.acked = {} /\ ~clock /\ usbd.dma = "none" /\ ~usbd.raised
        /\ usbd.causes \subseteq {"SETUP"} /\ ~(usbd.irqs /\ "SETUP" \in usbd.causes)
    BY DEF Settled, InterruptPending
  <1>2. In(queue) = {}
    <2>1. DOMAIN <<>> = {}
      OBVIOUS
    <2> QED BY <1>1, <2>1 DEF In
  <1>3. usbd.irqs = (sustate = "ACTIVE")
    BY Parts DEF SleepInv
  <1>4. sustate = "ACTIVE" => usbd.causes = {}
    BY <1>1, <1>3
  <1>5. sustate # "RESUMING"
    BY <1>1, <1>2, Parts DEF ResumeInv
  <1>6. ~Outstanding(usbd, queue)
    <2>1. O # "none"
      BY DEF O
    <2>2. O \notin usbd.waiting \cap usbd.ready
      BY <1>1, Parts DEF OutInv
    <2>3. ~Full(usbd)
      BY <1>1, <1>2, <2>2, Parts DEF OutInv
    <2> QED BY <1>1, <1>2, <2>1, <2>3 DEF Outstanding
  <1> QED BY <1>1, <1>2, <1>4, <1>5, <1>6

\* The host resets the bus.
LEMMA HostResetKeeps == ASSUME HidInv, Patient, HostReset PROVE HidInv'
  <1>1. /\ ~host.asleep /\ host.bus > 0 /\ "SETUP" \notin usbd.causes
        /\ host' = [[host EXCEPT !.state = "default", !.bus = host.bus - 1] EXCEPT !.unanswered = FALSE]
        /\ usbd' = [usbd EXCEPT !.causes = @ \cup {"RESET"}]
        /\ ghost' = [ghost EXCEPT !.out = host.sent]
        /\ UNCHANGED <<queue, sustate, clock, inProgress, asleep, reports, apdu, given, handed>>
    BY DEF HostReset, HostBus, class
  <1>2. /\ host'.state = "default" /\ ~host'.asleep /\ host'.sent = host.sent
        /\ ~host'.unanswered /\ host'.got = host.got
        /\ host' \in [state : {"default", "configuring", "configured"}, asleep : BOOLEAN,
                    sent : 0 .. MaxOut, unanswered : BOOLEAN, got : 0 .. MaxIn, bus : 0 .. MaxBus]
    <2>1. host.bus - 1 \in 0 .. MaxBus
      BY <1>1, Parts, UsbHidAssumption DEF RestTypes
    <2> QED BY <1>1, <2>1, Parts DEF RestTypes
  <1>3. /\ usbd'.causes = usbd.causes \cup {"RESET"} /\ usbd'.enabled = usbd.enabled /\ usbd'.acked = usbd.acked
        /\ usbd'.dma = usbd.dma /\ usbd'.irqs = usbd.irqs /\ usbd'.waiting = usbd.waiting
        /\ usbd'.ready = usbd.ready /\ usbd'.raised = usbd.raised
    BY <1>1, CauseRaised DEF Causes
  <1>4. ResetInv(usbd, queue, usbd.acked, usbd.causes)'
    <2>1. ghost'.out = host'.sent
      BY <1>1, <1>2, Parts DEF RestTypes
    <2> QED BY <1>1, <1>2, <1>3, <2>1, Parts DEF ResetInv
  <1>5. SetupInv(usbd, queue, usbd.acked, usbd.causes)'
    BY <1>1, <1>2, <1>3, Parts DEF SetupInv
  <1>6. SleepInv(usbd, queue, usbd.acked, usbd.causes)'
    BY <1>1, <1>2, <1>3, Parts DEF SleepInv, Sleeping
  <1>7. ResumeInv(queue, usbd.causes, usbd.raised)'
    BY <1>1, <1>2, <1>3, Parts DEF ResumeInv, Sleeping
  <1>8. Outstanding(usbd, queue) => host'.state = "default" /\ ~host'.asleep
    BY <1>2
  <1> QED BY <1>1, <1>2, <1>4, <1>5, <1>6, <1>7, <1>8, HostActs DEF Causes

\* The host suspends the bus.
LEMMA HostSuspendKeeps == ASSUME HidInv, Patient, HostSuspend PROVE HidInv'
  <1>1. /\ ~host.asleep /\ host.bus > 0 /\ Settled
        /\ host' = [[host EXCEPT !.asleep = TRUE, !.bus = host.bus - 1] EXCEPT !.unanswered = FALSE]
        /\ usbd' = [usbd EXCEPT !.causes = @ \cup {"SUSPEND"}]
        /\ ghost' = [ghost EXCEPT !.out = host.sent]
        /\ UNCHANGED <<queue, sustate, clock, inProgress, asleep, reports, apdu, given, handed>>
    BY DEF HostSuspend, HostBus, class
  <1>2. /\ host'.state = host.state /\ host'.asleep /\ host'.sent = host.sent
        /\ ~host'.unanswered /\ host'.got = host.got
        /\ host' \in [state : {"default", "configuring", "configured"}, asleep : BOOLEAN,
                    sent : 0 .. MaxOut, unanswered : BOOLEAN, got : 0 .. MaxIn, bus : 0 .. MaxBus]
    <2>1. host.bus - 1 \in 0 .. MaxBus
      BY <1>1, Parts, UsbHidAssumption DEF RestTypes
    <2> QED BY <1>1, <2>1, Parts DEF RestTypes
  <1>3. /\ usbd'.causes = usbd.causes \cup {"SUSPEND"} /\ usbd'.enabled = usbd.enabled /\ usbd'.acked = usbd.acked
        /\ usbd'.dma = usbd.dma /\ usbd'.irqs = usbd.irqs /\ usbd'.waiting = usbd.waiting
        /\ usbd'.ready = usbd.ready /\ usbd'.raised = usbd.raised
    BY <1>1, CauseRaised DEF Causes
  <1>4. /\ In(queue) = {} /\ usbd.acked = {} /\ ~clock /\ usbd.dma = "none" /\ ~Outstanding(usbd, queue)
        /\ usbd.causes \subseteq {"SETUP"} /\ sustate # "RESUMING" /\ (sustate = "ACTIVE" => usbd.causes = {})
    BY <1>1, WhenSettled
  <1>5. sustate = "ACTIVE" /\ usbd.causes = {}
    BY <1>1, <1>4, Parts DEF ResumeInv, Sleeping, RestTypes
  <1>6. ResetInv(usbd, queue, usbd.acked, usbd.causes)'
    <2>1. ghost'.out = host'.sent
      BY <1>1, <1>2, Parts DEF RestTypes
    <2> QED BY <1>1, <1>2, <1>3, <1>4, <1>5, <2>1, Parts DEF ResetInv
  <1>7. SetupInv(usbd, queue, usbd.acked, usbd.causes)'
    BY <1>1, <1>2, <1>3, <1>4, <1>5, Parts DEF SetupInv
  <1>8. SleepInv(usbd, queue, usbd.acked, usbd.causes)'
    BY <1>1, <1>2, <1>3, <1>4, <1>5, Parts DEF SleepInv, Sleeping
  <1>9. ResumeInv(queue, usbd.causes, usbd.raised)'
    BY <1>1, <1>2, <1>3, <1>4, <1>5, Parts DEF ResumeInv, Sleeping
  <1>10. host'.state = "configured" => host.state = "configured"
    BY <1>2
  <1> QED BY <1>1, <1>2, <1>4, <1>6, <1>7, <1>8, <1>9, <1>10, HostActs DEF Causes

\* The host resumes the bus.
LEMMA HostResumeKeeps == ASSUME HidInv, Patient, HostResume PROVE HidInv'
  <1>1. /\ host.asleep /\ Settled
        /\ host' = [[host EXCEPT !.asleep = FALSE] EXCEPT !.unanswered = FALSE]
        /\ usbd' = [usbd EXCEPT !.causes = @ \cup {"RESUME"}]
        /\ ghost' = [ghost EXCEPT !.out = host.sent]
        /\ UNCHANGED <<queue, sustate, clock, inProgress, asleep, reports, apdu, given, handed>>
    BY DEF HostResume, HostBus, class
  <1>2. /\ host'.state = host.state /\ ~host'.asleep /\ host'.sent = host.sent
        /\ ~host'.unanswered /\ host'.got = host.got
        /\ host' \in [state : {"default", "configuring", "configured"}, asleep : BOOLEAN,
                    sent : 0 .. MaxOut, unanswered : BOOLEAN, got : 0 .. MaxIn, bus : 0 .. MaxBus]
    BY <1>1, Parts DEF RestTypes
  <1>3. /\ usbd'.causes = usbd.causes \cup {"RESUME"} /\ usbd'.enabled = usbd.enabled /\ usbd'.acked = usbd.acked
        /\ usbd'.dma = usbd.dma /\ usbd'.irqs = usbd.irqs /\ usbd'.waiting = usbd.waiting
        /\ usbd'.ready = usbd.ready /\ usbd'.raised = usbd.raised
    BY <1>1, CauseRaised DEF Causes
  <1>4. /\ In(queue) = {} /\ usbd.acked = {} /\ ~clock /\ usbd.dma = "none" /\ ~Outstanding(usbd, queue)
        /\ usbd.causes \subseteq {"SETUP"} /\ sustate # "RESUMING"
    BY <1>1, WhenSettled
  <1>5. Sleeping /\ usbd.causes = {}
    BY <1>1, <1>4, Parts DEF SleepInv, SetupInv
  <1>6. ResetInv(usbd, queue, usbd.acked, usbd.causes)'
    <2>1. ghost'.out = host'.sent
      BY <1>1, <1>2, Parts DEF RestTypes
    <2> QED BY <1>1, <1>2, <1>3, <1>4, <1>5, <2>1, Parts DEF ResetInv
  <1>7. SetupInv(usbd, queue, usbd.acked, usbd.causes)'
    BY <1>1, <1>2, <1>3, <1>4, <1>5, Parts DEF SetupInv
  <1>8. SleepInv(usbd, queue, usbd.acked, usbd.causes)'
    BY <1>1, <1>2, <1>3, <1>4, <1>5, Parts DEF SleepInv, Sleeping
  <1>9. ResumeInv(queue, usbd.causes, usbd.raised)'
    BY <1>1, <1>2, <1>3, <1>4, <1>5, Parts DEF ResumeInv, Sleeping
  <1>10. host'.state = "configured" => host.state = "configured"
    BY <1>2
  <1> QED BY <1>1, <1>2, <1>4, <1>6, <1>7, <1>8, <1>9, <1>10, HostActs DEF Causes

\* The host configures the device.
LEMMA HostConfigureKeeps == ASSUME HidInv, Patient, HostConfigure PROVE HidInv'
  <1>1. /\ host.state = "default" /\ ~host.asleep /\ Settled
        /\ host' = [host EXCEPT !.state = "configuring"]
        /\ usbd' = [usbd EXCEPT !.causes = @ \cup {"SETUP"}]
        /\ UNCHANGED <<queue, sustate, clock, inProgress, asleep, reports, apdu, given, handed, ghost>>
    BY DEF HostConfigure, class, application
  <1>2. /\ host'.state = "configuring" /\ ~host'.asleep /\ host'.sent = host.sent
        /\ host'.unanswered = host.unanswered /\ host'.got = host.got
        /\ host' \in [state : {"default", "configuring", "configured"}, asleep : BOOLEAN,
                    sent : 0 .. MaxOut, unanswered : BOOLEAN, got : 0 .. MaxIn, bus : 0 .. MaxBus]
    BY <1>1, Parts DEF RestTypes
  <1>3. /\ usbd'.causes = usbd.causes \cup {"SETUP"} /\ usbd'.enabled = usbd.enabled /\ usbd'.acked = usbd.acked
        /\ usbd'.dma = usbd.dma /\ usbd'.irqs = usbd.irqs /\ usbd'.waiting = usbd.waiting
        /\ usbd'.ready = usbd.ready /\ usbd'.raised = usbd.raised
    BY <1>1, CauseRaised DEF Causes
  <1>4. /\ In(queue) = {} /\ usbd.acked = {} /\ ~clock /\ usbd.dma = "none" /\ ~Outstanding(usbd, queue)
        /\ usbd.causes \subseteq {"SETUP"} /\ sustate # "RESUMING" /\ (sustate = "ACTIVE" => usbd.causes = {})
    BY <1>1, WhenSettled
  <1>5. sustate = "ACTIVE" /\ usbd.causes = {}
    BY <1>1, <1>4, Parts DEF ResumeInv, Sleeping, RestTypes
  <1>6. usbd.enabled = {} /\ ghost.out = host.sent
    BY <1>1, <1>4, <1>5, Parts DEF ResetInv
  <1>7. ghost' = [ghost EXCEPT !.out = host.sent]
    BY <1>1, <1>6, Parts DEF RestTypes
  <1>8. ResetInv(usbd, queue, usbd.acked, usbd.causes)'
    BY <1>1, <1>2, <1>3, <1>4, <1>5, <1>6, Parts DEF ResetInv
  <1>9. SetupInv(usbd, queue, usbd.acked, usbd.causes)'
    BY <1>1, <1>2, <1>3, <1>4, <1>5, <1>6, Parts DEF SetupInv
  <1>10. SleepInv(usbd, queue, usbd.acked, usbd.causes)'
    BY <1>1, <1>2, <1>3, <1>4, <1>5, Parts DEF SleepInv, Sleeping
  <1>11. ResumeInv(queue, usbd.causes, usbd.raised)'
    BY <1>1, <1>2, <1>3, <1>4, <1>5, Parts DEF ResumeInv, Sleeping
  <1>12. host'.state = "configured" => host.state = "configured"
    BY <1>2
  <1> QED BY <1>1, <1>2, <1>4, <1>7, <1>8, <1>9, <1>10, <1>11, <1>12, HostActs DEF Causes

-----------------------------------------------------------------------------
(* The steps of the main loop.                                             *)

\* What is left when the event at the head of the queue is taken.
LEMMA Taken ==
  ASSUME HidInv, queue # <<>>
  PROVE  /\ QueueInv(Tail(queue)) /\ In(queue) = In(Tail(queue)) \cup {Head(queue)}
         /\ Head(queue) \in In(queue) /\ SETUP \notin In(Tail(queue))
         /\ \A e \in In(Tail(queue)) \ Repeatable : Once(Tail(queue), e)
         /\ Head(queue) \notin Repeatable => Head(queue) \notin In(Tail(queue))
         /\ Once(queue, InOk) => Once(Tail(queue), InOk)
         /\ Once(queue, InOk) /\ Head(queue) = InOk => InOk \notin In(Tail(queue))
         /\ ClockFollows(queue) => ClockFollows(Tail(queue))
         /\ ClockFollows(queue) /\ Head(queue) = RESUME => READY \in In(Tail(queue))
  <1> DEFINE p == Tail(queue)
             h == Head(queue)
  <1>1. queue \in Seq(Events)
    BY Parts DEF QueueInv
  <1>2. /\ p \in Seq(Events) /\ In(queue) = In(p) \cup {h}
        /\ \A f : Once(queue, f) => Once(p, f)
        /\ Once(queue, h) => h \notin In(p)
    BY <1>1, TailIn
  <1>3. /\ ClockFollows(queue) => ClockFollows(p)
        /\ ClockFollows(queue) /\ h = RESUME => READY \in In(p)
    BY <1>1, FollowsTaken
  <1> HIDE DEF p, h
  <1>4. h \in In(queue) /\ In(p) \subseteq In(queue)
    BY <1>2
  <1>5. QueueInv(p)
    BY <1>2, <1>4, Parts DEF QueueInv
  <1>6. \A e \in In(queue) \ Repeatable : Once(queue, e)
    BY Parts DEF OrderInv
  <1>7. \A e \in In(p) \ Repeatable : Once(p, e)
    BY <1>2, <1>4, <1>6
  <1>8. h \notin Repeatable => h \notin In(p)
    BY <1>2, <1>4, <1>6
  <1>9. SETUP \notin In(p)
    <2>1. SETUP \notin Repeatable
      BY EventsDiffer DEF Repeatable, InEvents
    <2>2. SETUP \in In(queue) => h = SETUP
      BY Parts DEF OrderInv, h
    <2> QED BY <1>4, <1>8, <2>1, <2>2
  <1>10. Once(queue, InOk) => Once(p, InOk)
    BY <1>2
  <1>11. Once(queue, InOk) /\ h = InOk => InOk \notin In(p)
    BY <1>2
  <1> QED BY <1>2, <1>3, <1>4, <1>5, <1>7, <1>8, <1>9, <1>10, <1>11 DEF p, h

\* The driver is left without events.
LEMMA PutIs ==
  ASSUME NEW u \in DriverType, NEW left, Put(u, left)
  PROVE  /\ usbd' \in DriverType /\ usbd'.evts = <<>> /\ queue' = left \o u.evts
         /\ usbd'.waiting = u.waiting /\ usbd'.ready = u.ready /\ usbd'.handler = u.handler
         /\ usbd'.left = u.left /\ usbd'.status = u.status /\ usbd'.dma = u.dma
         /\ usbd'.enabled = u.enabled /\ usbd'.stalled = u.stalled /\ usbd'.irqs = u.irqs
         /\ usbd'.data = u.data /\ usbd'.received = u.received /\ usbd'.buffer = u.buffer
         /\ usbd'.raised = u.raised /\ usbd'.acked = u.acked /\ usbd'.causes = u.causes
  <1>1. usbd' = [u EXCEPT !.evts = <<>>] /\ queue' = left \o u.evts
    BY DEF Put
  <1>2. <<>> \in Seq(Events)
    OBVIOUS
  <1>3. usbd' \in DriverType
    BY <1>1, <1>2, FieldReplaced
  <1> QED BY <1>1, <1>3, Fields

\* Only the interrupts are switched.
LEMMA IrqsAre ==
  ASSUME NEW u \in DriverType, NEW b \in BOOLEAN, NEW w, w = [u EXCEPT !.irqs = b]
  PROVE  /\ w \in DriverType /\ w.evts = u.evts /\ w.irqs = b
         /\ w.waiting = u.waiting /\ w.ready = u.ready /\ w.handler = u.handler
         /\ w.left = u.left /\ w.status = u.status /\ w.dma = u.dma
         /\ w.enabled = u.enabled /\ w.stalled = u.stalled
         /\ w.data = u.data /\ w.received = u.received /\ w.buffer = u.buffer
         /\ w.raised = u.raised /\ w.acked = u.acked /\ w.causes = u.causes
  <1>1. w \in DriverType
    BY FieldReplaced
  <1> QED BY <1>1, Fields

\* Only the stall of an endpoint is set.
LEMMA StallIs ==
  ASSUME NEW u \in DriverType, NEW ep \in Endpoints, NEW w, w = [u EXCEPT !.stalled = @ \cup {ep}]
  PROVE  /\ w \in DriverType /\ w.evts = u.evts /\ w.irqs = u.irqs
         /\ w.waiting = u.waiting /\ w.ready = u.ready /\ w.handler = u.handler
         /\ w.left = u.left /\ w.status = u.status /\ w.dma = u.dma
         /\ w.enabled = u.enabled /\ w.stalled = u.stalled \cup {ep}
         /\ w.data = u.data /\ w.received = u.received /\ w.buffer = u.buffer
         /\ w.raised = u.raised /\ w.acked = u.acked /\ w.causes = u.causes
  <1>1. u.stalled \cup {ep} \in SUBSET Endpoints
    BY DEF DriverType
  <1>2. w \in DriverType
    BY <1>1, FieldReplaced
  <1> QED BY <1>2, Fields

\* w is the driver u with the transfer of a full packet accepted.
Started(u, w, ep, handler, data) ==
  /\ w \in DriverType /\ w.evts = u.evts /\ w.irqs = u.irqs
  /\ w.waiting = u.waiting \cup {ep} /\ w.ready = u.ready
  /\ w.handler = [u.handler EXCEPT ![ep] = handler]
  /\ w.left = [u.left EXCEPT ![ep] = EpSize]
  /\ w.status = [u.status EXCEPT ![ep] = "OK"]
  /\ w.data = [u.data EXCEPT ![ep] = data]
  /\ w.dma = u.dma /\ w.enabled = u.enabled /\ w.stalled = u.stalled
  /\ w.received = u.received /\ w.buffer = u.buffer
  /\ w.raised /\ w.acked = u.acked /\ w.causes = u.causes

\* What an accepted transfer changes.
LEMMA TransferIs ==
  ASSUME NEW u \in DriverType, NEW ep \in Endpoints, NEW handler \in {"feeder", "consumer"},
         NEW data \in Nat
  PROVE  Started(u, Transfer(u, ep, handler, data, EpSize), ep, handler, data)
  <1> DEFINE w == Transfer(u, ep, handler, data, EpSize)
             f1 == [u.handler EXCEPT ![ep] = handler]
             f2 == [u.data EXCEPT ![ep] = data]
             f3 == [u.left EXCEPT ![ep] = EpSize]
             f4 == [u.status EXCEPT ![ep] = "OK"]
             f5 == u.waiting \cup {ep}
             w1 == [u EXCEPT !.handler = f1]
             w2 == [w1 EXCEPT !.data = f2]
             w3 == [w2 EXCEPT !.left = f3]
             w4 == [w3 EXCEPT !.status = f4]
             w5 == [w4 EXCEPT !.waiting = f5]
             w6 == [w5 EXCEPT !.raised = TRUE]
  <1>1. f1 \in [Endpoints -> {"NULL", "feeder", "feeder_zlp", "consumer"}]
    BY DEF DriverType
  <1>2. f2 \in [Endpoints -> Nat] /\ f3 \in [Endpoints -> Nat]
    BY TwoEndpoints DEF DriverType
  <1>3. f4 \in [Endpoints -> {"OK", "ABORTED", "OVERLOAD"}]
    BY DEF DriverType
  <1>4. f5 \in SUBSET Endpoints
    BY DEF DriverType
  <1>5. w = w6
    BY DEF Transfer, DriverType
  <1> HIDE DEF f1, f2, f3, f4, f5
  <1>6. w1 \in DriverType
    BY <1>1, FieldReplaced
  <1>7. /\ w6.evts = u.evts /\ w6.irqs = u.irqs /\ w6.waiting = f5 /\ w6.ready = u.ready
        /\ w6.handler = f1 /\ w6.left = f3 /\ w6.status = f4 /\ w6.data = f2
        /\ w6.dma = u.dma /\ w6.enabled = u.enabled /\ w6.stalled = u.stalled
        /\ w6.received = u.received /\ w6.buffer = u.buffer
        /\ w6.raised /\ w6.acked = u.acked /\ w6.causes = u.causes
    BY DEF DriverType
  <1> HIDE DEF w1
  <1>8. w2 \in DriverType
    BY <1>2, <1>6, FieldReplaced
  <1> HIDE DEF w2
  <1>9. w3 \in DriverType
    BY <1>2, <1>8, FieldReplaced
  <1> HIDE DEF w3
  <1>10. w4 \in DriverType
    BY <1>3, <1>9, FieldReplaced
  <1> HIDE DEF w4
  <1>11. w5 \in DriverType
    BY <1>4, <1>10, FieldReplaced
  <1> HIDE DEF w5
  <1>12. w6 \in DriverType
    BY <1>11, FieldReplaced
  <1> HIDE DEF w6, w
  <1>13. Started(u, w, ep, handler, data)
    BY <1>5, <1>7, <1>12 DEF Started, f1, f2, f3, f4, f5
  <1> QED BY <1>13 DEF w


\* The clock runs again: transfers are allowed.
LEMMA ExecClockReadyKeeps == ASSUME HidInv, ExecClockReady PROVE HidInv'
  <1> DEFINE s == IF sustate = "RESUMING" THEN "ACTIVE" ELSE sustate
             p == Tail(queue)
             w == [usbd EXCEPT !.irqs = (s = "ACTIVE")]
  <1>1. /\ usbd.dma = "none" /\ ~usbd.raised /\ queue # <<>> /\ Head(queue) = READY
        /\ sustate' = s /\ Put(w, p)
        /\ UNCHANGED <<clock, inProgress, asleep, reports, apdu, given, handed, ghost, host>>
    BY DEF ExecClockReady, Executes, ThreadRuns, SetSustate, READY, class, application
  <1>2. /\ QueueInv(p) /\ In(queue) = In(p) \cup {READY} /\ SETUP \notin In(p)
        /\ \A e \in In(p) \ Repeatable : Once(p, e)
        /\ Once(queue, InOk) => Once(p, InOk)
        /\ ClockFollows(queue) => ClockFollows(p)
    BY <1>1, Taken
  <1> HIDE DEF p
  <1>3. \A f \in {RESET, SUSPEND, RESUME, SETUP, REQUEST, InOk, InAborted, OutOk, OutWaiting} :
            f \in In(p) <=> f \in In(queue)
    BY <1>2, EventsDiffer
  <1>4. /\ In(p) \cap (InEvents \cup OutEvents) = In(queue) \cap (InEvents \cup OutEvents)
        /\ In(p) \cap InEvents = In(queue) \cap InEvents /\ In(p) \cap OutEvents = In(queue) \cap OutEvents
    BY <1>3 DEF InEvents, OutEvents
  <1>5. usbd' \in DriverType /\ usbd'.evts = <<>> /\ queue' = p
        /\ usbd'.waiting = usbd.waiting /\ usbd'.ready = usbd.ready /\ usbd'.handler = usbd.handler
        /\ usbd'.left = usbd.left /\ usbd'.status = usbd.status /\ usbd'.dma = usbd.dma
        /\ usbd'.enabled = usbd.enabled /\ usbd'.stalled = usbd.stalled /\ usbd'.irqs = (s = "ACTIVE")
        /\ usbd'.data = usbd.data /\ usbd'.received = usbd.received /\ usbd'.buffer = usbd.buffer
        /\ usbd'.raised = usbd.raised /\ usbd'.acked = usbd.acked /\ usbd'.causes = usbd.causes
    <2>1. p \in Seq(Events) /\ usbd.evts = <<>>
      BY <1>2, Parts DEF QueueInv
    <2>2. p \o <<>> = p
      BY <2>1
    <2> DEFINE b == s = "ACTIVE"
    <2>3. b \in BOOLEAN /\ w = [usbd EXCEPT !.irqs = b]
      OBVIOUS
    <2> HIDE DEF w, b
    <2>4. /\ w \in DriverType /\ w.evts = usbd.evts /\ w.irqs = b
          /\ w.waiting = usbd.waiting /\ w.ready = usbd.ready /\ w.handler = usbd.handler
          /\ w.left = usbd.left /\ w.status = usbd.status /\ w.dma = usbd.dma
          /\ w.enabled = usbd.enabled /\ w.stalled = usbd.stalled
          /\ w.data = usbd.data /\ w.received = usbd.received /\ w.buffer = usbd.buffer
          /\ w.raised = usbd.raised /\ w.acked = usbd.acked /\ w.causes = usbd.causes
      BY <2>3, Parts, IrqsAre
    <2>5. queue' = p \o w.evts
      BY <1>1, <2>4, PutIs
    <2> QED BY <1>1, <2>1, <2>2, <2>4, <2>5, PutIs DEF b
  <1> HIDE DEF w
  <1>6. RestTypes'
    BY <1>1, Parts DEF RestTypes
  <1>7. (sustate' \in {"SUSPENDING", "SUSPEND"} <=> Sleeping) /\ sustate' # "RESUMING"
    BY <1>1 DEF Sleeping
  <1>8. QueueInv(queue)'
    BY <1>2, <1>5 DEF QueueInv
  <1>9. OrderInv(queue)'
    <2>1. sustate' = "ACTIVE" /\ ~clock => ClockFollows(p)
      <3>1. CASE sustate = "RESUMING"
        <4>1. RESUME \notin In(p)
          BY <3>1, <1>3, Parts DEF ResumeInv, Sleeping
        <4> QED BY <4>1, FollowsNothing
      <3>2. CASE sustate # "RESUMING"
        BY <3>2, <1>1, <1>2, Parts DEF OrderInv
      <3> QED BY <3>1, <3>2
    <2> QED BY <1>1, <1>2, <1>5, <2>1 DEF OrderInv
  <1>10. ResetInv(usbd, queue, usbd.acked, usbd.causes)'
    BY <1>1, <1>3, <1>5, Parts DEF ResetInv, ResumeInv, Sleeping
  <1>11. SetupInv(usbd, queue, usbd.acked, usbd.causes)'
    BY <1>1, <1>2, <1>3, <1>5, Parts DEF SetupInv
  <1>12. SleepInv(usbd, queue, usbd.acked, usbd.causes)'
    BY <1>1, <1>3, <1>4, <1>5, <1>7, Parts DEF SleepInv, Sleeping
  <1>13. ResumeInv(queue, usbd.causes, usbd.raised)'
    BY <1>1, <1>2, <1>3, <1>5, <1>7, Parts DEF ResumeInv, Sleeping
  <1>14. OutInv(usbd, queue, usbd.acked, usbd.raised)'
    BY <1>1, <1>3, <1>4, <1>5, Parts DEF OutInv, Full, Report1
  <1>15. HandedInv(usbd, queue)'
    BY <1>1, <1>3, <1>5, Parts DEF HandedInv, Outstanding, Full, OutInOrder
  <1>16. InInv(usbd, usbd.raised)'
    BY <1>1, <1>5, Parts DEF InInv
  <1>17. FetchInv(usbd)'
    BY <1>1, <1>5, Parts DEF FetchInv
  <1>18. ServedInv(usbd, queue, usbd.acked)'
    BY <1>1, <1>2, <1>3, <1>4, <1>5, Parts DEF ServedInv, StrictInv, Clear
  <1> QED BY <1>5, <1>6, <1>8, <1>9, <1>10, <1>11, <1>12, <1>13, <1>14, <1>15, <1>16, <1>17, <1>18, Whole

\* No transfer waits for the thread.
LEMMA ThreadSees ==
  ASSUME HidInv, usbd.dma = "none", ~usbd.raised
  PROVE  I \notin usbd.waiting /\ O \notin usbd.waiting \cap usbd.ready /\ usbd.waiting \cap usbd.ready = {}
  <1>1. I # "none" /\ O # "none"
    BY DEF I, O
  <1>2. I \notin usbd.waiting /\ O \notin usbd.waiting \cap usbd.ready
    BY <1>1, Parts DEF InInv, OutInv
  <1> QED BY <1>2, TwoEndpoints, Parts DEF DriverType

\* The bus was resumed: the clock is asked for.
LEMMA ExecResumeKeeps == ASSUME HidInv, ExecResume PROVE HidInv'
  <1> DEFINE p == Tail(queue)
             w == [usbd EXCEPT !.irqs = ("RESUMING" = "ACTIVE")]
  <1>1. /\ usbd.dma = "none" /\ ~usbd.raised /\ queue # <<>> /\ Head(queue) = RESUME
        /\ sustate' = "RESUMING" /\ Put(w, p) /\ clock' = (clock \/ Sleeping)
        /\ asleep' = FALSE /\ reports' = <<>> /\ inProgress' = FALSE
        /\ ghost' = [ghost EXCEPT !.in = given]
        /\ UNCHANGED <<apdu, given, handed, host>>
    BY DEF ExecResume, Executes, ThreadRuns, SetSustate, RESUME, Sleeping
  <1>2. /\ QueueInv(p) /\ In(queue) = In(p) \cup {RESUME} /\ SETUP \notin In(p) /\ RESUME \in In(queue)
        /\ \A e \in In(p) \ Repeatable : Once(p, e)
        /\ RESUME \notin Repeatable => RESUME \notin In(p)
        /\ Once(queue, InOk) => Once(p, InOk)
        /\ ClockFollows(queue) => READY \in In(p)
    BY <1>1, Taken
  <1> HIDE DEF p
  <1>3. RESUME \notin In(p)
    BY <1>2, EventsDiffer DEF Repeatable, InEvents
  <1>4. \A f \in {RESET, SUSPEND, READY, SETUP, REQUEST, InOk, InAborted, OutOk, OutWaiting} :
            f \in In(p) <=> f \in In(queue)
    BY <1>2, EventsDiffer
  <1>5. /\ In(p) \cap (InEvents \cup OutEvents) = In(queue) \cap (InEvents \cup OutEvents)
        /\ In(p) \cap InEvents = In(queue) \cap InEvents /\ In(p) \cap OutEvents = In(queue) \cap OutEvents
    BY <1>4 DEF InEvents, OutEvents
  <1>6. usbd' \in DriverType /\ usbd'.evts = <<>> /\ queue' = p
        /\ usbd'.waiting = usbd.waiting /\ usbd'.ready = usbd.ready /\ usbd'.handler = usbd.handler
        /\ usbd'.left = usbd.left /\ usbd'.status = usbd.status /\ usbd'.dma = usbd.dma
        /\ usbd'.enabled = usbd.enabled /\ usbd'.stalled = usbd.stalled /\ usbd'.irqs = FALSE
        /\ usbd'.data = usbd.data /\ usbd'.received = usbd.received /\ usbd'.buffer = usbd.buffer
        /\ usbd'.raised = usbd.raised /\ usbd'.acked = usbd.acked /\ usbd'.causes = usbd.causes
    <2>1. p \in Seq(Events) /\ usbd.evts = <<>>
      BY <1>2, Parts DEF QueueInv
    <2>2. p \o <<>> = p
      BY <2>1
    <2> DEFINE b == "RESUMING" = "ACTIVE"
    <2>3. b \in BOOLEAN /\ w = [usbd EXCEPT !.irqs = b]
      OBVIOUS
    <2> HIDE DEF w, b
    <2>4. /\ w \in DriverType /\ w.evts = usbd.evts /\ w.irqs = b
          /\ w.waiting = usbd.waiting /\ w.ready = usbd.ready /\ w.handler = usbd.handler
          /\ w.left = usbd.left /\ w.status = usbd.status /\ w.dma = usbd.dma
          /\ w.enabled = usbd.enabled /\ w.stalled = usbd.stalled
          /\ w.data = usbd.data /\ w.received = usbd.received /\ w.buffer = usbd.buffer
          /\ w.raised = usbd.raised /\ w.acked = usbd.acked /\ w.causes = usbd.causes
      BY <2>3, Parts, IrqsAre
    <2>5. queue' = p \o w.evts
      BY <1>1, <2>4, PutIs
    <2> QED BY <1>1, <2>1, <2>2, <2>4, <2>5, PutIs DEF b
  <1> HIDE DEF w
  <1>7. /\ ghost'.out = ghost.out /\ ghost'.refused = ghost.refused /\ ghost'.leftover = ghost.leftover
        /\ ghost' \in [out : 0 .. MaxOut, in : 0 .. MaxIn, refused : SUBSET (1 .. MaxOut), leftover : BOOLEAN]
    BY <1>1, Parts DEF RestTypes
  <1>8. RestTypes'
    BY <1>1, <1>7, Parts DEF RestTypes, Sleeping
  <1>9. ~host.asleep /\ (Sleeping \/ (sustate = "ACTIVE" /\ host.state = "default"))
    BY <1>2, Parts DEF ResumeInv
  <1>10. "SETUP" \notin usbd.causes /\ "RESUME" \notin usbd.causes /\ REQUEST \notin In(queue)
         /\ "SUSPEND" \notin usbd.causes /\ SUSPEND \notin In(queue)
    <2>1. In(queue) # {} /\ RESUME \notin {SETUP, RESET}
      BY <1>2, EventsDiffer
    <2> QED BY <1>2, <1>9, <2>1, Parts DEF SetupInv, ResumeInv, SleepInv
  <1>11. clock' \/ READY \in In(p)
    BY <1>1, <1>2, <1>9, Parts DEF OrderInv
  <1>12. QueueInv(queue)'
    BY <1>2, <1>6 DEF QueueInv
  <1>13. OrderInv(queue)'
    BY <1>1, <1>2, <1>6 DEF OrderInv
  <1>14. ResetInv(usbd, queue, usbd.acked, usbd.causes)'
    BY <1>1, <1>4, <1>6, <1>7, Parts DEF ResetInv
  <1>15. SetupInv(usbd, queue, usbd.acked, usbd.causes)'
    <2>1. SETUP \notin In(queue)
      BY <1>2, <1>9, EventsDiffer, Parts DEF SetupInv
    <2> QED BY <1>1, <1>2, <1>6, <1>10, <2>1, Parts DEF SetupInv
  <1>16. SleepInv(usbd, queue, usbd.acked, usbd.causes)'
    BY <1>1, <1>4, <1>6, <1>9, <1>10, ThreadSees DEF SleepInv
  <1>17. ResumeInv(queue, usbd.causes, usbd.raised)'
    BY <1>1, <1>3, <1>6, <1>9, <1>10, <1>11 DEF ResumeInv, Sleeping
  <1>18. OutInv(usbd, queue, usbd.acked, usbd.raised)'
    BY <1>1, <1>4, <1>5, <1>6, Parts DEF OutInv, Full, Report1
  <1>19. HandedInv(usbd, queue)'
    BY <1>1, <1>4, <1>6, <1>7, Parts DEF HandedInv, Outstanding, Full, OutInOrder
  <1>20. InInv(usbd, usbd.raised)'
    BY <1>1, <1>6, Parts DEF InInv
  <1>21. FetchInv(usbd)'
    BY <1>1, <1>6, Parts DEF FetchInv
  <1>22. ServedInv(usbd, queue, usbd.acked)'
    <2>1. usbd.enabled # {} => In(p) \cap (InEvents \cup OutEvents) = {}
      BY <1>2, <1>5, <1>9, Parts DEF ServedInv, ResetInv, Sleeping
    <2>2. ASSUME host.state = "configured"
          PROVE  O \notin usbd.stalled /\ (~ghost.leftover => StrictInv(usbd, queue, usbd.acked)')
      <3>1. Sleeping /\ sustate # "ACTIVE" /\ usbd.enabled # {}
        BY <1>9, <2>2, Parts, TwoEndpoints DEF Sleeping, SetupInv
      <3>2. O \notin usbd.stalled /\ In(p) \cap InEvents = {}
        BY <2>1, <2>2, <3>1, Parts DEF ServedInv
      <3>3. ~ghost.leftover => Clear(usbd, queue, usbd.acked) /\ usbd.stalled = {}
        BY <1>10, <2>2, <3>1, Parts DEF ServedInv, StrictInv
      <3> QED BY <1>1, <1>6, <3>2, <3>3 DEF StrictInv, Clear
    <2> QED BY <1>1, <1>6, <1>7, <2>1, <2>2 DEF ServedInv
  <1> QED BY <1>6, <1>8, <1>12, <1>13, <1>14, <1>15, <1>16, <1>17, <1>18, <1>19, <1>20, <1>21, <1>22, Whole


\* The application asks for the sleep.
LEMMA ExecSuspendKeeps == ASSUME HidInv, ExecSuspend PROVE HidInv'
  <1> DEFINE p == Tail(queue)
             q == Append(p, REQUEST)
             b == "SUSPENDING" = "ACTIVE"
             v == [usbd EXCEPT !.evts = Append(usbd.evts, REQUEST)]
             w == [v EXCEPT !.irqs = b]
  <1>1. /\ usbd.dma = "none" /\ ~usbd.raised /\ queue # <<>> /\ Head(queue) = SUSPEND
        /\ sustate' = "SUSPENDING" /\ Put(w, p) /\ clock' = FALSE /\ asleep' = TRUE
        /\ ghost' = [ghost EXCEPT !.in = given]
        /\ UNCHANGED <<inProgress, reports, apdu, given, handed, host>>
    BY DEF ExecSuspend, Executes, ThreadRuns, SetSustate, SUSPEND, REQUEST, Report
  <1>2. /\ QueueInv(p) /\ In(queue) = In(p) \cup {SUSPEND} /\ SETUP \notin In(p) /\ SUSPEND \in In(queue)
        /\ \A e \in In(p) \ Repeatable : Once(p, e)
        /\ SUSPEND \notin Repeatable => SUSPEND \notin In(p)
        /\ Once(queue, InOk) => Once(p, InOk)
    BY <1>1, Taken
  <1>3. /\ host.asleep /\ sustate = "ACTIVE" /\ REQUEST \notin In(queue) /\ "SUSPEND" \notin usbd.causes
        /\ usbd.acked = {} /\ In(queue) \cap (InEvents \cup OutEvents) = {}
    BY <1>2, Parts DEF SleepInv
  <1>4. /\ REQUEST \in BusEvents /\ REQUEST \in Events /\ REQUEST \notin OutEvents /\ REQUEST \notin Repeatable
        /\ REQUEST \notin InEvents /\ SUSPEND \notin Repeatable
    BY EventsDiffer, EventsAreEvents DEF BusEvents, OutEvents, Repeatable, InEvents
  <1>5. p \in Seq(Events) /\ In(p) \subseteq In(queue) /\ SUSPEND \notin In(p) /\ REQUEST \notin In(p)
    BY <1>2, <1>3, <1>4 DEF QueueInv
  <1> HIDE DEF p
  <1>6. QueueInv(q) /\ In(q) = In(p) \cup {REQUEST}
    BY <1>2, <1>4, QueueAppended
  <1>7. \A e \in In(q) \ Repeatable : Once(q, e)
    BY <1>2, <1>4, <1>5, <1>6, AppendIn
  <1>8. usbd' \in DriverType /\ usbd'.evts = <<>> /\ queue' = q
        /\ usbd'.waiting = usbd.waiting /\ usbd'.ready = usbd.ready /\ usbd'.handler = usbd.handler
        /\ usbd'.left = usbd.left /\ usbd'.status = usbd.status /\ usbd'.dma = usbd.dma
        /\ usbd'.enabled = usbd.enabled /\ usbd'.stalled = usbd.stalled /\ usbd'.irqs = FALSE
        /\ usbd'.data = usbd.data /\ usbd'.received = usbd.received /\ usbd'.buffer = usbd.buffer
        /\ usbd'.raised = usbd.raised /\ usbd'.acked = usbd.acked /\ usbd'.causes = usbd.causes
    <2>1. Same(usbd, v) /\ v.evts = Append(usbd.evts, REQUEST)
          /\ v.acked = usbd.acked /\ v.causes = usbd.causes /\ v.raised = usbd.raised
      BY <1>4, Parts, Reported
    <2>2. v \in DriverType /\ v.evts = <<REQUEST>>
      <3>1. Append(<<>>, REQUEST) = <<REQUEST>>
        OBVIOUS
      <3> HIDE DEF v
      <3>2. v.evts = Append(<<>>, REQUEST)
        BY <2>1, Parts
      <3> QED BY <2>1, <3>1, <3>2 DEF Same
    <2>3. b \in BOOLEAN /\ w = [v EXCEPT !.irqs = b]
      OBVIOUS
    <2>4. p \o <<REQUEST>> = q
      BY <1>4, <1>5
    <2> HIDE DEF b, w, v, q
    <2>5. /\ w \in DriverType /\ w.evts = v.evts /\ w.irqs = b
          /\ w.waiting = v.waiting /\ w.ready = v.ready /\ w.handler = v.handler
          /\ w.left = v.left /\ w.status = v.status /\ w.dma = v.dma
          /\ w.enabled = v.enabled /\ w.stalled = v.stalled
          /\ w.data = v.data /\ w.received = v.received /\ w.buffer = v.buffer
          /\ w.raised = v.raised /\ w.acked = v.acked /\ w.causes = v.causes
      BY <2>2, <2>3, IrqsAre
    <2>6. queue' = p \o w.evts
      BY <1>1, <2>5, PutIs
    <2>7. queue' = q
      BY <2>2, <2>4, <2>5, <2>6
    <2> QED BY <1>1, <2>1, <2>5, <2>7, PutIs DEF b, Same
  <1> HIDE DEF w, v, b, q
  <1>9. /\ ghost'.out = ghost.out /\ ghost'.refused = ghost.refused /\ ghost'.leftover = ghost.leftover
        /\ ghost' \in [out : 0 .. MaxOut, in : 0 .. MaxIn, refused : SUBSET (1 .. MaxOut), leftover : BOOLEAN]
    BY <1>1, Parts DEF RestTypes
  <1>10. RestTypes'
    BY <1>1, <1>9, Parts DEF RestTypes
  <1>11. In(q) \cap (InEvents \cup OutEvents) = {} /\ In(q) \cap InEvents = {} /\ In(q) \cap OutEvents = {}
         /\ OutOk \notin In(q) /\ OutWaiting \notin In(q)
    BY <1>3, <1>4, <1>5, <1>6 DEF OutEvents
  <1>12. OutOk \notin In(queue) /\ OutWaiting \notin In(queue)
    BY <1>3 DEF OutEvents
  <1>13. /\ "RESET" \notin usbd.causes /\ RESET \notin In(queue)
         /\ "SETUP" \notin usbd.causes /\ SETUP \notin In(queue)
         /\ "RESUME" \notin usbd.causes /\ RESUME \notin In(queue)
    BY <1>3, Parts DEF ResetInv, SetupInv, ResumeInv
  <1>14. \A f \in {RESET, SUSPEND, RESUME, SETUP} : f \notin In(q)
    BY <1>2, <1>5, <1>6, <1>13, EventsDiffer
  <1>15. QueueInv(queue)' /\ OrderInv(queue)'
    BY <1>1, <1>6, <1>7, <1>8, <1>14 DEF QueueInv, OrderInv
  <1>16. ResetInv(usbd, queue, usbd.acked, usbd.causes)'
    BY <1>1, <1>8, <1>9, <1>13, <1>14, Parts DEF ResetInv
  <1>17. SetupInv(usbd, queue, usbd.acked, usbd.causes)'
    BY <1>1, <1>8, <1>13, <1>14, Parts DEF SetupInv
  <1>18. SleepInv(usbd, queue, usbd.acked, usbd.causes)'
    BY <1>1, <1>3, <1>8, <1>11, <1>14, ThreadSees DEF SleepInv, Sleeping
  <1>19. ResumeInv(queue, usbd.causes, usbd.raised)'
    BY <1>1, <1>3, <1>8, <1>13, <1>14 DEF ResumeInv, Sleeping
  <1>20. OutInv(usbd, queue, usbd.acked, usbd.raised)'
    BY <1>1, <1>3, <1>8, <1>11, <1>12, Parts DEF OutInv, Full, Report1
  <1>21. HandedInv(usbd, queue)'
    BY <1>1, <1>8, <1>9, <1>11, <1>12, Parts DEF HandedInv, Outstanding, Full, OutInOrder
  <1>22. InInv(usbd, usbd.raised)'
    BY <1>1, <1>8, Parts DEF InInv
  <1>23. FetchInv(usbd)'
    BY <1>1, <1>8, Parts DEF FetchInv
  <1>24. ServedInv(usbd, queue, usbd.acked)'
    <2>1. REQUEST \in In(q) /\ In(queue) \cap InEvents = {}
      BY <1>3, <1>6
    <2> QED BY <1>1, <1>3, <1>8, <1>9, <1>11, <2>1, Parts DEF ServedInv, StrictInv, Clear
  <1> QED BY <1>8, <1>10, <1>15, <1>16, <1>17, <1>18, <1>19, <1>20, <1>21, <1>22, <1>23, <1>24, Whole

\* The interface is selected: what both calls of EpEnable leave.
LEMMA SelectedIs ==
  ASSUME NEW u \in DriverType, u.enabled = {}, NEW w, w = EpEnable(EpEnable(u, "IN1"), "OUT1")
  PROVE  /\ w \in DriverType /\ w.evts = u.evts /\ w.irqs = u.irqs
         /\ w.waiting = u.waiting \ {O} /\ w.ready = u.ready \ {O} /\ w.handler = u.handler
         /\ w.left = u.left /\ w.status = u.status /\ w.dma = u.dma
         /\ w.enabled = Endpoints /\ w.stalled = {}
         /\ w.data = u.data /\ w.received = u.received /\ w.buffer = [u.buffer EXCEPT ![O] = NoPacket]
         /\ w.raised = u.raised /\ w.acked = u.acked /\ w.causes = u.causes
  <1> DEFINE f1 == [u.buffer EXCEPT ![O] = NoPacket]
             f2 == u.ready \ {O}
             f3 == u.waiting \ {O}
             w1 == [u EXCEPT !.enabled = Endpoints]
             w2 == [w1 EXCEPT !.stalled = {}]
             w3 == [w2 EXCEPT !.ready = f2]
             w4 == [w3 EXCEPT !.buffer = f1]
             w5 == [w4 EXCEPT !.waiting = f3]
  <1>1. EpEnable(u, "IN1") = [u EXCEPT !.enabled = @ \cup {I}, !.stalled = @ \ {I}]
    BY TwoEndpoints DEF EpEnable, I
  <1> DEFINE v == [u EXCEPT !.enabled = {I}, !.stalled = u.stalled \ {I}]
  <1>2. EpEnable(u, "IN1") = v
    BY <1>1 DEF DriverType
  <1>3. O \notin v.enabled /\ v.enabled = {I} /\ v.stalled = u.stalled \ {I} /\ O \notin Ins \cup Control
    BY TwoEndpoints DEF DriverType
  <1>4. w = [TransferOutDrop([v EXCEPT !.enabled = @ \cup {O}, !.stalled = @ \ {O}], O) EXCEPT !.waiting = @ \ {O}]
    BY <1>2, <1>3 DEF EpEnable, O
  <1>5. {I} \cup {O} = Endpoints /\ (u.stalled \ {I}) \ {O} = {}
    BY TwoEndpoints DEF DriverType
  <1>6. [v EXCEPT !.enabled = @ \cup {O}, !.stalled = @ \ {O}] = w2
    BY <1>3, <1>5 DEF DriverType
  <1>7. w = [TransferOutDrop(w2, O) EXCEPT !.waiting = @ \ {O}]
    BY <1>4, <1>6
  <1> HIDE DEF v
  <1>8. w = w5
    BY <1>7 DEF TransferOutDrop, DriverType
  <1>9. f1 \in [Endpoints -> Packets]
    <2>1. NoPacket \in Packets
      BY DEF NoPacket, Packet, Packets
    <2> QED BY <2>1 DEF DriverType
  <1>10. f2 \in SUBSET Endpoints /\ f3 \in SUBSET Endpoints
    BY DEF DriverType
  <1> HIDE DEF f1, f2, f3
  <1>11. /\ w5.evts = u.evts /\ w5.irqs = u.irqs
         /\ w5.waiting = f3 /\ w5.ready = f2 /\ w5.handler = u.handler
         /\ w5.left = u.left /\ w5.status = u.status /\ w5.dma = u.dma
         /\ w5.enabled = Endpoints /\ w5.stalled = {}
         /\ w5.data = u.data /\ w5.received = u.received /\ w5.buffer = f1
         /\ w5.raised = u.raised /\ w5.acked = u.acked /\ w5.causes = u.causes
    BY DEF DriverType
  <1>12. w1 \in DriverType
    BY FieldReplaced
  <1> HIDE DEF w1
  <1>13. w2 \in DriverType
    BY <1>12, FieldReplaced
  <1> HIDE DEF w2
  <1>14. w3 \in DriverType
    BY <1>10, <1>13, FieldReplaced
  <1> HIDE DEF w3
  <1>15. w4 \in DriverType
    BY <1>9, <1>14, FieldReplaced
  <1> HIDE DEF w4
  <1>16. w5 \in DriverType
    BY <1>10, <1>15, FieldReplaced
  <1> HIDE DEF w5
  <1> QED BY <1>8, <1>11, <1>16 DEF f1, f2, f3

\* The device is configured.
LEMMA ExecSetupKeeps == ASSUME HidInv, ExecSetup PROVE HidInv'
  <1> DEFINE p == Tail(queue)
             w == EpEnable(EpEnable(usbd, "IN1"), "OUT1")
  <1>1. /\ usbd.dma = "none" /\ ~usbd.raised /\ queue # <<>> /\ Head(queue) = SETUP
        /\ Put(w, p)
        /\ host' = [host EXCEPT !.state = IF host.state = "configuring" THEN "configured" ELSE host.state]
        /\ UNCHANGED <<sustate, clock, inProgress, asleep, reports, apdu, given, handed, ghost>>
    BY DEF ExecSetup, Executes, ThreadRuns, SETUP, class, application
  <1>2. /\ QueueInv(p) /\ In(queue) = In(p) \cup {SETUP} /\ SETUP \notin In(p) /\ SETUP \in In(queue)
        /\ \A e \in In(p) \ Repeatable : Once(p, e)
        /\ ClockFollows(queue) => ClockFollows(p)
    BY <1>1, Taken
  <1> HIDE DEF p
  <1>3. /\ host.state # "configured" /\ ~host.asleep /\ sustate = "ACTIVE" /\ ~clock
        /\ usbd.acked = {} /\ usbd.enabled = {} /\ In(queue) \subseteq {SETUP, RESET}
        /\ usbd.causes \subseteq {"RESET"} /\ ghost.out = host.sent
    BY <1>2, Parts DEF SetupInv, ResetInv
  <1>4. host.state \in {"default", "configuring"}
    BY <1>3, Parts DEF RestTypes
  <1>5. In(p) \subseteq {RESET}
    BY <1>2, <1>3
  <1>6. usbd' \in DriverType /\ usbd'.evts = <<>> /\ queue' = p
        /\ usbd'.waiting = usbd.waiting \ {O} /\ usbd'.ready = usbd.ready \ {O} /\ usbd'.handler = usbd.handler
        /\ usbd'.left = usbd.left /\ usbd'.status = usbd.status /\ usbd'.dma = usbd.dma
        /\ usbd'.enabled = Endpoints /\ usbd'.stalled = {} /\ usbd'.irqs = usbd.irqs
        /\ usbd'.data = usbd.data /\ usbd'.received = usbd.received
        /\ usbd'.buffer = [usbd.buffer EXCEPT ![O] = NoPacket]
        /\ usbd'.raised = usbd.raised /\ usbd'.acked = usbd.acked /\ usbd'.causes = usbd.causes
    <2>1. p \in Seq(Events) /\ usbd.evts = <<>>
      BY <1>2, Parts DEF QueueInv
    <2>2. p \o <<>> = p
      BY <2>1
    <2> HIDE DEF w
    <2>3. /\ w \in DriverType /\ w.evts = usbd.evts /\ w.irqs = usbd.irqs
          /\ w.waiting = usbd.waiting \ {O} /\ w.ready = usbd.ready \ {O} /\ w.handler = usbd.handler
          /\ w.left = usbd.left /\ w.status = usbd.status /\ w.dma = usbd.dma
          /\ w.enabled = Endpoints /\ w.stalled = {}
          /\ w.data = usbd.data /\ w.received = usbd.received /\ w.buffer = [usbd.buffer EXCEPT ![O] = NoPacket]
          /\ w.raised = usbd.raised /\ w.acked = usbd.acked /\ w.causes = usbd.causes
      BY <1>3, Parts, SelectedIs DEF w
    <2>4. queue' = p \o w.evts
      BY <1>1, <2>3, PutIs
    <2> QED BY <1>1, <2>1, <2>2, <2>3, <2>4, PutIs
  <1> HIDE DEF w
  <1>7. usbd'.buffer[O] = NoPacket /\ usbd'.buffer[I] = usbd.buffer[I] /\ I \in Endpoints /\ O \in Endpoints /\ I # O
    BY <1>6, TwoEndpoints, Parts DEF DriverType
  <1>8. /\ host'.asleep = host.asleep /\ host'.sent = host.sent /\ host'.unanswered = host.unanswered
        /\ host'.got = host.got
        /\ host'.state = IF host.state = "configuring" THEN "configured" ELSE host.state
        /\ host' \in [state : {"default", "configuring", "configured"}, asleep : BOOLEAN,
                    sent : 0 .. MaxOut, unanswered : BOOLEAN, got : 0 .. MaxIn, bus : 0 .. MaxBus]
    BY <1>1, Parts DEF RestTypes
  <1>9. RestTypes'
    BY <1>1, <1>8, Parts DEF RestTypes
  <1>10. \A f \in {SUSPEND, RESUME, SETUP, REQUEST, READY, InOk, InAborted, OutOk, OutWaiting} : f \notin In(p)
    BY <1>5, EventsDiffer
  <1>11. In(p) \cap (InEvents \cup OutEvents) = {} /\ In(p) \cap InEvents = {} /\ In(p) \cap OutEvents = {}
    BY <1>10 DEF InEvents, OutEvents
  <1>12. I \notin usbd.waiting /\ I \in usbd.ready /\ usbd.buffer[I] = NoPacket
    BY <1>3, Parts DEF InInv
  <1>13. host.state = "default" => "RESET" \in usbd.causes \/ RESET \in In(p)
    BY <1>2, <1>3, EventsDiffer, Parts DEF ResetInv
  <1>14. host.state = "configuring" => "RESET" \notin usbd.causes /\ RESET \notin In(p)
    BY <1>2, Parts DEF ResetInv
  <1>15. QueueInv(queue)' /\ OrderInv(queue)'
    BY <1>1, <1>2, <1>3, <1>6, Parts DEF QueueInv, OrderInv
  <1>16. ResetInv(usbd, queue, usbd.acked, usbd.causes)'
    BY <1>1, <1>3, <1>4, <1>6, <1>8, <1>10, <1>13, <1>14 DEF ResetInv
  <1>17. SetupInv(usbd, queue, usbd.acked, usbd.causes)'
    <2>1. host'.state # "configuring" /\ "SETUP" \notin usbd'.causes /\ SETUP \notin In(queue')
      BY <1>2, <1>3, <1>4, <1>6, <1>8
    <2> QED BY <1>6, <2>1 DEF SetupInv
  <1>18. SleepInv(usbd, queue, usbd.acked, usbd.causes)'
    BY <1>1, <1>3, <1>6, <1>8, <1>10, <1>11, Parts DEF SleepInv, Sleeping
  <1>19. ResumeInv(queue, usbd.causes, usbd.raised)'
    BY <1>1, <1>3, <1>6, <1>8, <1>10 DEF ResumeInv, Sleeping
  <1>20. OutInv(usbd, queue, usbd.acked, usbd.raised)'
    <2>1. ~Full(usbd)' /\ usbd'.dma # O /\ O \notin usbd'.waiting \cup usbd'.ready \cup usbd'.acked
      BY <1>1, <1>3, <1>6, <1>7 DEF Full, O
    <2> QED BY <1>6, <1>10, <2>1 DEF OutInv
  <1>21. HandedInv(usbd, queue)'
    <2>1. ~Outstanding(usbd, queue)'
      BY <1>1, <1>6, <1>7, <1>10 DEF Outstanding, Full, O
    <2>2. OutInOrder' /\ handed' \in Seq(1 .. MaxOut) /\ (apdu' > 0 => handed' # <<>>)
      BY <1>1, Parts DEF HandedInv, OutInOrder
    <2>3. \A report \in ghost'.out + 1 .. host'.sent : FALSE
      BY <1>1, <1>3, <1>8, UsbHidAssumption, Parts DEF RestTypes
    <2> QED BY <1>1, <1>8, <2>1, <2>2, <2>3, Parts DEF HandedInv
  <1>22. InInv(usbd, usbd.raised)'
    <2>1. usbd'.dma # I /\ usbd'.enabled # {} /\ I \notin usbd'.waiting
      BY <1>1, <1>6, <1>7, <1>12 DEF I
    <2> QED BY <2>1 DEF InInv
  <1>23. FetchInv(usbd)'
    BY <1>1, <1>6, <1>7, <1>8, <1>12, Parts DEF FetchInv
  <1>24. ServedInv(usbd, queue, usbd.acked)'
    <2>1. Clear(usbd, queue, usbd.acked)'
      BY <1>3, <1>6, <1>7, <1>11, <1>12 DEF Clear
    <2>2. StrictInv(usbd, queue, usbd.acked)'
      BY <1>3, <1>6, <1>7, <1>11, <1>12, <2>1 DEF StrictInv
    <2> QED BY <1>1, <1>3, <1>6, <2>2 DEF ServedInv
  <1> QED BY <1>6, <1>9, <1>15, <1>16, <1>17, <1>18, <1>19, <1>20, <1>21, <1>22, <1>23, <1>24, Whole


\* What an abort leaves of the OUT endpoint and of the IN endpoint.
LEMMA AbortOutIs ==
  ASSUME NEW u \in DriverType, NEW w, w = AbortOut(u, O)
  PROVE  /\ w \in DriverType /\ w.evts = u.evts /\ w.irqs = u.irqs
         /\ w.waiting = u.waiting \ {O} /\ w.ready = u.ready \ {O}
         /\ w.left = u.left /\ w.dma = u.dma /\ w.enabled = u.enabled /\ w.stalled = u.stalled
         /\ w.data = u.data /\ w.received = u.received /\ w.buffer[I] = u.buffer[I]
         /\ w.buffer[O] \in {u.buffer[O], NoPacket}
         /\ w.raised = u.raised /\ w.acked = u.acked /\ w.causes = u.causes
  <1> DEFINE f1 == [u.status EXCEPT ![O] = "ABORTED"]
             f2 == [u.handler EXCEPT ![O] = "NULL"]
             f3 == u.waiting \ {O}
             f4 == u.ready \ {O}
             f5 == [u.buffer EXCEPT ![O] = NoPacket]
             w1 == [u EXCEPT !.status = f1]
             w2 == [w1 EXCEPT !.handler = f2]
             w3 == [w2 EXCEPT !.waiting = f3]
             w4 == [w3 EXCEPT !.ready = f4]
             x2 == [w1 EXCEPT !.ready = f4]
             x3 == [x2 EXCEPT !.buffer = f5]
  <1>1. f1 \in [Endpoints -> {"OK", "ABORTED", "OVERLOAD"}] /\ f2 \in [Endpoints -> {"NULL", "feeder", "feeder_zlp", "consumer"}]
    BY DEF DriverType
  <1>2. f3 \in SUBSET Endpoints /\ f4 \in SUBSET Endpoints /\ f3 = u.waiting \ {O}
    BY DEF DriverType
  <1>3. /\ f5 \in [Endpoints -> Packets] /\ f5[I] = u.buffer[I] /\ f5[O] = NoPacket
    <2>1. NoPacket \in Packets
      BY DEF NoPacket, Packet, Packets
    <2> QED BY <2>1, TwoEndpoints DEF DriverType
  <1>4. O \in u.waiting => w = w4
    BY DEF AbortOut, DriverType
  <1>5. O \notin u.waiting => w = x3 /\ u.waiting = f3
    BY DEF AbortOut, TransferOutDrop, DriverType
  <1> HIDE DEF f1, f2, f3, f4, f5
  <1>6. /\ w4.evts = u.evts /\ w4.irqs = u.irqs
        /\ w4.waiting = f3 /\ w4.ready = f4
        /\ w4.left = u.left /\ w4.dma = u.dma /\ w4.enabled = u.enabled /\ w4.stalled = u.stalled
        /\ w4.data = u.data /\ w4.received = u.received /\ w4.buffer = u.buffer
        /\ w4.raised = u.raised /\ w4.acked = u.acked /\ w4.causes = u.causes
    BY DEF DriverType
  <1>7. /\ x3.evts = u.evts /\ x3.irqs = u.irqs
        /\ x3.waiting = u.waiting /\ x3.ready = f4
        /\ x3.left = u.left /\ x3.dma = u.dma /\ x3.enabled = u.enabled /\ x3.stalled = u.stalled
        /\ x3.data = u.data /\ x3.received = u.received /\ x3.buffer = f5
        /\ x3.raised = u.raised /\ x3.acked = u.acked /\ x3.causes = u.causes
    BY DEF DriverType
  <1>8. w1 \in DriverType
    BY <1>1, FieldReplaced
  <1> HIDE DEF w1
  <1>9. w2 \in DriverType /\ x2 \in DriverType
    BY <1>1, <1>2, <1>8, FieldReplaced
  <1> HIDE DEF w2, x2
  <1>10. w3 \in DriverType /\ x3 \in DriverType
    BY <1>2, <1>3, <1>9, FieldReplaced
  <1> HIDE DEF w3, x3
  <1>11. w4 \in DriverType
    BY <1>2, <1>10, FieldReplaced
  <1> HIDE DEF w4
  <1>12. CASE O \in u.waiting
    BY <1>4, <1>6, <1>11, <1>12 DEF f3, f4
  <1>13. CASE O \notin u.waiting
    BY <1>2, <1>3, <1>5, <1>7, <1>10, <1>13 DEF f4
  <1> QED BY <1>12, <1>13

\* What the abort of the IN endpoint changes.
LEMMA AbortInIs ==
  ASSUME NEW u \in DriverType, NEW w, w = AbortIn(u, I)
  PROVE  /\ w \in DriverType /\ w.evts \in {u.evts, Append(u.evts, InAborted)} /\ w.irqs = u.irqs
         /\ w.waiting = u.waiting \ {I} /\ w.ready = u.ready \cup {I}
         /\ w.left = u.left /\ w.dma = u.dma /\ w.enabled = u.enabled /\ w.stalled = u.stalled
         /\ w.data = u.data /\ w.received = u.received /\ w.buffer = u.buffer
         /\ w.raised = u.raised /\ w.acked = u.acked /\ w.causes = u.causes
  <1> DEFINE f1 == u.waiting \ {I}
             f2 == u.ready \cup {I}
             f3 == [u.handler EXCEPT ![I] = "NULL"]
             f4 == [u.status EXCEPT ![I] = "ABORTED"]
             f5 == Append(u.evts, InAborted)
             w1 == [u EXCEPT !.waiting = f1]
             w2 == [w1 EXCEPT !.ready = f2]
             w3 == [w2 EXCEPT !.handler = f3]
             w4 == [w3 EXCEPT !.status = f4]
             w5 == [w4 EXCEPT !.evts = f5]
  <1>1. f1 \in SUBSET Endpoints /\ f2 \in SUBSET Endpoints
    BY TwoEndpoints DEF DriverType
  <1>2. f4 \in [Endpoints -> {"OK", "ABORTED", "OVERLOAD"}] /\ f3 \in [Endpoints -> {"NULL", "feeder", "feeder_zlp", "consumer"}]
    BY DEF DriverType
  <1>3. f5 \in Seq(Events)
    <2>1. InAborted \in Events /\ u.evts \in Seq(Events)
      BY EventsAreEvents DEF InEvents, DriverType
    <2> QED BY <2>1
  <1>4. Busy(u, I) => w = w5
    BY DEF AbortIn, Report, InAborted, DriverType
  <1>5. ~Busy(u, I) => w = u /\ u.waiting = u.waiting \ {I} /\ u.ready = u.ready \cup {I}
    BY TwoEndpoints DEF AbortIn, Busy
  <1> HIDE DEF f1, f2, f3, f4, f5
  <1>6. /\ w5.evts = f5 /\ w5.irqs = u.irqs
        /\ w5.waiting = f1 /\ w5.ready = f2
        /\ w5.left = u.left /\ w5.dma = u.dma /\ w5.enabled = u.enabled /\ w5.stalled = u.stalled
        /\ w5.data = u.data /\ w5.received = u.received /\ w5.buffer = u.buffer
        /\ w5.raised = u.raised /\ w5.acked = u.acked /\ w5.causes = u.causes
    BY DEF DriverType
  <1>7. w1 \in DriverType
    BY <1>1, FieldReplaced
  <1> HIDE DEF w1
  <1>8. w2 \in DriverType
    BY <1>1, <1>7, FieldReplaced
  <1> HIDE DEF w2
  <1>9. w3 \in DriverType
    BY <1>2, <1>8, FieldReplaced
  <1> HIDE DEF w3
  <1>10. w4 \in DriverType
    BY <1>2, <1>9, FieldReplaced
  <1> HIDE DEF w4
  <1>11. w5 \in DriverType
    BY <1>3, <1>10, FieldReplaced
  <1> HIDE DEF w5
  <1>12. CASE Busy(u, I)
    BY <1>4, <1>6, <1>11, <1>12 DEF f1, f2, f5
  <1>13. CASE ~Busy(u, I)
    BY <1>5, <1>13
  <1> QED BY <1>12, <1>13

\* usbd_ep_abort_all, when no IN transfer waits.
LEMMA AbortAllIs ==
  ASSUME NEW u \in DriverType, I \notin u.waiting, NEW w, w = AbortAll(u)
  PROVE  /\ w \in DriverType /\ w.evts = u.evts /\ w.irqs = u.irqs
         /\ w.waiting = {} /\ w.ready = {I}
         /\ w.left = u.left /\ w.dma = u.dma /\ w.enabled = u.enabled /\ w.stalled = u.stalled
         /\ w.data = u.data /\ w.received = u.received /\ w.buffer[I] = u.buffer[I]
         /\ w.buffer[O] \in {u.buffer[O], NoPacket}
         /\ w.raised = u.raised /\ w.acked = u.acked /\ w.causes = u.causes
  <1> DEFINE eps == u.waiting \cup (u.ready \cap Outs)
             At(x, ep) == IF ep \in eps THEN Abort(x, ep) ELSE x
             v == IF O \in eps THEN AbortOut(u, O) ELSE u
             t1 == CHOOSE x \in {At(y, "IN1") : y \in {At(u, "IN0")}} : TRUE
             t2 == CHOOSE x \in {At(y, "OUT0") : y \in {t1}} : TRUE
             t3 == CHOOSE x \in {At(y, "OUT1") : y \in {t2}} : TRUE
  <1>1. InTurn(u, eps, Abort) = t3
    BY DEF InTurn, Then
  <1>2. /\ "IN0" \notin eps /\ "OUT0" \notin eps /\ I \notin eps /\ O \notin Ins
        /\ O \notin eps => u.waiting = {} /\ O \notin u.ready
    BY TwoEndpoints DEF I, O, DriverType
  <1>3. \A x : At(x, "IN0") = x /\ At(x, "IN1") = x /\ At(x, "OUT0") = x
    BY <1>2 DEF I
  <1>4. At(u, "OUT1") = v
    BY <1>2 DEF O, Abort
  <1> HIDE DEF At
  <1>5. t1 = u
    <2>1. {At(y, "IN1") : y \in {At(u, "IN0")}} = {u}
      BY <1>3
    <2> QED BY <2>1
  <1> HIDE DEF t1
  <1>6. t2 = u
    <2>1. {At(y, "OUT0") : y \in {t1}} = {u}
      BY <1>3, <1>5
    <2> QED BY <2>1
  <1> HIDE DEF t2
  <1>7. t3 = v
    <2> HIDE DEF v
    <2>1. {At(y, "OUT1") : y \in {t2}} = {v}
      BY <1>4, <1>6
    <2> QED BY <2>1
  <1> HIDE DEF t3
  <1>8. w = [v EXCEPT !.ready = {I}]
    <2> HIDE DEF v
    <2> QED BY <1>1, <1>7, TwoEndpoints DEF AbortAll
  <1>9. /\ v \in DriverType /\ v.evts = u.evts /\ v.irqs = u.irqs
        /\ v.waiting = u.waiting \ {O}
        /\ v.left = u.left /\ v.dma = u.dma /\ v.enabled = u.enabled /\ v.stalled = u.stalled
        /\ v.data = u.data /\ v.received = u.received /\ v.buffer[I] = u.buffer[I]
        /\ v.buffer[O] \in {u.buffer[O], NoPacket}
        /\ v.raised = u.raised /\ v.acked = u.acked /\ v.causes = u.causes
    <2>1. CASE O \in eps
      <3>1. v = AbortOut(u, O)
        BY <2>1
      <3> HIDE DEF v
      <3> QED BY <3>1, AbortOutIs
    <2>2. CASE O \notin eps
      <3>1. v = u /\ u.waiting \ {O} = u.waiting
        BY <1>2, <2>2
      <3> HIDE DEF v
      <3> QED BY <3>1
    <2> QED BY <2>1, <2>2
  <1> DEFINE r == {I}
             z == [v EXCEPT !.ready = r]
  <1> HIDE DEF v, eps
  <1>10. u.waiting \ {O} = {} /\ r \in SUBSET Endpoints /\ w = z
    BY <1>8, TwoEndpoints DEF DriverType
  <1> HIDE DEF r
  <1>11. z \in DriverType
    BY <1>9, <1>10, FieldReplaced
  <1>12. /\ z.evts = v.evts /\ z.irqs = v.irqs /\ z.waiting = v.waiting /\ z.ready = r
         /\ z.left = v.left /\ z.dma = v.dma /\ z.enabled = v.enabled /\ z.stalled = v.stalled
         /\ z.data = v.data /\ z.received = v.received /\ z.buffer = v.buffer
         /\ z.raised = v.raised /\ z.acked = v.acked /\ z.causes = v.causes
    BY <1>9 DEF DriverType
  <1> HIDE DEF z
  <1> QED BY <1>9, <1>10, <1>11, <1>12 DEF r

\* The interface is deselected.
LEMMA DeselectedIs ==
  ASSUME NEW u \in DriverType, NEW w, w = Deselected(u)
  PROVE  /\ w \in DriverType /\ w.evts \in {u.evts, Append(u.evts, InAborted)} /\ w.irqs = u.irqs
         /\ w.waiting = {} /\ w.ready = {I}
         /\ w.left = u.left /\ w.dma = u.dma /\ w.enabled = {} /\ w.stalled = u.stalled
         /\ w.data = u.data /\ w.received = u.received
         /\ w.buffer[I] = NoPacket /\ w.buffer[O] = NoPacket
         /\ w.raised = u.raised /\ w.acked = u.acked /\ w.causes = u.causes
  <1> DEFINE x == AbortIn(u, I)
             b == [x.buffer EXCEPT ![I] = NoPacket]
             v == [x EXCEPT !.buffer = b]
             e == x.enabled \ {I}
             v1 == [v EXCEPT !.enabled = e]
             y == AbortOut(v, O)
             d == [y.buffer EXCEPT ![O] = NoPacket]
             z == [y EXCEPT !.buffer = d]
             w1 == [z EXCEPT !.enabled = {}]
  <1>1. I \in Ins /\ O \notin Ins /\ NoPacket \in Packets /\ I \in Endpoints /\ O \in Endpoints /\ I # O
    BY TwoEndpoints DEF NoPacket, Packet, Packets
  <1>2. EpDisable(u, "IN1") = [x EXCEPT !.enabled = @ \ {I}, !.buffer[I] = NoPacket]
    BY <1>1 DEF EpDisable, Abort, I
  <1>3. /\ x \in DriverType /\ x.evts \in {u.evts, Append(u.evts, InAborted)} /\ x.irqs = u.irqs
        /\ x.waiting = u.waiting \ {I} /\ x.ready = u.ready \cup {I}
        /\ x.left = u.left /\ x.dma = u.dma /\ x.enabled = u.enabled /\ x.stalled = u.stalled
        /\ x.data = u.data /\ x.received = u.received /\ x.buffer = u.buffer
        /\ x.raised = u.raised /\ x.acked = u.acked /\ x.causes = u.causes
    BY AbortInIs
  <1> HIDE DEF x
  <1>4. EpDisable(u, "IN1") = v1
    BY <1>2, <1>3 DEF DriverType
  <1>5. b \in [Endpoints -> Packets] /\ b[I] = NoPacket
    BY <1>1, <1>3 DEF DriverType
  <1> HIDE DEF b
  <1>6. v \in DriverType
    BY <1>3, <1>5, FieldReplaced
  <1>7. /\ v.evts = x.evts /\ v.irqs = u.irqs
        /\ v.waiting = u.waiting \ {I} /\ v.ready = u.ready \cup {I}
        /\ v.left = u.left /\ v.dma = u.dma /\ v.enabled = u.enabled /\ v.stalled = u.stalled
        /\ v.data = u.data /\ v.received = u.received /\ v.buffer = b
        /\ v.raised = u.raised /\ v.acked = u.acked /\ v.causes = u.causes
    BY <1>3 DEF DriverType
  <1> HIDE DEF v
  <1>8. Deselected(u) = [AbortOut(v1, O) EXCEPT !.enabled = @ \ {O}, !.buffer[O] = NoPacket]
    BY <1>1, <1>4 DEF Deselected, EpDisable, Abort, O
  <1>9. AbortOut(v1, O) = [y EXCEPT !.enabled = e]
    <2>1. CASE O \in v.waiting
      BY <2>1, <1>6 DEF AbortOut, DriverType
    <2>2. CASE O \notin v.waiting
      BY <2>2, <1>6 DEF AbortOut, TransferOutDrop, DriverType
    <2> QED BY <2>1, <2>2
  <1>10. /\ y \in DriverType /\ y.evts = v.evts /\ y.irqs = v.irqs
         /\ y.waiting = v.waiting \ {O} /\ y.ready = v.ready \ {O}
         /\ y.left = v.left /\ y.dma = v.dma /\ y.enabled = v.enabled /\ y.stalled = v.stalled
         /\ y.data = v.data /\ y.received = v.received /\ y.buffer[I] = v.buffer[I]
         /\ y.raised = v.raised /\ y.acked = v.acked /\ y.causes = v.causes
    BY <1>6, AbortOutIs
  <1>11. e \ {O} = {}
    BY <1>3, TwoEndpoints DEF DriverType
  <1> HIDE DEF y, e
  <1>12. w = w1
    <2>1. w = [[y EXCEPT !.enabled = e] EXCEPT !.enabled = @ \ {O}, !.buffer[O] = NoPacket]
      BY <1>8, <1>9
    <2>2. w = [y EXCEPT !.enabled = e \ {O}, !.buffer[O] = NoPacket]
      BY <2>1, <1>10 DEF DriverType
    <2>3. w = [y EXCEPT !.enabled = {}, !.buffer[O] = NoPacket]
      BY <2>2, <1>11
    <2> QED BY <2>3, <1>10 DEF DriverType
  <1>13. d \in [Endpoints -> Packets] /\ d[O] = NoPacket /\ d[I] = y.buffer[I]
    BY <1>1, <1>10 DEF DriverType
  <1> HIDE DEF d
  <1>14. /\ w1.evts = y.evts /\ w1.irqs = y.irqs /\ w1.waiting = y.waiting /\ w1.ready = y.ready
         /\ w1.left = y.left /\ w1.dma = y.dma /\ w1.enabled = {} /\ w1.stalled = y.stalled
         /\ w1.data = y.data /\ w1.received = y.received /\ w1.buffer = d
         /\ w1.raised = y.raised /\ w1.acked = y.acked /\ w1.causes = y.causes
    BY <1>10 DEF DriverType
  <1>15. z \in DriverType
    BY <1>10, <1>13, FieldReplaced
  <1> HIDE DEF z
  <1>16. w1 \in DriverType
    BY <1>15, FieldReplaced
  <1> HIDE DEF w1
  <1>17. (u.waiting \ {I}) \ {O} = {} /\ (u.ready \cup {I}) \ {O} = {I}
    BY TwoEndpoints DEF DriverType
  <1>18. w.waiting = {} /\ w.ready = {I} /\ w.evts = x.evts
    BY <1>7, <1>10, <1>12, <1>14, <1>17
  <1> QED BY <1>3, <1>5, <1>7, <1>10, <1>12, <1>13, <1>14, <1>16, <1>18


\* The bus was reset.
LEMMA ExecResetKeeps == ASSUME HidInv, ExecReset PROVE HidInv'
  <1> DEFINE p == Tail(queue)
             b == "ACTIVE" = "ACTIVE"
             v == Deselected(usbd)
             w == [v EXCEPT !.irqs = b]
             q == p \o v.evts
  <1>1. /\ usbd.dma = "none" /\ ~usbd.raised /\ queue # <<>> /\ Head(queue) = RESET
        /\ sustate' = "ACTIVE" /\ Put(w, p) /\ clock' = (clock \/ Sleeping)
        /\ inProgress' = FALSE
        /\ ghost' = [ghost EXCEPT !.in = given, !.leftover = FALSE]
        /\ UNCHANGED <<asleep, reports, apdu, given, handed, host>>
    BY DEF ExecReset, Executes, ThreadRuns, SetSustate, RESET, Sleeping
  <1>2. /\ QueueInv(p) /\ In(queue) = In(p) \cup {RESET} /\ SETUP \notin In(p) /\ RESET \in In(queue)
        /\ \A e \in In(p) \ Repeatable : Once(p, e)
        /\ ClockFollows(queue) => ClockFollows(p)
    BY <1>1, Taken
  <1>3. /\ host.state = "default" /\ ~host.asleep /\ ghost.out = host.sent
        /\ "SETUP" \notin usbd.causes /\ "RESUME" \notin usbd.causes
        /\ "SUSPEND" \notin usbd.causes /\ SUSPEND \notin In(queue) /\ REQUEST \notin In(queue)
    <2>1. In(queue) # {}
      BY <1>2
    <2> QED BY <1>1, <1>2, <2>1, Parts DEF ResetInv, SetupInv, ResumeInv, SleepInv
  <1>4. /\ InAborted \in InEvents /\ InAborted \in Events /\ InAborted \notin OutEvents
        /\ InAborted \in Repeatable /\ InAborted # RESUME /\ InAborted # SETUP /\ RESET # SETUP
    BY EventsDiffer, EventsAreEvents DEF BusEvents, OutEvents, Repeatable, InEvents
  <1>5. p \in Seq(Events) /\ In(p) \subseteq In(queue)
    BY <1>2 DEF QueueInv
  <1> HIDE DEF p
  <1>6. /\ v \in DriverType /\ v.evts \in {usbd.evts, Append(usbd.evts, InAborted)} /\ v.irqs = usbd.irqs
        /\ v.waiting = {} /\ v.ready = {I}
        /\ v.left = usbd.left /\ v.dma = usbd.dma /\ v.enabled = {} /\ v.stalled = usbd.stalled
        /\ v.data = usbd.data /\ v.received = usbd.received
        /\ v.buffer[I] = NoPacket /\ v.buffer[O] = NoPacket
        /\ v.raised = usbd.raised /\ v.acked = usbd.acked /\ v.causes = usbd.causes
    BY Parts, DeselectedIs
  <1> HIDE DEF v
  <1>7. q = p \/ q = Append(p, InAborted)
    <2>1. Append(<<>>, InAborted) = <<InAborted>> /\ p \o <<>> = p /\ p \o <<InAborted>> = Append(p, InAborted)
      BY <1>4, <1>5
    <2>2. v.evts = <<>> \/ v.evts = <<InAborted>>
      BY <1>6, <2>1, Parts
    <2> QED BY <2>1, <2>2
  <1>8. usbd' \in DriverType /\ usbd'.evts = <<>> /\ queue' = q
        /\ usbd'.waiting = {} /\ usbd'.ready = {I}
        /\ usbd'.left = usbd.left /\ usbd'.dma = usbd.dma
        /\ usbd'.enabled = {} /\ usbd'.stalled = usbd.stalled /\ usbd'.irqs = TRUE
        /\ usbd'.data = usbd.data /\ usbd'.received = usbd.received
        /\ usbd'.buffer[I] = NoPacket /\ usbd'.buffer[O] = NoPacket
        /\ usbd'.raised = usbd.raised /\ usbd'.acked = usbd.acked /\ usbd'.causes = usbd.causes
    <2>1. b \in BOOLEAN /\ w = [v EXCEPT !.irqs = b]
      OBVIOUS
    <2> HIDE DEF b, w
    <2>2. /\ w \in DriverType /\ w.evts = v.evts /\ w.irqs = b
          /\ w.waiting = v.waiting /\ w.ready = v.ready
          /\ w.left = v.left /\ w.dma = v.dma
          /\ w.enabled = v.enabled /\ w.stalled = v.stalled
          /\ w.data = v.data /\ w.received = v.received /\ w.buffer = v.buffer
          /\ w.raised = v.raised /\ w.acked = v.acked /\ w.causes = v.causes
      BY <1>6, <2>1, IrqsAre
    <2>3. queue' = p \o w.evts
      BY <1>1, <2>2, PutIs
    <2>4. queue' = q
      BY <2>2, <2>3
    <2>5. b
      BY DEF b
    <2> HIDE DEF q
    <2>6. /\ usbd' \in DriverType /\ usbd'.evts = <<>>
          /\ usbd'.waiting = w.waiting /\ usbd'.ready = w.ready
          /\ usbd'.left = w.left /\ usbd'.dma = w.dma
          /\ usbd'.enabled = w.enabled /\ usbd'.stalled = w.stalled /\ usbd'.irqs = w.irqs
          /\ usbd'.data = w.data /\ usbd'.received = w.received /\ usbd'.buffer = w.buffer
          /\ usbd'.raised = w.raised /\ usbd'.acked = w.acked /\ usbd'.causes = w.causes
      BY <1>1, <2>2, PutIs
    <2> QED BY <1>6, <2>2, <2>4, <2>5, <2>6
  <1> HIDE DEF w, b, q
  <1>9. QueueInv(q) /\ (In(q) = In(p) \/ In(q) = In(p) \cup {InAborted})
    <2>1. QueueInv(Append(p, InAborted)) /\ In(Append(p, InAborted)) = In(p) \cup {InAborted}
      BY <1>2, <1>4, QueueAppended
    <2> QED BY <1>2, <1>7, <2>1
  <1>10. \A e \in In(q) \ Repeatable : Once(q, e)
    <2>1. \A e : Once(p, e) /\ e # InAborted => Once(Append(p, InAborted), e)
      BY <1>4, <1>5, AppendIn
    <2> QED BY <1>2, <1>4, <1>7, <1>9, <2>1
  <1>11. ~clock' => ClockFollows(q)
    <2> SUFFICES ASSUME ~clock' PROVE ClockFollows(q)
      OBVIOUS
    <2>1. ~clock /\ sustate \in {"ACTIVE", "RESUMING"}
      BY <1>1, Parts DEF RestTypes, Sleeping
    <2>2. ClockFollows(p)
      <3>1. CASE sustate = "ACTIVE"
        BY <1>2, <2>1, <3>1, Parts DEF OrderInv
      <3>2. CASE sustate = "RESUMING"
        <4>1. RESUME \notin In(p)
          BY <1>5, <3>2, Parts DEF ResumeInv, Sleeping
        <4> QED BY <4>1, FollowsNothing
      <3> QED BY <2>1, <3>1, <3>2
    <2>3. ClockFollows(Append(p, InAborted))
      BY <1>4, <1>5, <2>2, FollowsAppended
    <2> QED BY <1>7, <2>2, <2>3
  <1>12. \A f \in {SUSPEND, RESUME, SETUP, REQUEST, OutOk, OutWaiting} : f \in In(q) => f \in In(queue)
    BY <1>5, <1>9, EventsDiffer
  <1>13. SETUP \notin In(q)
    BY <1>2, <1>4, <1>9
  <1>14. /\ ghost'.out = ghost.out /\ ghost'.refused = ghost.refused /\ ghost'.leftover = FALSE
         /\ ghost' \in [out : 0 .. MaxOut, in : 0 .. MaxIn, refused : SUBSET (1 .. MaxOut), leftover : BOOLEAN]
    BY <1>1, Parts DEF RestTypes
  <1>15. RestTypes'
    BY <1>1, <1>14, Parts DEF RestTypes, Sleeping
  <1>16. I # "none" /\ O # "none" /\ I # O /\ usbd'.dma = "none"
    BY <1>1, <1>8 DEF I, O
  <1>17. QueueInv(queue)' /\ OrderInv(queue)'
    BY <1>8, <1>9, <1>10, <1>11, <1>13 DEF QueueInv, OrderInv
  <1>18. ResetInv(usbd, queue, usbd.acked, usbd.causes)'
    BY <1>1, <1>3, <1>8, <1>13, <1>14 DEF ResetInv
  <1>19. SetupInv(usbd, queue, usbd.acked, usbd.causes)'
    BY <1>1, <1>3, <1>8, <1>13 DEF SetupInv
  <1>20. SleepInv(usbd, queue, usbd.acked, usbd.causes)'
    BY <1>1, <1>3, <1>8, <1>12, <1>16 DEF SleepInv, Sleeping
  <1>21. ResumeInv(queue, usbd.causes, usbd.raised)'
    BY <1>1, <1>3, <1>8 DEF ResumeInv, Sleeping
  <1>22. OutInv(usbd, queue, usbd.acked, usbd.raised)'
    <2>1. ~Full(usbd)' /\ O \notin usbd'.waiting \cup usbd'.ready
      BY <1>8, <1>16 DEF Full
    <2>2. OutOk \in In(queue)' => usbd'.received[O] = Report1' /\ O \notin usbd'.acked
      BY <1>1, <1>8, <1>12, Parts DEF OutInv, Report1
    <2>3. OutWaiting \in In(queue)' => O \notin usbd'.acked
      BY <1>8, <1>12, Parts DEF OutInv
    <2>4. O \in usbd'.acked => In(queue)' \cap OutEvents = {}
      <3>1. O \in usbd'.acked => In(queue) \cap OutEvents = {}
        BY <1>8, Parts DEF OutInv
      <3> QED BY <1>8, <1>12, <3>1 DEF OutEvents
    <2> QED BY <1>8, <1>16, <2>1, <2>2, <2>3, <2>4 DEF OutInv
  <1>23. HandedInv(usbd, queue)'
    <2>1. Outstanding(usbd, queue)' => Outstanding(usbd, queue)
      BY <1>8, <1>12, <1>16 DEF Outstanding, Full
    <2>2. \A report \in ghost'.out + 1 .. host'.sent : FALSE
      BY <1>1, <1>3, <1>14, UsbHidAssumption, Parts DEF RestTypes
    <2>3. OutInOrder' /\ handed' \in Seq(1 .. MaxOut) /\ (apdu' > 0 => handed' # <<>>)
      BY <1>1, Parts DEF HandedInv, OutInOrder
    <2> QED BY <1>1, <2>1, <2>2, <2>3, Parts DEF HandedInv
  <1>24. InInv(usbd, usbd.raised)'
    BY <1>8, <1>16 DEF InInv
  <1>25. FetchInv(usbd)'
    <2>1. usbd'.buffer[I].data = 0 /\ I \notin usbd'.waiting
      BY <1>8 DEF NoPacket, Packet
    <2>2. given \in Nat /\ host.got \in Nat /\ (reports # <<>> => Head(reports) \in Nat)
      BY Parts, UsbHidAssumption DEF RestTypes
    <2>3. reports # <<>> => Head(reports) <= given /\ host.got < Head(reports)
      BY Parts DEF FetchInv
    <2>4. host.got <= given
      BY Parts DEF FetchInv
    <2> QED BY <1>1, <1>8, <2>1, <2>2, <2>3, <2>4 DEF FetchInv
  <1>26. ServedInv(usbd, queue, usbd.acked)'
    BY <1>1, <1>3 DEF ServedInv
  <1> QED BY <1>8, <1>15, <1>17, <1>18, <1>19, <1>20, <1>21, <1>22, <1>23, <1>24, <1>25, <1>26, Whole

\* What a request to sleep leaves of the driver.
LEMMA SleepIs ==
  ASSUME NEW u \in DriverType, I \notin u.waiting, u.waiting \cap u.ready = {}, NEW w, w = Sleep(u)
  PROVE  /\ w \in DriverType /\ w.evts = u.evts /\ w.irqs = u.irqs
         /\ I \notin w.waiting /\ w.waiting \cap w.ready = {} /\ O \notin w.waiting \cap w.ready
         /\ I \in u.ready => I \in w.ready
         /\ w.dma = u.dma /\ w.enabled = u.enabled /\ w.stalled = u.stalled
         /\ w.data = u.data /\ w.received = u.received /\ w.buffer[I] = u.buffer[I]
         /\ w.buffer[O] \in {u.buffer[O], NoPacket}
         /\ w.raised = u.raised /\ w.acked = u.acked /\ w.causes = u.causes
         /\ O \in w.ready => O \in u.ready
         /\ O \in w.waiting => O \in u.waiting /\ w.left = u.left /\ w.handler = u.handler /\ w.status = u.status
  <1>1. CASE u.suspended
    <2>1. w = AbortAll(u)
      BY <1>1 DEF Sleep
    <2>2. /\ w \in DriverType /\ w.evts = u.evts /\ w.irqs = u.irqs
          /\ w.waiting = {} /\ w.ready = {I}
          /\ w.dma = u.dma /\ w.enabled = u.enabled /\ w.stalled = u.stalled
          /\ w.data = u.data /\ w.received = u.received /\ w.buffer[I] = u.buffer[I]
          /\ w.buffer[O] \in {u.buffer[O], NoPacket}
          /\ w.raised = u.raised /\ w.acked = u.acked /\ w.causes = u.causes
      BY <2>1, AbortAllIs
    <2> QED BY <2>2, TwoEndpoints
  <1>2. CASE ~u.suspended
    <2>1. w = u
      BY <1>2 DEF Sleep
    <2>2. O \notin u.waiting \cap u.ready
      OBVIOUS
    <2> QED BY <2>1, <2>2
  <1> QED BY <1>1, <1>2

\* The device goes to sleep.
LEMMA ExecSuspendRequestKeeps == ASSUME HidInv, ExecSuspendRequest PROVE HidInv'
  <1> DEFINE p == Tail(queue)
             s == IF MaySleep(usbd) THEN "SUSPEND" ELSE "SUSPENDING"
             b == s = "ACTIVE"
             v == Sleep(usbd)
             w == [v EXCEPT !.irqs = b]
  <1>1. /\ usbd.dma = "none" /\ ~usbd.raised /\ queue # <<>> /\ Head(queue) = REQUEST
        /\ sustate = "SUSPENDING" => (sustate' = s /\ Put(w, p))
        /\ ghost' = [ghost EXCEPT !.leftover =
                       ghost.leftover \/ (sustate = "SUSPENDING" /\ "IN1" \notin usbd.ready \cup usbd.waiting)]
        /\ UNCHANGED <<clock, inProgress, asleep, reports, apdu, given, handed, host>>
    BY DEF ExecSuspendRequest, Executes, ThreadRuns, SetSustate, REQUEST, class
  <1>2. /\ QueueInv(p) /\ In(queue) = In(p) \cup {REQUEST} /\ SETUP \notin In(p) /\ REQUEST \in In(queue)
        /\ \A e \in In(p) \ Repeatable : Once(p, e)
        /\ REQUEST \notin Repeatable => REQUEST \notin In(p)
        /\ Once(queue, InOk) => Once(p, InOk)
    BY <1>1, Taken
  <1> HIDE DEF p
  <1>3. REQUEST \notin In(p)
    BY <1>2, EventsDiffer DEF Repeatable, InEvents
  <1>4. /\ host.asleep /\ sustate = "SUSPENDING" /\ usbd.acked = {}
        /\ In(queue) \cap (InEvents \cup OutEvents) = {}
    BY <1>2, Parts DEF SleepInv
  <1>5. /\ "RESET" \notin usbd.causes /\ RESET \notin In(queue)
        /\ "SETUP" \notin usbd.causes /\ SETUP \notin In(queue)
        /\ "RESUME" \notin usbd.causes /\ RESUME \notin In(queue)
        /\ "SUSPEND" \notin usbd.causes /\ SUSPEND \notin In(queue)
    BY <1>4, Parts DEF ResetInv, SetupInv, ResumeInv, SleepInv
  <1>6. sustate' \in {"SUSPENDING", "SUSPEND"} /\ ~b /\ sustate' = s /\ Put(w, p) /\ b \in BOOLEAN
    BY <1>1, <1>4
  <1>7. /\ I \notin usbd.waiting /\ usbd.waiting \cap usbd.ready = {}
    BY <1>1, ThreadSees
  <1> HIDE DEF s, b
  <1>8. /\ v \in DriverType /\ v.evts = usbd.evts
        /\ I \notin v.waiting /\ v.waiting \cap v.ready = {} /\ O \notin v.waiting \cap v.ready
        /\ I \in usbd.ready => I \in v.ready
        /\ v.dma = usbd.dma /\ v.enabled = usbd.enabled /\ v.stalled = usbd.stalled
        /\ v.data = usbd.data /\ v.received = usbd.received /\ v.buffer[I] = usbd.buffer[I]
        /\ v.buffer[O] \in {usbd.buffer[O], NoPacket}
        /\ v.raised = usbd.raised /\ v.acked = usbd.acked /\ v.causes = usbd.causes
        /\ O \in v.ready => O \in usbd.ready
        /\ O \in v.waiting => O \in usbd.waiting /\ v.left = usbd.left /\ v.handler = usbd.handler /\ v.status = usbd.status
    BY <1>7, Parts, SleepIs
  <1> HIDE DEF v
  <1>9. usbd' \in DriverType /\ usbd'.evts = <<>> /\ queue' = p
        /\ I \notin usbd'.waiting /\ usbd'.waiting \cap usbd'.ready = {} /\ O \notin usbd'.waiting \cap usbd'.ready
        /\ (I \in usbd.ready => I \in usbd'.ready)
        /\ usbd'.dma = usbd.dma /\ usbd'.enabled = usbd.enabled /\ usbd'.stalled = usbd.stalled /\ usbd'.irqs = b
        /\ usbd'.data = usbd.data /\ usbd'.received = usbd.received /\ usbd'.buffer[I] = usbd.buffer[I]
        /\ usbd'.buffer[O] \in {usbd.buffer[O], NoPacket}
        /\ usbd'.raised = usbd.raised /\ usbd'.acked = usbd.acked /\ usbd'.causes = usbd.causes
        /\ (O \in usbd'.ready => O \in usbd.ready)
        /\ (O \in usbd'.waiting => O \in usbd.waiting /\ usbd'.left = usbd.left /\ usbd'.handler = usbd.handler /\ usbd'.status = usbd.status)
    <2>1. p \in Seq(Events) /\ usbd.evts = <<>>
      BY <1>2, Parts DEF QueueInv
    <2>2. p \o <<>> = p
      BY <2>1
    <2>3. w = [v EXCEPT !.irqs = b]
      OBVIOUS
    <2> HIDE DEF w
    <2>4. /\ w \in DriverType /\ w.evts = v.evts /\ w.irqs = b
          /\ w.waiting = v.waiting /\ w.ready = v.ready /\ w.handler = v.handler
          /\ w.left = v.left /\ w.status = v.status /\ w.dma = v.dma
          /\ w.enabled = v.enabled /\ w.stalled = v.stalled
          /\ w.data = v.data /\ w.received = v.received /\ w.buffer = v.buffer
          /\ w.raised = v.raised /\ w.acked = v.acked /\ w.causes = v.causes
      BY <1>6, <1>8, <2>3, IrqsAre
    <2>5. queue' = p \o w.evts
      BY <1>6, <2>4, PutIs
    <2>6. queue' = p
      BY <1>8, <2>1, <2>2, <2>4, <2>5
    <2>7. usbd' \in DriverType /\ usbd'.evts = <<>>
         /\ usbd'.waiting = v.waiting /\ usbd'.ready = v.ready /\ usbd'.handler = v.handler
         /\ usbd'.left = v.left /\ usbd'.status = v.status /\ usbd'.dma = v.dma
         /\ usbd'.enabled = v.enabled /\ usbd'.stalled = v.stalled /\ usbd'.irqs = b
         /\ usbd'.data = v.data /\ usbd'.received = v.received /\ usbd'.buffer = v.buffer
         /\ usbd'.raised = v.raised /\ usbd'.acked = v.acked /\ usbd'.causes = v.causes
      BY <1>6, <2>4, PutIs
    <2> QED BY <1>8, <2>6, <2>7
  <1> HIDE DEF w
  <1>10. /\ ghost'.out = ghost.out /\ ghost'.refused = ghost.refused
         /\ ghost'.leftover = (ghost.leftover \/ I \notin usbd.ready \cup usbd.waiting)
         /\ ghost' \in [out : 0 .. MaxOut, in : 0 .. MaxIn, refused : SUBSET (1 .. MaxOut), leftover : BOOLEAN]
    BY <1>1, <1>4, Parts DEF RestTypes, I
  <1>11. RestTypes'
    BY <1>1, <1>6, <1>10, Parts DEF RestTypes
  <1>12. /\ In(p) \subseteq In(queue) /\ In(p) \cap (InEvents \cup OutEvents) = {}
         /\ In(p) \cap InEvents = {} /\ In(p) \cap OutEvents = {} /\ In(queue) \cap InEvents = {}
    BY <1>2, <1>4
  <1>13. OutOk \notin In(p) /\ OutWaiting \notin In(p) /\ OutOk \notin In(queue)
    BY <1>4, <1>12 DEF OutEvents
  <1>14. /\ RESET \notin In(p) /\ SETUP \notin In(p) /\ RESUME \notin In(p) /\ SUSPEND \notin In(p)
    BY <1>5, <1>12
  <1>15. ~Outstanding(usbd, queue)
    BY <1>4, Parts DEF HandedInv
  <1>16. ~Full(usbd) /\ ~Full(usbd)'
    BY <1>9, <1>15 DEF Outstanding, Full
  <1>17. I # "none" /\ O # "none"
    BY DEF I, O
  <1>18. QueueInv(queue)' /\ OrderInv(queue)'
    BY <1>2, <1>6, <1>9 DEF QueueInv, OrderInv
  <1>19. ResetInv(usbd, queue, usbd.acked, usbd.causes)'
    BY <1>1, <1>5, <1>9, <1>10, <1>14, Parts DEF ResetInv
  <1>20. SetupInv(usbd, queue, usbd.acked, usbd.causes)'
    BY <1>1, <1>5, <1>9, <1>14, Parts DEF SetupInv
  <1>21. SleepInv(usbd, queue, usbd.acked, usbd.causes)'
    BY <1>1, <1>3, <1>4, <1>5, <1>6, <1>9, <1>12, <1>14 DEF SleepInv, Sleeping
  <1>22. ResumeInv(queue, usbd.causes, usbd.raised)'
    BY <1>1, <1>4, <1>5, <1>6, <1>9, <1>14, Parts DEF ResumeInv, Sleeping
  <1>23. OutInv(usbd, queue, usbd.acked, usbd.raised)'
    <2>1. O \in usbd'.waiting =>
             /\ O \in usbd.enabled /\ usbd'.left[O] = EpSize /\ usbd'.handler[O] = "consumer" /\ usbd'.status[O] = "OK"
      BY <1>1, <1>9, <1>17, Parts DEF OutInv
    <2>2. O \in usbd'.ready => O \notin usbd'.enabled
      <3>1. O \in usbd.ready => O \notin usbd.enabled
        BY <1>16, Parts DEF OutInv
      <3> QED BY <1>9, <3>1
    <2> QED BY <1>1, <1>4, <1>9, <1>12, <1>13, <1>16, <1>17, <2>1, <2>2 DEF OutInv
  <1>24. HandedInv(usbd, queue)'
    <2>1. ~Outstanding(usbd, queue)'
      BY <1>1, <1>9, <1>13, <1>16, <1>17 DEF Outstanding
    <2> QED BY <1>1, <1>10, <1>15, <2>1, Parts DEF HandedInv, OutInOrder
  <1>25. InInv(usbd, usbd.raised)'
    BY <1>1, <1>9, <1>17, Parts DEF InInv
  <1>26. FetchInv(usbd)'
    BY <1>1, <1>7, <1>9, Parts DEF FetchInv
  <1>27. ServedInv(usbd, queue, usbd.acked)'
    <2> SUFFICES ASSUME host.state = "configured" PROVE ServedInv(usbd, queue, usbd.acked)'
      BY <1>1, <1>9, <1>12 DEF ServedInv
    <2>1. O \notin usbd.stalled /\ (~ghost.leftover => StrictInv(usbd, queue, usbd.acked))
      BY Parts DEF ServedInv
    <2>2. ASSUME ~ghost'.leftover PROVE StrictInv(usbd, queue, usbd.acked)'
      <3>1. StrictInv(usbd, queue, usbd.acked) /\ I \in usbd.ready
        BY <1>7, <1>10, <2>1, <2>2
      <3>2. usbd.buffer[I] = NoPacket /\ usbd.stalled = {}
        BY <3>1 DEF StrictInv
      <3>3. Clear(usbd, queue, usbd.acked)'
        BY <1>4, <1>9, <1>12, <3>1, <3>2 DEF Clear
      <3> QED BY <1>4, <1>9, <1>12, <3>2, <3>3 DEF StrictInv
    <2> QED BY <1>1, <1>9, <1>12, <2>1, <2>2 DEF ServedInv
  <1> QED BY <1>9, <1>11, <1>18, <1>19, <1>20, <1>21, <1>22, <1>23, <1>24, <1>25, <1>26, <1>27, Whole


\* The thread starts the transfer of an IN report: what the driver and the class
\* are left with, and q the queue.
LEMMA InGiven ==
  ASSUME HidInv, usbd.dma = "none", CanTransfer(usbd, "IN1"), NEW q, NEW n \in Nat,
         Put(Transfer(usbd, "IN1", "feeder", n, EpSize), q), q \in Seq(Events)
  PROVE  /\ usbd' \in DriverType /\ usbd'.evts = <<>> /\ queue' = q
         /\ usbd'.waiting = usbd.waiting \cup {I} /\ usbd'.ready = usbd.ready
         /\ usbd'.handler[I] = "feeder" /\ usbd'.left[I] = EpSize /\ usbd'.data[I] = n
         /\ usbd'.handler[O] = usbd.handler[O] /\ usbd'.left[O] = usbd.left[O]
         /\ usbd'.status[O] = usbd.status[O]
         /\ usbd'.dma = "none" /\ usbd'.enabled = usbd.enabled /\ usbd'.stalled = usbd.stalled
         /\ usbd'.received = usbd.received /\ usbd'.buffer = usbd.buffer /\ usbd'.irqs = usbd.irqs
         /\ usbd'.raised /\ usbd'.acked = usbd.acked /\ usbd'.causes = usbd.causes
         /\ sustate = "ACTIVE" /\ I \in usbd.enabled /\ I \in usbd.ready \ usbd.waiting
  <1> DEFINE w == Transfer(usbd, I, "feeder", n, EpSize)
  <1>1. Put(w, q) /\ I \in Endpoints /\ O \in Endpoints /\ I # O
    BY TwoEndpoints DEF I
  <1>2. /\ w \in DriverType /\ w.evts = usbd.evts /\ w.irqs = usbd.irqs
        /\ w.waiting = usbd.waiting \cup {I} /\ w.ready = usbd.ready
        /\ w.handler = [usbd.handler EXCEPT ![I] = "feeder"]
        /\ w.left = [usbd.left EXCEPT ![I] = EpSize]
        /\ w.status = [usbd.status EXCEPT ![I] = "OK"]
        /\ w.data = [usbd.data EXCEPT ![I] = n]
        /\ w.dma = usbd.dma /\ w.enabled = usbd.enabled /\ w.stalled = usbd.stalled
        /\ w.received = usbd.received /\ w.buffer = usbd.buffer
        /\ w.raised /\ w.acked = usbd.acked /\ w.causes = usbd.causes
    <2>1. usbd \in DriverType
      BY Parts
    <2>2. Started(usbd, w, I, "feeder", n)
      BY <1>1, <2>1, TransferIs
    <2> HIDE DEF w
    <2> QED BY <2>2 DEF Started
  <1> HIDE DEF w
  <1>3. /\ usbd' \in DriverType /\ usbd'.evts = <<>> /\ queue' = q \o w.evts
        /\ usbd'.waiting = w.waiting /\ usbd'.ready = w.ready /\ usbd'.handler = w.handler
        /\ usbd'.left = w.left /\ usbd'.status = w.status /\ usbd'.dma = w.dma
        /\ usbd'.enabled = w.enabled /\ usbd'.stalled = w.stalled /\ usbd'.irqs = w.irqs
        /\ usbd'.data = w.data /\ usbd'.received = w.received /\ usbd'.buffer = w.buffer
        /\ usbd'.raised = w.raised /\ usbd'.acked = w.acked /\ usbd'.causes = w.causes
    BY <1>1, <1>2, PutIs
  <1>4. queue' = q
    <2>1. q \o <<>> = q
      OBVIOUS
    <2> QED BY <1>2, <1>3, <2>1, Parts
  <1>5. sustate = "ACTIVE" /\ I \in usbd.enabled /\ I \in usbd.ready \ usbd.waiting
    BY TwoEndpoints DEF CanTransfer, Accepts, Busy, I
  <1>6. /\ w.handler[I] = "feeder" /\ w.left[I] = EpSize /\ w.data[I] = n
        /\ w.handler[O] = usbd.handler[O] /\ w.left[O] = usbd.left[O] /\ w.status[O] = usbd.status[O]
    BY <1>1, <1>2, Parts DEF DriverType
  <1> QED BY <1>2, <1>3, <1>4, <1>5, <1>6

\* The application gives a report.
LEMMA GiveReportKeeps == ASSUME HidInv, GiveReport PROVE HidInv'
  <1> DEFINE sends == ~asleep /\ ~inProgress
             can == CanTransfer(usbd, "IN1")
             n == given + 1
  <1>1. /\ usbd.dma = "none" /\ ~usbd.raised /\ given < MaxIn
        /\ IF sends /\ ~can THEN given' = given ELSE given' = n
        /\ reports' = IF sends THEN <<>> ELSE <<n>>
        /\ inProgress' = (inProgress \/ (sends /\ can))
        /\ Put(IF sends /\ can THEN Transfer(usbd, "IN1", "feeder", n, EpSize) ELSE usbd, queue)
        /\ UNCHANGED <<sustate, clock, asleep, apdu, handed, ghost, host>>
    BY DEF GiveReport, ThreadRuns
  <1>2. /\ given \in Nat /\ n \in 0 .. MaxIn /\ n \in 1 .. MaxIn + 1 /\ n \in Nat /\ given < n /\ given <= n
        /\ host.got \in Nat /\ usbd.buffer[I].data \in Nat /\ usbd.data[I] \in Nat
    <2>1. given \in 0 .. MaxIn /\ host.got \in 0 .. MaxIn
      BY Parts DEF RestTypes
    <2>2. usbd.buffer[I] \in Packets /\ usbd.data[I] \in Nat
      BY TwoEndpoints, Parts DEF DriverType
    <2>3. usbd.buffer[I].data \in Nat
      BY <2>2 DEF Packets
    <2> QED BY <1>1, <2>1, <2>2, <2>3, UsbHidAssumption
  <1>3. queue \in Seq(Events) /\ I # "none" /\ O # "none" /\ I # O
    BY TwoEndpoints, Parts DEF QueueInv, I, O
  <1> HIDE DEF n
  <1>4. CASE sends /\ can
    <2>1. /\ Put(Transfer(usbd, "IN1", "feeder", n, EpSize), queue)
          /\ given' = n /\ reports' = <<>> /\ inProgress' = TRUE /\ ~inProgress
      BY <1>1, <1>4
    <2>2. /\ usbd' \in DriverType /\ usbd'.evts = <<>> /\ queue' = queue
          /\ usbd'.waiting = usbd.waiting \cup {I} /\ usbd'.ready = usbd.ready
          /\ usbd'.handler[I] = "feeder" /\ usbd'.left[I] = EpSize /\ usbd'.data[I] = n
          /\ usbd'.handler[O] = usbd.handler[O] /\ usbd'.left[O] = usbd.left[O]
          /\ usbd'.status[O] = usbd.status[O]
          /\ usbd'.dma = "none" /\ usbd'.enabled = usbd.enabled /\ usbd'.stalled = usbd.stalled
          /\ usbd'.received = usbd.received /\ usbd'.buffer = usbd.buffer /\ usbd'.irqs = usbd.irqs
          /\ usbd'.raised /\ usbd'.acked = usbd.acked /\ usbd'.causes = usbd.causes
          /\ sustate = "ACTIVE" /\ I \in usbd.enabled /\ I \in usbd.ready \ usbd.waiting
      BY <1>1, <1>2, <1>3, <1>4, <2>1, InGiven
    <2> HIDE DEF sends, can
    <2>3. RestTypes'
      BY <1>1, <1>2, <2>1, Parts DEF RestTypes
    <2>4. QueueInv(queue)' /\ OrderInv(queue)'
      BY <1>1, <2>2, Parts DEF QueueInv, OrderInv
    <2>5. ResetInv(usbd, queue, usbd.acked, usbd.causes)'
      BY <1>1, <2>2, Parts DEF ResetInv
    <2>6. SetupInv(usbd, queue, usbd.acked, usbd.causes)'
      BY <1>1, <2>2, Parts DEF SetupInv
    <2>7. SleepInv(usbd, queue, usbd.acked, usbd.causes)'
      BY <1>1, <2>2, Parts DEF SleepInv, Sleeping
    <2>8. ResumeInv(queue, usbd.causes, usbd.raised)'
      BY <1>1, <2>2, Parts DEF ResumeInv, Sleeping
    <2>9. OutInv(usbd, queue, usbd.acked, usbd.raised)'
      BY <1>1, <1>3, <2>2, Parts DEF OutInv, Full, Report1
    <2>10. HandedInv(usbd, queue)'
      BY <1>1, <2>2, Parts DEF HandedInv, Outstanding, Full, OutInOrder
    <2>11. InInv(usbd, usbd.raised)'
      <3>1. usbd'.enabled # {}
        BY <2>2
      <3> QED BY <1>3, <2>2, <3>1 DEF InInv
    <2>12. FetchInv(usbd)'
      BY <1>1, <1>2, <2>1, <2>2, Parts DEF FetchInv
    <2>13. ServedInv(usbd, queue, usbd.acked)'
      <3> SUFFICES ASSUME host.state = "configured" PROVE ServedInv(usbd, queue, usbd.acked)'
        BY <1>1, <2>2 DEF ServedInv
      <3>1. ~ghost.leftover => Clear(usbd, queue, usbd.acked) /\ usbd.stalled = {}
        BY <2>1, Parts DEF ServedInv, StrictInv
      <3>2. ~ghost.leftover => StrictInv(usbd, queue, usbd.acked)'
        BY <1>1, <2>1, <2>2, <3>1 DEF StrictInv, Clear
      <3> QED BY <1>1, <2>2, <3>2, Parts DEF ServedInv
    <2> QED BY <2>2, <2>3, <2>4, <2>5, <2>6, <2>7, <2>8, <2>9, <2>10, <2>11, <2>12, <2>13, Whole
  <1>5. CASE ~(sends /\ can)
    <2>1. /\ Put(usbd, queue) /\ given' \in {given, n} /\ inProgress' = inProgress
          /\ reports' = <<>> \/ (given' = n /\ reports' = <<n>>)
      BY <1>1, <1>5, Parts DEF RestTypes
    <2>2. /\ usbd' \in DriverType /\ usbd'.evts = <<>> /\ queue' = queue
          /\ usbd'.waiting = usbd.waiting /\ usbd'.ready = usbd.ready /\ usbd'.handler = usbd.handler
          /\ usbd'.left = usbd.left /\ usbd'.status = usbd.status /\ usbd'.dma = usbd.dma
          /\ usbd'.enabled = usbd.enabled /\ usbd'.stalled = usbd.stalled /\ usbd'.irqs = usbd.irqs
          /\ usbd'.data = usbd.data /\ usbd'.received = usbd.received /\ usbd'.buffer = usbd.buffer
          /\ usbd'.raised = usbd.raised /\ usbd'.acked = usbd.acked /\ usbd'.causes = usbd.causes
      <3>1. queue \o <<>> = queue
        BY <1>3
      <3> QED BY <2>1, <3>1, Parts, PutIs
    <2> HIDE DEF sends, can
    <2>3. RestTypes'
      BY <1>1, <1>2, <2>1, Parts DEF RestTypes
    <2>4. QueueInv(queue)' /\ OrderInv(queue)'
      BY <1>1, <2>2, Parts DEF QueueInv, OrderInv
    <2>5. ResetInv(usbd, queue, usbd.acked, usbd.causes)'
      BY <1>1, <2>2, Parts DEF ResetInv
    <2>6. SetupInv(usbd, queue, usbd.acked, usbd.causes)'
      BY <1>1, <2>2, Parts DEF SetupInv
    <2>7. SleepInv(usbd, queue, usbd.acked, usbd.causes)'
      BY <1>1, <2>2, Parts DEF SleepInv, Sleeping
    <2>8. ResumeInv(queue, usbd.causes, usbd.raised)'
      BY <1>1, <2>2, Parts DEF ResumeInv, Sleeping
    <2>9. OutInv(usbd, queue, usbd.acked, usbd.raised)'
      BY <1>1, <2>2, Parts DEF OutInv, Full, Report1
    <2>10. HandedInv(usbd, queue)'
      BY <1>1, <2>2, Parts DEF HandedInv, Outstanding, Full, OutInOrder
    <2>11. InInv(usbd, usbd.raised)'
      BY <2>2, Parts DEF InInv
    <2>12. FetchInv(usbd)'
      <3>1. I \notin usbd.waiting
        BY <1>1, ThreadSees
      <3>2. given <= given' /\ given' \in Nat
        BY <1>2, <2>1
      <3>3. host.got <= given /\ usbd.buffer[I].data <= given /\ (usbd.buffer[I] # NoPacket => host.got < usbd.buffer[I].data)
        BY Parts DEF FetchInv
      <3>4. reports' # <<>> => Head(reports') = n /\ given' = n
        BY <2>1
      <3>5. host.got < n /\ usbd.buffer[I].data < n /\ host.got <= given' /\ usbd.buffer[I].data <= given' /\ n <= n
        BY <1>2, <3>2, <3>3
      <3> QED BY <1>1, <2>2, <3>1, <3>3, <3>4, <3>5 DEF FetchInv
    <2>13. ServedInv(usbd, queue, usbd.acked)'
      BY <1>1, <2>1, <2>2, Parts DEF ServedInv, StrictInv, Clear
    <2> QED BY <2>2, <2>3, <2>4, <2>5, <2>6, <2>7, <2>8, <2>9, <2>10, <2>11, <2>12, <2>13, Whole
  <1> QED BY <1>4, <1>5


\* An event of the IN endpoint: the report that waits is sent.
LEMMA ExecInKeeps ==
  ASSUME HidInv, NEW status \in {"OK", "ABORTED"}, ExecIn(status) PROVE HidInv'
  <1> DEFINE p == Tail(queue)
             e == Head(queue)
             can == CanTransfer(usbd, "IN1")
             n == Head(reports)
  <1>1. /\ usbd.dma = "none" /\ ~usbd.raised /\ queue # <<>> /\ e \in InEvents
        /\ reports' = <<>> /\ inProgress' = (reports # <<>> /\ can)
        /\ Put(ServeIn(usbd), p)
        /\ UNCHANGED <<sustate, clock, asleep, apdu, given, handed, ghost, host>>
    BY DEF ExecIn, Executes, ThreadRuns, TransferIn, InEvents, InOk, InAborted, I, application
  <1>2. /\ QueueInv(p) /\ In(queue) = In(p) \cup {e} /\ SETUP \notin In(p) /\ e \in In(queue)
        /\ \A f \in In(p) \ Repeatable : Once(p, f)
        /\ Once(queue, InOk) => Once(p, InOk)
        /\ Once(queue, InOk) /\ e = InOk => InOk \notin In(p)
        /\ ClockFollows(queue) => ClockFollows(p)
    BY <1>1, Taken
  <1> HIDE DEF p, e
  <1>3. p \in Seq(Events) /\ In(p) \subseteq In(queue) /\ p \o <<>> = p
    <2>1. p \in Seq(Events)
      BY <1>2 DEF QueueInv
    <2> QED BY <1>2, <2>1
  <1>4. \A f \in BusEvents \cup OutEvents : f \in In(p) <=> f \in In(queue)
    <2>1. e \notin BusEvents \cup OutEvents
      BY <1>1, EventsDiffer DEF InEvents, BusEvents, OutEvents
    <2> QED BY <1>2, <2>1
  <1>5. \A f \in {RESET, SUSPEND, RESUME, SETUP, REQUEST, READY, OutOk, OutWaiting} : f \in In(p) <=> f \in In(queue)
    BY <1>4 DEF BusEvents, OutEvents
  <1>6. In(p) \cap OutEvents = In(queue) \cap OutEvents
    BY <1>4
  <1>7. ~host.asleep /\ "SETUP" \notin usbd.causes /\ SETUP \notin In(queue) /\ "RESUME" \notin usbd.causes
    <2>1. e # SETUP /\ e # RESET /\ In(queue) # {}
      BY <1>1, <1>2, EventsDiffer DEF InEvents
    <2> QED BY <1>1, <1>2, <2>1, Parts DEF SleepInv, SetupInv, ResumeInv
  <1>8. /\ host.state = "configured" => sustate = "ACTIVE"
        /\ host.state = "configured" /\ ~ghost.leftover =>
             /\ I \in usbd.ready \ usbd.waiting /\ usbd.buffer[I] = NoPacket /\ I \notin usbd.acked
             /\ In(p) \cap InEvents = {} /\ usbd.stalled = {} /\ can
    <2>1. In(queue) \cap InEvents # {} /\ In(queue) \cap (InEvents \cup OutEvents) # {}
      BY <1>1, <1>2
    <2>2. host.state = "configured" => sustate = "ACTIVE" /\ I \in usbd.enabled
      BY <2>1, TwoEndpoints, Parts DEF ServedInv, SetupInv
    <2>3. ASSUME host.state = "configured", ~ghost.leftover
          PROVE  /\ I \in usbd.ready \ usbd.waiting /\ usbd.buffer[I] = NoPacket /\ I \notin usbd.acked
                 /\ In(p) \cap InEvents = {} /\ usbd.stalled = {} /\ can
      <3>1. StrictInv(usbd, queue, usbd.acked)
        BY <2>3, Parts DEF ServedInv
      <3>2. /\ In(queue) \cap InEvents = {InOk} /\ Once(queue, InOk) /\ I \in usbd.ready \ usbd.waiting
            /\ usbd.buffer[I] = NoPacket /\ I \notin usbd.acked /\ usbd.stalled = {}
        BY <2>1, <3>1 DEF StrictInv
      <3>3. e = InOk
        BY <1>1, <1>2, <3>2
      <3>4. In(p) \cap InEvents = {}
        BY <1>2, <1>3, <3>2, <3>3
      <3>5. can
        BY <2>2, <2>3, <3>2, TwoEndpoints DEF CanTransfer, Accepts, Busy, I
      <3> QED BY <3>2, <3>4, <3>5
    <2> QED BY <2>2, <2>3
  <1>9. I \in Endpoints /\ O \in Endpoints /\ I # O /\ I # "none" /\ O # "none"
    BY TwoEndpoints DEF I, O
  <1>10. QueueInv(p) /\ OrderInv(p)
    BY <1>2, Parts DEF OrderInv
  <1> HIDE DEF can
  <1>11. CASE reports # <<>> /\ can
    <2>1. n \in Nat
      BY <1>11, UsbHidAssumption, Parts DEF RestTypes
    <2> HIDE DEF n
    <2>2. Put(Transfer(usbd, "IN1", "feeder", n, EpSize), p) /\ inProgress' = TRUE
      BY <1>1, <1>11 DEF ServeIn, Serve, can, n
    <2>3. /\ usbd' \in DriverType /\ usbd'.evts = <<>> /\ queue' = p
          /\ usbd'.waiting = usbd.waiting \cup {I} /\ usbd'.ready = usbd.ready
          /\ usbd'.handler[I] = "feeder" /\ usbd'.left[I] = EpSize /\ usbd'.data[I] = n
          /\ usbd'.handler[O] = usbd.handler[O] /\ usbd'.left[O] = usbd.left[O]
          /\ usbd'.status[O] = usbd.status[O]
          /\ usbd'.dma = "none" /\ usbd'.enabled = usbd.enabled /\ usbd'.stalled = usbd.stalled
          /\ usbd'.received = usbd.received /\ usbd'.buffer = usbd.buffer /\ usbd'.irqs = usbd.irqs
          /\ usbd'.raised /\ usbd'.acked = usbd.acked /\ usbd'.causes = usbd.causes
          /\ sustate = "ACTIVE" /\ I \in usbd.enabled /\ I \in usbd.ready \ usbd.waiting
      BY <1>1, <1>3, <1>11, <2>1, <2>2, InGiven DEF can
    <2>4. RestTypes'
      BY <1>1, <2>2, Parts DEF RestTypes
    <2>5. QueueInv(queue)' /\ OrderInv(queue)'
      BY <1>1, <1>10, <2>3 DEF QueueInv, OrderInv
    <2>6. ResetInv(usbd, queue, usbd.acked, usbd.causes)'
      BY <1>1, <1>5, <2>3, Parts DEF ResetInv
    <2>7. SetupInv(usbd, queue, usbd.acked, usbd.causes)'
      BY <1>1, <1>2, <1>7, <2>3, Parts DEF SetupInv
    <2>8. SleepInv(usbd, queue, usbd.acked, usbd.causes)'
      BY <1>1, <1>5, <1>7, <2>3, Parts DEF SleepInv, Sleeping
    <2>9. ResumeInv(queue, usbd.causes, usbd.raised)'
      BY <1>1, <1>5, <2>3, Parts DEF ResumeInv, Sleeping
    <2>10. OutInv(usbd, queue, usbd.acked, usbd.raised)'
      BY <1>1, <1>5, <1>6, <1>9, <2>3, Parts DEF OutInv, Full, Report1
    <2>11. HandedInv(usbd, queue)'
      BY <1>1, <1>5, <2>3, Parts DEF HandedInv, Outstanding, Full, OutInOrder
    <2>12. InInv(usbd, usbd.raised)'
      <3>1. usbd'.enabled # {}
        BY <2>3
      <3> QED BY <1>9, <2>3, <3>1 DEF InInv
    <2>13. FetchInv(usbd)'
      BY <1>1, <1>11, <2>3, Parts DEF FetchInv, n
    <2>14. ServedInv(usbd, queue, usbd.acked)'
      <3> SUFFICES ASSUME host.state = "configured" PROVE ServedInv(usbd, queue, usbd.acked)'
        BY <1>1, <2>3 DEF ServedInv
      <3>1. ~ghost.leftover => StrictInv(usbd, queue, usbd.acked)'
        BY <1>1, <1>8, <2>2, <2>3 DEF StrictInv, Clear
      <3> QED BY <1>1, <1>8, <2>3, <3>1, Parts DEF ServedInv
    <2> QED BY <2>3, <2>4, <2>5, <2>6, <2>7, <2>8, <2>9, <2>10, <2>11, <2>12, <2>13, <2>14, Whole
  <1>12. CASE ~(reports # <<>> /\ can)
    <2> DEFINE w == ServeIn(usbd)
    <2>1. inProgress' = FALSE /\ Put(w, p)
      BY <1>1, <1>12
    <2>2. w = usbd \/ (~can /\ w = [usbd EXCEPT !.stalled = @ \cup {I}])
      BY <1>12 DEF ServeIn, Serve, can, I
    <2> HIDE DEF w
    <2>3. /\ w \in DriverType /\ w.evts = usbd.evts /\ w.irqs = usbd.irqs
          /\ w.waiting = usbd.waiting /\ w.ready = usbd.ready /\ w.handler = usbd.handler
          /\ w.left = usbd.left /\ w.status = usbd.status /\ w.dma = usbd.dma
          /\ w.enabled = usbd.enabled /\ w.stalled \subseteq usbd.stalled \cup {I}
          /\ can => w.stalled = usbd.stalled
          /\ w.data = usbd.data /\ w.received = usbd.received /\ w.buffer = usbd.buffer
          /\ w.raised = usbd.raised /\ w.acked = usbd.acked /\ w.causes = usbd.causes
      <3>1. CASE w = usbd
        BY <3>1, Parts
      <3>2. CASE ~can /\ w = [usbd EXCEPT !.stalled = @ \cup {I}]
        BY <1>9, <3>2, Parts, StallIs
      <3> QED BY <2>2, <3>1, <3>2
    <2>4. /\ usbd' \in DriverType /\ usbd'.evts = <<>> /\ queue' = p
          /\ usbd'.waiting = usbd.waiting /\ usbd'.ready = usbd.ready /\ usbd'.handler = usbd.handler
          /\ usbd'.left = usbd.left /\ usbd'.status = usbd.status /\ usbd'.dma = usbd.dma
          /\ usbd'.enabled = usbd.enabled /\ usbd'.stalled \subseteq usbd.stalled \cup {I}
          /\ (can => usbd'.stalled = usbd.stalled) /\ usbd'.irqs = usbd.irqs
          /\ usbd'.data = usbd.data /\ usbd'.received = usbd.received /\ usbd'.buffer = usbd.buffer
          /\ usbd'.raised = usbd.raised /\ usbd'.acked = usbd.acked /\ usbd'.causes = usbd.causes
      <3>1. queue' = p \o w.evts
        BY <2>1, <2>3, PutIs
      <3>2. queue' = p
        BY <1>3, <2>3, <3>1, Parts
      <3> QED BY <2>1, <2>3, <3>2, PutIs
    <2>5. RestTypes'
      BY <1>1, <2>1, Parts DEF RestTypes
    <2>6. QueueInv(queue)' /\ OrderInv(queue)'
      BY <1>1, <1>10, <2>4 DEF QueueInv, OrderInv
    <2>7. ResetInv(usbd, queue, usbd.acked, usbd.causes)'
      BY <1>1, <1>5, <2>4, Parts DEF ResetInv
    <2>8. SetupInv(usbd, queue, usbd.acked, usbd.causes)'
      BY <1>1, <1>2, <1>7, <2>4, Parts DEF SetupInv
    <2>9. SleepInv(usbd, queue, usbd.acked, usbd.causes)'
      BY <1>1, <1>5, <1>7, <2>4, Parts DEF SleepInv, Sleeping
    <2>10. ResumeInv(queue, usbd.causes, usbd.raised)'
      BY <1>1, <1>5, <1>7, <2>4, Parts DEF ResumeInv, Sleeping
    <2>11. OutInv(usbd, queue, usbd.acked, usbd.raised)'
      BY <1>1, <1>5, <1>6, <2>4, Parts DEF OutInv, Full, Report1
    <2>12. HandedInv(usbd, queue)'
      BY <1>1, <1>5, <2>4, Parts DEF HandedInv, Outstanding, Full, OutInOrder
    <2>13. InInv(usbd, usbd.raised)'
      BY <2>4, Parts DEF InInv
    <2>14. FetchInv(usbd)'
      BY <1>1, <2>4, Parts DEF FetchInv
    <2>15. ServedInv(usbd, queue, usbd.acked)'
      <3> SUFFICES ASSUME host.state = "configured" PROVE ServedInv(usbd, queue, usbd.acked)'
        BY <1>1, <1>2, <2>4, Parts DEF ServedInv
      <3>1. ~ghost.leftover => StrictInv(usbd, queue, usbd.acked)'
        BY <1>1, <1>8, <2>1, <2>4 DEF StrictInv, Clear
      <3> QED BY <1>1, <1>8, <1>9, <2>4, <3>1, Parts DEF ServedInv
    <2> QED BY <2>4, <2>5, <2>6, <2>7, <2>8, <2>9, <2>10, <2>11, <2>12, <2>13, <2>14, <2>15, Whole
  <1> QED BY <1>11, <1>12


\* The thread waits for the next OUT report: what the driver is left with.
LEMMA OutServed ==
  ASSUME HidInv, usbd.dma = "none", ~usbd.raised, O \notin usbd.waiting,
         NEW q \in Seq(Events), Put(Serve(usbd, "OUT1", "consumer", 0), q)
  PROVE  /\ usbd' \in DriverType /\ usbd'.evts = <<>> /\ queue' = q /\ usbd'.ready = usbd.ready
         /\ usbd'.handler[I] = usbd.handler[I] /\ usbd'.left[I] = usbd.left[I] /\ usbd'.data[I] = usbd.data[I]
         /\ I \in usbd'.waiting <=> I \in usbd.waiting
         /\ usbd'.dma = usbd.dma /\ usbd'.enabled = usbd.enabled
         /\ usbd'.received = usbd.received /\ usbd'.buffer = usbd.buffer /\ usbd'.irqs = usbd.irqs
         /\ usbd'.acked = usbd.acked /\ usbd'.causes = usbd.causes
         /\ O \in usbd'.waiting =>
              /\ O \in usbd.enabled /\ sustate = "ACTIVE" /\ usbd'.raised
              /\ usbd'.left[O] = EpSize /\ usbd'.handler[O] = "consumer" /\ usbd'.status[O] = "OK"
         /\ O \in usbd.enabled /\ sustate = "ACTIVE" => O \in usbd'.waiting /\ usbd'.stalled = usbd.stalled
         /\ usbd'.stalled \subseteq usbd.stalled \cup {O}
  <1> DEFINE can == CanTransfer(usbd, "OUT1")
             w == Serve(usbd, "OUT1", "consumer", 0)
  <1>1. I \in Endpoints /\ O \in Endpoints /\ I # O /\ q \o <<>> = q /\ usbd \in DriverType /\ usbd.evts = <<>>
    BY TwoEndpoints, Parts
  <1>2. can <=> O \in usbd.enabled /\ sustate = "ACTIVE"
    BY TwoEndpoints DEF CanTransfer, Accepts, Busy, O
  <1>3. CASE can
    <2>1. w = Transfer(usbd, O, "consumer", 0, EpSize)
      BY <1>3 DEF Serve, O
    <2>2. Started(usbd, Transfer(usbd, O, "consumer", 0, EpSize), O, "consumer", 0)
      BY <1>1, TransferIs
    <2>3. Put(w, q)
      OBVIOUS
    <2> HIDE DEF w, can
    <2>4. Started(usbd, w, O, "consumer", 0)
      BY <2>1, <2>2
    <2>5. w \in DriverType
      BY <2>4 DEF Started
    <2>6. /\ usbd' \in DriverType /\ usbd'.evts = <<>> /\ queue' = q \o w.evts
          /\ usbd'.waiting = w.waiting /\ usbd'.ready = w.ready /\ usbd'.handler = w.handler
          /\ usbd'.left = w.left /\ usbd'.status = w.status /\ usbd'.dma = w.dma
          /\ usbd'.enabled = w.enabled /\ usbd'.stalled = w.stalled /\ usbd'.irqs = w.irqs
          /\ usbd'.data = w.data /\ usbd'.received = w.received /\ usbd'.buffer = w.buffer
          /\ usbd'.raised = w.raised /\ usbd'.acked = w.acked /\ usbd'.causes = w.causes
      BY <2>3, <2>5, PutIs
    <2>7. /\ w.handler[O] = "consumer" /\ w.left[O] = EpSize /\ w.status[O] = "OK"
          /\ w.handler[I] = usbd.handler[I] /\ w.left[I] = usbd.left[I] /\ w.data[I] = usbd.data[I]
      BY <1>1, <2>4 DEF Started, DriverType
    <2>8. /\ w.evts = <<>> /\ w.ready = usbd.ready /\ w.waiting = usbd.waiting \cup {O}
          /\ w.dma = usbd.dma /\ w.enabled = usbd.enabled /\ w.stalled = usbd.stalled
          /\ w.received = usbd.received /\ w.buffer = usbd.buffer /\ w.irqs = usbd.irqs
          /\ w.raised /\ w.acked = usbd.acked /\ w.causes = usbd.causes
      BY <1>1, <2>4 DEF Started
    <2> QED BY <1>1, <1>2, <1>3, <2>6, <2>7, <2>8
  <1>4. CASE ~can
    <2>1. w = [usbd EXCEPT !.stalled = @ \cup {O}] /\ Put(w, q)
      BY <1>4 DEF Serve, O
    <2> HIDE DEF w, can
    <2>2. /\ w \in DriverType /\ w.evts = usbd.evts /\ w.irqs = usbd.irqs
          /\ w.waiting = usbd.waiting /\ w.ready = usbd.ready /\ w.handler = usbd.handler
          /\ w.left = usbd.left /\ w.status = usbd.status /\ w.dma = usbd.dma
          /\ w.enabled = usbd.enabled /\ w.stalled = usbd.stalled \cup {O}
          /\ w.data = usbd.data /\ w.received = usbd.received /\ w.buffer = usbd.buffer
          /\ w.raised = usbd.raised /\ w.acked = usbd.acked /\ w.causes = usbd.causes
      BY <1>1, <2>1, StallIs
    <2>3. /\ usbd' \in DriverType /\ usbd'.evts = <<>> /\ queue' = q \o w.evts
          /\ usbd'.waiting = w.waiting /\ usbd'.ready = w.ready /\ usbd'.handler = w.handler
          /\ usbd'.left = w.left /\ usbd'.status = w.status /\ usbd'.dma = w.dma
          /\ usbd'.enabled = w.enabled /\ usbd'.stalled = w.stalled /\ usbd'.irqs = w.irqs
          /\ usbd'.data = w.data /\ usbd'.received = w.received /\ usbd'.buffer = w.buffer
          /\ usbd'.raised = w.raised /\ usbd'.acked = w.acked /\ usbd'.causes = w.causes
      BY <2>1, <2>2, PutIs
    <2> QED BY <1>1, <1>2, <1>4, <2>2, <2>3
  <1> QED BY <1>3, <1>4

\* The report under way is handed to the application, or refused.
LEMMA HandedOver ==
  ASSUME HidInv, OutOk \in In(queue), Hand(usbd.received[O].data)
  PROVE  /\ apdu' \in 0 .. ApduSize /\ handed' \in Seq(1 .. MaxOut) /\ (apdu' > 0 => handed' # <<>>)
         /\ ghost' \in [out : 0 .. MaxOut, in : 0 .. MaxIn, refused : SUBSET (1 .. MaxOut), leftover : BOOLEAN]
         /\ ghost'.out = ghost.out /\ ghost'.leftover = ghost.leftover
         /\ OutInOrder' /\ \A i \in DOMAIN handed' : handed'[i] <= host.sent
         /\ \A report \in ghost.out + 1 .. host.sent : report \in Range(handed') \cup ghost'.refused
  <1> DEFINE n == usbd.received[O].data
  <1>1. Outstanding(usbd, queue)
    BY DEF Outstanding
  <1>2. n = host.sent /\ n \in 1 .. MaxOut /\ n \in Nat
    <2>1. usbd.received[O] = Report1
      BY Parts DEF OutInv
    <2>2. host.sent > 0 /\ host.sent \in 0 .. MaxOut
      BY <1>1, Parts DEF HandedInv, RestTypes
    <2> QED BY <2>1, <2>2, UsbHidAssumption DEF Report1, Packet
  <1>3. /\ handed \in Seq(1 .. MaxOut) /\ OutInOrder /\ (apdu > 0 => handed # <<>>)
        /\ \A i \in DOMAIN handed : handed[i] < host.sent
        /\ \A i \in DOMAIN handed : handed[i] <= host.sent
        /\ \A report \in ghost.out + 1 .. host.sent :
             report \in Range(handed) \cup ghost.refused \/ report = host.sent
    BY <1>1, Parts DEF HandedInv
  <1>4. /\ apdu \in 0 .. ApduSize
        /\ ghost \in [out : 0 .. MaxOut, in : 0 .. MaxIn, refused : SUBSET (1 .. MaxOut), leftover : BOOLEAN]
    BY Parts DEF RestTypes
  <1>5. Hand(n)
    OBVIOUS
  <1> HIDE DEF n
  <1>6. CASE apdu = ApduSize
    <2>1. ghost' = [ghost EXCEPT !.refused = @ \cup {n}] /\ apdu' = apdu /\ handed' = handed
      BY <1>5, <1>6 DEF Hand
    <2>2. /\ ghost' \in [out : 0 .. MaxOut, in : 0 .. MaxIn, refused : SUBSET (1 .. MaxOut), leftover : BOOLEAN]
          /\ ghost'.out = ghost.out /\ ghost'.leftover = ghost.leftover
          /\ ghost'.refused = ghost.refused \cup {n}
      BY <1>2, <1>4, <2>1
    <2>3. \A report \in ghost.out + 1 .. host.sent : report \in Range(handed') \cup ghost'.refused
      BY <1>2, <1>3, <2>1, <2>2
    <2> QED BY <1>3, <1>4, <2>1, <2>2, <2>3 DEF OutInOrder
  <1>7. CASE apdu # ApduSize
    <2>1. ghost' = ghost /\ apdu' = apdu + 1 /\ handed' = Append(handed, n)
      BY <1>5, <1>7 DEF Hand
    <2>2. apdu' \in 0 .. ApduSize
      BY <1>4, <1>7, <2>1, UsbHidAssumption
    <2> DEFINE S == 1 .. MaxOut
               h == Append(handed, n)
               l == Len(handed)
    <2>3. \A T : \A s \in Seq(T), x \in T :
             /\ Append(s, x) \in Seq(T) /\ Append(s, x) # <<>>
             /\ DOMAIN Append(s, x) = 1 .. Len(s) + 1 /\ Append(s, x)[Len(s) + 1] = x
             /\ \A i \in 1 .. Len(s) : i \in DOMAIN s /\ Append(s, x)[i] = s[i]
             /\ Len(s) \in Nat
      OBVIOUS
    <2>4. /\ h \in Seq(S) /\ h # <<>> /\ DOMAIN h = 1 .. l + 1 /\ h[l + 1] = n
          /\ \A i \in 1 .. l : i \in DOMAIN handed /\ h[i] = handed[i]
          /\ l \in Nat
      <3>1. handed \in Seq(S) /\ n \in S
        BY <1>2, <1>3
      <3> HIDE DEF S
      <3> QED BY <2>3, <3>1
    <2>5. DOMAIN handed = 1 .. l
      BY <1>3
    <2> HIDE DEF h, l
    <2>6. \A i \in DOMAIN h : i \in DOMAIN handed \/ i = l + 1
      BY <2>4, <2>5
    <2>7. \A i \in DOMAIN handed : i \in DOMAIN h /\ h[i] = handed[i] /\ h[i] < n
      BY <1>2, <1>3, <2>4, <2>5
    <2>8. \A i \in DOMAIN h : h[i] <= host.sent
      BY <1>2, <1>3, <2>4, <2>6, <2>7
    <2>9. \A i, j \in DOMAIN h : i < j => h[i] < h[j]
      <3> SUFFICES ASSUME NEW i \in DOMAIN h, NEW j \in DOMAIN h, i < j PROVE h[i] < h[j]
        OBVIOUS
      <3>1. i \in DOMAIN handed
        BY <2>4, <2>5
      <3>2. CASE j \in DOMAIN handed
        BY <1>3, <2>7, <3>1, <3>2 DEF OutInOrder
      <3>3. CASE j = l + 1
        BY <2>4, <2>7, <3>1, <3>3
      <3> QED BY <2>6, <3>2, <3>3
    <2>10. \A x : x \in Range(handed) => x \in Range(h)
      BY <2>7 DEF Range
    <2>11. n \in Range(h)
      BY <2>4 DEF Range
    <2>12. \A report \in ghost.out + 1 .. host.sent : report \in Range(h) \cup ghost.refused
      BY <1>2, <1>3, <2>10, <2>11
    <2>13. handed' = h
      BY <2>1 DEF h
    <2> QED BY <1>4, <2>1, <2>2, <2>4, <2>8, <2>9, <2>12, <2>13 DEF OutInOrder, S
  <1> QED BY <1>6, <1>7


\* An event of the OUT endpoint: a report is handed over, or one waits for its
\* transfer.
LEMMA ExecOutKeeps ==
  ASSUME HidInv, NEW status \in {"OK", "WAITING"}, ExecOut(status) PROVE HidInv'
  <1> DEFINE p == Tail(queue)
             e == Head(queue)
  <1>1. /\ usbd.dma = "none" /\ ~usbd.raised /\ queue # <<>> /\ e \in OutEvents
        /\ e = OutOk => Hand(usbd.received[O].data)
        /\ e = OutWaiting => UNCHANGED <<apdu, handed, ghost>>
        /\ Put(Serve(usbd, "OUT1", "consumer", 0), p)
        /\ UNCHANGED <<sustate, clock, inProgress, asleep, reports, given, host>>
    BY DEF ExecOut, Executes, ThreadRuns, OutEvents, OutOk, OutWaiting, O, class
  <1>2. /\ QueueInv(p) /\ In(queue) = In(p) \cup {e} /\ SETUP \notin In(p) /\ e \in In(queue)
        /\ \A f \in In(p) \ Repeatable : Once(p, f)
        /\ e \notin Repeatable => e \notin In(p)
        /\ Once(queue, InOk) => Once(p, InOk)
        /\ ClockFollows(queue) => ClockFollows(p)
    BY <1>1, Taken
  <1> HIDE DEF p, e
  <1>3. /\ e \notin BusEvents \cup InEvents /\ e \notin Repeatable /\ e # SETUP /\ e # RESET
    BY <1>1, EventsDiffer DEF InEvents, BusEvents, OutEvents, Repeatable
  <1>4. p \in Seq(Events) /\ In(p) \subseteq In(queue)
    BY <1>2 DEF QueueInv
  <1>5. \A f \in BusEvents \cup InEvents : f \in In(p) <=> f \in In(queue)
    BY <1>2, <1>3
  <1>6. \A f \in {RESET, SUSPEND, RESUME, SETUP, REQUEST, READY, InOk, InAborted} : f \in In(p) <=> f \in In(queue)
    BY <1>5 DEF BusEvents, InEvents
  <1>7. In(p) \cap InEvents = In(queue) \cap InEvents
    BY <1>5
  <1>8. In(p) \cap OutEvents = {} /\ OutOk \notin In(p) /\ OutWaiting \notin In(p)
    <2>1. e \notin In(p) /\ ~(OutEvents \subseteq In(queue))
      BY <1>2, <1>3, Parts DEF QueueInv
    <2>2. OutEvents = {OutOk, OutWaiting}
      BY DEF OutEvents
    <2>3. In(p) \cap OutEvents = {}
      BY <1>1, <1>2, <2>1, <2>2
    <2> QED BY <2>2, <2>3
  <1>9. /\ ~host.asleep /\ "SETUP" \notin usbd.causes /\ SETUP \notin In(queue) /\ "RESUME" \notin usbd.causes
    <2>1. In(queue) # {} /\ In(queue) \cap (InEvents \cup OutEvents) # {}
      BY <1>1, <1>2
    <2> QED BY <1>1, <1>2, <1>3, <2>1, Parts DEF SleepInv, SetupInv, ResumeInv
  <1>10. host.state = "configured" => sustate = "ACTIVE" /\ O \in usbd.enabled
    <2>1. In(queue) \cap (InEvents \cup OutEvents) # {}
      BY <1>1, <1>2
    <2> QED BY <2>1, TwoEndpoints, Parts DEF ServedInv, SetupInv
  <1>11. e = OutOk \/ e = OutWaiting
    BY <1>1 DEF OutEvents
  <1>12. /\ O \notin usbd.waiting \cup usbd.acked
         /\ e = OutOk => ~Full(usbd) /\ O \notin usbd.ready
         /\ e = OutWaiting /\ O \in usbd.enabled => Full(usbd) /\ O \in usbd.ready
    BY <1>2, <1>11, Parts DEF OutInv
  <1>13. /\ usbd' \in DriverType /\ usbd'.evts = <<>> /\ queue' = p /\ usbd'.ready = usbd.ready
         /\ usbd'.handler[I] = usbd.handler[I] /\ usbd'.left[I] = usbd.left[I] /\ usbd'.data[I] = usbd.data[I]
         /\ I \in usbd'.waiting <=> I \in usbd.waiting
         /\ usbd'.dma = usbd.dma /\ usbd'.enabled = usbd.enabled
         /\ usbd'.received = usbd.received /\ usbd'.buffer = usbd.buffer /\ usbd'.irqs = usbd.irqs
         /\ usbd'.acked = usbd.acked /\ usbd'.causes = usbd.causes
         /\ O \in usbd'.waiting =>
              /\ O \in usbd.enabled /\ sustate = "ACTIVE" /\ usbd'.raised
              /\ usbd'.left[O] = EpSize /\ usbd'.handler[O] = "consumer" /\ usbd'.status[O] = "OK"
         /\ O \in usbd.enabled /\ sustate = "ACTIVE" => O \in usbd'.waiting /\ usbd'.stalled = usbd.stalled
         /\ usbd'.stalled \subseteq usbd.stalled \cup {O}
    BY <1>1, <1>4, <1>12, OutServed
  <1>14. /\ apdu' \in 0 .. ApduSize
         /\ ghost' \in [out : 0 .. MaxOut, in : 0 .. MaxIn, refused : SUBSET (1 .. MaxOut), leftover : BOOLEAN]
         /\ ghost'.out = ghost.out /\ ghost'.leftover = ghost.leftover
    <2>1. CASE e = OutOk
      BY <1>1, <1>2, <2>1, HandedOver
    <2>2. CASE e = OutWaiting
      BY <1>1, <2>2, Parts DEF RestTypes
    <2> QED BY <1>11, <2>1, <2>2
  <1>15. RestTypes'
    BY <1>1, <1>14, Parts DEF RestTypes
  <1>16. I # O /\ I # "none" /\ O # "none" /\ I \notin usbd.waiting
    BY <1>1, ThreadSees, TwoEndpoints DEF I, O
  <1>17. QueueInv(queue)' /\ OrderInv(queue)'
    BY <1>1, <1>2, <1>13, Parts DEF QueueInv, OrderInv
  <1>18. ResetInv(usbd, queue, usbd.acked, usbd.causes)'
    BY <1>1, <1>6, <1>13, <1>14, Parts DEF ResetInv
  <1>19. SetupInv(usbd, queue, usbd.acked, usbd.causes)'
    BY <1>1, <1>2, <1>9, <1>13, Parts DEF SetupInv
  <1>20. SleepInv(usbd, queue, usbd.acked, usbd.causes)'
    <2>1. sustate # "ACTIVE" => usbd'.waiting \cap usbd'.ready = {}
      <3>1. sustate # "ACTIVE" => O \notin usbd'.waiting /\ I \notin usbd'.waiting
        BY <1>13, <1>16
      <3> QED BY <1>13, <3>1, TwoEndpoints DEF DriverType
    <2> QED BY <1>1, <1>6, <1>9, <1>13, <2>1, Parts DEF SleepInv, Sleeping
  <1>21. ResumeInv(queue, usbd.causes, usbd.raised)'
    BY <1>1, <1>6, <1>9, <1>13, Parts DEF ResumeInv, Sleeping
  <1>22. OutInv(usbd, queue, usbd.acked, usbd.raised)'
    <2>1. Full(usbd)' <=> Full(usbd)
      BY <1>13 DEF Full
    <2>2. Full(usbd) => /\ usbd.buffer[O] = Report1 /\ O \in usbd.enabled /\ e = OutWaiting
                        /\ O \in usbd.ready
      BY <1>11, <1>12, Parts DEF OutInv
    <2>3. Full(usbd) => O \in usbd'.waiting
      <3>1. Full(usbd) => sustate = "ACTIVE"
        BY <1>1, <1>2, <2>2, Parts DEF ServedInv
      <3> QED BY <1>13, <2>2, <3>1
    <2>4. Report1' = Report1
      BY <1>1 DEF Report1
    <2> QED BY <1>1, <1>8, <1>12, <1>13, <1>16, <2>1, <2>2, <2>3, <2>4, Parts DEF OutInv
  <1>23. HandedInv(usbd, queue)'
    <2>1. (Full(usbd)' <=> Full(usbd)) /\ ~(usbd.dma = O) /\ ~(usbd'.dma = O) /\ ~(OutOk \in In(queue'))
      BY <1>1, <1>8, <1>13, <1>16 DEF Full
    <2>2. CASE e = OutOk
      <3>1. ~Outstanding(usbd, queue)'
        BY <1>12, <2>1, <2>2 DEF Outstanding
      <3>2. /\ handed' \in Seq(1 .. MaxOut) /\ (apdu' > 0 => handed' # <<>>)
            /\ OutInOrder' /\ \A i \in DOMAIN handed' : handed'[i] <= host.sent
            /\ \A report \in ghost.out + 1 .. host.sent : report \in Range(handed') \cup ghost'.refused
        BY <1>1, <1>2, <2>2, HandedOver
      <3> QED BY <1>1, <1>14, <3>1, <3>2 DEF HandedInv
    <2>3. CASE e = OutWaiting
      <3>1. OutOk \notin In(queue)
        BY <1>2, <1>8, <2>3, EventsDiffer
      <3>2. Outstanding(usbd, queue)' <=> Outstanding(usbd, queue)
        BY <2>1, <3>1 DEF Outstanding
      <3> QED BY <1>1, <2>3, <3>2, Parts DEF HandedInv, OutInOrder
    <2> QED BY <1>11, <2>2, <2>3
  <1>24. InInv(usbd, usbd.raised)'
    BY <1>1, <1>13, <1>16, Parts DEF InInv
  <1>25. FetchInv(usbd)'
    BY <1>1, <1>13, Parts DEF FetchInv
  <1>26. ServedInv(usbd, queue, usbd.acked)'
    <2>1. usbd.enabled # {} => sustate = "ACTIVE"
      BY <1>1, <1>2, Parts DEF ServedInv
    <2>2. ASSUME host.state = "configured"
          PROVE  O \notin usbd.stalled /\ (~ghost.leftover => StrictInv(usbd, queue, usbd.acked)')
      <3>1. usbd'.stalled = usbd.stalled /\ sustate = "ACTIVE" /\ (I \in usbd'.waiting <=> I \in usbd.waiting)
        BY <1>10, <1>13, <2>2
      <3>2. ASSUME ~ghost.leftover PROVE StrictInv(usbd, queue, usbd.acked)'
        <4>1. StrictInv(usbd, queue, usbd.acked)
          BY <2>2, <3>2, Parts DEF ServedInv
        <4>2. ~inProgress => Clear(usbd, queue, usbd.acked)'
          BY <1>7, <1>13, <3>1, <4>1 DEF StrictInv, Clear
        <4> QED BY <1>1, <1>2, <1>7, <1>13, <3>1, <4>1, <4>2 DEF StrictInv
      <3> QED BY <2>2, <3>2, Parts DEF ServedInv
    <2> QED BY <1>1, <1>10, <1>13, <1>14, <2>1, <2>2 DEF ServedInv
  <1> QED BY <1>13, <1>15, <1>17, <1>18, <1>19, <1>20, <1>21, <1>22, <1>23, <1>24, <1>25, <1>26, Whole

-----------------------------------------------------------------------------
(* The invariant, and what it implies.                                     *)

\* The device starts addressed, with nothing under way.
LEMMA InitKeeps == ASSUME Init PROVE HidInv
  <1>1. /\ usbd = IdleDriver /\ queue = <<>> /\ sustate = "ACTIVE" /\ clock = FALSE
        /\ inProgress = FALSE /\ asleep = FALSE /\ reports = <<>> /\ apdu = 0 /\ given = 0 /\ handed = <<>>
        /\ host = [state |-> "default", asleep |-> FALSE, sent |-> 0, unanswered |-> FALSE,
                   got |-> 0, bus |-> MaxBus]
        /\ ghost = [out |-> 0, in |-> 0, refused |-> {}, leftover |-> FALSE]
    BY DEF Init
  <1>2. /\ usbd.waiting = {} /\ usbd.ready = {I} /\ usbd.dma = "none" /\ usbd.enabled = {}
        /\ usbd.acked = {} /\ usbd.causes = {} /\ usbd.stalled = {} /\ usbd.irqs = TRUE
        /\ usbd.evts = <<>> /\ usbd.buffer[I] = NoPacket /\ usbd.buffer[O] = NoPacket
    BY <1>1, TwoEndpoints DEF IdleDriver
  <1>3. usbd \in DriverType
    <2>1. NoPacket \in Packets
      BY DEF NoPacket, Packet, Packets
    <2> HIDE DEF NoPacket, Packets
    <2> QED BY <1>1, <2>1, TwoEndpoints DEF IdleDriver, DriverType
  <1>4. RestTypes
    <2>1. 0 \in 0 .. ApduSize /\ 0 \in 0 .. MaxIn /\ 0 \in 0 .. MaxOut /\ MaxBus \in 0 .. MaxBus
      BY UsbHidAssumption
    <2>2. host \in [state : {"default", "configuring", "configured"}, asleep : BOOLEAN,
                   sent : 0 .. MaxOut, unanswered : BOOLEAN, got : 0 .. MaxIn, bus : 0 .. MaxBus]
      BY <1>1, <2>1
    <2>3. ghost \in [out : 0 .. MaxOut, in : 0 .. MaxIn, refused : SUBSET (1 .. MaxOut), leftover : BOOLEAN]
      BY <1>1, <2>1
    <2> QED BY <1>1, <2>1, <2>2, <2>3 DEF RestTypes
  <1>5. In(queue) = {} /\ queue \in Seq(Events)
    BY <1>1 DEF In
  <1>6. QueueInv(queue) /\ OrderInv(queue)
    BY <1>1, <1>5, FollowsNothing DEF QueueInv, OrderInv, OutEvents, Once
  <1>7. BusInv(usbd, queue, usbd.acked, usbd.causes, usbd.raised)
    BY <1>1, <1>2, <1>5, <1>6 DEF BusInv, ResetInv, SetupInv, SleepInv, ResumeInv, Sleeping
  <1>8. OutInv(usbd, queue, usbd.acked, usbd.raised) /\ ~Outstanding(usbd, queue)
    BY <1>2, <1>5 DEF OutInv, Full, Outstanding, O
  <1>9. HandedInv(usbd, queue)
    BY <1>1, <1>8 DEF HandedInv, OutInOrder
  <1>10. InInv(usbd, usbd.raised) /\ ServedInv(usbd, queue, usbd.acked) /\ FetchInv(usbd)
    BY <1>1, <1>2, <1>5 DEF InInv, ServedInv, FetchInv, NoPacket, Packet, I
  <1> QED BY <1>2, <1>3, <1>4, <1>7, <1>8, <1>9, <1>10 DEF HidInv, Core, TransfersInv

\* Every step keeps the invariant.
LEMMA NextKeeps == ASSUME HidInv, Patient, [Next]_vars PROVE HidInv'
  <1>1. CASE UsbInterrupt
    BY <1>1, UsbInterruptKeeps
  <1>2. CASE ClockReady
    BY <1>2, ClockReadyKeeps
  <1>3. CASE Execute
    <2>1. CASE \E status \in {"OK", "ABORTED"} : ExecIn(status)
      BY <2>1, ExecInKeeps
    <2>2. CASE \E status \in {"OK", "WAITING"} : ExecOut(status)
      BY <2>2, ExecOutKeeps
    <2>3. CASE ExecReset
      BY <2>3, ExecResetKeeps
    <2>4. CASE ExecSetup
      BY <2>4, ExecSetupKeeps
    <2>5. CASE ExecSuspend
      BY <2>5, ExecSuspendKeeps
    <2>6. CASE ExecSuspendRequest
      BY <2>6, ExecSuspendRequestKeeps
    <2>7. CASE ExecResume
      BY <2>7, ExecResumeKeeps
    <2>8. CASE ExecClockReady
      BY <2>8, ExecClockReadyKeeps
    <2> QED BY <1>3, <2>1, <2>2, <2>3, <2>4, <2>5, <2>6, <2>7, <2>8 DEF Execute
  <1>4. CASE GiveReport
    BY <1>4, GiveReportKeeps
  <1>5. CASE TakeCommands
    BY <1>5, TakeCommandsKeeps
  <1>6. CASE HostOut
    BY <1>6, HostOutKeeps
  <1>7. CASE HostIn
    BY <1>7, HostInKeeps
  <1>8. CASE HostConfigure
    BY <1>8, HostConfigureKeeps
  <1>9. CASE HostReset
    BY <1>9, HostResetKeeps
  <1>10. CASE HostSuspend
    BY <1>10, HostSuspendKeeps
  <1>11. CASE HostResume
    BY <1>11, HostResumeKeeps
  <1>12. CASE UNCHANGED vars
    BY <1>12, StutterKeeps
  <1> QED
    BY <1>1, <1>2, <1>3, <1>4, <1>5, <1>6, <1>7, <1>8, <1>9, <1>10, <1>11, <1>12 DEF Next

\* The types.
LEMMA TypesFollow == ASSUME HidInv PROVE UsbHidTypeOK
  <1> DEFINE r == [waiting |-> {}, ready |-> {}, dma |-> "", enabled |-> {}]
             s == [f \in DOMAIN r |-> usbd[f]]
  <1>1. /\ usbd.waiting \in SUBSET Endpoints /\ usbd.ready \in SUBSET Endpoints
        /\ usbd.dma \in Endpoints \cup {"none"} /\ usbd.enabled \in SUBSET Endpoints
    BY Parts DEF DriverType
  <1>2. DOMAIN r = {"waiting", "ready", "dma", "enabled"}
    OBVIOUS
  <1> HIDE DEF r
  <1>3. s = [waiting |-> usbd.waiting, ready |-> usbd.ready, dma |-> usbd.dma, enabled |-> usbd.enabled]
    BY <1>2
  <1> HIDE DEF s
  <1>4. s \in [waiting : SUBSET Endpoints, ready : SUBSET Endpoints,
               dma : Endpoints \cup {"none"}, enabled : SUBSET Endpoints]
    BY <1>1, <1>3
  <1>5. Len(reports) <= 1 /\ Range(reports) \subseteq 1 .. MaxIn + 1
    <2>1. CASE reports = <<>>
      BY <2>1 DEF Range
    <2>2. CASE \E n \in 1 .. MaxIn + 1 : reports = <<n>>
      BY <2>2 DEF Range
    <2> QED BY <2>1, <2>2, Parts DEF RestTypes
  <1>6. Range(handed) \subseteq 1 .. MaxOut
    <2>1. handed \in Seq(1 .. MaxOut)
      BY Parts DEF HandedInv
    <2> DEFINE S == 1 .. MaxOut
    <2>2. \A T : \A h \in Seq(T) : \A i \in DOMAIN h : h[i] \in T
      OBVIOUS
    <2> HIDE DEF S
    <2>3. \A i \in DOMAIN handed : handed[i] \in S
      BY <2>1, <2>2 DEF S
    <2> QED BY <2>3 DEF Range, S
  <1>7. queue \in Seq(Events) /\ usbd.irqs = (sustate = "ACTIVE") /\ usbd.evts = <<>>
    BY Parts DEF QueueInv, SleepInv
  <1>8. /\ ghost.out \in 0 .. MaxOut /\ ghost.in \in 0 .. MaxIn
        /\ ghost.refused \subseteq 1 .. MaxOut /\ ghost.leftover \in BOOLEAN
    BY Parts DEF RestTypes
  <1> QED BY <1>4, <1>5, <1>6, <1>7, <1>8, Parts DEF UsbHidTypeOK, RestTypes, s, r

\* The report that was not handed over is the last one, and it is under way.
LEMMA ReportsFollow == ASSUME HidInv PROVE OutInOrder /\ NothingLost
  <1>1. OutInOrder
    BY Parts DEF HandedInv
  <1>2. ASSUME Outstanding(usbd, queue) PROVE Held(host.sent)
    <2>1. Report1.data = host.sent
      BY DEF Report1, Packet
    <2>2. CASE Full(usbd)
      BY <2>1, <2>2, Parts DEF OutInv, Held, O
    <2>3. CASE usbd.dma = O
      BY <2>1, <2>3, Parts DEF OutInv, Held, O
    <2>4. CASE OutOk \in In(queue)
      <3>1. <<"OUT1", "OK">> \in Range(queue)
        BY <2>4 DEF In, Range, OutOk, O
      <3> QED BY <2>1, <2>4, <3>1, Parts DEF OutInv, Held, O
    <2> QED BY <1>2, <2>2, <2>3, <2>4 DEF Outstanding
  <1>3. NothingLost
    BY <1>2, Parts DEF HandedInv, NothingLost
  <1> QED BY <1>1, <1>3

\* No endpoint is stalled.
LEMMA NeverStalledFollows == ASSUME HidInv PROVE NeverStalled
  BY Parts DEF NeverStalled, Attached, ServedInv, StrictInv
-----------------------------------------------------------------------------
(* The theorems.                                                           *)

\* The inductive invariant: what the bus, the driver, the queue and the class
\* know of each other in every state.
THEOREM StagesAgree == ASSUME Patient PROVE Spec => []HidInv
BY InitKeeps, NextKeeps, PTL DEF Spec

\* With a patient host no OUT report is lost, handed over twice or out of order,
\* and no endpoint of a configured device is stalled (app_usbd_hid_generic.c,
\* usbd_dmareq_process and nrf_drv_usbd_ep_abort).
THEOREM NoReportLost == ASSUME Patient PROVE Spec => []UsbHidInv
<1>1. HidInv => UsbHidInv
  BY TypesFollow, ReportsFollow, NeverStalledFollows DEF UsbHidInv
<1> QED
  BY <1>1, StagesAgree, PTL

\* The host fetches the IN reports in the order they were given, and none twice,
\* over resets and suspends (app_usbd_hid_generic_in_report_set).
THEOREM NoReportTwice == ASSUME Patient PROVE Spec => FetchedOnce
<1>1. HidInv /\ HostIn => host'.got > host.got
  <2> SUFFICES ASSUME HidInv, HostIn PROVE host'.got > host.got
    OBVIOUS
  <2>1. host'.got = usbd.buffer[I].data /\ usbd.buffer[I] # NoPacket
    <3>1. host' = [host EXCEPT !.got = usbd.buffer[I].data] /\ usbd.buffer[I] # NoPacket
      BY DEF HostIn, I
    <3> QED BY <3>1, Parts DEF RestTypes
  <2>2. host.got < usbd.buffer[I].data
    BY <2>1, Parts DEF FetchInv
  <2>3. host.got \in Nat
    BY UsbHidAssumption, Parts DEF RestTypes
  <2>4. usbd.buffer[I].data \in Nat
    BY TwoEndpoints, Parts DEF DriverType, Packets
  <2> QED BY <2>1, <2>2, <2>3, <2>4
<1>2. HidInv => [HostIn => host'.got > host.got]_vars
  BY <1>1
<1> QED
  BY <1>2, StagesAgree, PTL DEF FetchedOnce


=============================================================================
