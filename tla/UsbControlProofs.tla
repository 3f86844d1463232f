---------------------------- MODULE UsbControlProofs ----------------------------
(***************************************************************************)
(* Proofs about UsbControl: its invariants UsbControlInv and ReadExact.    *)
(*                                                                         *)
(* The inductive invariant is ControlInv.  Whatever the host abandoned,    *)
(* the types hold, the interrupt is certain when a transfer can go on, and *)
(* the host's account of its requests is right.  A clean request, unless   *)
(* it is abandoned, is in one of the phases listed in CleanInv; each says  *)
(* all that the driver, the queue and the main loop hold of it.            *)
(***************************************************************************)
EXTENDS UsbControl, SequenceTheorems, TLAPS

\* The two endpoints.
I == "IN0"
O == "OUT0"

SETUP == <<"SETUP", "">>
RESET == <<"RESET", "">>
Events == {SETUP, RESET} \cup Endpoints \X {"OK", "ABORTED", "OVERLOAD", "WAITING"}
Numbers == 0 .. MaxRequests
Packets == [data : Numbers, size : 0 .. EpSize]
Kinds == {"NULL", "feeder", "feeder_zlp", "consumer"}
Statuses == {"OK", "ABORTED", "OVERLOAD"}
Causes == {"RESET", "SETUP"}
DriverType == [
  waiting : SUBSET Endpoints, ready : SUBSET Endpoints, handler : [Endpoints -> Kinds],
  left : [Endpoints -> Nat], status : [Endpoints -> Statuses],
  dma : Endpoints \cup {"none"}, setupDir : Endpoints, suspended : {FALSE},
  acked : SUBSET Endpoints, causes : SUBSET Causes, raised : BOOLEAN,
  enabled : SUBSET Endpoints, stalled : SUBSET Endpoints, rcvOut : BOOLEAN, irqs : {TRUE},
  data : [Endpoints -> Numbers], buffer : [Endpoints -> Packets], received : [Endpoints -> Packets],
  evts : Seq(Events)]

Named == Sent \cup {NoRequest}
ThreadType == [
  at : {"idle", "serve", "answer"}, for : [request : Named, number : Numbers],
  ok : BOOLEAN, ep : Endpoints \cup {"none"}]
HostType == [
  stage : {"none", "data", "status"}, request : Named, count : Nat,
  foreign : BOOLEAN, clean : BOOLEAN, serves : BOOLEAN,
  ended : {"none", "done", "stalled", "abandoned"}]
RestTypes ==
  /\ queue \in Seq(Events)
  /\ setup \in [request : Named, number : Numbers]
  /\ thread \in ThreadType
  /\ handler \in {"NULL", "empty", "report"}
  /\ state \in {"Default", "Addressed", "Configured"}
  /\ reports \subseteq Numbers /\ status \in BOOLEAN
  /\ host \in HostType
  /\ budget \in [requests : Numbers, abandoned : 0 .. MaxAbandoned]

Typing == usbd \in DriverType /\ usbd.evts = <<>> /\ RestTypes

\* The host's account of its requests.
HostInv ==
  /\ setup.number + budget.requests = MaxRequests
  /\ host.request = setup.request
  /\ host.ended # "none" => host.stage = "none"
  /\ host.stage = "data" => host.count < host.request.length
  /\ host.count <= host.request.length + EpSize

\* A transfer that can go on has an interrupt to come.
Scheduled(u) == u.raised \/ u.dma # "none" \/ u.waiting \cap u.ready = {}

\* The host has not moved a byte of the request.
Untouched ==
  /\ host.ended = "none" /\ host.count = 0 /\ ~host.foreign /\ ~status
  /\ host.stage = IF host.request.length = 0 THEN "status" ELSE "data"
  /\ host.serves = Serves(host.request, state)

Rests(u) == u.dma = "none" /\ ~u.raised /\ u.acked = {} /\ u.causes = {}
Blank(u) == u.buffer[I] = NoPacket /\ u.buffer[O] = NoPacket /\ u.stalled = {} /\ ~u.rcvOut
Fresh(u) == Rests(u) /\ Blank(u) /\ u.waiting = {} /\ u.ready = {I} /\ u.setupDir = host.request.dir

\* The phases of a clean request: the interrupt of its SETUP packet is pending,
Arrived ==
  /\ usbd.causes = {"SETUP"} /\ ~usbd.raised /\ usbd.dma = "none" /\ usbd.acked = {}
  /\ usbd.waiting \cap usbd.ready = {} /\ O \notin usbd.ready /\ Blank(usbd)
  /\ queue = <<>> /\ thread.at = "idle" /\ Untouched

\* its event is in the queue, behind that of a transfer it aborted,
Noted ==
  /\ Fresh(usbd) /\ queue \in {<<SETUP>>, <<<<I, "ABORTED">>, SETUP>>}
  /\ thread.at = "idle" /\ Untouched

\* the main loop has read the registers,
Serving ==
  /\ Fresh(usbd) /\ queue = <<>> /\ thread.at = "serve" /\ thread.for = setup
  /\ thread.ep = "none" /\ handler = "NULL" /\ Untouched

\* or a transfer was started,
Transferring(kinds, end) ==
  /\ usbd.stalled = {} /\ usbd.causes = {} /\ ~status /\ host.ended = "none" /\ host.serves
  /\ usbd.setupDir = host.request.dir /\ thread.at # "serve"
  /\ thread.at = "answer" => thread.ok /\ thread.ep = "none"
  /\ host.request.kind \in kinds /\ handler = end

\* of an answer: the bytes fetched, in the packet and still to be sent are the answer;
Sending ==
  /\ Transferring({"read", "getConfiguration"}, "empty")
  /\ ~usbd.rcvOut /\ usbd.ready \subseteq {I} /\ usbd.waiting \subseteq {I}
  /\ usbd.status[I] = "OK" /\ usbd.data[I] = Number
  /\ host.count + usbd.buffer[I].size + usbd.left[I] = Answered(host.request)

\* its packet, the last one if it is not full,
OfAnswer(packet) ==
  packet # NoPacket /\ packet.data = Number /\ (packet.size < EpSize => usbd.left[I] = 0)

\* is asked for, moved by the DMA, ready for the host, fetched by it, or was the last;
SendAsked ==
  /\ Sending /\ queue = <<>> /\ usbd.raised /\ usbd.dma = "none" /\ usbd.acked = {}
  /\ usbd.waiting = {I} /\ usbd.ready = {I} /\ usbd.buffer[I] = NoPacket
SendMoves ==
  /\ Sending /\ queue = <<>> /\ ~usbd.raised /\ usbd.dma = I /\ usbd.acked = {}
  /\ usbd.ready = {} /\ OfAnswer(usbd.buffer[I])
SendReady ==
  /\ Sending /\ queue = <<>> /\ ~usbd.raised /\ usbd.dma = "none" /\ usbd.acked = {}
  /\ usbd.ready = {} /\ OfAnswer(usbd.buffer[I])
SendFetched ==
  /\ Sending /\ queue = <<>> /\ ~usbd.raised /\ usbd.dma = "none" /\ usbd.acked = {I}
  /\ usbd.ready = {} /\ usbd.buffer[I] = NoPacket
SendEnds ==
  /\ Sending /\ queue = <<<<I, "OK">>>> /\ ~usbd.raised /\ usbd.dma = "none" /\ usbd.acked = {}
  /\ usbd.ready = {I} /\ usbd.waiting = {} /\ usbd.buffer[I] = NoPacket

\* or of a report, of which one packet is accepted:
Receiving ==
  /\ Transferring({"setReport"}, "report")
  /\ usbd.buffer[I] = NoPacket

\* it is asked for, in the endpoint, moved by the DMA, handed over, or too long;
ReceiveAsked ==
  /\ Receiving /\ queue = <<>> /\ usbd.dma = "none" /\ usbd.acked = {}
  /\ usbd.waiting = {O} /\ usbd.ready = {I}
  /\ usbd.handler[O] = "consumer" /\ usbd.status[O] = "OK" /\ usbd.left[O] = EpSize - 1
  /\ host.count = 0 /\ host.stage = "data"
  /\ IF thread.at = "idle" THEN ~usbd.raised /\ usbd.rcvOut ELSE ~usbd.rcvOut
ReceiveArrived ==
  /\ Receiving /\ queue = <<>> /\ usbd.dma = "none" /\ usbd.acked = {O}
  /\ usbd.waiting = {O} /\ usbd.ready = {I}
  /\ usbd.handler[O] = "consumer" /\ usbd.status[O] = "OK" /\ usbd.left[O] = EpSize - 1
  /\ usbd.buffer[O] = Packet(Number, Min({EpSize, host.request.length}))
  /\ thread.at = "idle" /\ ~usbd.raised /\ ~usbd.rcvOut
ReceiveMoves ==
  /\ Receiving /\ queue = <<>> /\ usbd.dma = O /\ usbd.acked = {}
  /\ usbd.waiting = {O} /\ usbd.ready = {I}
  /\ usbd.status[O] = "OK" /\ usbd.handler[O] = "NULL"
  /\ Fits(host.request) /\ usbd.received[O].data = Number
  /\ thread.at = "idle" /\ ~usbd.raised /\ ~usbd.rcvOut
ReceiveEnds ==
  /\ Receiving /\ queue = <<<<O, "OK">>>> /\ usbd.dma = "none" /\ usbd.acked = {}
  /\ usbd.waiting = {} /\ usbd.ready = {I}
  /\ Fits(host.request) /\ usbd.received[O].data = Number
  /\ thread.at = "idle" /\ ~usbd.raised /\ ~usbd.rcvOut
ReceiveOverflows ==
  /\ Receiving /\ queue = <<<<O, "OVERLOAD">>>> /\ usbd.dma = "none" /\ usbd.acked = {}
  /\ usbd.waiting = {} /\ ~Fits(host.request)
  /\ thread.at = "idle" /\ ~usbd.raised /\ ~usbd.rcvOut

\* The request did what it says, or there was a reason not to.
Outcome(ok) ==
  IF ok THEN /\ host.serves /\ Fits(host.request)
             /\ host.request.kind = "setAddress" => state = "Addressed"
             /\ host.request.kind = "setConfiguration" => state = "Configured"
             /\ host.request.kind = "setReport" => Number \in reports
  ELSE ~(host.serves /\ Fits(host.request))

NothingLeft ==
  /\ Rests(usbd) /\ usbd.waiting = {} /\ usbd.buffer[I] = NoPacket /\ ~usbd.rcvOut
  /\ usbd.ready = {I} \/ ~Fits(host.request)
  /\ queue = <<>> /\ handler = "NULL"

\* the main loop is about to answer, and it has answered.
Answering ==
  /\ NothingLeft /\ thread.at = "answer" /\ usbd.stalled = {} /\ ~status
  /\ Outcome(thread.ok) /\ host.ended = "none"
Settling ==
  /\ NothingLeft /\ thread.at = "idle"
  /\ IF usbd.stalled = {} THEN status /\ Outcome(TRUE) ELSE Outcome(FALSE)
  /\ host.ended = "done" => Outcome(TRUE)
  /\ host.ended = "stalled" => Outcome(FALSE)

\* The host is in the stages of the request, and what it read is of the request.
Stages ==
  /\ Number > 0 /\ host.request \in Sent
  /\ host.ended = "none" => host.stage # "none"
  /\ host.request.dir = I =>
       ~host.foreign /\ (host.stage = "status" => host.count = Answered(host.request))

Phases ==
  \/ Arrived \/ Noted \/ Serving \/ Answering \/ Settling
  \/ SendAsked \/ SendMoves \/ SendReady \/ SendFetched \/ SendEnds
  \/ ReceiveAsked \/ ReceiveArrived \/ ReceiveMoves \/ ReceiveEnds \/ ReceiveOverflows

CleanInv == host.clean /\ host.ended # "abandoned" => Stages /\ Phases

ControlInv == Typing /\ HostInv /\ Scheduled(usbd) /\ CleanInv
-----------------------------------------------------------------------------
(* The endpoints and the driver.                                           *)

\* The control requests have endpoint 0 in both directions.
LEMMA TwoEndpoints ==
  /\ Endpoints = {I, O} /\ Ins = {I} /\ Outs = {O} /\ Control = {I, O} /\ I # O
  /\ I # "none" /\ O # "none" /\ EpSize \in Nat /\ EpSize > 0
  BY UsbControlAssumption, EpSizeAssumption DEF I, O, Ins, Outs, Control

\* The events the driver reports.
LEMMA EventsAreEvents ==
  /\ SETUP \in Events /\ RESET \in Events
  /\ \A ep \in Endpoints : \A s \in {"OK", "ABORTED", "OVERLOAD", "WAITING"} : <<ep, s>> \in Events
  BY DEF Events

\* The smaller of two numbers.
LEMMA MinIs ==
  ASSUME NEW a \in Int, NEW b \in Int
  PROVE  Min({a, b}) = IF a <= b THEN a ELSE b
  <1>1. CASE a <= b
    <2>1. \A x \in {a, b} : (\A y \in {a, b} : x <= y) <=> x = a
      BY <1>1
    <2> QED BY <1>1, <2>1 DEF Min
  <1>2. CASE ~(a <= b)
    <2>1. \A x \in {a, b} : (\A y \in {a, b} : x <= y) <=> x = b
      BY <1>2
    <2> QED BY <1>2, <2>1 DEF Min
  <1> QED BY <1>1, <1>2

\* No packet.
LEMMA NoPacketIs == NoPacket \in Packets /\ NoPacket.size = 0 /\ NoPacket.data = 0
  BY UsbControlAssumption, TwoEndpoints DEF NoPacket, Packet, Packets, Numbers

\* The fields of the driver.
LEMMA Fields ==
  ASSUME NEW u \in DriverType
  PROVE  DOMAIN u = {"waiting", "ready", "handler", "left", "status", "dma", "setupDir", "suspended",
                     "acked", "causes", "raised", "enabled", "stalled", "rcvOut", "irqs", "data",
                     "buffer", "received", "evts"}
  BY DEF DriverType

\* Their types.
LEMMA FieldTypes ==
  ASSUME NEW u \in DriverType
  PROVE  /\ u.waiting \subseteq Endpoints /\ u.ready \subseteq Endpoints
         /\ u.handler \in [Endpoints -> Kinds] /\ u.left \in [Endpoints -> Nat]
         /\ u.status \in [Endpoints -> Statuses]
         /\ u.dma \in Endpoints \cup {"none"} /\ u.setupDir \in Endpoints
         /\ u.acked \subseteq Endpoints /\ u.causes \subseteq Causes /\ u.raised \in BOOLEAN
         /\ u.stalled \subseteq Endpoints /\ u.rcvOut \in BOOLEAN /\ u.irqs = TRUE
         /\ u.data \in [Endpoints -> Numbers] /\ u.buffer \in [Endpoints -> Packets]
         /\ u.received \in [Endpoints -> Packets] /\ u.evts \in Seq(Events)
  BY DEF DriverType

\* A field replaced by another of its type.
LEMMA FieldReplaced ==
  ASSUME NEW u \in DriverType
  PROVE  /\ \A x \in SUBSET Endpoints : [u EXCEPT !.waiting = x] \in DriverType
         /\ \A x \in SUBSET Endpoints : [u EXCEPT !.ready = x] \in DriverType
         /\ \A x \in [Endpoints -> Kinds] : [u EXCEPT !.handler = x] \in DriverType
         /\ \A x \in [Endpoints -> Nat] : [u EXCEPT !.left = x] \in DriverType
         /\ \A x \in [Endpoints -> Statuses] : [u EXCEPT !.status = x] \in DriverType
         /\ \A x \in Endpoints \cup {"none"} : [u EXCEPT !.dma = x] \in DriverType
         /\ \A x \in Endpoints : [u EXCEPT !.setupDir = x] \in DriverType
         /\ \A x \in {FALSE} : [u EXCEPT !.suspended = x] \in DriverType
         /\ \A x \in SUBSET Endpoints : [u EXCEPT !.acked = x] \in DriverType
         /\ \A x \in SUBSET Causes : [u EXCEPT !.causes = x] \in DriverType
         /\ \A x \in BOOLEAN : [u EXCEPT !.raised = x] \in DriverType
         /\ \A x \in SUBSET Endpoints : [u EXCEPT !.stalled = x] \in DriverType
         /\ \A x \in BOOLEAN : [u EXCEPT !.rcvOut = x] \in DriverType
         /\ \A x \in [Endpoints -> Numbers] : [u EXCEPT !.data = x] \in DriverType
         /\ \A x \in [Endpoints -> Packets] : [u EXCEPT !.buffer = x] \in DriverType
         /\ \A x \in [Endpoints -> Packets] : [u EXCEPT !.received = x] \in DriverType
         /\ \A x \in Seq(Events) : [u EXCEPT !.evts = x] \in DriverType
  <1>1. \A x \in SUBSET Endpoints : [u EXCEPT !.waiting = x] \in DriverType
    BY DEF DriverType
  <1>2. \A x \in SUBSET Endpoints : [u EXCEPT !.ready = x] \in DriverType
    BY DEF DriverType
  <1>3. \A x \in [Endpoints -> Kinds] : [u EXCEPT !.handler = x] \in DriverType
    BY DEF DriverType
  <1>4. \A x \in [Endpoints -> Nat] : [u EXCEPT !.left = x] \in DriverType
    BY DEF DriverType
  <1>5. \A x \in [Endpoints -> Statuses] : [u EXCEPT !.status = x] \in DriverType
    BY DEF DriverType
  <1>6. \A x \in Endpoints \cup {"none"} : [u EXCEPT !.dma = x] \in DriverType
    BY DEF DriverType
  <1>7. \A x \in Endpoints : [u EXCEPT !.setupDir = x] \in DriverType
    BY DEF DriverType
  <1>8. \A x \in {FALSE} : [u EXCEPT !.suspended = x] \in DriverType
    BY DEF DriverType
  <1>9. \A x \in SUBSET Endpoints : [u EXCEPT !.acked = x] \in DriverType
    BY DEF DriverType
  <1>10. \A x \in SUBSET Causes : [u EXCEPT !.causes = x] \in DriverType
    BY DEF DriverType
  <1>11. \A x \in BOOLEAN : [u EXCEPT !.raised = x] \in DriverType
    BY DEF DriverType
  <1>12. \A x \in SUBSET Endpoints : [u EXCEPT !.stalled = x] \in DriverType
    BY DEF DriverType
  <1>13. \A x \in BOOLEAN : [u EXCEPT !.rcvOut = x] \in DriverType
    BY DEF DriverType
  <1>14. \A x \in [Endpoints -> Numbers] : [u EXCEPT !.data = x] \in DriverType
    BY DEF DriverType
  <1>15. \A x \in [Endpoints -> Packets] : [u EXCEPT !.buffer = x] \in DriverType
    BY DEF DriverType
  <1>16. \A x \in [Endpoints -> Packets] : [u EXCEPT !.received = x] \in DriverType
    BY DEF DriverType
  <1>17. \A x \in Seq(Events) : [u EXCEPT !.evts = x] \in DriverType
    BY DEF DriverType
  <1> QED BY <1>1, <1>2, <1>3, <1>4, <1>5, <1>6, <1>7, <1>8, <1>9, <1>10, <1>11,
        <1>12, <1>13, <1>14, <1>15, <1>16, <1>17

-----------------------------------------------------------------------------
(* The stages of the interrupt.                                            *)

\* What no stage but the last changes.
Others(u, w) ==
  /\ w.acked = u.acked /\ w.causes = u.causes /\ w.raised = u.raised
  /\ w.stalled = u.stalled /\ w.data = u.data

\* An event is reported.
LEMMA Reported ==
  ASSUME NEW u \in DriverType, NEW e \in Events, NEW w, w = [u EXCEPT !.evts = Append(@, e)]
  PROVE  /\ w \in DriverType /\ Others(u, w) /\ w.evts = Append(u.evts, e)
         /\ w.waiting = u.waiting /\ w.ready = u.ready /\ w.handler = u.handler /\ w.left = u.left
         /\ w.status = u.status /\ w.dma = u.dma /\ w.setupDir = u.setupDir
         /\ w.rcvOut = u.rcvOut /\ w.buffer = u.buffer /\ w.received = u.received
  <1> DEFINE evts == Append(u.evts, e)
  <1>1. evts \in Seq(Events)
    <2>1. u.evts \in Seq(Events)
      BY FieldTypes
    <2> QED BY <2>1
  <1>2. w = [u EXCEPT !.evts = evts]
    BY Fields
  <1> HIDE DEF evts
  <1>3. w \in DriverType
    BY ZenonT(40), <1>1, <1>2, FieldReplaced
  <1>4. w.evts = evts
    BY <1>2, Fields
  <1> QED BY <1>2, <1>3, <1>4, Fields DEF Others, evts

\* The stage of a bus reset.
LEMMA ResetStage ==
  ASSUME NEW u \in DriverType
  PROVE  UsbReset(u) \in DriverType /\ ("RESET" \notin u.causes => UsbReset(u) = u)
  <1> DEFINE v1 == [u EXCEPT !.suspended = FALSE]
             v2 == [v1 EXCEPT !.setupDir = O]
  <1>1. v1 \in DriverType
    BY FieldReplaced
  <1>2. v2 = [u EXCEPT !.suspended = FALSE, !.setupDir = O]
    BY Fields
  <1> HIDE DEF v1
  <1>3. v2 \in DriverType
    BY <1>1, FieldReplaced, TwoEndpoints
  <1> HIDE DEF v2
  <1>4. [v2 EXCEPT !.evts = Append(@, RESET)] \in DriverType
    BY <1>3, Reported, EventsAreEvents
  <1> QED BY <1>2, <1>4 DEF UsbReset, Report, RESET, O

\* The stage of the END event of a DMA,
LEMMA DmaEndStage ==
  ASSUME NEW u \in DriverType, NEW eps \in {Ins, Outs}
  PROVE  DmaEnd(u, eps) \in DriverType /\ (u.dma \notin eps => DmaEnd(u, eps) = u)
  <1> DEFINE ep == u.dma
             v == [u EXCEPT !.dma = "none"]
             f1 == v.waiting \ {ep}
             f2 == v.rcvOut \/ ep = "OUT0"
             w1 == [v EXCEPT !.waiting = f1]
             w2 == [v EXCEPT !.rcvOut = f2]
             r == [w1 EXCEPT !.evts = Append(@, <<ep, "OK">>)]
  <1>1. u.dma \notin eps => DmaEnd(u, eps) = u
    BY DEF DmaEnd
  <1>2. ASSUME u.dma \in eps PROVE DmaEnd(u, eps) \in DriverType
    <2>1. v \in DriverType
      BY FieldReplaced
    <2>2. DmaEnd(u, eps) \in {w1, w2, r}
      BY <1>2 DEF DmaEnd, Report
    <2> HIDE DEF v
    <2>3. f1 \in SUBSET Endpoints /\ f2 \in BOOLEAN
      BY <2>1, FieldTypes
    <2> HIDE DEF f1, f2
    <2>4. w1 \in DriverType /\ w2 \in DriverType
      BY <2>1, <2>3, FieldReplaced
    <2> HIDE DEF w1, w2
    <2>5. <<ep, "OK">> \in Events
      BY <1>2, TwoEndpoints, EventsAreEvents
    <2>6. r \in DriverType
      BY <2>4, <2>5, Reported
    <2> QED BY <2>2, <2>4, <2>6
  <1> QED BY <1>1, <1>2

\* for a packet of an answer,
LEMMA InEnded ==
  ASSUME NEW u \in DriverType, u.dma = I, u.status[I] = "OK", NEW w, w = DmaEnd(u, Ins)
  PROVE  /\ w \in DriverType /\ Others(u, w) /\ w.evts = u.evts
         /\ w.waiting = IF u.handler[I] = "NULL" THEN u.waiting \ {I} ELSE u.waiting
         /\ w.ready = u.ready /\ w.handler = u.handler /\ w.left = u.left
         /\ w.status = u.status /\ w.dma = "none" /\ w.setupDir = u.setupDir
         /\ w.rcvOut = u.rcvOut /\ w.buffer = u.buffer /\ w.received = u.received
  <1> DEFINE v == [u EXCEPT !.dma = "none"]
             w1 == [v EXCEPT !.waiting = @ \ {I}]
             w2 == [v EXCEPT !.rcvOut = @ \/ I = "OUT0"]
  <1>1. w \in DriverType
    BY DmaEndStage
  <1>2. w = IF u.handler[I] = "NULL" THEN w1 ELSE w2
    BY TwoEndpoints DEF DmaEnd
  <1>3. /\ w1.rcvOut = u.rcvOut /\ w1.waiting = u.waiting \ {I} /\ w2.waiting = u.waiting
    BY Fields
  <1>4. w2.rcvOut = u.rcvOut
    <2>1. (u.rcvOut \/ I = "OUT0") = u.rcvOut
      <3>1. u.rcvOut \in BOOLEAN /\ I # "OUT0"
        BY FieldTypes DEF I
      <3> QED BY <3>1
    <2> DEFINE b == u.rcvOut \/ I = "OUT0"
    <2>2. w2 = [v EXCEPT !.rcvOut = b]
      BY Fields
    <2> HIDE DEF b
    <2>3. w2.rcvOut = b
      BY <2>2, Fields
    <2> QED BY <2>1, <2>3 DEF b
  <1>5. \A x \in {w1, w2} :
         /\ x.acked = u.acked /\ x.causes = u.causes /\ x.raised = u.raised
         /\ x.stalled = u.stalled /\ x.data = u.data /\ x.evts = u.evts
         /\ x.ready = u.ready /\ x.handler = u.handler /\ x.left = u.left
         /\ x.status = u.status /\ x.dma = "none" /\ x.setupDir = u.setupDir
         /\ x.buffer = u.buffer /\ x.received = u.received
    BY ZenonT(40), Fields
  <1> HIDE DEF w1, w2
  <1> QED BY <1>1, <1>2, <1>3, <1>4, <1>5 DEF Others

\* and for the packet of a report.
LEMMA OutEnded ==
  ASSUME NEW u \in DriverType, u.dma = O, u.status[O] = "OK", u.handler[O] = "NULL",
         NEW w, w = DmaEnd(u, Outs)
  PROVE  /\ w \in DriverType /\ Others(u, w) /\ w.evts = Append(u.evts, <<O, "OK">>)
         /\ w.waiting = u.waiting \ {O}
         /\ w.ready = u.ready /\ w.handler = u.handler /\ w.left = u.left
         /\ w.status = u.status /\ w.dma = "none" /\ w.setupDir = u.setupDir
         /\ w.rcvOut = u.rcvOut /\ w.buffer = u.buffer /\ w.received = u.received
  <1> DEFINE v == [u EXCEPT !.dma = "none"]
             w1 == [v EXCEPT !.waiting = @ \ {O}]
             w2 == [w1 EXCEPT !.evts = Append(@, <<O, "OK">>)]
  <1>1. w \in DriverType
    BY DmaEndStage
  <1>2. w = w2
    BY TwoEndpoints DEF DmaEnd, Report
  <1>3. w2.evts = Append(u.evts, <<O, "OK">>) /\ w2.waiting = u.waiting \ {O}
    BY Fields
  <1>4. /\ w2.acked = u.acked /\ w2.causes = u.causes /\ w2.raised = u.raised
        /\ w2.stalled = u.stalled /\ w2.data = u.data
        /\ w2.ready = u.ready /\ w2.handler = u.handler /\ w2.left = u.left
        /\ w2.status = u.status /\ w2.dma = "none" /\ w2.setupDir = u.setupDir
        /\ w2.rcvOut = u.rcvOut /\ w2.buffer = u.buffer /\ w2.received = u.received
    BY Fields
  <1> HIDE DEF w2
  <1> QED BY <1>1, <1>2, <1>3, <1>4 DEF Others

\* An acknowledged packet makes its endpoint ready.
Acknowledged(u, ep, w) ==
  /\ w \in DriverType /\ Others(u, w)
  /\ w.evts = IF ep \in u.waiting THEN u.evts
              ELSE Append(u.evts, <<ep, IF ep \in Ins THEN "OK" ELSE "WAITING">>)
  /\ w.ready = u.ready \cup {ep}
  /\ w.waiting = u.waiting /\ w.handler = u.handler /\ w.left = u.left
  /\ w.status = u.status /\ w.dma = u.dma /\ w.setupDir = u.setupDir
  /\ w.rcvOut = u.rcvOut /\ w.buffer = u.buffer /\ w.received = u.received

\* What the handler of the data events does.
LEMMA DataHandled ==
  ASSUME NEW u \in DriverType, NEW ep \in Endpoints, NEW w, w = DataHandler(u, ep)
  PROVE  Acknowledged(u, ep, w)
  <1> DEFINE f == u.ready \cup {ep}
             e == <<ep, IF ep \in Ins THEN "OK" ELSE "WAITING">>
             v == [u EXCEPT !.ready = f]
             r == [v EXCEPT !.evts = Append(@, e)]
  <1>1. w = IF ep \in v.waiting THEN v ELSE r
    BY Fields DEF DataHandler, Report
  <1>2. f \in SUBSET Endpoints /\ e \in Events
    BY FieldTypes, EventsAreEvents
  <1> HIDE DEF e
  <1>3. /\ v.acked = u.acked /\ v.causes = u.causes /\ v.raised = u.raised
        /\ v.stalled = u.stalled /\ v.data = u.data /\ v.evts = u.evts
        /\ v.ready = f /\ v.waiting = u.waiting /\ v.handler = u.handler /\ v.left = u.left
        /\ v.status = u.status /\ v.dma = u.dma /\ v.setupDir = u.setupDir
        /\ v.rcvOut = u.rcvOut /\ v.buffer = u.buffer /\ v.received = u.received
    BY Fields
  <1> HIDE DEF f
  <1>4. v \in DriverType
    BY <1>2, FieldReplaced
  <1> HIDE DEF v
  <1>5. /\ r \in DriverType /\ Others(v, r) /\ r.evts = Append(v.evts, e)
        /\ r.waiting = v.waiting /\ r.ready = v.ready /\ r.handler = v.handler /\ r.left = v.left
        /\ r.status = v.status /\ r.dma = v.dma /\ r.setupDir = v.setupDir
        /\ r.rcvOut = v.rcvOut /\ r.buffer = v.buffer /\ r.received = v.received
    BY <1>2, <1>4, Reported
  <1> HIDE DEF r
  <1>6. CASE ep \in u.waiting
    BY <1>1, <1>3, <1>4, <1>6 DEF Acknowledged, Others, f
  <1>7. CASE ep \notin u.waiting
    BY <1>1, <1>3, <1>5, <1>7 DEF Acknowledged, Others, f, e
  <1> QED BY <1>6, <1>7

\* The stage of endpoint 0's acknowledgements.
LEMMA DataDoneStage ==
  ASSUME NEW u \in DriverType
  PROVE  /\ SetupDataDone(u) \in DriverType
         /\ u.acked = {} => SetupDataDone(u) = u
         /\ u.acked # {} => SetupDataDone(u) = DataHandler(u, u.setupDir)
  <1>1. u.irqs /\ u.acked \cap Control = u.acked /\ u.setupDir \in Endpoints
    BY FieldTypes, TwoEndpoints
  <1>2. DataHandler(u, u.setupDir) \in DriverType
    BY <1>1, DataHandled DEF Acknowledged
  <1> QED BY <1>1, <1>2 DEF SetupDataDone

\* There is no suspend here.
LEMMA EventStage == ASSUME NEW u \in DriverType PROVE UsbEvent(u) = u
  <1>1. "SUSPEND" \notin u.causes /\ "RESUME" \notin u.causes
    BY FieldTypes DEF Causes
  <1> QED BY <1>1 DEF UsbEvent

\* Endpoint 0 is not among those of EPDATASTATUS.
LEMMA EpDataStage == ASSUME NEW u \in DriverType PROVE EpData(u) = u
  <1>1. u.acked \ Control = {} /\ u.irqs
    BY FieldTypes, TwoEndpoints
  <1> DEFINE At(x, ep) == IF ep \in u.acked \ Control THEN DataHandler(x, ep) ELSE x
             t1 == CHOOSE x \in {At(y, "IN1") : y \in {At(u, "IN0")}} : TRUE
             t2 == CHOOSE x \in {At(y, "OUT0") : y \in {t1}} : TRUE
             t3 == CHOOSE x \in {At(y, "OUT1") : y \in {t2}} : TRUE
  <1>2. EpData(u) = t3
    BY <1>1 DEF EpData, InTurn, Then
  <1>3. \A x, ep : At(x, ep) = x
    BY <1>1
  <1> HIDE DEF At
  <1>4. t1 = u
    <2>1. {At(y, "IN1") : y \in {At(u, "IN0")}} = {u}
      BY <1>3
    <2> QED BY <2>1
  <1> HIDE DEF t1
  <1>5. t2 = u
    <2>1. {At(y, "OUT0") : y \in {t1}} = {u}
      BY <1>3, <1>4
    <2> QED BY <2>1
  <1> HIDE DEF t2
  <1>6. t3 = u
    <2>1. {At(y, "OUT1") : y \in {t2}} = {u}
      BY <1>3, <1>5
    <2> QED BY <2>1
  <1> QED BY <1>2, <1>6

\* The endpoints that overflow: none, or the one that can.
LEMMA Overflows ==
  ASSUME NEW u, NEW eps \in {{}, {O}}
  PROVE  InTurn(u, eps, Overload) = IF eps = {} THEN u ELSE Overload(u, O)
  <1> DEFINE At(x, ep) == IF ep \in eps THEN Overload(x, ep) ELSE x
             t1 == CHOOSE x \in {At(y, "IN1") : y \in {At(u, "IN0")}} : TRUE
             t2 == CHOOSE x \in {At(y, "OUT0") : y \in {t1}} : TRUE
             t3 == CHOOSE x \in {At(y, "OUT1") : y \in {t2}} : TRUE
             v == IF eps = {} THEN u ELSE Overload(u, O)
  <1>1. InTurn(u, eps, Overload) = t3
    BY DEF InTurn, Then
  <1>2. "IN0" \notin eps /\ "IN1" \notin eps /\ "OUT1" \notin eps /\ (eps # {} <=> "OUT0" \in eps)
    BY DEF O
  <1>3. \A x : At(x, "IN0") = x /\ At(x, "IN1") = x /\ At(x, "OUT1") = x
    BY <1>2
  <1>4. At(u, "OUT0") = v
    BY <1>2 DEF O
  <1> HIDE DEF At, v
  <1>5. t1 = u
    <2>1. {At(y, "IN1") : y \in {At(u, "IN0")}} = {u}
      BY <1>3
    <2> QED BY <2>1
  <1> HIDE DEF t1
  <1>6. t2 = v
    <2>1. {At(y, "OUT0") : y \in {t1}} = {v}
      BY <1>4, <1>5
    <2> QED BY <2>1
  <1> HIDE DEF t2
  <1>7. t3 = v
    <2>1. {At(y, "OUT1") : y \in {t2}} = {v}
      BY <1>3, <1>6
    <2> QED BY <2>1
  <1> QED BY <1>1, <1>7 DEF v

\* The scheduler: the answer goes first, and only a report overflows.
LEMMA SchedulerIs ==
  ASSUME NEW u \in DriverType
  PROVE  DmaReqProcess(u) =
           IF u.dma # "none" THEN u
           ELSE IF I \in u.waiting \cap u.ready THEN StartDma(u, I)
           ELSE IF O \notin u.waiting \cap u.ready THEN u
           ELSE IF u.left[O] < u.buffer[O].size THEN Overload(u, O) ELSE StartDma(u, O)
  <1> DEFINE todo == u.waiting \cap u.ready
             fits == {ep \in todo : ~Overloaded(u, ep)}
             next == CHOOSE ep \in fits : \A f \in fits \ {ep} : Before(ep, f)
             skipped == {ep \in todo \ fits : fits # {} => Before(ep, next)}
             v == InTurn(u, skipped, Overload)
  <1>1. DmaReqProcess(u) = IF u.dma # "none" THEN u ELSE IF fits = {} THEN v ELSE StartDma(v, next)
    BY DEF DmaReqProcess
  <1>2. todo \subseteq {I, O} /\ I # O
    BY TwoEndpoints, FieldTypes
  <1>3. ~Overloaded(u, I) /\ (Overloaded(u, O) <=> u.left[O] < u.buffer[O].size)
    BY TwoEndpoints DEF Overloaded
  <1>4. Before(I, O) /\ ~Before(O, I)
    BY DEF Before, Bit, I, O
  <1>5. CASE I \in todo
    <2>1. I \in fits /\ fits \subseteq {I, O}
      BY <1>2, <1>3, <1>5
    <2>2. next = I
      <3> HIDE DEF fits
      <3>1. \A f \in fits \ {I} : Before(I, f)
        BY <1>4, <2>1
      <3>2. next \in fits /\ \A f \in fits \ {next} : Before(next, f)
        BY <2>1, <3>1
      <3> QED BY <1>4, <2>1, <3>2
    <2>3. skipped = {}
      <3> HIDE DEF next
      <3>1. todo \ fits \subseteq {O}
        BY <1>2, <2>1
      <3> HIDE DEF fits
      <3> QED BY <1>4, <2>1, <2>2, <3>1
    <2>4. v = u
      <3> HIDE DEF skipped
      <3> QED BY <2>3, Overflows
    <2> HIDE DEF fits, next, v
    <2> QED BY <1>1, <1>5, <2>1, <2>2, <2>4
  <1>6. CASE I \notin todo /\ O \notin todo
    <2>1. fits = {} /\ skipped = {}
      BY <1>2, <1>6
    <2>2. v = u
      <3> HIDE DEF skipped
      <3> QED BY <2>1, Overflows
    <2> HIDE DEF fits, next, v
    <2> QED BY <1>1, <1>6, <2>1, <2>2
  <1>7. CASE I \notin todo /\ O \in todo /\ Overloaded(u, O)
    <2>1. fits = {}
      BY <1>2, <1>7
    <2>2. skipped = {O}
      BY <1>2, <1>7, <2>1
    <2>3. v = Overload(u, O)
      <3> HIDE DEF skipped
      <3> QED BY <2>2, Overflows
    <2> HIDE DEF fits, next, v
    <2> QED BY <1>1, <1>3, <1>7, <2>1, <2>3
  <1>8. CASE I \notin todo /\ O \in todo /\ ~Overloaded(u, O)
    <2>1. fits = {O}
      BY <1>2, <1>8
    <2>2. skipped = {}
      <3>1. todo \ fits = {}
        BY <1>2, <1>8, <2>1
      <3> QED BY <3>1
    <2>3. next = O
      <3> HIDE DEF fits
      <3> QED BY <2>1
    <2>4. v = u
      <3> HIDE DEF skipped
      <3> QED BY <2>2, Overflows
    <2> HIDE DEF fits, next, v
    <2> QED BY <1>1, <1>3, <1>8, <2>1, <2>3, <2>4
  <1> QED BY <1>5, <1>6, <1>7, <1>8

\* A report that does not fit ends its transfer.
LEMMA OverloadIs ==
  ASSUME NEW u \in DriverType, NEW w, w = Overload(u, O)
  PROVE  /\ w \in DriverType /\ Others(u, w) /\ w.evts = Append(u.evts, <<O, "OVERLOAD">>)
         /\ w.waiting = u.waiting \ {O} /\ w.ready = u.ready /\ w.dma = u.dma
         /\ w.handler = u.handler /\ w.left = u.left /\ w.setupDir = u.setupDir
         /\ w.rcvOut = u.rcvOut /\ w.buffer = u.buffer /\ w.received = u.received
  <1> DEFINE f1 == [u.status EXCEPT ![O] = "OVERLOAD"]
             f2 == u.waiting \ {O}
             e == <<O, "OVERLOAD">>
             w1 == [u EXCEPT !.status = f1]
             w2 == [w1 EXCEPT !.waiting = f2]
             w3 == [w2 EXCEPT !.evts = Append(@, e)]
  <1>1. f1 \in [Endpoints -> Statuses] /\ f2 \in SUBSET Endpoints /\ e \in Events
    BY FieldTypes, TwoEndpoints, EventsAreEvents DEF Statuses
  <1>2. w = w3
    BY Fields DEF Overload, Report
  <1> HIDE DEF f1, f2, e
  <1>3. w1 \in DriverType
    BY <1>1, FieldReplaced
  <1>4. /\ w2.acked = u.acked /\ w2.causes = u.causes /\ w2.raised = u.raised
        /\ w2.stalled = u.stalled /\ w2.data = u.data /\ w2.evts = u.evts
        /\ w2.ready = u.ready /\ w2.waiting = f2 /\ w2.handler = u.handler /\ w2.left = u.left
        /\ w2.dma = u.dma /\ w2.setupDir = u.setupDir
        /\ w2.rcvOut = u.rcvOut /\ w2.buffer = u.buffer /\ w2.received = u.received
    BY Fields
  <1> HIDE DEF w1
  <1>5. w2 \in DriverType
    BY <1>1, <1>3, FieldReplaced
  <1> HIDE DEF w2
  <1>6. /\ w3 \in DriverType /\ Others(w2, w3) /\ w3.evts = Append(w2.evts, e)
        /\ w3.waiting = w2.waiting /\ w3.ready = w2.ready /\ w3.handler = w2.handler /\ w3.left = w2.left
        /\ w3.dma = w2.dma /\ w3.setupDir = w2.setupDir
        /\ w3.rcvOut = w2.rcvOut /\ w3.buffer = w2.buffer /\ w3.received = w2.received
    BY <1>1, <1>5, Reported
  <1> HIDE DEF w3
  <1> QED BY <1>2, <1>4, <1>6 DEF Others, f2, e

\* A packet of an answer is given to the DMA,
LEMMA StartedIn ==
  ASSUME NEW u \in DriverType, NEW w, w = StartDma(u, I), NEW size,
         size = IF u.left[I] <= EpSize THEN u.left[I] ELSE EpSize
  PROVE  /\ w \in DriverType /\ Others(u, w) /\ w.evts = u.evts
         /\ w.waiting = u.waiting /\ w.ready = u.ready \ {I} /\ w.dma = I
         /\ w.left[I] = u.left[I] - size /\ w.buffer[I] = Packet(u.data[I], size)
         /\ w.status = u.status /\ w.setupDir = u.setupDir /\ w.rcvOut = u.rcvOut
         /\ size \in 0 .. EpSize /\ u.left[I] - size \in Nat
  <1>1. u.left[I] \in Nat /\ I \in Endpoints /\ EpSize \in Nat /\ I \in Ins
    BY FieldTypes, TwoEndpoints
  <1>2. Chunk(u, I) = size /\ size \in 0 .. EpSize /\ u.left[I] - size \in Nat
    BY <1>1, MinIs DEF Chunk
  <1> DEFINE f1 == u.ready \ {I}
             f2 == [u.left EXCEPT ![I] = u.left[I] - size]
             f3 == [u.handler EXCEPT ![I] = IF Continues(u, I) THEN u.handler[I] ELSE "NULL"]
             f4 == [u.buffer EXCEPT ![I] = Packet(u.data[I], size)]
             w1 == [u EXCEPT !.dma = I]
             w2 == [w1 EXCEPT !.ready = f1]
             w3 == [w2 EXCEPT !.left = f2]
             w4 == [w3 EXCEPT !.handler = f3]
             w5 == [w4 EXCEPT !.buffer = f4]
  <1>3. f1 \in SUBSET Endpoints /\ f2 \in [Endpoints -> Nat] /\ f2[I] = u.left[I] - size
    BY <1>1, <1>2, FieldTypes
  <1>4. f3 \in [Endpoints -> Kinds]
    BY <1>1, FieldTypes DEF Kinds
  <1>5. f4 \in [Endpoints -> Packets] /\ f4[I] = Packet(u.data[I], size)
    <2>1. Packet(u.data[I], size) \in Packets
      BY <1>1, <1>2, FieldTypes DEF Packet, Packets
    <2> QED BY <1>1, <2>1, FieldTypes
  <1>6. w = w5
    <2>1. w = [[u EXCEPT !.dma = I, !.ready = f1,
                        !.left[I] = @ - size, !.handler[I] = IF Continues(u, I) THEN @ ELSE "NULL"]
                 EXCEPT !.buffer[I] = Packet(u.data[I], size)]
      BY <1>1, <1>2 DEF StartDma
    <2> QED BY <2>1, Fields
  <1> HIDE DEF f1, f2, f3, f4
  <1>7. /\ w5.acked = u.acked /\ w5.causes = u.causes /\ w5.raised = u.raised
        /\ w5.stalled = u.stalled /\ w5.data = u.data /\ w5.evts = u.evts
        /\ w5.waiting = u.waiting /\ w5.ready = f1 /\ w5.dma = I /\ w5.left = f2 /\ w5.buffer = f4
        /\ w5.status = u.status /\ w5.setupDir = u.setupDir /\ w5.rcvOut = u.rcvOut
    BY Fields
  <1>8. w1 \in DriverType
    BY <1>1, FieldReplaced
  <1> HIDE DEF w1
  <1>9. w2 \in DriverType
    BY <1>3, <1>8, FieldReplaced
  <1> HIDE DEF w2
  <1>10. w3 \in DriverType
    BY <1>3, <1>9, FieldReplaced
  <1> HIDE DEF w3
  <1>11. w4 \in DriverType
    BY <1>4, <1>10, FieldReplaced
  <1> HIDE DEF w4
  <1>12. w5 \in DriverType
    BY <1>5, <1>11, FieldReplaced
  <1> HIDE DEF w5
  <1> QED BY <1>2, <1>3, <1>5, <1>6, <1>7, <1>12 DEF Others, f1

\* and the packet of a report taken by it.
LEMMA StartedOut ==
  ASSUME NEW u \in DriverType, ~(u.left[O] < u.buffer[O].size), NEW w, w = StartDma(u, O)
  PROVE  /\ w \in DriverType /\ Others(u, w) /\ w.evts = u.evts
         /\ w.waiting = u.waiting /\ w.ready = u.ready \ {O} /\ w.dma = O
         /\ w.received[O] = u.buffer[O] /\ w.buffer[I] = u.buffer[I]
         /\ u.handler[O] = "consumer" /\ u.buffer[O].size # EpSize => w.handler[O] = "NULL"
         /\ w.status = u.status /\ w.setupDir = u.setupDir /\ w.rcvOut = u.rcvOut
  <1> DEFINE size == u.buffer[O].size
  <1>1. /\ O \in Endpoints /\ O \notin Ins /\ I \in Endpoints /\ I # O
        /\ u.left[O] \in Nat /\ u.buffer[O] \in Packets
    BY FieldTypes, TwoEndpoints
  <1>2. Chunk(u, O) = size /\ u.left[O] - size \in Nat
    <2>1. size \in 0 .. EpSize /\ EpSize \in Nat
      BY <1>1, TwoEndpoints DEF Packets
    <2> HIDE DEF size
    <2>2. ~(u.left[O] < size)
      BY DEF size
    <2>3. u.left[O] - size \in Nat
      BY <1>1, <2>1, <2>2
    <2> QED BY <1>1, <2>3 DEF Chunk, size
  <1> DEFINE f1 == u.ready \ {O}
             f2 == [u.left EXCEPT ![O] = u.left[O] - size]
             f3 == [u.handler EXCEPT ![O] = IF Continues(u, O) THEN u.handler[O] ELSE "NULL"]
             f4 == [u.received EXCEPT ![O] = u.buffer[O]]
             f5 == [u.buffer EXCEPT ![O] = NoPacket]
             w1 == [u EXCEPT !.dma = O]
             w2 == [w1 EXCEPT !.ready = f1]
             w3 == [w2 EXCEPT !.left = f2]
             w4 == [w3 EXCEPT !.handler = f3]
             w5 == [w4 EXCEPT !.received = f4]
             w6 == [w5 EXCEPT !.buffer = f5]
  <1>3. f1 \in SUBSET Endpoints /\ f2 \in [Endpoints -> Nat]
    BY <1>1, <1>2, FieldTypes
  <1>4. /\ f3 \in [Endpoints -> Kinds]
        /\ u.handler[O] = "consumer" /\ size # EpSize => f3[O] = "NULL"
    <2>1. f3 \in [Endpoints -> Kinds] /\ f3[O] = IF Continues(u, O) THEN u.handler[O] ELSE "NULL"
      BY <1>1, FieldTypes DEF Kinds
    <2>2. u.handler[O] = "consumer" /\ size # EpSize => ~Continues(u, O)
      BY <1>2 DEF Continues
    <2> QED BY <2>1, <2>2
  <1>5. /\ f4 \in [Endpoints -> Packets] /\ f4[O] = u.buffer[O]
        /\ f5 \in [Endpoints -> Packets] /\ f5[I] = u.buffer[I]
    BY <1>1, FieldTypes, NoPacketIs
  <1>6. w = w6
    <2>1. w = [[u EXCEPT !.dma = O, !.ready = f1,
                        !.left[O] = @ - size, !.handler[O] = IF Continues(u, O) THEN @ ELSE "NULL"]
                 EXCEPT !.received[O] = u.buffer[O], !.buffer[O] = NoPacket]
      BY <1>1, <1>2 DEF StartDma
    <2> QED BY <2>1, Fields
  <1> HIDE DEF f1, f2, f3, f4, f5
  <1>7. /\ w6.acked = u.acked /\ w6.causes = u.causes /\ w6.raised = u.raised
        /\ w6.stalled = u.stalled /\ w6.data = u.data /\ w6.evts = u.evts
        /\ w6.waiting = u.waiting /\ w6.ready = f1 /\ w6.dma = O /\ w6.handler = f3
        /\ w6.received = f4 /\ w6.buffer = f5
        /\ w6.status = u.status /\ w6.setupDir = u.setupDir /\ w6.rcvOut = u.rcvOut
    BY Fields
  <1>8. w1 \in DriverType
    BY <1>1, FieldReplaced
  <1> HIDE DEF w1
  <1>9. w2 \in DriverType
    BY <1>3, <1>8, FieldReplaced
  <1> HIDE DEF w2
  <1>10. w3 \in DriverType
    BY <1>3, <1>9, FieldReplaced
  <1> HIDE DEF w3
  <1>11. w4 \in DriverType
    BY <1>4, <1>10, FieldReplaced
  <1> HIDE DEF w4
  <1>12. w5 \in DriverType
    BY <1>5, <1>11, FieldReplaced
  <1> HIDE DEF w5
  <1>13. w6 \in DriverType
    BY <1>5, <1>12, FieldReplaced
  <1> HIDE DEF w6
  <1> QED BY <1>4, <1>5, <1>6, <1>7, <1>13 DEF Others, f1

\* The stage of the scheduler leaves no transfer that could start.
LEMMA DmaStage ==
  ASSUME NEW u \in DriverType, NEW w, w = DmaReqProcess(u)
  PROVE  w \in DriverType /\ (w.dma # "none" \/ w.waiting \cap w.ready = {})
  <1>1. u.waiting \subseteq {I, O}
    BY FieldTypes, TwoEndpoints
  <1>2. CASE u.dma # "none"
    BY <1>2, SchedulerIs
  <1>3. CASE u.dma = "none" /\ I \in u.waiting \cap u.ready
    <2>1. w = StartDma(u, I)
      BY <1>3, SchedulerIs
    <2> QED BY <2>1, StartedIn, TwoEndpoints
  <1>4. CASE u.dma = "none" /\ I \notin u.waiting \cap u.ready /\ O \notin u.waiting \cap u.ready
    BY <1>1, <1>4, SchedulerIs
  <1>5. CASE /\ u.dma = "none" /\ I \notin u.waiting \cap u.ready /\ O \in u.waiting \cap u.ready
             /\ u.left[O] < u.buffer[O].size
    <2>1. w = Overload(u, O)
      BY <1>5, SchedulerIs
    <2> QED BY <1>1, <1>5, <2>1, OverloadIs
  <1>6. CASE /\ u.dma = "none" /\ I \notin u.waiting \cap u.ready /\ O \in u.waiting \cap u.ready
             /\ ~(u.left[O] < u.buffer[O].size)
    <2>1. w = StartDma(u, O)
      BY <1>6, SchedulerIs
    <2> QED BY <1>6, <2>1, StartedOut, TwoEndpoints
  <1> QED BY <1>2, <1>3, <1>4, <1>5, <1>6

\* The abort of a transfer under way.
LEMMA AbortIs ==
  ASSUME NEW u \in DriverType, NEW ep \in Endpoints, Busy(u, ep), NEW w, w = Abort(u, ep)
  PROVE  /\ w \in DriverType /\ Others(u, w) /\ w.dma = u.dma /\ w.rcvOut = u.rcvOut
         /\ w.buffer = u.buffer /\ w.evts \in {u.evts, Append(u.evts, <<I, "ABORTED">>)}
         /\ w.ready \subseteq u.ready \cup {I}
  <1> DEFINE f1 == u.waiting \ {ep}
             f2 == IF ep = I THEN u.ready \cup {ep} ELSE u.ready \ {ep}
             f3 == [u.handler EXCEPT ![ep] = "NULL"]
             f4 == [u.status EXCEPT ![ep] = "ABORTED"]
             w1 == [u EXCEPT !.waiting = f1]
             w2 == [w1 EXCEPT !.ready = f2]
             w3 == [w2 EXCEPT !.handler = f3]
             w4 == [w3 EXCEPT !.status = f4]
             w5 == [w4 EXCEPT !.evts = Append(@, <<ep, "ABORTED">>)]
  <1>1. /\ f1 \in SUBSET Endpoints /\ f2 \in SUBSET Endpoints /\ f3 \in [Endpoints -> Kinds]
        /\ f4 \in [Endpoints -> Statuses] /\ <<ep, "ABORTED">> \in Events
        /\ f2 \subseteq u.ready \cup {I}
    BY FieldTypes, EventsAreEvents DEF Kinds, Statuses
  <1>2. w = IF ep = I THEN w5 ELSE w4
    <2>1. CASE ep = I
      <3>1. w = AbortIn(u, ep)
        BY <2>1, TwoEndpoints DEF Abort
      <3>2. w = Report([u EXCEPT !.waiting = f1, !.ready = f2, !.handler[ep] = "NULL",
                                 !.status[ep] = "ABORTED"], ep, "ABORTED")
        BY <2>1, <3>1 DEF AbortIn
      <3> QED BY <2>1, <3>2, Fields DEF Report
    <2>2. CASE ep # I
      <3>1. w = AbortOut(u, ep) /\ ep = O /\ ep \in u.waiting
        BY <2>2, TwoEndpoints DEF Abort, Busy
      <3>2. w = [[u EXCEPT !.status[ep] = "ABORTED"]
                   EXCEPT !.handler[ep] = "NULL", !.waiting = @ \ {ep}, !.ready = @ \ {ep}]
        BY <3>1 DEF AbortOut
      <3>3. w4 = [[u EXCEPT !.status[ep] = "ABORTED"]
                   EXCEPT !.handler[ep] = "NULL", !.waiting = @ \ {ep}, !.ready = @ \ {ep}]
        BY <2>2, Fields
      <3> QED BY <2>2, <3>2, <3>3
    <2> QED BY <2>1, <2>2
  <1> HIDE DEF f1, f2, f3, f4
  <1>3. /\ w4.acked = u.acked /\ w4.causes = u.causes /\ w4.raised = u.raised
        /\ w4.stalled = u.stalled /\ w4.data = u.data /\ w4.dma = u.dma /\ w4.rcvOut = u.rcvOut
        /\ w4.buffer = u.buffer /\ w4.evts = u.evts /\ w4.ready = f2
    BY Fields
  <1>4. w1 \in DriverType
    BY <1>1, FieldReplaced
  <1> HIDE DEF w1
  <1>5. w2 \in DriverType
    BY <1>1, <1>4, FieldReplaced
  <1> HIDE DEF w2
  <1>6. w3 \in DriverType
    BY <1>1, <1>5, FieldReplaced
  <1> HIDE DEF w3
  <1>7. w4 \in DriverType
    BY <1>1, <1>6, FieldReplaced
  <1> HIDE DEF w4
  <1>8. /\ w5 \in DriverType /\ Others(w4, w5) /\ w5.evts = Append(w4.evts, <<ep, "ABORTED">>)
        /\ w5.ready = w4.ready /\ w5.dma = w4.dma /\ w5.rcvOut = w4.rcvOut /\ w5.buffer = w4.buffer
    BY SMTT(30), <1>1, <1>7, Reported
  <1> HIDE DEF w5
  <1>9. CASE ep = I
    BY <1>1, <1>2, <1>3, <1>8, <1>9 DEF Others
  <1>10. CASE ep # I
    BY <1>1, <1>2, <1>3, <1>7, <1>10 DEF Others
  <1> QED BY <1>9, <1>10

\* The stage of a SETUP packet ends every transfer.
LEMMA SetupStage ==
  ASSUME NEW u \in DriverType, NEW dir \in Endpoints, NEW w, w = Setup(u, dir)
  PROVE  /\ w \in DriverType
         /\ "SETUP" \notin u.causes => w = u
         /\ "SETUP" \in u.causes =>
              /\ Others(u, w) /\ w.dma = u.dma /\ w.rcvOut = u.rcvOut /\ w.buffer = u.buffer
              /\ w.setupDir = dir /\ w.waiting = {}
              /\ w.ready \subseteq u.ready \cup {I} /\ I \in w.ready
              /\ w.evts \in {Append(u.evts, SETUP), Append(Append(u.evts, <<I, "ABORTED">>), SETUP)}
  <1>1. CASE "SETUP" \notin u.causes
    BY <1>1 DEF Setup
  <1>2. CASE "SETUP" \in u.causes
    <2> DEFINE v == IF Busy(u, u.setupDir) THEN Abort(u, u.setupDir) ELSE u
               f1 == v.waiting \ Control
               f2 == v.ready \cup (Control \cap Ins)
               w1 == [v EXCEPT !.setupDir = dir]
               w2 == [w1 EXCEPT !.waiting = f1]
               w3 == [w2 EXCEPT !.ready = f2]
               w4 == [w3 EXCEPT !.evts = Append(@, SETUP)]
    <2>1. u.irqs /\ u.setupDir \in Endpoints
      BY FieldTypes
    <2>2. /\ v \in DriverType /\ Others(u, v) /\ v.dma = u.dma /\ v.rcvOut = u.rcvOut
          /\ v.buffer = u.buffer /\ v.evts \in {u.evts, Append(u.evts, <<I, "ABORTED">>)}
          /\ v.ready \subseteq u.ready \cup {I}
      <3>1. CASE Busy(u, u.setupDir)
        <4>1. v = Abort(u, u.setupDir)
          BY <3>1
        <4> HIDE DEF v
        <4> QED BY <2>1, <3>1, <4>1, AbortIs
      <3>2. CASE ~Busy(u, u.setupDir)
        BY <3>2 DEF Others
      <3> QED BY <3>1, <3>2
    <2>3. w = Report([v EXCEPT !.setupDir = dir, !.waiting = @ \ Control,
                               !.ready = @ \cup (Control \cap Ins)], "SETUP", "")
      BY <1>2, <2>1 DEF Setup
    <2> HIDE DEF v
    <2>4. w = w4
      BY <2>2, <2>3, Fields DEF Report, SETUP
    <2>5. /\ f1 = {} /\ f2 = v.ready \cup {I} /\ f2 \subseteq Endpoints
      BY <2>2, FieldTypes, TwoEndpoints
    <2> HIDE DEF f1, f2
    <2>6. /\ w3.acked = v.acked /\ w3.causes = v.causes /\ w3.raised = v.raised
          /\ w3.stalled = v.stalled /\ w3.data = v.data /\ w3.dma = v.dma /\ w3.rcvOut = v.rcvOut
          /\ w3.buffer = v.buffer /\ w3.evts = v.evts /\ w3.ready = f2 /\ w3.waiting = f1
          /\ w3.setupDir = dir
      BY <2>2, Fields
    <2>7. w1 \in DriverType
      BY <2>2, FieldReplaced
    <2> HIDE DEF w1
    <2>8. w2 \in DriverType
      BY <2>5, <2>7, FieldReplaced
    <2> HIDE DEF w2
    <2>9. w3 \in DriverType
      BY <2>5, <2>8, FieldReplaced
    <2> HIDE DEF w3
    <2>10. /\ w4 \in DriverType /\ Others(w3, w4) /\ w4.evts = Append(w3.evts, SETUP)
           /\ w4.ready = w3.ready /\ w4.dma = w3.dma /\ w4.rcvOut = w3.rcvOut
           /\ w4.buffer = w3.buffer /\ w4.waiting = w3.waiting /\ w4.setupDir = w3.setupDir
      BY <2>9, Reported, EventsAreEvents
    <2> HIDE DEF w4
    <2> QED BY <1>2, <2>2, <2>4, <2>5, <2>6, <2>10 DEF Others
  <1> QED BY <1>1, <1>2

\* The interrupt is the chain of its stages, each of which keeps the types.
LEMMA InterruptIs ==
  ASSUME NEW u \in DriverType, NEW dir \in Endpoints,
         NEW v1, NEW v2, NEW v3, NEW v4, NEW v5, NEW v6,
         v1 = UsbReset(u), v2 = DmaEnd(v1, Ins), v3 = SetupDataDone(v2), v4 = DmaEnd(v3, Outs),
         v5 = DmaReqProcess(v4), v6 = Setup(v5, dir)
  PROVE  /\ v1 \in DriverType /\ v2 \in DriverType /\ v3 \in DriverType
         /\ v4 \in DriverType /\ v5 \in DriverType /\ v6 \in DriverType
         /\ Interrupt(u, dir) = Handled(v6)
  <1>1. v1 \in DriverType
    BY ResetStage
  <1>2. v2 \in DriverType
    BY <1>1, DmaEndStage
  <1>3. v3 \in DriverType
    BY <1>2, DataDoneStage
  <1>4. v4 \in DriverType
    BY <1>3, DmaEndStage
  <1>5. v5 \in DriverType
    BY <1>4, DmaStage
  <1>6. v6 \in DriverType
    BY <1>5, SetupStage
  <1> DEFINE t1 == CHOOSE w \in {UsbReset(v) : v \in {u}} : TRUE
             t2 == CHOOSE w \in {DmaEnd(v, Ins) : v \in {t1}} : TRUE
             t3 == CHOOSE w \in {SetupDataDone(v) : v \in {t2}} : TRUE
             t4 == CHOOSE w \in {DmaEnd(v, Outs) : v \in {t3}} : TRUE
             s5 == CHOOSE w \in {UsbEvent(v) : v \in {t4}} : TRUE
             s6 == CHOOSE w \in {EpData(v) : v \in {s5}} : TRUE
             t5 == CHOOSE w \in {DmaReqProcess(v) : v \in {s6}} : TRUE
             t6 == CHOOSE w \in {Setup(v, dir) : v \in {t5}} : TRUE
             t7 == CHOOSE w \in {Handled(v) : v \in {t6}} : TRUE
  <1>7. Interrupt(u, dir) = t7
    BY DEF Interrupt, Then
  <1>8. t1 = v1
    <2>1. {UsbReset(v) : v \in {u}} = {v1}
      OBVIOUS
    <2> QED BY <2>1
  <1> HIDE DEF t1
  <1>9. t2 = v2
    <2>1. {DmaEnd(v, Ins) : v \in {t1}} = {v2}
      BY <1>8
    <2> QED BY <2>1
  <1> HIDE DEF t2
  <1>10. t3 = v3
    <2>1. {SetupDataDone(v) : v \in {t2}} = {v3}
      BY <1>9
    <2> QED BY <2>1
  <1> HIDE DEF t3
  <1>11. t4 = v4
    <2>1. {DmaEnd(v, Outs) : v \in {t3}} = {v4}
      BY <1>10
    <2> QED BY <2>1
  <1> HIDE DEF t4
  <1>12. s5 = v4
    <2>1. UsbEvent(v4) = v4
      BY <1>4, EventStage
    <2>2. {UsbEvent(v) : v \in {t4}} = {v4}
      BY <1>11, <2>1
    <2> QED BY <2>2
  <1> HIDE DEF s5
  <1>13. s6 = v4
    <2>1. EpData(v4) = v4
      BY <1>4, EpDataStage
    <2>2. {EpData(v) : v \in {s5}} = {v4}
      BY <1>12, <2>1
    <2> QED BY <2>2
  <1> HIDE DEF s6
  <1>14. t5 = v5
    <2>1. {DmaReqProcess(v) : v \in {s6}} = {v5}
      BY <1>13
    <2> QED BY <2>1
  <1> HIDE DEF t5
  <1>15. t6 = v6
    <2>1. {Setup(v, dir) : v \in {t5}} = {v6}
      BY <1>14
    <2> QED BY <2>1
  <1> HIDE DEF t6
  <1>16. t7 = Handled(v6)
    <2>1. {Handled(v) : v \in {t6}} = {Handled(v6)}
      BY <1>15
    <2> QED BY <2>1
  <1> QED BY <1>1, <1>2, <1>3, <1>4, <1>5, <1>6, <1>7, <1>16

\* The end of the interrupt: its events are in the queue, and it has seen everything.
LEMMA HandledIs ==
  ASSUME NEW v \in DriverType, Put(Handled(v), queue)
  PROVE  /\ usbd' \in DriverType /\ usbd'.evts = <<>> /\ queue' = queue \o v.evts
         /\ usbd'.raised = FALSE /\ usbd'.causes = {} /\ usbd'.acked = {}
         /\ usbd'.stalled = v.stalled /\ usbd'.data = v.data
         /\ usbd'.waiting = v.waiting /\ usbd'.ready = v.ready /\ usbd'.handler = v.handler
         /\ usbd'.left = v.left /\ usbd'.status = v.status /\ usbd'.dma = v.dma
         /\ usbd'.setupDir = v.setupDir /\ usbd'.rcvOut = v.rcvOut
         /\ usbd'.buffer = v.buffer /\ usbd'.received = v.received
  <1> DEFINE none == {}
             w1 == [v EXCEPT !.raised = FALSE]
             w2 == [w1 EXCEPT !.causes = none]
             w3 == [w2 EXCEPT !.acked = none]
             w4 == [w3 EXCEPT !.evts = <<>>]
  <1>1. Handled(v) = w3
    <2>1. v.irqs
      BY FieldTypes
    <2> QED BY <2>1, Fields DEF Handled
  <1>2. usbd' = w4 /\ queue' = queue \o w3.evts
    <2>1. PICK x \in {Handled(v)} : usbd' = [x EXCEPT !.evts = <<>>] /\ queue' = queue \o x.evts
      BY DEF Put
    <2> QED BY <1>1, <2>1
  <1>3. /\ w4.evts = <<>> /\ w3.evts = v.evts /\ w4.raised = FALSE /\ w4.causes = none
        /\ w4.acked = none /\ w4.stalled = v.stalled /\ w4.data = v.data
        /\ w4.waiting = v.waiting /\ w4.ready = v.ready /\ w4.handler = v.handler
        /\ w4.left = v.left /\ w4.status = v.status /\ w4.dma = v.dma
        /\ w4.setupDir = v.setupDir /\ w4.rcvOut = v.rcvOut
        /\ w4.buffer = v.buffer /\ w4.received = v.received
    BY Fields
  <1>4. none \in SUBSET Causes /\ none \in SUBSET Endpoints /\ <<>> \in Seq(Events)
    OBVIOUS
  <1>5. w1 \in DriverType
    BY FieldReplaced
  <1> HIDE DEF w1
  <1>6. w2 \in DriverType
    BY <1>4, <1>5, FieldReplaced
  <1> HIDE DEF w2
  <1>7. w3 \in DriverType
    BY <1>4, <1>6, FieldReplaced
  <1> HIDE DEF w3
  <1>8. w4 \in DriverType
    BY <1>4, <1>7, FieldReplaced
  <1> HIDE DEF w4
  <1> QED BY <1>2, <1>3, <1>8

-----------------------------------------------------------------------------
(* The interrupt.                                                          *)

\* The requests.
LEMMA RequestTypes ==
  ASSUME NEW request \in Named
  PROVE  /\ request.dir \in Endpoints /\ request.length \in Nat /\ request.size \in Nat
         /\ request \in Sent =>
              /\ request.kind \in {"read", "getConfiguration", "unknownRead"} <=> request.dir = I
              /\ request.kind \in {"read", "getConfiguration", "unknownRead", "setReport"}
                   <=> request.length > 0
              /\ request.kind \in {"read", "getConfiguration", "unknownRead", "setAddress",
                                   "setConfiguration", "unknown", "setReport"}
  <1>1. CASE request \in Sent
    <2>1. request \in Requests /\ (request.kind = "read" => <<request.length, request.size>> \in Reads)
      BY <1>1 DEF Sent
    <2>2. CASE request.kind = "read"
      <3>1. <<request.length, request.size>> \in (Nat \ {0}) \X Nat
        BY <2>1, <2>2, UsbControlAssumption
      <3>2. request.dir = "IN0"
        BY <2>1, <2>2 DEF Requests
      <3> QED BY <2>2, <3>1, <3>2, TwoEndpoints DEF I
    <2>3. CASE request.kind # "read"
      <3>1. request.kind = "setReport" => request.length \in Nat \ {0} /\ request.dir = "OUT0" /\ request.size = 0
        BY <2>1, UsbControlAssumption DEF Requests
      <3>2. request.kind \in {"getConfiguration", "unknownRead"} =>
              request.dir = "IN0" /\ request.length = 1 /\ request.size = 1
        BY <2>1 DEF Requests
      <3>3. request.kind \in {"setAddress", "setConfiguration", "unknown"} =>
              request.dir = "OUT0" /\ request.length = 0 /\ request.size = 0
        BY <2>1 DEF Requests
      <3>4. request.kind \in {"getConfiguration", "unknownRead", "setAddress", "setConfiguration",
                            "unknown", "setReport"}
        BY <2>1, <2>3 DEF Requests
      <3> QED BY <3>1, <3>2, <3>3, <3>4, TwoEndpoints DEF I, O
    <2> QED BY <2>2, <2>3
  <1>2. CASE request \notin Sent
    <2>1. request = NoRequest
      BY <1>2 DEF Named
    <2> QED BY <1>2, <2>1, TwoEndpoints DEF NoRequest, O
  <1> QED BY <1>1, <1>2

\* The driver after the stages that may change it.
Stage1 == UsbReset(usbd)
Stage2 == DmaEnd(Stage1, Ins)
Stage3 == SetupDataDone(Stage2)
Stage4 == DmaEnd(Stage3, Outs)
Stage5 == DmaReqProcess(Stage4)
Stage6 == Setup(Stage5, setup.request.dir)

\* What the interrupt does.
LEMMA InterruptDoes ==
  ASSUME ControlInv, UsbInterrupt
  PROVE  /\ usbd \in DriverType /\ Stage1 \in DriverType /\ Stage2 \in DriverType
         /\ Stage3 \in DriverType /\ Stage4 \in DriverType /\ Stage5 \in DriverType
         /\ Stage6 \in DriverType /\ setup.request.dir \in Endpoints
         /\ usbd' \in DriverType /\ usbd'.evts = <<>> /\ queue' = queue \o Stage6.evts
         /\ usbd'.raised = FALSE /\ usbd'.causes = {} /\ usbd'.acked = {}
         /\ usbd'.stalled = Stage6.stalled /\ usbd'.data = Stage6.data
         /\ usbd'.waiting = Stage6.waiting /\ usbd'.ready = Stage6.ready
         /\ usbd'.handler = Stage6.handler /\ usbd'.left = Stage6.left
         /\ usbd'.status = Stage6.status /\ usbd'.dma = Stage6.dma
         /\ usbd'.setupDir = Stage6.setupDir /\ usbd'.rcvOut = Stage6.rcvOut
         /\ usbd'.buffer = Stage6.buffer /\ usbd'.received = Stage6.received
         /\ UNCHANGED <<setup, thread, handler, state, reports, status, host, budget>>
  <1>1. usbd \in DriverType /\ setup.request \in Named
    BY DEF ControlInv, Typing, RestTypes
  <1>2. setup.request.dir \in Endpoints
    BY <1>1, RequestTypes
  <1>3. /\ Stage1 \in DriverType /\ Stage2 \in DriverType
        /\ Stage3 \in DriverType /\ Stage4 \in DriverType /\ Stage5 \in DriverType
        /\ Stage6 \in DriverType /\ Interrupt(usbd, setup.request.dir) = Handled(Stage6)
    BY <1>1, <1>2, InterruptIs DEF Stage1, Stage2, Stage3, Stage4, Stage5, Stage6
  <1>4. Put(Handled(Stage6), queue)
    BY <1>3 DEF UsbInterrupt
  <1>5. UNCHANGED <<setup, thread, handler, state, reports, status, host, budget>>
    BY DEF UsbInterrupt, device
  <1> HIDE DEF Stage6, Stage5, Stage4, Stage3, Stage2, Stage1
  <1> QED BY <1>1, <1>2, <1>3, <1>4, <1>5, HandledIs

\* It keeps the types, and has started what could start.
LEMMA InterruptTypes ==
  ASSUME ControlInv, UsbInterrupt
  PROVE  Typing' /\ HostInv' /\ Scheduled(usbd)'
  <1>1. Typing'
    <2>1. usbd' \in DriverType /\ usbd'.evts = <<>> /\ queue' \in Seq(Events)
      <3>1. queue \in Seq(Events)
        BY DEF ControlInv, Typing, RestTypes
      <3>2. Stage6.evts \in Seq(Events)
        BY InterruptDoes, FieldTypes
      <3>3. queue \o Stage6.evts \in Seq(Events)
        BY <3>1, <3>2
      <3> QED BY <3>3, InterruptDoes
    <2>2. RestTypes'
      BY ZenonT(40), <2>1, InterruptDoes DEF ControlInv, Typing, RestTypes
    <2> QED BY <2>1, <2>2 DEF Typing
  <1>2. HostInv'
    BY InterruptDoes DEF ControlInv, HostInv
  <1>3. usbd'.dma # "none" \/ usbd'.waiting \cap usbd'.ready = {}
    <2>1. Stage4 \in DriverType /\ Stage5 = DmaReqProcess(Stage4)
      BY InterruptDoes DEF Stage5
    <2>2. Stage5 \in DriverType /\ (Stage5.dma # "none" \/ Stage5.waiting \cap Stage5.ready = {})
      BY <2>1, DmaStage
    <2>3. Stage6.dma # "none" \/ Stage6.waiting \cap Stage6.ready = {}
      <3>1. CASE "SETUP" \notin Stage5.causes
        <4>1. Stage6 = Stage5
          BY <2>2, <3>1, InterruptDoes, SetupStage DEF Stage6
        <4> QED BY <2>2, <4>1
      <3>2. CASE "SETUP" \in Stage5.causes
        <4>1. Stage6.waiting = {}
          BY <2>2, <3>2, InterruptDoes, SetupStage DEF Stage6
        <4> QED BY <4>1
      <3> QED BY <3>1, <3>2
    <2> QED BY <2>3, InterruptDoes
  <1>4. Scheduled(usbd)'
    BY <1>3 DEF Scheduled
  <1> QED BY <1>1, <1>2, <1>4

\* Without a reset, an end of a DMA or an acknowledgement it starts with the scheduler.
LEMMA NothingBefore ==
  ASSUME ControlInv, UsbInterrupt, "RESET" \notin usbd.causes, usbd.dma = "none", usbd.acked = {}
  PROVE  Stage4 = usbd
  <1>1. usbd \in DriverType /\ "none" \notin Ins /\ "none" \notin Outs
    BY InterruptDoes, TwoEndpoints
  <1>2. Stage1 = usbd
    BY <1>1, ResetStage DEF Stage1
  <1>3. Stage2 = usbd
    BY <1>1, <1>2, DmaEndStage DEF Stage2
  <1>4. Stage3 = usbd
    BY <1>1, <1>3, DataDoneStage DEF Stage3
  <1> QED BY <1>1, <1>4, DmaEndStage DEF Stage4

\* Without a SETUP packet it ends with the scheduler.
LEMMA NothingAfter ==
  ASSUME ControlInv, UsbInterrupt, "SETUP" \notin Stage5.causes
  PROVE  Stage6 = Stage5
  BY InterruptDoes, SetupStage DEF Stage6

\* The events of the interrupt, if the queue was empty.
LEMMA OnlyEvents ==
  ASSUME NEW e, NEW f
  PROVE  /\ Append(<<>>, e) = <<e>> /\ Append(Append(<<>>, e), f) = <<e, f>>
         /\ <<>> \o <<e>> = <<e>> /\ <<>> \o <<e, f>> = <<e, f>> /\ <<>> \o <<>> = <<>>
  <1>1. Append(<<>>, e) = <<e>>
    OBVIOUS
  <1>2. Append(<<e>>, f) = <<e, f>>
    <2> DEFINE p == Append(<<e>>, f)
               q == <<e, f>>
    <2>1. <<e>> \in Seq({e, f}) /\ f \in {e, f} /\ Len(<<e>>) = 1 /\ <<e>>[1] = e
      OBVIOUS
    <2>2. <<e, f>> \in Seq({e, f}) /\ Len(<<e, f>>) = 2 /\ <<e, f>>[1] = e /\ <<e, f>>[2] = f
      OBVIOUS
    <2>3. p \in Seq({e, f}) /\ Len(p) = 2 /\ p[1] = e /\ p[2] = f
      BY <2>1, AppendProperties
    <2> HIDE DEF p, q
    <2>4. \A i \in 1 .. 2 : p[i] = q[i]
      BY <2>2, <2>3 DEF q
    <2>5. p = q
      BY <2>2, <2>3, <2>4, SeqEqual DEF q
    <2> QED BY <2>5 DEF p, q
  <1>3. <<>> \o <<e>> = <<e>>
    OBVIOUS
  <1>4. <<>> \o <<e, f>> = <<e, f>>
    OBVIOUS
  <1>5. <<>> \o <<>> = <<>>
    OBVIOUS
  <1> QED BY <1>1, <1>2, <1>3, <1>4, <1>5

\* The phases of a clean request, in an interrupt: it arrives,
LEMMA ArrivedGoesOn ==
  ASSUME ControlInv, UsbInterrupt, Arrived
  PROVE  Noted'
  <1>1. "RESET" \notin usbd.causes /\ usbd.dma = "none" /\ usbd.acked = {} /\ usbd.causes = {"SETUP"}
    BY DEF Arrived
  <1>2. Stage4 = usbd
    BY <1>1, NothingBefore
  <1>3. I \notin usbd.waiting \cap usbd.ready /\ O \notin usbd.waiting \cap usbd.ready
    BY DEF Arrived
  <1>4. Stage5 = usbd
    BY <1>1, <1>2, <1>3, InterruptDoes, SchedulerIs DEF Stage5
  <1>5. usbd \in DriverType /\ setup.request.dir \in Endpoints /\ usbd.evts = <<>>
    BY InterruptDoes DEF ControlInv, Typing
  <1>6. /\ Others(usbd, Stage6) /\ Stage6.dma = usbd.dma /\ Stage6.rcvOut = usbd.rcvOut
        /\ Stage6.buffer = usbd.buffer /\ Stage6.setupDir = setup.request.dir /\ Stage6.waiting = {}
        /\ Stage6.ready \subseteq usbd.ready \cup {I} /\ I \in Stage6.ready
        /\ Stage6.evts \in {Append(<<>>, SETUP), Append(Append(<<>>, <<I, "ABORTED">>), SETUP)}
    BY SMTT(30), <1>1, <1>4, <1>5, SetupStage DEF Stage6
  <1>7. queue' \in {<<SETUP>>, <<<<I, "ABORTED">>, SETUP>>}
    <2>1. queue = <<>> /\ queue' = queue \o Stage6.evts
      BY InterruptDoes DEF Arrived
    <2>2. Stage6.evts \in {<<SETUP>>, <<<<I, "ABORTED">>, SETUP>>}
      BY <1>6, OnlyEvents
    <2> QED BY <2>1, <2>2, OnlyEvents
  <1>8. Stage6.ready = {I}
    <2>1. usbd.ready \subseteq {I}
      BY <1>5, FieldTypes, TwoEndpoints DEF Arrived
    <2> QED BY <1>6, <2>1
  <1>9. setup.request.dir = host.request.dir
    BY DEF ControlInv, HostInv
  <1>10. Rests(usbd)'
    BY <1>1, <1>6, InterruptDoes DEF Rests
  <1>11. Blank(usbd)'
    BY <1>6, InterruptDoes DEF Arrived, Blank, Others
  <1>12. Fresh(usbd)'
    BY <1>6, <1>8, <1>9, <1>10, <1>11, InterruptDoes DEF Fresh
  <1>13. Untouched' /\ thread'.at = "idle"
    BY InterruptDoes DEF Arrived, Untouched
  <1> QED BY <1>7, <1>12, <1>13 DEF Noted

\* What a transfer keeps in an interrupt that leaves the directions and the stalls.
LEMMA StillTransferring ==
  ASSUME NEW kinds, NEW end, Transferring(kinds, end), usbd'.stalled = usbd.stalled,
         usbd'.causes = {}, usbd'.setupDir = usbd.setupDir,
         UNCHANGED <<thread, handler, status, host>>
  PROVE  Transferring(kinds, end)'
  BY DEF Transferring

\* The next packet of an answer is given to the DMA by an interrupt,
LEMMA PacketStarts ==
  ASSUME ControlInv, UsbInterrupt, Sending, queue = <<>>,
         Stage4 \in DriverType, Others(usbd, Stage4), Stage4.evts = <<>>,
         Stage4.waiting = {I}, Stage4.ready = {I}, Stage4.dma = "none", Stage4.buffer[I] = NoPacket,
         Stage4.left = usbd.left, Stage4.status = usbd.status, Stage4.setupDir = usbd.setupDir,
         Stage4.rcvOut = usbd.rcvOut, usbd.buffer[I] = NoPacket, Number > 0
  PROVE  SendMoves'
  <1> DEFINE size == IF usbd.left[I] <= EpSize THEN usbd.left[I] ELSE EpSize
             packet == Packet(Number, size)
  <1>1. Stage5 = StartDma(Stage4, I)
    BY SchedulerIs DEF Stage5
  <1>2. /\ Stage5 \in DriverType /\ Others(Stage4, Stage5) /\ Stage5.evts = <<>>
        /\ Stage5.waiting = {I} /\ Stage5.ready = {} /\ Stage5.dma = I
        /\ Stage5.left[I] = usbd.left[I] - size /\ Stage5.buffer[I] = Packet(usbd.data[I], size)
        /\ Stage5.status = usbd.status /\ Stage5.setupDir = usbd.setupDir
        /\ Stage5.rcvOut = usbd.rcvOut /\ size \in 0 .. EpSize
    <2>1. Stage4.data = usbd.data /\ Stage4.ready \ {I} = {}
      BY DEF Others
    <2> QED BY <1>1, <2>1, StartedIn
  <1>3. usbd.causes = {} /\ usbd.stalled = {}
    BY DEF Sending, Transferring
  <1>4. Stage6 = Stage5
    BY <1>2, <1>3, NothingAfter DEF Others
  <1>5. Number \in Nat /\ Number # 0 /\ usbd.left[I] \in Nat /\ host.count \in Nat
    <2>1. Number \in Nat /\ Number # 0 /\ host.count \in Nat
      BY UsbControlAssumption DEF ThreadType, HostType, ControlInv, Typing, RestTypes, Numbers, Number
    <2>2. usbd.left[I] \in Nat
      BY InterruptDoes, FieldTypes, TwoEndpoints
    <2> QED BY <2>1, <2>2
  <1>6. usbd.data[I] = Number /\ usbd.status[I] = "OK" /\ ~usbd.rcvOut
    BY DEF Sending
  <1>7. /\ packet.data = Number /\ packet.size = size /\ packet # NoPacket
        /\ NoPacket.size = 0
    BY <1>5 DEF Packet, NoPacket
  <1> HIDE DEF packet
  <1>8. Stage5.buffer[I] = packet
    BY <1>2, <1>6 DEF packet
  <1>9. packet.size < EpSize => Stage5.left[I] = 0
    BY <1>2, <1>5, <1>7, TwoEndpoints
  <1>10. host.count + packet.size + Stage5.left[I] = Answered(host.request)
    <2>1. host.count + 0 + usbd.left[I] = Answered(host.request)
      BY <1>7 DEF Sending
    <2> HIDE DEF size
    <2> QED BY <1>2, <1>5, <1>7, <2>1
  <1> HIDE DEF size
  <1>11. /\ usbd'.buffer[I] = packet /\ usbd'.left[I] = Stage5.left[I] /\ usbd'.ready = {}
         /\ usbd'.waiting = {I} /\ usbd'.dma = I /\ usbd'.raised = FALSE /\ usbd'.acked = {}
         /\ usbd'.causes = {} /\ usbd'.status = usbd.status /\ usbd'.data = usbd.data
         /\ usbd'.setupDir = usbd.setupDir /\ usbd'.rcvOut = usbd.rcvOut
         /\ usbd'.stalled = usbd.stalled
    BY <1>2, <1>4, <1>8, InterruptDoes DEF Others
  <1>12. UNCHANGED <<thread, handler, status, host, setup>>
    BY InterruptDoes
  <1>13. Sending'
    <2>1. Transferring({"read", "getConfiguration"}, "empty")'
      BY <1>11, <1>12, StillTransferring DEF Sending
    <2>2. host'.count + usbd'.buffer[I].size + usbd'.left[I] = Answered(host'.request)
      BY <1>10, <1>11, <1>12
    <2> QED BY <1>6, <1>11, <1>12, <2>1, <2>2 DEF Sending, Number
  <1>14. queue' = <<>>
    BY <1>2, <1>4, InterruptDoes, OnlyEvents
  <1>15. OfAnswer(usbd.buffer[I])'
    BY <1>7, <1>9, <1>11, <1>12 DEF OfAnswer, Number
  <1> QED BY <1>11, <1>13, <1>14, <1>15 DEF SendMoves

\* as the first one is;
LEMMA SendAskedGoesOn ==
  ASSUME ControlInv, UsbInterrupt, SendAsked, Number > 0
  PROVE  SendMoves'
  <1>1. usbd.causes = {} /\ usbd.dma = "none" /\ usbd.acked = {}
    BY DEF SendAsked, Sending, Transferring
  <1>2. Stage4 = usbd
    BY <1>1, NothingBefore
  <1>3. usbd \in DriverType /\ usbd.evts = <<>>
    BY DEF ControlInv, Typing
  <1>4. Sending /\ queue = <<>> /\ usbd.waiting = {I} /\ usbd.ready = {I} /\ usbd.buffer[I] = NoPacket
    BY DEF SendAsked
  <1> QED BY <1>1, <1>2, <1>3, <1>4, PacketStarts DEF Others

\* once it is moved it is the host's;
LEMMA SendMovesGoesOn ==
  ASSUME ControlInv, UsbInterrupt, SendMoves
  PROVE  SendReady'
  <1>1. /\ usbd \in DriverType /\ usbd.evts = <<>> /\ usbd.causes = {} /\ usbd.dma = I
        /\ usbd.acked = {} /\ usbd.status[I] = "OK" /\ usbd.ready = {} /\ queue = <<>>
        /\ usbd.waiting \subseteq {I} /\ Sending /\ OfAnswer(usbd.buffer[I])
    BY DEF ControlInv, Typing, SendMoves, Sending, Transferring
  <1>2. Stage1 = usbd
    BY <1>1, ResetStage DEF Stage1
  <1>3. /\ Stage2 \in DriverType /\ Others(usbd, Stage2) /\ Stage2.evts = <<>>
        /\ Stage2.waiting \subseteq {I} /\ Stage2.ready = {} /\ Stage2.left = usbd.left
        /\ Stage2.status = usbd.status /\ Stage2.dma = "none" /\ Stage2.setupDir = usbd.setupDir
        /\ Stage2.rcvOut = usbd.rcvOut /\ Stage2.buffer = usbd.buffer
    BY ZenonT(40), <1>1, <1>2, InEnded DEF Stage2
  <1>4. Stage3 = Stage2
    <2>1. Stage2.acked = {}
      BY <1>1, <1>3 DEF Others
    <2> QED BY <1>3, <2>1, DataDoneStage DEF Stage3
  <1>5. Stage4 = Stage2
    BY <1>3, <1>4, DmaEndStage, TwoEndpoints DEF Stage4
  <1>6. Stage5 = Stage2
    <2>1. I \notin Stage2.waiting \cap Stage2.ready /\ O \notin Stage2.waiting \cap Stage2.ready
      BY <1>3
    <2> QED BY <1>3, <1>5, <2>1, SchedulerIs DEF Stage5
  <1>7. Stage6 = Stage2
    BY <1>1, <1>3, <1>6, NothingAfter DEF Others
  <1>8. UNCHANGED <<thread, handler, status, host, setup>>
    BY InterruptDoes
  <1>9. /\ usbd'.buffer = usbd.buffer /\ usbd'.left = usbd.left /\ usbd'.ready = {}
        /\ usbd'.waiting \subseteq {I} /\ usbd'.dma = "none" /\ usbd'.raised = FALSE
        /\ usbd'.acked = {} /\ usbd'.causes = {} /\ usbd'.status = usbd.status
        /\ usbd'.data = usbd.data /\ usbd'.setupDir = usbd.setupDir
        /\ usbd'.rcvOut = usbd.rcvOut /\ usbd'.stalled = usbd.stalled
    BY <1>3, <1>7, InterruptDoes DEF Others
  <1>10. Sending'
    <2>1. Transferring({"read", "getConfiguration"}, "empty")'
      BY <1>1, <1>8, <1>9, StillTransferring DEF Sending
    <2> QED BY <1>1, <1>8, <1>9, <2>1 DEF Sending, Number
  <1>11. queue' = <<>>
    BY <1>1, <1>3, <1>7, InterruptDoes, OnlyEvents
  <1>12. OfAnswer(usbd.buffer[I])'
    BY <1>1, <1>8, <1>9 DEF OfAnswer, Number
  <1> QED BY <1>9, <1>10, <1>11, <1>12 DEF SendReady

\* when it was fetched the next one starts, or the end is reported.
LEMMA SendFetchedGoesOn ==
  ASSUME ControlInv, UsbInterrupt, SendFetched, Number > 0
  PROVE  SendMoves' \/ SendEnds'
  <1>1. /\ usbd \in DriverType /\ usbd.evts = <<>> /\ usbd.causes = {} /\ usbd.dma = "none"
        /\ usbd.acked = {I} /\ usbd.status[I] = "OK" /\ usbd.ready = {} /\ queue = <<>>
        /\ usbd.waiting \subseteq {I} /\ Sending /\ usbd.buffer[I] = NoPacket
    BY DEF ControlInv, Typing, SendFetched, Sending, Transferring
  <1>2. usbd.setupDir = I
    <2>1. host.request \in Sent /\ host.request.kind \in {"read", "getConfiguration"}
      <3>1. host.request \in Named /\ host.request.kind # "none"
        BY <1>1 DEF HostType, ControlInv, Typing, RestTypes, Sending, Transferring
      <3> QED BY <1>1, <3>1 DEF Named, NoRequest, Sending, Transferring
    <2>2. host.request.dir = I
      BY <2>1, RequestTypes DEF Named
    <2> QED BY <1>1, <2>2 DEF Sending, Transferring
  <1>3. Stage1 = usbd
    BY <1>1, ResetStage DEF Stage1
  <1>4. Stage2 = usbd
    BY <1>1, <1>3, DmaEndStage, TwoEndpoints DEF Stage2
  <1>5. Stage3 = DataHandler(usbd, I)
    BY <1>1, <1>2, <1>4, DataDoneStage DEF Stage3
  <1>6. /\ Stage3 \in DriverType /\ Others(usbd, Stage3)
        /\ Stage3.evts = IF I \in usbd.waiting THEN <<>> ELSE Append(<<>>, <<I, "OK">>)
        /\ Stage3.ready = {I}
        /\ Stage3.waiting = usbd.waiting /\ Stage3.handler = usbd.handler /\ Stage3.left = usbd.left
        /\ Stage3.status = usbd.status /\ Stage3.dma = "none" /\ Stage3.setupDir = usbd.setupDir
        /\ Stage3.rcvOut = usbd.rcvOut /\ Stage3.buffer = usbd.buffer
    <2>1. I \in Endpoints /\ I \in Ins /\ usbd.ready \cup {I} = {I}
      BY <1>1, TwoEndpoints
    <2>2. Acknowledged(usbd, I, Stage3)
      BY <1>1, <1>5, <2>1, DataHandled
    <2> QED BY <1>1, <2>1, <2>2 DEF Acknowledged
  <1>7. Stage4 = Stage3
    BY <1>6, DmaEndStage, TwoEndpoints DEF Stage4
  <1>8. CASE I \in usbd.waiting
    <2>1. Stage4.waiting = {I} /\ Stage4.evts = <<>>
      BY <1>1, <1>6, <1>7, <1>8
    <2> QED BY <1>1, <1>6, <1>7, <2>1, PacketStarts
  <1>9. CASE I \notin usbd.waiting
    <2>1. Stage4.waiting = {} /\ Stage4.evts = <<<<I, "OK">>>>
      BY <1>1, <1>6, <1>7, <1>9, OnlyEvents
    <2>2. Stage5 = Stage3
      BY <1>6, <1>7, <2>1, SchedulerIs DEF Stage5
    <2>3. Stage6 = Stage3
      BY <1>1, <1>6, <2>2, NothingAfter DEF Others
    <2>4. UNCHANGED <<thread, handler, status, host, setup>>
      BY InterruptDoes
    <2>5. /\ usbd'.buffer = usbd.buffer /\ usbd'.left = usbd.left /\ usbd'.ready = {I}
          /\ usbd'.waiting = {} /\ usbd'.dma = "none" /\ usbd'.raised = FALSE
          /\ usbd'.acked = {} /\ usbd'.causes = {} /\ usbd'.status = usbd.status
          /\ usbd'.data = usbd.data /\ usbd'.setupDir = usbd.setupDir
          /\ usbd'.rcvOut = usbd.rcvOut /\ usbd'.stalled = usbd.stalled
      BY <1>6, <1>7, <2>1, <2>3, InterruptDoes DEF Others
    <2>6. Sending'
      <3>1. Transferring({"read", "getConfiguration"}, "empty")'
        BY <1>1, <2>4, <2>5, StillTransferring DEF Sending
      <3> QED BY <1>1, <2>4, <2>5, <3>1 DEF Sending, Number
    <2>7. queue' = <<<<I, "OK">>>>
      BY <1>1, <1>7, <2>1, <2>3, InterruptDoes, OnlyEvents
    <2> QED BY <1>1, <2>5, <2>6, <2>7 DEF SendEnds
  <1> QED BY <1>8, <1>9

\* The directions of the requests with a transfer.
LEMMA Directions ==
  ASSUME ControlInv
  PROVE  /\ Sending => host.request \in Sent /\ host.request.dir = I
         /\ Receiving => host.request \in Sent /\ host.request.dir = O /\ host.request.length \in Nat
  <1>1. host.request \in Named
    BY DEF HostType, ControlInv, Typing, RestTypes
  <1>2. CASE Sending \/ Receiving
    <2>1. host.request.kind \in {"read", "getConfiguration", "setReport"}
      BY <1>2 DEF Sending, Receiving, Transferring
    <2>2. host.request \in Sent
      BY <1>1, <2>1 DEF Named, NoRequest
    <2>3. host.request.kind = "setReport" => host.request.dir # I
      BY <1>1, <2>2, RequestTypes
    <2> QED BY <1>1, <2>2, <2>3, RequestTypes, TwoEndpoints DEF Sending, Receiving, Transferring
  <1> QED BY <1>2

\* A report is still asked for when the interrupt saw no packet;
LEMMA ReceiveAskedGoesOn ==
  ASSUME ControlInv, UsbInterrupt, ReceiveAsked
  PROVE  ReceiveAsked'
  <1>1. /\ usbd \in DriverType /\ usbd.evts = <<>> /\ usbd.causes = {} /\ usbd.dma = "none"
        /\ usbd.acked = {} /\ usbd.ready = {I} /\ queue = <<>>
        /\ usbd.waiting = {O} /\ Receiving
    BY DEF ControlInv, Typing, ReceiveAsked, Receiving, Transferring
  <1>2. Stage4 = usbd
    BY <1>1, NothingBefore
  <1>3. Stage5 = usbd
    BY <1>1, <1>2, SchedulerIs, TwoEndpoints DEF Stage5
  <1>4. Stage6 = usbd
    BY <1>1, <1>3, NothingAfter
  <1>5. UNCHANGED <<thread, handler, status, host, setup>>
    BY InterruptDoes
  <1>6. queue' = <<>>
    BY <1>1, <1>4, InterruptDoes, OnlyEvents
  <1>7. /\ usbd'.buffer = usbd.buffer /\ usbd'.left = usbd.left /\ usbd'.ready = {I}
        /\ usbd'.waiting = {O} /\ usbd'.dma = "none" /\ usbd'.raised = FALSE
        /\ usbd'.acked = {} /\ usbd'.causes = {} /\ usbd'.status = usbd.status
        /\ usbd'.handler = usbd.handler /\ usbd'.setupDir = usbd.setupDir
        /\ usbd'.rcvOut = usbd.rcvOut /\ usbd'.stalled = usbd.stalled
    BY <1>1, <1>4, InterruptDoes
  <1>8. Receiving'
    <2>1. Transferring({"setReport"}, "report")'
      BY <1>1, <1>5, <1>7, StillTransferring DEF Receiving
    <2> QED BY <1>1, <1>7, <2>1 DEF Receiving
  <1> QED BY <1>5, <1>6, <1>7, <1>8 DEF ReceiveAsked

\* when it did the packet is moved, or it is too long;
LEMMA ReceiveArrivedGoesOn ==
  ASSUME ControlInv, UsbInterrupt, ReceiveArrived
  PROVE  ReceiveMoves' \/ ReceiveOverflows'
  <1> DEFINE size == Min({EpSize, host.request.length})
  <1>1. /\ usbd \in DriverType /\ usbd.evts = <<>> /\ usbd.causes = {} /\ usbd.dma = "none"
        /\ usbd.acked = {O} /\ usbd.ready = {I} /\ queue = <<>> /\ usbd.status[O] = "OK"
        /\ usbd.waiting = {O} /\ Receiving /\ usbd.buffer[O] = Packet(Number, size)
        /\ usbd.left[O] = EpSize - 1 /\ usbd.handler[O] = "consumer" /\ usbd.buffer[I] = NoPacket
        /\ thread.at = "idle" /\ ~usbd.rcvOut
    BY DEF ControlInv, Typing, ReceiveArrived, Receiving, Transferring
  <1>2. usbd.setupDir = O /\ host.request.length \in Nat /\ host.request.kind = "setReport"
    BY <1>1, Directions DEF Receiving, Transferring
  <1>3. /\ size \in Nat /\ (Fits(host.request) => size < EpSize)
        /\ (~Fits(host.request) => size = EpSize)
    BY <1>2, MinIs, TwoEndpoints DEF Fits
  <1>4. usbd.buffer[O].size = size /\ usbd.buffer[O].data = Number
    BY <1>1 DEF Packet
  <1> HIDE DEF size
  <1>5. Stage1 = usbd
    BY <1>1, ResetStage DEF Stage1
  <1>6. Stage2 = usbd
    BY <1>1, <1>5, DmaEndStage, TwoEndpoints DEF Stage2
  <1>7. Stage3 = DataHandler(usbd, O)
    BY <1>1, <1>2, <1>6, DataDoneStage DEF Stage3
  <1>8. /\ Stage3 \in DriverType /\ Others(usbd, Stage3) /\ Stage3.evts = <<>>
        /\ Stage3.ready = {I, O}
        /\ Stage3.waiting = {O} /\ Stage3.handler = usbd.handler /\ Stage3.left = usbd.left
        /\ Stage3.status = usbd.status /\ Stage3.dma = "none" /\ Stage3.setupDir = usbd.setupDir
        /\ Stage3.rcvOut = usbd.rcvOut /\ Stage3.buffer = usbd.buffer
    <2>1. O \in Endpoints /\ usbd.ready \cup {O} = {I, O} /\ O \in usbd.waiting
      BY <1>1, TwoEndpoints
    <2>2. Acknowledged(usbd, O, Stage3)
      BY <1>1, <1>7, <2>1, DataHandled
    <2> QED BY <1>1, <2>1, <2>2 DEF Acknowledged
  <1>9. Stage4 = Stage3
    BY <1>8, DmaEndStage, TwoEndpoints DEF Stage4
  <1>10. I \notin Stage4.waiting \cap Stage4.ready /\ O \in Stage4.waiting \cap Stage4.ready
    BY <1>8, <1>9, TwoEndpoints
  <1>11. UNCHANGED <<thread, handler, status, host, setup>>
    BY InterruptDoes
  <1>12. CASE Fits(host.request)
    <2>1. ~(Stage4.left[O] < Stage4.buffer[O].size) /\ Stage4.buffer[O].size # EpSize
      BY <1>1, <1>3, <1>4, <1>8, <1>9, <1>12, TwoEndpoints
    <2>2. Stage5 = StartDma(Stage4, O)
      BY <1>8, <1>9, <1>10, <2>1, SchedulerIs DEF Stage5
    <2>3. /\ Stage5 \in DriverType /\ Others(Stage4, Stage5) /\ Stage5.evts = <<>>
          /\ Stage5.waiting = {O} /\ Stage5.ready = {I} /\ Stage5.dma = O
          /\ Stage5.received[O].data = Number /\ Stage5.buffer[I] = NoPacket
          /\ Stage5.handler[O] = "NULL"
          /\ Stage5.status = usbd.status /\ Stage5.setupDir = usbd.setupDir
          /\ Stage5.rcvOut = usbd.rcvOut
      <3>1. {I, O} \ {O} = {I}
        BY TwoEndpoints
      <3> QED BY SMTT(30), <1>1, <1>4, <1>8, <1>9, <2>1, <2>2, <3>1, StartedOut
    <2>4. Stage6 = Stage5
      BY <1>1, <1>8, <1>9, <2>3, NothingAfter DEF Others
    <2>5. /\ usbd'.received[O].data = Number /\ usbd'.buffer[I] = NoPacket /\ usbd'.ready = {I}
          /\ usbd'.waiting = {O} /\ usbd'.dma = O /\ usbd'.raised = FALSE
          /\ usbd'.acked = {} /\ usbd'.causes = {} /\ usbd'.status = usbd.status
          /\ usbd'.handler[O] = "NULL" /\ usbd'.setupDir = usbd.setupDir
          /\ usbd'.rcvOut = usbd.rcvOut /\ usbd'.stalled = usbd.stalled
      BY <1>8, <1>9, <2>3, <2>4, InterruptDoes DEF Others
    <2>6. queue' = <<>>
      BY <1>1, <2>3, <2>4, InterruptDoes, OnlyEvents
    <2>7. Receiving'
      <3>1. Transferring({"setReport"}, "report")'
        BY <1>1, <1>11, <2>5, StillTransferring DEF Receiving
      <3> QED BY <2>5, <3>1 DEF Receiving
    <2> QED BY <1>1, <1>11, <1>12, <2>5, <2>6, <2>7 DEF ReceiveMoves, Number
  <1>13. CASE ~Fits(host.request)
    <2>1. Stage4.left[O] < Stage4.buffer[O].size
      BY <1>1, <1>3, <1>4, <1>8, <1>9, <1>13, TwoEndpoints
    <2>2. Stage5 = Overload(Stage4, O)
      BY <1>8, <1>9, <1>10, <2>1, SchedulerIs DEF Stage5
    <2>3. /\ Stage5 \in DriverType /\ Others(Stage4, Stage5)
          /\ Stage5.evts = Append(<<>>, <<O, "OVERLOAD">>)
          /\ Stage5.waiting = {} /\ Stage5.dma = "none" /\ Stage5.buffer[I] = NoPacket
          /\ Stage5.setupDir = usbd.setupDir /\ Stage5.rcvOut = usbd.rcvOut
      <3>1. Stage5.evts = Append(Stage4.evts, <<O, "OVERLOAD">>)
        BY <1>8, <1>9, <2>2, OverloadIs
      <3>2. /\ Stage5 \in DriverType /\ Others(Stage4, Stage5)
            /\ Stage5.waiting = Stage4.waiting \ {O} /\ Stage5.dma = Stage4.dma
            /\ Stage5.buffer = Stage4.buffer
            /\ Stage5.setupDir = Stage4.setupDir /\ Stage5.rcvOut = Stage4.rcvOut
        BY <1>8, <1>9, <2>2, OverloadIs
      <3> QED BY <1>1, <1>8, <1>9, <3>1, <3>2
    <2>4. Stage6 = Stage5
      BY <1>1, <1>8, <1>9, <2>3, NothingAfter DEF Others
    <2>5. /\ usbd'.buffer[I] = NoPacket
          /\ usbd'.waiting = {} /\ usbd'.dma = "none" /\ usbd'.raised = FALSE
          /\ usbd'.acked = {} /\ usbd'.causes = {} /\ usbd'.setupDir = usbd.setupDir
          /\ usbd'.rcvOut = usbd.rcvOut /\ usbd'.stalled = usbd.stalled
      BY <1>8, <1>9, <2>3, <2>4, InterruptDoes DEF Others
    <2>6. queue' = <<<<O, "OVERLOAD">>>>
      <3> DEFINE e == <<O, "OVERLOAD">>
      <3>1. Stage6.evts = Append(<<>>, e) /\ queue' = <<>> \o Stage6.evts
        BY <1>1, <2>3, <2>4, InterruptDoes
      <3> HIDE DEF e
      <3>2. queue' = <<e>>
        BY <3>1, OnlyEvents
      <3> QED BY <3>2 DEF e
    <2>7. Receiving'
      <3>1. Transferring({"setReport"}, "report")'
        BY <1>1, <1>11, <2>5, StillTransferring DEF Receiving
      <3> QED BY <2>5, <3>1 DEF Receiving
    <2> QED BY <1>1, <1>11, <1>13, <2>5, <2>6, <2>7 DEF ReceiveOverflows
  <1> QED BY <1>12, <1>13

\* once it is moved it is reported.
LEMMA ReceiveMovesGoesOn ==
  ASSUME ControlInv, UsbInterrupt, ReceiveMoves
  PROVE  ReceiveEnds'
  <1>1. /\ usbd \in DriverType /\ usbd.evts = <<>> /\ usbd.causes = {} /\ usbd.dma = O
        /\ usbd.acked = {} /\ usbd.ready = {I} /\ queue = <<>> /\ usbd.status[O] = "OK"
        /\ usbd.waiting = {O} /\ Receiving /\ usbd.handler[O] = "NULL" /\ Fits(host.request)
        /\ usbd.buffer[I] = NoPacket /\ usbd.received[O].data = Number
        /\ thread.at = "idle" /\ ~usbd.rcvOut
    BY DEF ControlInv, Typing, ReceiveMoves, Receiving, Transferring
  <1>2. Stage1 = usbd
    BY <1>1, ResetStage DEF Stage1
  <1>3. Stage2 = usbd
    BY <1>1, <1>2, DmaEndStage, TwoEndpoints DEF Stage2
  <1>4. Stage3 = usbd
    BY <1>1, <1>3, DataDoneStage DEF Stage3
  <1>5. /\ Stage4 \in DriverType /\ Others(usbd, Stage4) /\ Stage4.evts = Append(<<>>, <<O, "OK">>)
        /\ Stage4.waiting = {} /\ Stage4.ready = {I} /\ Stage4.dma = "none"
        /\ Stage4.setupDir = usbd.setupDir /\ Stage4.rcvOut = usbd.rcvOut
        /\ Stage4.buffer = usbd.buffer /\ Stage4.received = usbd.received
    <2>1. Stage4 = DmaEnd(usbd, Outs) /\ usbd.waiting \ {O} = {}
      BY <1>1, <1>4 DEF Stage4
    <2>2. Stage4.evts = Append(usbd.evts, <<O, "OK">>)
      BY <1>1, <2>1, OutEnded
    <2>3. /\ Stage4 \in DriverType /\ Others(usbd, Stage4)
          /\ Stage4.waiting = usbd.waiting \ {O} /\ Stage4.ready = usbd.ready /\ Stage4.dma = "none"
          /\ Stage4.setupDir = usbd.setupDir /\ Stage4.rcvOut = usbd.rcvOut
          /\ Stage4.buffer = usbd.buffer /\ Stage4.received = usbd.received
      BY <1>1, <2>1, OutEnded
    <2> QED BY <1>1, <2>1, <2>2, <2>3
  <1>6. Stage5 = Stage4
    BY <1>5, SchedulerIs DEF Stage5
  <1>7. Stage6 = Stage4
    BY <1>1, <1>5, <1>6, NothingAfter DEF Others
  <1>8. UNCHANGED <<thread, handler, status, host, setup>>
    BY InterruptDoes
  <1>9. /\ usbd'.received = usbd.received /\ usbd'.buffer[I] = NoPacket /\ usbd'.ready = {I}
        /\ usbd'.waiting = {} /\ usbd'.dma = "none" /\ usbd'.raised = FALSE
        /\ usbd'.acked = {} /\ usbd'.causes = {} /\ usbd'.setupDir = usbd.setupDir
        /\ usbd'.rcvOut = usbd.rcvOut /\ usbd'.stalled = usbd.stalled
    BY <1>1, <1>5, <1>7, InterruptDoes DEF Others
  <1>10. queue' = <<<<O, "OK">>>>
    <2> DEFINE e == <<O, "OK">>
    <2>1. Stage6.evts = Append(<<>>, e) /\ queue' = <<>> \o Stage6.evts
      BY <1>1, <1>5, <1>7, InterruptDoes
    <2> HIDE DEF e
    <2>2. queue' = <<e>>
      BY <2>1, OnlyEvents
    <2> QED BY <2>2 DEF e
  <1>11. Receiving'
    <2>1. Transferring({"setReport"}, "report")'
      BY <1>1, <1>8, <1>9, StillTransferring DEF Receiving
    <2> QED BY <1>9, <2>1 DEF Receiving
  <1> QED BY <1>1, <1>8, <1>9, <1>10, <1>11 DEF ReceiveEnds, Number

\* In the other phases there is no interrupt.
LEMMA NoInterrupt ==
  ASSUME ControlInv, UsbInterrupt
  PROVE  /\ ~Noted /\ ~Serving /\ ~Answering /\ ~Settling /\ ~SendReady /\ ~SendEnds
         /\ ~ReceiveEnds /\ ~ReceiveOverflows
  <1>1. /\ usbd.raised \/ usbd.dma # "none" \/ usbd.causes # {} \/ usbd.acked # {}
    BY DEF UsbInterrupt, InterruptPending
  <1>2. ~Rests(usbd)
    BY <1>1 DEF Rests
  <1> QED BY <1>1, <1>2 DEF Noted, Serving, Answering, Settling, Fresh, NothingLeft, SendReady, SendEnds,
       Sending, ReceiveEnds, ReceiveOverflows, Receiving, Transferring

\* The interrupt keeps the invariant.
LEMMA UsbInterruptKeeps == ASSUME ControlInv, UsbInterrupt PROVE ControlInv'
  <1>1. Typing' /\ HostInv' /\ Scheduled(usbd)'
    BY InterruptTypes
  <1>2. CleanInv'
    <2>1. UNCHANGED <<setup, host>>
      BY InterruptDoes
    <2>2. ASSUME host.clean, host.ended # "abandoned" PROVE Stages' /\ Phases'
      <3>1. Stages /\ Phases
        BY <2>2 DEF ControlInv, CleanInv
      <3>2. Stages' /\ Number > 0
        BY <2>1, <3>1 DEF Stages, Number
      <3>3. Phases'
        BY <3>1, <3>2, NoInterrupt, ArrivedGoesOn, SendAskedGoesOn, SendMovesGoesOn,
           SendFetchedGoesOn, ReceiveAskedGoesOn, ReceiveArrivedGoesOn, ReceiveMovesGoesOn DEF Phases
      <3> QED BY <3>2, <3>3
    <2> QED BY <2>1, <2>2 DEF CleanInv
  <1> QED BY <1>1, <1>2 DEF ControlInv

-----------------------------------------------------------------------------
(* The main loop.                                                          *)

\* The parts of the types.
LEMMA Types ==
  ASSUME ControlInv
  PROVE  /\ usbd \in DriverType /\ usbd.evts = <<>>
         /\ queue \in Seq(Events)
         /\ setup.request \in Named /\ setup.number \in Numbers
         /\ setup \in [request : Named, number : Numbers]
         /\ thread.at \in {"idle", "serve", "answer"} /\ thread.ok \in BOOLEAN
         /\ thread.ep \in Endpoints \cup {"none"} /\ thread.for.request \in Named
         /\ thread.for.number \in Numbers
         /\ thread \in ThreadType
         /\ host.request \in Named /\ host.count \in Nat /\ host.request = setup.request
         /\ MaxRequests \in Nat /\ MaxAbandoned \in Nat
  BY UsbControlAssumption DEF ThreadType, HostType, ControlInv, Typing, RestTypes, HostInv

\* The events are different from each other.
LEMMA EventsDiffer ==
  /\ SETUP # RESET
  /\ \A ep \in Endpoints : \A s : <<ep, s>> # SETUP /\ <<ep, s>> # RESET
  /\ \A e, f : \A s, t : <<e, s>> = <<f, t>> => e = f /\ s = t
  BY TwoEndpoints DEF SETUP, RESET, I, O

\* What is first in a short queue, and what is left of it.
LEMMA ShortQueues ==
  ASSUME NEW e, NEW f
  PROVE  /\ Head(<<e>>) = e /\ Tail(<<e>>) = <<>> /\ Head(<<e, f>>) = e /\ Tail(<<e, f>>) = <<f>>
         /\ <<e>> # <<>> /\ <<e, f>> # <<>>
  <1>1. Head(<<e>>) = e /\ Head(<<e, f>>) = e /\ <<e>> # <<>> /\ <<e, f>> # <<>>
    OBVIOUS
  <1>2. Tail(<<e>>) = <<>>
    OBVIOUS
  <1>3. Tail(<<e, f>>) = <<f>>
    <2> DEFINE q == <<e, f>>
               p == Tail(q)
               r == <<f>>
    <2>1. q \in Seq({e, f}) /\ Len(q) = 2 /\ q[2] = f /\ q # <<>>
      OBVIOUS
    <2>2. r \in Seq({e, f}) /\ Len(r) = 1 /\ r[1] = f
      OBVIOUS
    <2> HIDE DEF q, r
    <2>3. p \in Seq({e, f}) /\ Len(p) = 1 /\ p[1] = q[2]
      BY <2>1
    <2> HIDE DEF p
    <2>4. p = r
      BY <2>1, <2>2, <2>3, SeqEqual
    <2> QED BY <2>4 DEF p, q, r
  <1> QED BY <1>1, <1>2, <1>3

\* The event the main loop takes, in the phases of a clean request.
LEMMA Taken ==
  ASSUME ControlInv, queue # <<>>, Phases
  PROVE  \/ Noted /\ Head(queue) = SETUP /\ Tail(queue) = <<>>
         \/ Noted /\ Head(queue) = <<I, "ABORTED">> /\ Tail(queue) = <<SETUP>>
         \/ SendEnds /\ Head(queue) = <<I, "OK">> /\ Tail(queue) = <<>>
         \/ ReceiveEnds /\ Head(queue) = <<O, "OK">> /\ Tail(queue) = <<>>
         \/ ReceiveOverflows /\ Head(queue) = <<O, "OVERLOAD">> /\ Tail(queue) = <<>>
  <1>1. Noted \/ SendEnds \/ ReceiveEnds \/ ReceiveOverflows
    BY DEF Phases, Arrived, Serving, Answering, Settling, NothingLeft, SendAsked, SendMoves,
       SendReady, SendFetched, ReceiveAsked, ReceiveArrived, ReceiveMoves
  <1>2. CASE Noted
    <2>1. queue = <<SETUP>> \/ queue = <<<<I, "ABORTED">>, SETUP>>
      BY <1>2 DEF Noted
    <2> DEFINE e == <<I, "ABORTED">>
    <2> HIDE DEF e
    <2>2. queue = <<SETUP>> \/ queue = <<e, SETUP>>
      BY <2>1 DEF e
    <2>3. \/ Head(queue) = SETUP /\ Tail(queue) = <<>>
          \/ Head(queue) = e /\ Tail(queue) = <<SETUP>>
      <3>1. CASE queue = <<SETUP>>
        BY <3>1, ShortQueues
      <3>2. CASE queue = <<e, SETUP>>
        BY <3>2, ShortQueues
      <3> QED BY <2>2, <3>1, <3>2
    <2> QED BY <1>2, <2>3 DEF e
  <1>3. CASE SendEnds
    <2> DEFINE e == <<I, "OK">>
    <2>1. queue = <<e>>
      BY <1>3 DEF SendEnds
    <2> HIDE DEF e
    <2>2. Head(queue) = e /\ Tail(queue) = <<>>
      BY <2>1, ShortQueues
    <2> QED BY <1>3, <2>2 DEF e
  <1>4. CASE ReceiveEnds
    <2> DEFINE e == <<O, "OK">>
    <2>1. queue = <<e>>
      BY <1>4 DEF ReceiveEnds
    <2> HIDE DEF e
    <2>2. Head(queue) = e /\ Tail(queue) = <<>>
      BY <2>1, ShortQueues
    <2> QED BY <1>4, <2>2 DEF e
  <1>5. CASE ReceiveOverflows
    <2> DEFINE e == <<O, "OVERLOAD">>
    <2>1. queue = <<e>>
      BY <1>5 DEF ReceiveOverflows
    <2> HIDE DEF e
    <2>2. Head(queue) = e /\ Tail(queue) = <<>>
      BY <2>1, ShortQueues
    <2> QED BY <1>5, <2>2 DEF e
  <1> QED BY <1>1, <1>2, <1>3, <1>4, <1>5

\* The parts of the invariant that are left when only the queue and the main loop go on.
LEMMA LoopTypes ==
  ASSUME ControlInv, UNCHANGED <<setup, host, budget>>,
         usbd' \in DriverType, usbd'.evts = <<>>, Scheduled(usbd)', queue' \in Seq(Events),
         thread' \in ThreadType,
         handler' \in {"NULL", "empty", "report"}, state' \in {"Default", "Addressed", "Configured"},
         reports' \subseteq Numbers, status' \in BOOLEAN,
         host.clean /\ host.ended # "abandoned" => Phases'
  PROVE  ControlInv'
  <1>1. Typing'
    BY DEF ControlInv, Typing, RestTypes
  <1>2. HostInv'
    BY DEF ControlInv, HostInv
  <1>3. CleanInv'
    BY DEF ControlInv, CleanInv, Stages, Number
  <1> QED BY <1>1, <1>2, <1>3 DEF ControlInv

\* The main loop with nothing to do.
LEMMA IdleIs ==
  /\ Idle.at = "idle" /\ Idle.ok = TRUE /\ Idle.ep = "none"
  /\ Idle \in ThreadType
  BY UsbControlAssumption DEF ThreadType, Idle, Numbered, Named, Numbers

\* The registers are read.
LEMMA ReadSetupKeeps == ASSUME ControlInv, ReadSetup PROVE ControlInv'
  <1>1. /\ thread' = [Idle EXCEPT !.at = "serve", !.for = setup] /\ handler' = "NULL"
        /\ queue' = Tail(queue) /\ queue # <<>> /\ Head(queue) = SETUP
        /\ UNCHANGED <<usbd, setup, state, reports, status, host, budget>>
    BY DEF ReadSetup, Executes, SETUP
  <1>2. /\ thread' \in ThreadType
        /\ thread'.at = "serve" /\ thread'.for = setup /\ thread'.ep = "none"
    BY <1>1, IdleIs, Types DEF ThreadType
  <1>3. queue' \in Seq(Events)
    BY <1>1, Types
  <1>4. ASSUME host.clean, host.ended # "abandoned" PROVE Phases'
    <2>1. Phases
      BY <1>4 DEF ControlInv, CleanInv
    <2>2. Noted /\ queue' = <<>>
      BY <1>1, <2>1, Taken, EventsDiffer, TwoEndpoints
    <2>3. Serving'
      BY <1>1, <1>2, <2>2 DEF Noted, Serving, Fresh, Rests, Blank, Untouched
    <2> QED BY <2>3 DEF Phases
  <1>5. /\ state' \in {"Default", "Addressed", "Configured"} /\ reports' \subseteq Numbers
        /\ status' \in BOOLEAN /\ usbd' \in DriverType /\ usbd'.evts = <<>> /\ Scheduled(usbd)'
    BY <1>1, Types DEF ControlInv, Typing, RestTypes, Scheduled
  <1> QED BY <1>1, <1>2, <1>3, <1>4, <1>5, LoopTypes

\* An abort is not of interest.
LEMMA IgnoreAbortedKeeps ==
  ASSUME ControlInv, NEW ep \in Endpoints, IgnoreAborted(ep) PROVE ControlInv'
  <1>1. /\ queue' = Tail(queue) /\ queue # <<>> /\ Head(queue) = <<ep, "ABORTED">>
        /\ UNCHANGED <<usbd, setup, thread, handler, state, reports, status, host, budget>>
    BY DEF IgnoreAborted, Executes, device
  <1>2. queue' \in Seq(Events)
    BY <1>1, Types
  <1>3. ASSUME host.clean, host.ended # "abandoned" PROVE Phases'
    <2>1. Phases
      BY <1>3 DEF ControlInv, CleanInv
    <2>2. Noted /\ queue' = <<SETUP>>
      <3>1. <<ep, "ABORTED">> # SETUP
        BY EventsDiffer
      <3>2. <<ep, "ABORTED">> \notin {<<I, "OK">>, <<O, "OK">>, <<O, "OVERLOAD">>}
        OBVIOUS
      <3> QED BY <1>1, <2>1, <3>1, <3>2, Taken
    <2>3. Noted'
      BY <1>1, <2>2 DEF Noted, Fresh, Rests, Blank, Untouched
    <2> QED BY <2>3 DEF Phases
  <1>4. /\ state' \in {"Default", "Addressed", "Configured"} /\ reports' \subseteq Numbers
        /\ status' \in BOOLEAN /\ usbd' \in DriverType /\ usbd'.evts = <<>> /\ Scheduled(usbd)'
        /\ thread' \in ThreadType
        /\ handler' \in {"NULL", "empty", "report"}
    BY <1>1, Types DEF ControlInv, Typing, RestTypes, Scheduled
  <1> QED BY <1>1, <1>2, <1>3, <1>4, LoopTypes

\* No reset is in the queue while a clean request is under way.
LEMMA ExecResetKeeps == ASSUME ControlInv, ExecReset PROVE ControlInv'
  <1>1. /\ queue' = Tail(queue) /\ queue # <<>> /\ Head(queue) = RESET /\ state' = "Default"
        /\ UNCHANGED <<usbd, setup, thread, handler, reports, status, host, budget>>
    BY DEF ExecReset, Executes, RESET
  <1>2. queue' \in Seq(Events)
    BY <1>1, Types
  <1>3. ASSUME host.clean, host.ended # "abandoned" PROVE Phases'
    <2>1. Phases
      BY <1>3 DEF ControlInv, CleanInv
    <2>2. FALSE
      BY <1>1, <2>1, Taken, EventsDiffer, TwoEndpoints
    <2> QED BY <2>2
  <1>4. /\ reports' \subseteq Numbers
        /\ status' \in BOOLEAN /\ usbd' \in DriverType /\ usbd'.evts = <<>> /\ Scheduled(usbd)'
        /\ thread' \in ThreadType
        /\ handler' \in {"NULL", "empty", "report"}
    BY <1>1, Types DEF ControlInv, Typing, RestTypes, Scheduled
  <1> QED BY <1>1, <1>2, <1>3, <1>4, LoopTypes

\* The length of an answer.
LEMMA AnsweredIs ==
  ASSUME NEW request \in Named
  PROVE  Answered(request) \in Nat /\ Answered(request) <= request.length
  <1>1. request.length \in Nat /\ request.size \in Nat
    BY RequestTypes
  <1> QED BY <1>1, MinIs DEF Answered

\* What the driver holds of a transfer it was given.
Given(u, w, ep, kind, data, size) ==
  /\ w \in DriverType /\ w.evts = u.evts
  /\ w.handler[ep] = kind /\ w.data[ep] = data /\ w.left[ep] = size /\ w.status[ep] = "OK"
  /\ w.waiting = u.waiting \cup {ep} /\ w.raised = TRUE
  /\ w.ready = u.ready /\ w.dma = u.dma /\ w.setupDir = u.setupDir /\ w.acked = u.acked
  /\ w.causes = u.causes /\ w.stalled = u.stalled /\ w.rcvOut = u.rcvOut
  /\ w.buffer = u.buffer

\* A transfer is accepted.
LEMMA TransferIs ==
  ASSUME NEW u \in DriverType, NEW ep \in Endpoints, NEW kind \in Kinds, NEW data \in Numbers,
         NEW size \in Nat
  PROVE  Given(u, Transfer(u, ep, kind, data, size), ep, kind, data, size)
  <1> DEFINE f1 == [u.handler EXCEPT ![ep] = kind]
             f2 == [u.data EXCEPT ![ep] = data]
             f3 == [u.left EXCEPT ![ep] = size]
             f4 == [u.status EXCEPT ![ep] = "OK"]
             f5 == u.waiting \cup {ep}
             w1 == [u EXCEPT !.handler = f1]
             w2 == [w1 EXCEPT !.data = f2]
             w3 == [w2 EXCEPT !.left = f3]
             w4 == [w3 EXCEPT !.status = f4]
             w5 == [w4 EXCEPT !.waiting = f5]
             w6 == [w5 EXCEPT !.raised = TRUE]
  <1>1. f1 \in [Endpoints -> Kinds] /\ f1[ep] = kind
    BY FieldTypes
  <1>2. f2 \in [Endpoints -> Numbers] /\ f2[ep] = data /\ f3 \in [Endpoints -> Nat] /\ f3[ep] = size
    BY FieldTypes
  <1>3. f4 \in [Endpoints -> Statuses] /\ f4[ep] = "OK" /\ f5 \in SUBSET Endpoints
    BY FieldTypes DEF Statuses
  <1>4. Transfer(u, ep, kind, data, size) = w6
    BY Fields DEF Transfer
  <1> HIDE DEF f1, f2, f3, f4, f5
  <1>5. /\ w6.evts = u.evts
        /\ w6.handler = f1 /\ w6.data = f2 /\ w6.left = f3 /\ w6.status = f4
        /\ w6.waiting = f5 /\ w6.raised = TRUE
        /\ w6.ready = u.ready /\ w6.dma = u.dma /\ w6.setupDir = u.setupDir /\ w6.acked = u.acked
        /\ w6.causes = u.causes /\ w6.stalled = u.stalled /\ w6.rcvOut = u.rcvOut
        /\ w6.buffer = u.buffer
    BY Fields
  <1>6. w1 \in DriverType
    BY <1>1, FieldReplaced
  <1> HIDE DEF w1
  <1>7. w2 \in DriverType
    BY <1>2, <1>6, FieldReplaced
  <1> HIDE DEF w2
  <1>8. w3 \in DriverType
    BY <1>2, <1>7, FieldReplaced
  <1> HIDE DEF w3
  <1>9. w4 \in DriverType
    BY <1>3, <1>8, FieldReplaced
  <1> HIDE DEF w4
  <1>10. w5 \in DriverType
    BY <1>3, <1>9, FieldReplaced
  <1> HIDE DEF w5
  <1>11. w6 \in DriverType
    BY <1>10, FieldReplaced
  <1> HIDE DEF w6
  <1> QED BY <1>1, <1>2, <1>3, <1>4, <1>5, <1>11 DEF f5, Given

\* The start of a transfer keeps the types; accepted, it is as the phases say.
LEMMA TransferStarts ==
  ASSUME ControlInv, NEW ep \in Endpoints, NEW kind \in Kinds, NEW size \in Nat,
         NEW then \in {"empty", "report"}, StartTransfer(ep, kind, size, then)
  PROVE  /\ usbd' \in DriverType /\ usbd'.evts = <<>> /\ Scheduled(usbd)'
         /\ thread' \in ThreadType
         /\ handler' \in {"NULL", "empty", "report"} /\ UNCHANGED <<state, reports>>
         /\ Accepts(usbd, ep) =>
              /\ handler' = then /\ thread'.at = "answer" /\ thread'.ok /\ thread'.ep = thread.ep
              /\ Given(usbd, usbd', ep, kind, thread.for.number, size)
  <1> DEFINE b == Accepts(usbd, ep)
             w == Transfer(usbd, ep, kind, thread.for.number, size)
  <1>1. /\ usbd' = IF b THEN w ELSE usbd
        /\ handler' = IF b THEN then ELSE handler
        /\ thread' = [thread EXCEPT !.at = "answer", !.ok = b]
        /\ UNCHANGED <<state, reports>>
    BY DEF StartTransfer
  <1>2. b \in BOOLEAN
    BY DEF Accepts
  <1>3. Given(usbd, w, ep, kind, thread.for.number, size)
    <2>1. usbd \in DriverType /\ thread.for.number \in Numbers
      BY Types
    <2> QED BY <2>1, TransferIs
  <1>4. handler \in {"NULL", "empty", "report"} /\ usbd \in DriverType /\ usbd.evts = <<>>
    BY DEF ControlInv, Typing, RestTypes
  <1> HIDE DEF b, w
  <1>5. /\ thread' \in ThreadType
        /\ thread'.at = "answer" /\ thread'.ep = thread.ep /\ thread'.ok = b
    <2>1. thread \in ThreadType
      BY Types
    <2> QED BY <1>1, <1>2, <2>1 DEF ThreadType
  <1>6. CASE b
    <2>1. usbd' = w /\ handler' = then
      BY <1>1, <1>6
    <2>2. Scheduled(usbd)'
      BY <1>3, <2>1 DEF Scheduled, Given
    <2>3. usbd' \in DriverType /\ usbd'.evts = <<>>
      BY <1>3, <1>4, <2>1 DEF Given
    <2> QED BY <1>1, <1>3, <1>5, <1>6, <2>1, <2>2, <2>3
  <1>7. CASE ~b
    <2>1. usbd' = usbd /\ handler' = handler
      BY <1>1, <1>7
    <2>2. Scheduled(usbd)'
      BY <2>1 DEF ControlInv, Scheduled
    <2> QED BY <1>1, <1>4, <1>5, <1>7, <2>1, <2>2 DEF b
  <1> QED BY <1>2, <1>6, <1>7

\* What is known of a clean request the main loop serves.
LEMMA WhenServing ==
  ASSUME ControlInv, thread.at = "serve", host.clean, host.ended # "abandoned"
  PROVE  /\ Serving /\ host.request \in Sent /\ thread.for.request = host.request
         /\ thread.for.number = Number /\ queue = <<>> /\ handler = "NULL" /\ thread.ep = "none"
         /\ usbd.waiting = {} /\ usbd.ready = {I} /\ usbd.setupDir = host.request.dir
         /\ Rests(usbd) /\ Blank(usbd) /\ Untouched
         /\ host.serves = Serves(host.request, state)
  <1>1. Phases /\ host.request \in Sent
    BY DEF ControlInv, CleanInv, Stages
  <1>2. Serving
    BY <1>1 DEF Phases, Arrived, Noted, Answering, Settling, SendAsked, SendMoves, SendReady,
       SendFetched, SendEnds, Sending, ReceiveAsked, ReceiveArrived, ReceiveMoves, ReceiveEnds,
       ReceiveOverflows, Receiving, Transferring
  <1> QED BY <1>1, <1>2, Types DEF Serving, Fresh, Untouched, Number

\* A clean request is answered next, and nothing was started for it.
LEMMA NothingStarted ==
  ASSUME ControlInv, thread.at = "serve", host.clean, host.ended # "abandoned",
         UNCHANGED <<usbd, queue, setup, status, host, handler>>, thread'.at = "answer",
         Outcome(thread.ok)'
  PROVE  Phases'
  <1>1. Answering'
    BY WhenServing DEF Answering, NothingLeft, Rests, Blank, Untouched
  <1> QED BY <1>1 DEF Phases

\* The answer of a read is started,
LEMMA ReadStarts ==
  ASSUME ControlInv, thread.at = "serve", thread.for.request.kind \in {"read", "getConfiguration"},
         Serves(thread.for.request, state), NEW kind \in Kinds,
         StartTransfer(I, kind, Answered(thread.for.request), "empty"),
         UNCHANGED <<queue, setup, status, host, budget>>
  PROVE  ControlInv'
  <1> DEFINE size == Answered(thread.for.request)
  <1>1. size \in Nat
    BY Types, AnsweredIs
  <1>2. StartTransfer(I, kind, size, "empty")
    OBVIOUS
  <1>3. thread.for.request \in Named
    BY Types
  <1>4. I \in Endpoints
    BY TwoEndpoints
  <1>5. host.clean /\ host.ended # "abandoned" => size = Answered(host.request)
    BY WhenServing
  <1> HIDE DEF size
  <1>6. /\ usbd' \in DriverType /\ usbd'.evts = <<>> /\ Scheduled(usbd)'
        /\ thread' \in ThreadType
        /\ handler' \in {"NULL", "empty", "report"} /\ UNCHANGED <<state, reports>>
        /\ Accepts(usbd, I) =>
             /\ handler' = "empty" /\ thread'.at = "answer" /\ thread'.ok /\ thread'.ep = thread.ep
             /\ Given(usbd, usbd', I, kind, thread.for.number, size)
    BY <1>1, <1>2, <1>4, TransferStarts
  <1>7. ASSUME host.clean, host.ended # "abandoned" PROVE Phases'
    <2>1. /\ Serving /\ host.request \in Sent /\ thread.for.request = host.request
          /\ thread.for.number = Number /\ queue = <<>> /\ thread.ep = "none"
          /\ usbd.waiting = {} /\ usbd.ready = {I} /\ usbd.setupDir = host.request.dir
          /\ Rests(usbd) /\ Blank(usbd) /\ Untouched
          /\ host.serves = Serves(host.request, state)
      BY <1>7, WhenServing
    <2>2. host.request.dir = I
      BY <2>1, RequestTypes DEF Named
    <2>3. Accepts(usbd, I)
      <3>1. I \notin usbd.waiting \cup (Ins \ usbd.ready)
        BY <2>1, TwoEndpoints
      <3> QED BY <2>1, <2>2, <3>1 DEF Accepts, Busy
    <2>4. /\ handler' = "empty" /\ thread'.at = "answer" /\ thread'.ok /\ thread'.ep = "none"
          /\ Given(usbd, usbd', I, kind, Number, size)
      BY <1>6, <2>1, <2>3
    <2>5. /\ usbd'.left[I] = size /\ usbd'.data[I] = Number /\ usbd'.status[I] = "OK"
          /\ usbd'.waiting = {I} /\ usbd'.raised /\ usbd'.ready = {I} /\ usbd'.dma = "none"
          /\ usbd'.acked = {} /\ usbd'.causes = {} /\ usbd'.stalled = {} /\ ~usbd'.rcvOut
          /\ usbd'.buffer[I] = NoPacket /\ usbd'.setupDir = host.request.dir
      BY <2>1, <2>4 DEF Given, Rests, Blank
    <2>6. host.count + usbd'.buffer[I].size + usbd'.left[I] = Answered(host.request)
      BY <1>1, <1>5, <1>7, <2>1, <2>5, NoPacketIs DEF Untouched
    <2>7. Sending'
      <3>1. host.serves /\ ~status /\ host.ended = "none"
        BY <2>1 DEF Untouched
      <3>2. Transferring({"read", "getConfiguration"}, "empty")'
        BY <2>1, <2>4, <2>5, <3>1 DEF Transferring
      <3> QED BY <2>5, <2>6, <3>2 DEF Sending, Number
    <2>8. SendAsked'
      BY <2>1, <2>5, <2>7 DEF SendAsked
    <2> QED BY <2>8 DEF Phases
  <1>8. state' \in {"Default", "Addressed", "Configured"} /\ reports' \subseteq Numbers
        /\ status' \in BOOLEAN /\ queue' \in Seq(Events)
    BY <1>6, Types DEF ControlInv, Typing, RestTypes
  <1> QED BY <1>6, <1>7, <1>8, LoopTypes

\* the report of a write asked for,
LEMMA WriteStarts ==
  ASSUME ControlInv, thread.at = "serve", thread.for.request.kind = "setReport",
         StartTransfer(O, "consumer", EpSize - 1, "report"),
         UNCHANGED <<queue, setup, status, host, budget>>
  PROVE  ControlInv'
  <1> DEFINE size == EpSize - 1
             kind == "consumer"
  <1>1. size \in Nat /\ kind \in Kinds
    BY TwoEndpoints DEF Kinds
  <1>2. StartTransfer(O, kind, size, "report")
    OBVIOUS
  <1>3. size = EpSize - 1 /\ kind = "consumer"
    OBVIOUS
  <1>4. O \in Endpoints
    BY TwoEndpoints
  <1> HIDE DEF size, kind
  <1>6. /\ usbd' \in DriverType /\ usbd'.evts = <<>> /\ Scheduled(usbd)'
        /\ thread' \in ThreadType
        /\ handler' \in {"NULL", "empty", "report"} /\ UNCHANGED <<state, reports>>
        /\ Accepts(usbd, O) =>
             /\ handler' = "report" /\ thread'.at = "answer" /\ thread'.ok /\ thread'.ep = thread.ep
             /\ Given(usbd, usbd', O, kind, thread.for.number, size)
    BY <1>1, <1>2, <1>4, TransferStarts
  <1>7. ASSUME host.clean, host.ended # "abandoned" PROVE Phases'
    <2>1. /\ Serving /\ host.request \in Sent /\ thread.for.request = host.request
          /\ thread.for.number = Number /\ queue = <<>> /\ thread.ep = "none"
          /\ usbd.waiting = {} /\ usbd.ready = {I} /\ usbd.setupDir = host.request.dir
          /\ Rests(usbd) /\ Blank(usbd) /\ Untouched
          /\ host.serves = Serves(host.request, state)
      BY <1>7, WhenServing
    <2>2. host.request.dir = O /\ host.request.length > 0
      <3>1. host.request.dir # I /\ host.request.dir \in Endpoints /\ host.request.length > 0
        BY <2>1, RequestTypes DEF Named
      <3> QED BY <3>1, TwoEndpoints
    <2>3. Accepts(usbd, O)
      <3>1. O \notin usbd.waiting \cup (Ins \ usbd.ready)
        BY <2>1, TwoEndpoints
      <3> QED BY <2>1, <2>2, <3>1 DEF Accepts, Busy
    <2>4. /\ handler' = "report" /\ thread'.at = "answer" /\ thread'.ok /\ thread'.ep = "none"
          /\ Given(usbd, usbd', O, kind, Number, size)
      BY <1>6, <2>1, <2>3
    <2>5. /\ usbd'.left[O] = size /\ usbd'.handler[O] = kind /\ usbd'.status[O] = "OK"
          /\ usbd'.waiting = {O} /\ usbd'.raised /\ usbd'.ready = {I} /\ usbd'.dma = "none"
          /\ usbd'.acked = {} /\ usbd'.causes = {} /\ usbd'.stalled = {} /\ ~usbd'.rcvOut
          /\ usbd'.buffer[I] = NoPacket /\ usbd'.setupDir = host.request.dir
      BY <2>1, <2>4 DEF Given, Rests, Blank
    <2>6. /\ host.serves /\ ~status /\ host.ended = "none" /\ host.count = 0 /\ host.stage = "data"
      <3>1. host.stage = "data"
        <4>1. host.request.length \in Nat
          BY Types, RequestTypes
        <4> QED BY <2>1, <2>2, <4>1 DEF Untouched
      <3> QED BY <2>1, <3>1 DEF Untouched, Serves
    <2>7. Receiving'
      <3>1. Transferring({"setReport"}, "report")'
        BY <2>1, <2>4, <2>5, <2>6 DEF Transferring
      <3> QED BY <2>5, <3>1 DEF Receiving
    <2>8. ReceiveAsked'
      BY <1>3, <2>1, <2>4, <2>5, <2>6, <2>7 DEF ReceiveAsked
    <2> QED BY <2>8 DEF Phases
  <1>8. state' \in {"Default", "Addressed", "Configured"} /\ reports' \subseteq Numbers
        /\ status' \in BOOLEAN /\ queue' \in Seq(Events)
    BY <1>6, Types DEF ControlInv, Typing, RestTypes
  <1> QED BY <1>6, <1>7, <1>8, LoopTypes

\* or nothing: the request is answered at once.
LEMMA NothingToStart ==
  ASSUME ControlInv, thread.at = "serve", NEW ok \in BOOLEAN,
         thread' = [thread EXCEPT !.at = "answer", !.ok = ok],
         state' \in {"Default", "Addressed", "Configured"},
         UNCHANGED <<usbd, handler, reports, queue, setup, status, host, budget>>,
         host.clean /\ host.ended # "abandoned" => Outcome(ok)'
  PROVE  ControlInv'
  <1>1. /\ thread' \in ThreadType
        /\ thread'.at = "answer" /\ thread'.ok = ok
    BY Types DEF ThreadType
  <1>2. ASSUME host.clean, host.ended # "abandoned" PROVE Phases'
    <2>1. Outcome(thread.ok)'
      BY <1>1, <1>2 DEF Outcome
    <2> QED BY <1>1, <1>2, <2>1, NothingStarted
  <1>3. /\ reports' \subseteq Numbers /\ status' \in BOOLEAN /\ queue' \in Seq(Events)
        /\ usbd' \in DriverType /\ usbd'.evts = <<>> /\ Scheduled(usbd)'
        /\ handler' \in {"NULL", "empty", "report"}
    BY Types DEF ControlInv, Typing, RestTypes, Scheduled
  <1> QED BY <1>1, <1>2, <1>3, LoopTypes

\* The request is served.
LEMMA ServeKeeps == ASSUME ControlInv, Serve PROVE ControlInv'
  <1> DEFINE request == thread.for.request
             kind == IF ZlpRequired(request) THEN "feeder_zlp" ELSE "feeder"
  <1>1. thread.at = "serve" /\ UNCHANGED <<queue, setup, status, host, budget>>
    BY DEF Serve
  <1>2. host.clean /\ host.ended # "abandoned" =>
          request = host.request /\ host.serves = Serves(host.request, state)
    BY <1>1, WhenServing
  <1>3. kind \in Kinds
    BY DEF Kinds
  <1>4. CASE /\ request.kind \in {"read", "getConfiguration"} /\ Serves(request, state)
             /\ StartTransfer("IN0", kind, Answered(request), "empty")
    <2>1. StartTransfer(I, kind, Answered(request), "empty")
      BY <1>4 DEF I
    <2> HIDE DEF kind
    <2> QED BY <1>1, <1>3, <1>4, <2>1, ReadStarts
  <1>5. CASE request.kind = "setReport" /\ StartTransfer("OUT0", "consumer", EpSize - 1, "report")
    <2>1. StartTransfer(O, "consumer", EpSize - 1, "report")
      BY <1>5 DEF O
    <2> QED BY <1>1, <1>5, <2>1, WriteStarts
  <1>6. CASE request.kind = "setAddress" /\ SetState("Addressed")
    <2>1. /\ thread' = [thread EXCEPT !.at = "answer", !.ok = TRUE] /\ state' = "Addressed"
          /\ UNCHANGED <<usbd, handler, reports>>
      BY <1>6 DEF SetState
    <2>2. host.clean /\ host.ended # "abandoned" => Outcome(TRUE)'
      BY <1>1, <1>2, <1>6, <2>1 DEF Outcome, Serves, Fits
    <2> QED BY <1>1, <2>1, <2>2, NothingToStart
  <1>7. CASE request.kind = "setConfiguration" /\ Serves(request, state) /\ SetState("Configured")
    <2>1. /\ thread' = [thread EXCEPT !.at = "answer", !.ok = TRUE] /\ state' = "Configured"
          /\ UNCHANGED <<usbd, handler, reports>>
      BY <1>7 DEF SetState
    <2>2. host.clean /\ host.ended # "abandoned" => Outcome(TRUE)'
      BY <1>1, <1>2, <1>7, <2>1 DEF Outcome, Fits
    <2> QED BY <1>1, <2>1, <2>2, NothingToStart
  <1>8. CASE ~Serves(request, state) /\ Refuse
    <2>1. /\ thread' = [thread EXCEPT !.at = "answer", !.ok = FALSE]
          /\ UNCHANGED <<usbd, handler, state, reports>>
      BY <1>8 DEF Refuse
    <2>2. host.clean /\ host.ended # "abandoned" => Outcome(FALSE)'
      BY <1>1, <1>2, <1>8, <2>1 DEF Outcome
    <2>3. state' \in {"Default", "Addressed", "Configured"}
      BY <2>1 DEF ControlInv, Typing, RestTypes
    <2> QED BY <1>1, <2>1, <2>2, <2>3, NothingToStart
  <1> QED BY <1>4, <1>5, <1>6, <1>7, <1>8 DEF Serve

\* The end of a transfer is handled.
LEMMA CallHandlerKeeps ==
  ASSUME ControlInv, NEW ep \in Endpoints, NEW result \in {"OK", "OVERLOAD", "WAITING"},
         CallHandler(ep, result)
  PROVE  ControlInv'
  <1> DEFINE ok == handler = "empty" \/ (handler = "report" /\ result = "OK")
             e == <<ep, result>>
             data == usbd.received["OUT0"].data
  <1>1. /\ thread.at = "idle" /\ queue # <<>> /\ Head(queue) = e
        /\ thread' = [Idle EXCEPT !.at = "answer", !.ep = ep, !.ok = ok]
        /\ reports' = IF handler = "report" /\ ok THEN reports \cup {data} ELSE reports
        /\ handler' = "NULL" /\ queue' = Tail(queue)
        /\ UNCHANGED <<usbd, setup, state, status, host, budget>>
    BY DEF CallHandler, Executes
  <1>2. ok \in BOOLEAN
    OBVIOUS
  <1>3. data = usbd.received[O].data /\ data \in Numbers
    <2>1. usbd.received \in [Endpoints -> Packets] /\ O \in Endpoints
      BY Types, FieldTypes, TwoEndpoints
    <2>2. usbd.received[O] \in Packets
      BY <2>1
    <2> QED BY <2>2 DEF Packets, O
  <1>4. /\ e # SETUP /\ e # <<I, "ABORTED">> /\ (e = <<I, "OK">> => result = "OK")
        /\ (e = <<O, "OK">> => result = "OK") /\ (e = <<O, "OVERLOAD">> => result = "OVERLOAD")
    BY EventsDiffer
  <1>5. (result = "OK" => (ok <=> handler \in {"empty", "report"}))
        /\ (result = "OVERLOAD" /\ handler = "report" => ~ok)
    OBVIOUS
  <1> HIDE DEF ok, e, data
  <1>6. /\ thread' \in ThreadType
        /\ thread'.at = "answer" /\ thread'.ok = ok
    BY <1>1, <1>2, IdleIs DEF ThreadType
  <1>7. reports' \subseteq Numbers
    BY <1>1, <1>3 DEF ControlInv, Typing, RestTypes
  <1>8. queue' \in Seq(Events)
    BY <1>1, Types
  <1>9. ASSUME host.clean, host.ended # "abandoned" PROVE Phases'
    <2>1. Phases
      BY <1>9 DEF ControlInv, CleanInv
    <2>2. \/ SendEnds /\ e = <<I, "OK">> /\ queue' = <<>>
          \/ ReceiveEnds /\ e = <<O, "OK">> /\ queue' = <<>>
          \/ ReceiveOverflows /\ e = <<O, "OVERLOAD">> /\ queue' = <<>>
      BY <1>1, <1>4, <2>1, Taken
    <2>3. CASE SendEnds /\ e = <<I, "OK">>
      <3>1. /\ Sending /\ usbd.raised = FALSE /\ usbd.dma = "none" /\ usbd.acked = {} /\ usbd.ready = {I}
            /\ usbd.waiting = {} /\ usbd.buffer[I] = NoPacket
        BY <2>3, Types, FieldTypes DEF SendEnds
      <3>2. /\ usbd.stalled = {} /\ usbd.causes = {} /\ ~status /\ host.ended = "none" /\ host.serves
            /\ host.request.kind \in {"read", "getConfiguration"} /\ handler = "empty" /\ ~usbd.rcvOut
        BY <3>1 DEF Sending, Transferring
      <3>3. ok
        BY <1>4, <1>5, <2>3, <3>2
      <3>4. Outcome(TRUE)'
        BY <1>1, <3>2 DEF Outcome, Fits
      <3>5. Outcome(thread.ok)'
        BY <1>6, <3>3, <3>4 DEF Outcome
      <3>6. NothingLeft'
        BY <1>1, <2>2, <3>1, <3>2 DEF NothingLeft, Rests
      <3>7. Answering'
        BY <1>1, <1>6, <3>2, <3>5, <3>6 DEF Answering
      <3> QED BY <3>7 DEF Phases
    <2>4. CASE ReceiveEnds /\ e = <<O, "OK">>
      <3>1. /\ Receiving /\ usbd.raised = FALSE /\ usbd.dma = "none" /\ usbd.acked = {} /\ usbd.ready = {I}
            /\ usbd.waiting = {} /\ usbd.buffer[I] = NoPacket /\ Fits(host.request) /\ ~usbd.rcvOut
            /\ usbd.received[O].data = Number
        BY <2>4, Types, FieldTypes DEF ReceiveEnds, Receiving
      <3>2. /\ usbd.stalled = {} /\ usbd.causes = {} /\ ~status /\ host.ended = "none" /\ host.serves
            /\ host.request.kind = "setReport" /\ handler = "report"
        BY <3>1 DEF Receiving, Transferring
      <3>3. ok
        BY <1>4, <1>5, <2>4, <3>2
      <3>4. Number \in reports'
        BY <1>1, <1>3, <3>1, <3>2, <3>3
      <3>5. Outcome(TRUE)'
        BY <1>1, <3>1, <3>2, <3>4 DEF Outcome, Fits, Number
      <3>6. Outcome(thread.ok)'
        BY <1>6, <3>3, <3>5 DEF Outcome
      <3>7. NothingLeft'
        BY <1>1, <2>2, <3>1, <3>2 DEF NothingLeft, Rests
      <3>8. Answering'
        BY <1>1, <1>6, <3>2, <3>6, <3>7 DEF Answering
      <3> QED BY <3>8 DEF Phases
    <2>5. CASE ReceiveOverflows /\ e = <<O, "OVERLOAD">>
      <3>1. /\ Receiving /\ usbd.raised = FALSE /\ usbd.dma = "none" /\ usbd.acked = {}
            /\ usbd.waiting = {} /\ usbd.buffer[I] = NoPacket /\ ~Fits(host.request) /\ ~usbd.rcvOut
        BY <2>5, Types, FieldTypes DEF ReceiveOverflows, Receiving
      <3>2. /\ usbd.stalled = {} /\ usbd.causes = {} /\ ~status /\ host.ended = "none"
            /\ host.request.kind = "setReport" /\ handler = "report"
        BY <3>1 DEF Receiving, Transferring
      <3>3. ~ok
        BY <1>4, <1>5, <2>5, <3>2
      <3>4. Outcome(FALSE)'
        BY <1>1, <3>1 DEF Outcome, Fits
      <3>5. Outcome(thread.ok)'
        BY <1>2, <1>6, <3>3, <3>4 DEF Outcome
      <3>6. ~Fits(host.request)'
        BY <1>1, <3>1 DEF Fits
      <3>7. NothingLeft'
        BY <1>1, <2>2, <3>1, <3>2, <3>6 DEF NothingLeft, Rests
      <3>8. Answering'
        BY <1>1, <1>6, <3>2, <3>5, <3>7 DEF Answering
      <3> QED BY <3>8 DEF Phases
    <2> QED BY <2>2, <2>3, <2>4, <2>5
  <1>10. /\ state' \in {"Default", "Addressed", "Configured"} /\ status' \in BOOLEAN
         /\ usbd' \in DriverType /\ usbd'.evts = <<>> /\ Scheduled(usbd)'
         /\ handler' \in {"NULL", "empty", "report"}
    BY <1>1, Types DEF ControlInv, Typing, RestTypes, Scheduled
  <1> QED BY <1>1, <1>6, <1>7, <1>8, <1>9, <1>10, LoopTypes

\* The answer: a stall, the status stage or the data stage.
AnswerDoes(w) ==
  /\ w \in DriverType /\ w.evts = usbd.evts
  /\ w.waiting = usbd.waiting /\ w.ready = usbd.ready /\ w.handler = usbd.handler
  /\ w.left = usbd.left /\ w.status = usbd.status /\ w.dma = usbd.dma
  /\ w.setupDir = usbd.setupDir /\ w.acked = usbd.acked /\ w.causes = usbd.causes
  /\ w.raised = usbd.raised /\ w.data = usbd.data /\ w.buffer = usbd.buffer
  /\ w.received = usbd.received
  /\ w.stalled = IF thread.ok THEN usbd.stalled ELSE {I, O}
  /\ w.rcvOut = (usbd.rcvOut \/ (thread.ok /\ handler # "NULL"
                                 /\ (IF thread.ep = "none" THEN usbd.setupDir ELSE thread.ep) = O))

\* What the answer does.
LEMMA AnswerIs ==
  ASSUME ControlInv, Answer
  PROVE  /\ thread.at = "answer" /\ ~usbd.raised /\ usbd.dma = "none" /\ thread' = Idle
         /\ status' = (status \/ (thread.ok /\ handler = "NULL")) /\ AnswerDoes(usbd')
         /\ UNCHANGED <<queue, setup, handler, state, reports, host, budget>>
  <1> DEFINE dir == IF thread.ep = "none" THEN usbd.setupDir ELSE thread.ep
             b == usbd.rcvOut \/ dir = "OUT0"
  <1>1. /\ thread.at = "answer" /\ ~usbd.raised /\ usbd.dma = "none" /\ thread' = Idle
        /\ UNCHANGED <<queue, setup, handler, state, reports, host, budget>>
    BY DEF Answer, ThreadRuns
  <1>2. thread.ok \in BOOLEAN /\ usbd \in DriverType /\ status \in BOOLEAN /\ usbd.rcvOut \in BOOLEAN
    BY Types, FieldTypes DEF ControlInv, Typing, RestTypes
  <1>3. Control = {I, O} /\ {I, O} \in SUBSET Endpoints
    BY TwoEndpoints
  <1>4. CASE ~thread.ok
    <2>1. usbd' = [usbd EXCEPT !.stalled = {I, O}] /\ status' = status
      BY <1>3, <1>4 DEF Answer
    <2>2. usbd' \in DriverType
      BY <1>2, <1>3, <2>1, FieldReplaced
    <2>3. /\ usbd'.evts = usbd.evts
          /\ usbd'.waiting = usbd.waiting /\ usbd'.ready = usbd.ready /\ usbd'.handler = usbd.handler
          /\ usbd'.left = usbd.left /\ usbd'.status = usbd.status /\ usbd'.dma = usbd.dma
          /\ usbd'.setupDir = usbd.setupDir /\ usbd'.acked = usbd.acked /\ usbd'.causes = usbd.causes
          /\ usbd'.raised = usbd.raised /\ usbd'.data = usbd.data /\ usbd'.buffer = usbd.buffer
          /\ usbd'.received = usbd.received /\ usbd'.stalled = {I, O} /\ usbd'.rcvOut = usbd.rcvOut
      BY <1>2, <2>1, Fields
    <2>4. AnswerDoes(usbd')
      BY <1>2, <1>4, <2>2, <2>3 DEF AnswerDoes
    <2> QED BY <1>1, <1>2, <1>4, <2>1, <2>4
  <1>5. CASE thread.ok /\ handler = "NULL"
    <2>1. usbd' = usbd /\ status' = TRUE
      BY <1>5 DEF Answer
    <2>2. AnswerDoes(usbd')
      BY <1>2, <1>5, <2>1 DEF AnswerDoes
    <2> QED BY <1>1, <1>2, <1>5, <2>1, <2>2
  <1>6. CASE thread.ok /\ handler # "NULL"
    <2>1. usbd' = [usbd EXCEPT !.rcvOut = b] /\ status' = status
      <3>1. usbd' = [usbd EXCEPT !.rcvOut = @ \/ dir = "OUT0"] /\ status' = status
        BY <1>6 DEF Answer
      <3> QED BY <1>2, <3>1, Fields
    <2>2. b \in BOOLEAN /\ b = (usbd.rcvOut \/ dir = O)
      BY DEF O
    <2> HIDE DEF b
    <2>3. usbd' \in DriverType
      BY <1>2, <2>1, <2>2, FieldReplaced
    <2>4. /\ usbd'.evts = usbd.evts
          /\ usbd'.waiting = usbd.waiting /\ usbd'.ready = usbd.ready /\ usbd'.handler = usbd.handler
          /\ usbd'.left = usbd.left /\ usbd'.status = usbd.status /\ usbd'.dma = usbd.dma
          /\ usbd'.setupDir = usbd.setupDir /\ usbd'.acked = usbd.acked /\ usbd'.causes = usbd.causes
          /\ usbd'.raised = usbd.raised /\ usbd'.data = usbd.data /\ usbd'.buffer = usbd.buffer
          /\ usbd'.received = usbd.received /\ usbd'.stalled = usbd.stalled /\ usbd'.rcvOut = b
      BY <1>2, <2>1, Fields
    <2>5. AnswerDoes(usbd')
      BY <1>2, <1>6, <2>2, <2>3, <2>4 DEF AnswerDoes
    <2> QED BY <1>1, <1>2, <1>6, <2>1, <2>5
  <1> QED BY <1>4, <1>5, <1>6

\* The main loop answers.
LEMMA AnswerKeeps == ASSUME ControlInv, Answer PROVE ControlInv'
  <1>1. /\ thread.at = "answer" /\ ~usbd.raised /\ usbd.dma = "none" /\ thread' = Idle
        /\ status' = (status \/ (thread.ok /\ handler = "NULL")) /\ AnswerDoes(usbd')
        /\ UNCHANGED <<queue, setup, handler, state, reports, host, budget>>
    BY AnswerIs
  <1>2. thread'.at = "idle"
    BY <1>1, IdleIs
  <1>3. /\ thread.ok \in BOOLEAN /\ status \in BOOLEAN /\ usbd.evts = <<>>
        /\ usbd.rcvOut \in BOOLEAN /\ usbd.raised = FALSE
    BY <1>1, Types, FieldTypes DEF ControlInv, Typing, RestTypes
  <1>4. usbd' \in DriverType /\ usbd'.evts = <<>> /\ Scheduled(usbd)'
    BY <1>1, <1>3 DEF AnswerDoes, ControlInv, Scheduled
  <1>5. ASSUME host.clean, host.ended # "abandoned" PROVE Phases'
    <2>1. Answering \/ SendReady \/ SendFetched \/ SendEnds \/ ReceiveAsked
      <3>1. Phases
        BY <1>5 DEF ControlInv, CleanInv
      <3>2. ~SendAsked /\ ~SendMoves
        BY <1>1, TwoEndpoints DEF SendAsked, SendMoves
      <3> QED BY <1>1, <3>1, <3>2 DEF Phases, Arrived, Noted, Serving, Settling, ReceiveArrived,
            ReceiveMoves, ReceiveEnds, ReceiveOverflows
    <2>2. CASE Answering
      <3>1. /\ Rests(usbd) /\ usbd.waiting = {} /\ usbd.buffer[I] = NoPacket /\ usbd.rcvOut = FALSE
            /\ usbd.ready = {I} \/ ~Fits(host.request)
            /\ queue = <<>> /\ handler = "NULL" /\ usbd.stalled = {} /\ ~status
            /\ Outcome(thread.ok) /\ host.ended = "none"
        BY <1>3, <2>2 DEF Answering, NothingLeft
      <3>2. /\ usbd'.waiting = {} /\ usbd'.buffer[I] = NoPacket /\ usbd'.ready = usbd.ready
            /\ usbd'.rcvOut = FALSE /\ Rests(usbd)' /\ usbd'.stalled = IF thread.ok THEN {} ELSE {I, O}
        BY <1>1, <1>3, <3>1 DEF AnswerDoes, Rests
      <3>3. NothingLeft'
        BY <1>1, <3>1, <3>2 DEF NothingLeft, Fits
      <3>4. IF thread.ok THEN usbd'.stalled = {} /\ status' ELSE usbd'.stalled # {}
        BY <1>1, <3>1, <3>2
      <3>5. CASE thread.ok
        <4>1. Outcome(TRUE)
          BY <3>1, <3>5 DEF Outcome
        <4>2. Outcome(TRUE)'
          BY <1>1, <4>1 DEF Outcome, Fits, Number
        <4> QED BY <1>1, <1>2, <3>1, <3>3, <3>4, <3>5, <4>2 DEF Settling, Phases
      <3>6. CASE ~thread.ok
        <4>1. Outcome(FALSE)
          BY <3>1, <3>6 DEF Outcome
        <4>2. Outcome(FALSE)'
          BY <1>1, <4>1 DEF Outcome, Fits
        <4> QED BY <1>1, <1>2, <3>1, <3>3, <3>4, <3>6, <4>2 DEF Settling, Phases
      <3> QED BY <3>5, <3>6
    <2>3. CASE Sending /\ (SendReady \/ SendFetched \/ SendEnds)
      <3>1. /\ thread.ok = TRUE /\ thread.ep = "none" /\ handler = "empty" /\ usbd.rcvOut = FALSE
            /\ usbd.setupDir # O
        BY <1>1, <1>3, <2>3, Directions, TwoEndpoints DEF Sending, Transferring
      <3>2. usbd'.rcvOut = FALSE /\ usbd'.stalled = usbd.stalled /\ status' = status
        BY <1>1, <1>3, <3>1 DEF AnswerDoes
      <3>3. Sending'
        <4>1. Transferring({"read", "getConfiguration"}, "empty")'
          BY <1>1, <1>2, <2>3, <3>2 DEF Sending, Transferring, AnswerDoes
        <4> QED BY <1>1, <2>3, <3>2, <4>1 DEF Sending, AnswerDoes, Number
      <3>4. SendReady' \/ SendFetched' \/ SendEnds'
        BY <1>1, <1>3, <2>3, <3>3 DEF SendReady, SendFetched, SendEnds, OfAnswer, AnswerDoes, Number
      <3> QED BY <3>4 DEF Phases
    <2>4. CASE ReceiveAsked
      <3>1. Receiving
        BY <2>4 DEF ReceiveAsked
      <3>2. /\ thread.ok = TRUE /\ thread.ep = "none" /\ handler = "report" /\ usbd.setupDir = O
        BY <1>1, <1>3, <3>1, Directions DEF Receiving, Transferring
      <3>3. usbd'.rcvOut = TRUE /\ usbd'.stalled = usbd.stalled /\ status' = status
        BY <1>1, <1>3, <3>2 DEF AnswerDoes
      <3>4. Receiving'
        <4>1. Transferring({"setReport"}, "report")'
          BY <1>1, <1>2, <3>1, <3>3 DEF Receiving, Transferring, AnswerDoes
        <4> QED BY <1>1, <3>1, <4>1 DEF Receiving, AnswerDoes
      <3>5. ReceiveAsked'
        BY <1>1, <1>2, <1>3, <2>4, <3>3, <3>4 DEF ReceiveAsked, AnswerDoes
      <3> QED BY <3>5 DEF Phases
    <2> QED BY <2>1, <2>2, <2>3, <2>4 DEF SendReady, SendFetched, SendEnds
  <1>6. /\ state' \in {"Default", "Addressed", "Configured"} /\ reports' \subseteq Numbers
        /\ status' \in BOOLEAN /\ queue' \in Seq(Events) /\ handler' \in {"NULL", "empty", "report"}
    BY <1>1, <1>3, Types DEF ControlInv, Typing, RestTypes
  <1>7. thread' \in ThreadType
    BY <1>1, IdleIs
  <1> QED BY <1>1, <1>4, <1>5, <1>6, <1>7, LoopTypes

\* The main loop keeps the invariant.
LEMMA ExecuteKeeps == ASSUME ControlInv, Execute PROVE ControlInv'
  BY ReadSetupKeeps, ServeKeeps, AnswerKeeps, ExecResetKeeps, IgnoreAbortedKeeps, CallHandlerKeeps
     DEF Execute

-----------------------------------------------------------------------------
(* The host.                                                               *)

\* A token that clears the endpoint.
Tokened(u, w, cause) ==
  /\ w \in DriverType /\ w.evts = u.evts
  /\ w.waiting = u.waiting /\ w.ready = u.ready /\ w.dma = u.dma /\ w.acked = u.acked
  /\ w.raised = u.raised /\ w.causes = u.causes \cup {cause} /\ Blank(w)

\* What it leaves alone.
LEMMA ClearedIs ==
  ASSUME NEW u \in DriverType, NEW cause \in Causes
  PROVE  Tokened(u, Cleared(u, cause), cause)
  <1> DEFINE f1 == u.causes \cup {cause}
             f4 == [ep \in Endpoints |-> NoPacket]
             w1 == [u EXCEPT !.causes = f1]
             w2 == [w1 EXCEPT !.stalled = {}]
             w3 == [w2 EXCEPT !.rcvOut = FALSE]
             w4 == [w3 EXCEPT !.buffer = f4]
  <1>1. f1 \in SUBSET Causes
    BY FieldTypes
  <1>2. f4 \in [Endpoints -> Packets] /\ f4[I] = NoPacket /\ f4[O] = NoPacket
    BY NoPacketIs, TwoEndpoints
  <1>3. Cleared(u, cause) = w4
    BY Fields DEF Cleared
  <1> HIDE DEF f1, f4
  <1>4. /\ w4.evts = u.evts
        /\ w4.waiting = u.waiting /\ w4.ready = u.ready /\ w4.dma = u.dma /\ w4.acked = u.acked
        /\ w4.raised = u.raised /\ w4.causes = f1 /\ w4.stalled = {} /\ w4.rcvOut = FALSE
        /\ w4.buffer = f4
    BY Fields
  <1>5. w1 \in DriverType
    BY <1>1, FieldReplaced
  <1> HIDE DEF w1
  <1>6. w2 \in DriverType
    BY <1>5, FieldReplaced
  <1> HIDE DEF w2
  <1>7. w3 \in DriverType
    BY <1>6, FieldReplaced
  <1> HIDE DEF w3
  <1>8. w4 \in DriverType
    BY <1>2, <1>7, FieldReplaced
  <1> HIDE DEF w4
  <1> QED BY <1>2, <1>3, <1>4, <1>8 DEF Tokened, Blank, f1

\* A new request, in whatever state the host finds the device.
LEMMA HostSetupKeeps == ASSUME ControlInv, HostSetup PROVE ControlInv'
  <1>1. /\ budget.requests > 0 /\ usbd.causes = {} /\ usbd' = Cleared(usbd, "SETUP")
        /\ status' = FALSE /\ UNCHANGED <<queue, thread, handler, state, reports>>
    BY DEF HostSetup, device
  <1>2. budget \in [requests : Numbers, abandoned : 0 .. MaxAbandoned] /\ MaxAbandoned \in Nat
    BY Types DEF ControlInv, Typing, RestTypes
  <1>3. /\ budget' \in [requests : Numbers, abandoned : 0 .. MaxAbandoned]
        /\ budget'.requests = budget.requests - 1
    <2>1. CASE budget' = [budget EXCEPT !.requests = @ - 1]
      BY <1>1, <1>2, <2>1, Types DEF Numbers
    <2>2. CASE budget.abandoned > 0 /\ budget' = [budget EXCEPT !.requests = @ - 1, !.abandoned = @ - 1]
      <3>1. budget.requests - 1 \in Numbers
        BY <1>1, <1>2, Types DEF Numbers
      <3>2. budget.abandoned - 1 \in 0 .. MaxAbandoned
        BY <1>2, <2>2
      <3> QED BY <1>2, <2>2, <3>1, <3>2
    <2>3. \/ host.stage = "none" /\ budget' = [budget EXCEPT !.requests = @ - 1]
          \/ /\ host.stage # "none" /\ budget.abandoned > 0
             /\ budget' = [budget EXCEPT !.requests = @ - 1, !.abandoned = @ - 1]
      BY DEF HostSetup
    <2> QED BY <2>1, <2>2, <2>3
  <1>4. PICK request \in Sent :
          /\ setup' = Numbered(request, Number + 1)
          /\ host' = [stage |-> IF request.length = 0 THEN "status" ELSE "data",
                      request |-> request, count |-> 0, foreign |-> FALSE,
                      clean |-> Settled /\ "OUT0" \notin usbd.ready,
                      serves |-> Serves(request, state), ended |-> "none"]
    BY DEF HostSetup
  <1> DEFINE stage == IF request.length = 0 THEN "status" ELSE "data"
             clean == Settled /\ "OUT0" \notin usbd.ready
             serves == Serves(request, state)
  <1>5. host' = [stage |-> stage, request |-> request, count |-> 0, foreign |-> FALSE,
                 clean |-> clean, serves |-> serves, ended |-> "none"]
    BY <1>4
  <1>6. /\ stage \in {"data", "status"} /\ clean \in BOOLEAN /\ serves \in BOOLEAN
        /\ (request.length = 0 => stage = "status") /\ (request.length # 0 => stage = "data")
    BY DEF Settled, Serves
  <1>7. request \in Named /\ request.length \in Nat /\ (request.dir = I => request.length > 0)
    BY RequestTypes DEF Named
  <1>8. Tokened(usbd, usbd', "SETUP")
    BY <1>1, Types, ClearedIs DEF Causes
  <1>9. clean => /\ queue = <<>> /\ thread.at = "idle" /\ O \notin usbd.ready /\ ~usbd.raised
                 /\ usbd.dma = "none" /\ usbd.acked = {}
    BY Types, FieldTypes DEF Settled, InterruptPending, O
  <1>10. serves = Serves(request, state)
    OBVIOUS
  <1>11. stage = IF request.length = 0 THEN "status" ELSE "data"
    OBVIOUS
  <1> HIDE DEF stage, clean, serves
  <1>12. /\ host'.stage = stage /\ host'.request = request /\ host'.count = 0 /\ host'.foreign = FALSE
         /\ host'.clean = clean /\ host'.serves = serves /\ host'.ended = "none"
         /\ setup'.request = request /\ setup'.number = setup.number + 1
    BY <1>4, <1>5 DEF Numbered, Number
  <1>13. setup.number + 1 \in Numbers /\ setup'.number + budget'.requests = MaxRequests /\ setup'.number > 0
    <2>1. setup.number \in Numbers /\ MaxRequests \in Nat
      BY Types
    <2> QED BY <1>1, <1>2, <1>3, <1>12, <2>1 DEF ControlInv, HostInv, Numbers
  <1>14. Typing'
    <2>1. setup' \in [request : Named, number : Numbers]
      BY <1>4, <1>7, <1>13 DEF Numbered, Number
    <2>2. host' \in HostType
      BY <1>5, <1>6, <1>7 DEF HostType
    <2>3. usbd' \in DriverType /\ usbd'.evts = <<>>
      BY <1>8, Types DEF Tokened
    <2> QED BY <1>1, <1>3, <2>1, <2>2, <2>3 DEF ControlInv, Typing, RestTypes
  <1>15. HostInv'
    BY <1>6, <1>7, <1>12, <1>13, TwoEndpoints DEF HostInv
  <1>16. Scheduled(usbd)'
    BY <1>8 DEF ControlInv, Scheduled, Tokened
  <1>17. ASSUME clean PROVE Stages' /\ Phases'
    <2>1. Arrived'
      <3>1. /\ usbd'.causes = {"SETUP"} /\ ~usbd'.raised /\ usbd'.dma = "none" /\ usbd'.acked = {}
            /\ usbd'.waiting = usbd.waiting /\ usbd'.ready = usbd.ready /\ Blank(usbd)'
        BY <1>1, <1>8, <1>9, <1>17 DEF Tokened, Blank
      <3>2. usbd.waiting \cap usbd.ready = {} /\ O \notin usbd.ready
        BY <1>9, <1>17 DEF ControlInv, Scheduled
      <3>3. Untouched'
        BY <1>1, <1>10, <1>11, <1>12 DEF Untouched
      <3> QED BY <1>1, <1>9, <1>17, <3>1, <3>2, <3>3 DEF Arrived
    <2>2. Stages'
      BY <1>6, <1>7, <1>12, <1>13 DEF Stages, Number
    <2> QED BY <2>1, <2>2 DEF Phases
  <1>18. CleanInv'
    BY <1>12, <1>17 DEF CleanInv
  <1> QED BY <1>14, <1>15, <1>16, <1>18 DEF ControlInv

\* The host resets the bus.
LEMMA HostResetKeeps == ASSUME ControlInv, HostReset PROVE ControlInv'
  <1>1. /\ budget.abandoned > 0 /\ budget' = [budget EXCEPT !.abandoned = @ - 1]
        /\ usbd' = Cleared(usbd, "RESET") /\ status' = FALSE
        /\ host' = [host EXCEPT !.stage = "none", !.ended = "abandoned"]
        /\ UNCHANGED <<queue, setup, thread, handler, state, reports>>
    BY DEF HostReset, device
  <1>2. Tokened(usbd, usbd', "RESET")
    BY <1>1, Types, ClearedIs DEF Causes
  <1>3. host \in HostType
    BY DEF ControlInv, Typing, RestTypes
  <1>4. /\ host' \in HostType
        /\ host'.stage = "none" /\ host'.ended = "abandoned" /\ host'.count = host.count
        /\ host'.request = host.request
    BY <1>1, <1>3 DEF HostType
  <1>5. /\ budget' \in [requests : Numbers, abandoned : 0 .. MaxAbandoned]
        /\ budget'.requests = budget.requests
    <2>1. budget \in [requests : Numbers, abandoned : 0 .. MaxAbandoned] /\ MaxAbandoned \in Nat
      BY Types DEF ControlInv, Typing, RestTypes
    <2> QED BY <1>1, <2>1
  <1>6. Typing'
    <2>1. usbd' \in DriverType /\ usbd'.evts = <<>>
      BY <1>2, Types DEF Tokened
    <2> QED BY <1>1, <1>4, <1>5, <2>1 DEF ControlInv, Typing, RestTypes
  <1>7. HostInv'
    BY <1>1, <1>4, <1>5 DEF ControlInv, HostInv
  <1>8. Scheduled(usbd)'
    BY <1>2 DEF ControlInv, Scheduled, Tokened
  <1>9. CleanInv'
    BY <1>4 DEF CleanInv
  <1> QED BY <1>6, <1>7, <1>8, <1>9 DEF ControlInv

\* A packet moved in the data stage.
PacketMoved(h, g, size, foreign) ==
  /\ g \in HostType /\ g.request = h.request /\ g.clean = h.clean /\ g.serves = h.serves
  /\ g.ended = h.ended /\ g.count = h.count + size
  /\ g.foreign = (h.foreign \/ foreign)
  /\ g.stage = IF size < EpSize \/ h.count + size >= h.request.length THEN "status" ELSE "data"

\* The host's account of it.
LEMMA MovedIs ==
  ASSUME ControlInv, host.stage = "data", NEW size \in Nat
  PROVE  /\ PacketMoved(host, Moved(size), size, FALSE)
         /\ \A b \in BOOLEAN :
              PacketMoved(host, [Moved(size) EXCEPT !.foreign = @ \/ b], size, b)
  <1> DEFINE count == host.count + size
             last == size < EpSize \/ count >= host.request.length
             stage == IF last THEN "status" ELSE host.stage
             g == [host EXCEPT !.count = count, !.stage = stage]
  <1>1. host \in HostType
    BY DEF ControlInv, Typing, RestTypes, HostType
  <1>2. Moved(size) = g
    BY <1>1 DEF Moved, HostType
  <1>3. count \in Nat /\ stage \in {"data", "status"} /\ stage = IF last THEN "status" ELSE "data"
    BY <1>1 DEF HostType
  <1>4. last = (size < EpSize \/ host.count + size >= host.request.length) /\ count = host.count + size
    OBVIOUS
  <1> HIDE DEF count, last, stage
  <1>5. /\ g \in HostType /\ g.request = host.request /\ g.clean = host.clean
        /\ g.serves = host.serves /\ g.ended = host.ended /\ g.count = count
        /\ g.foreign = host.foreign /\ g.stage = stage
    BY <1>1, <1>3 DEF HostType
  <1> HIDE DEF g
  <1>6. host.foreign \in BOOLEAN
    BY <1>1 DEF HostType
  <1>7. PacketMoved(host, g, size, FALSE)
    BY <1>3, <1>4, <1>5, <1>6 DEF PacketMoved
  <1>8. ASSUME NEW b \in BOOLEAN PROVE PacketMoved(host, [g EXCEPT !.foreign = @ \/ b], size, b)
    <2> DEFINE c == host.foreign \/ b
               k == [g EXCEPT !.foreign = c]
    <2>1. [g EXCEPT !.foreign = @ \/ b] = k
      BY <1>5 DEF HostType
    <2>2. c \in BOOLEAN /\ c = (host.foreign \/ b)
      BY <1>6
    <2> HIDE DEF c
    <2>3. /\ k \in HostType /\ k.request = host.request /\ k.clean = host.clean
          /\ k.serves = host.serves /\ k.ended = host.ended /\ k.count = count
          /\ k.foreign = c /\ k.stage = stage
      BY <1>5, <2>2 DEF HostType
    <2> HIDE DEF k
    <2>4. PacketMoved(host, k, size, b)
      BY <1>3, <1>4, <2>2, <2>3 DEF PacketMoved
    <2> QED BY <2>1, <2>4
  <1> QED BY <1>2, <1>7, <1>8

\* The parts of the invariant after a packet of the data stage.
LEMMA MoveTypes ==
  ASSUME ControlInv, host.stage = "data", NEW size \in 0 .. EpSize, NEW foreign \in BOOLEAN,
         PacketMoved(host, host', size, foreign), usbd' \in DriverType, usbd'.evts = <<>>,
         usbd'.raised = usbd.raised, usbd'.dma = usbd.dma, usbd'.waiting = usbd.waiting,
         usbd'.ready = usbd.ready,
         UNCHANGED <<queue, setup, thread, handler, state, reports, status, budget>>
  PROVE  Typing' /\ HostInv' /\ Scheduled(usbd)'
  <1>1. host' \in HostType /\ host'.request = host.request /\ host'.ended = host.ended
    BY DEF PacketMoved
  <1>2. Typing'
    BY <1>1 DEF ControlInv, Typing, RestTypes, HostType
  <1>3. Scheduled(usbd)'
    BY DEF ControlInv, Scheduled
  <1>4. host.ended = "none" /\ host.count < host.request.length
    BY DEF ControlInv, HostInv
  <1>5. host.count \in Nat /\ host.request.length \in Nat /\ size \in Nat /\ size <= EpSize /\ EpSize \in Nat
    BY Types, RequestTypes, TwoEndpoints
  <1>6. host'.count = host.count + size
    BY DEF PacketMoved
  <1>7. host'.stage = IF size < EpSize \/ host.count + size >= host.request.length THEN "status" ELSE "data"
    BY DEF PacketMoved
  <1>8. host'.count <= host'.request.length + EpSize
    BY <1>1, <1>4, <1>5, <1>6
  <1>9. host'.stage = "data" => host'.count < host'.request.length
    BY <1>1, <1>5, <1>6, <1>7
  <1>10. HostInv'
    BY <1>1, <1>4, <1>8, <1>9 DEF ControlInv, HostInv
  <1> QED BY <1>2, <1>3, <1>10

\* The host fetches a packet of the answer.
LEMMA HostInKeeps == ASSUME ControlInv, HostIn PROVE ControlInv'
  <1> DEFINE packet == usbd.buffer["IN0"]
             size == packet.size
             foreign == packet.data # Number
             f1 == [usbd.buffer EXCEPT ![I] = NoPacket]
             f2 == usbd.acked \cup {I}
             w1 == [usbd EXCEPT !.buffer = f1]
             w2 == [w1 EXCEPT !.acked = f2]
  <1>1. /\ host.stage = "data" /\ host.request.dir = I /\ packet # NoPacket /\ usbd.dma # I
        /\ usbd.stalled = {} /\ host' = [Moved(size) EXCEPT !.foreign = @ \/ foreign]
        /\ UNCHANGED <<queue, setup, thread, handler, state, reports, status, budget>>
    BY DEF HostIn, device, I
  <1>2. usbd' = w2
    BY Types, Fields DEF HostIn, I
  <1>3. packet = usbd.buffer[I] /\ packet \in Packets /\ usbd \in DriverType
    BY Types, FieldTypes, TwoEndpoints DEF I
  <1>4. size \in 0 .. EpSize /\ size \in Nat /\ size <= EpSize
    BY <1>3, TwoEndpoints DEF Packets
  <1>5. f1 \in [Endpoints -> Packets] /\ f1[I] = NoPacket /\ f2 \in SUBSET Endpoints
    BY <1>3, FieldTypes, NoPacketIs, TwoEndpoints
  <1>6. foreign = (packet.data # Number) /\ foreign \in BOOLEAN /\ size = packet.size /\ f2 = usbd.acked \cup {I}
    OBVIOUS
  <1> HIDE DEF packet, size, foreign, f1, f2
  <1>7. PacketMoved(host, host', size, foreign)
    BY <1>1, <1>4, <1>6, MovedIs
  <1>8. w1 \in DriverType
    BY <1>3, <1>5, FieldReplaced
  <1>9. /\ w2.buffer = f1 /\ w2.acked = f2 /\ w2.evts = usbd.evts /\ w2.waiting = usbd.waiting
        /\ w2.ready = usbd.ready /\ w2.handler = usbd.handler /\ w2.left = usbd.left
        /\ w2.status = usbd.status /\ w2.dma = usbd.dma /\ w2.setupDir = usbd.setupDir
        /\ w2.causes = usbd.causes /\ w2.raised = usbd.raised /\ w2.stalled = usbd.stalled
        /\ w2.rcvOut = usbd.rcvOut /\ w2.data = usbd.data
    BY <1>3, Fields
  <1> HIDE DEF w1
  <1>10. w2 \in DriverType
    BY <1>5, <1>8, FieldReplaced
  <1> HIDE DEF w2
  <1>11. Typing' /\ HostInv' /\ Scheduled(usbd)'
    BY <1>1, <1>2, <1>4, <1>6, <1>7, <1>9, <1>10, Types, MoveTypes
  <1>12. /\ host'.request = host.request /\ host'.clean = host.clean /\ host'.serves = host.serves
         /\ host'.ended = host.ended /\ host'.count = host.count + size
         /\ host'.foreign = (host.foreign \/ foreign)
         /\ host'.stage = IF size < EpSize \/ host.count + size >= host.request.length
                          THEN "status" ELSE "data"
    BY <1>7 DEF PacketMoved
  <1>13. ASSUME host.clean, host.ended # "abandoned" PROVE Stages' /\ Phases'
    <2>1. Stages /\ Phases
      BY <1>13 DEF ControlInv, CleanInv
    <2>2. SendReady
      <3>1. ~Arrived /\ ~Noted /\ ~Serving
        BY <1>1, <1>3 DEF Arrived, Noted, Serving, Fresh, Blank
      <3>2. ~Answering /\ ~Settling
        BY <1>1, <1>3 DEF Answering, Settling, NothingLeft
      <3>3. ~SendAsked /\ ~SendMoves /\ ~SendFetched /\ ~SendEnds
        BY <1>1, <1>3 DEF SendAsked, SendMoves, SendFetched, SendEnds
      <3>4. ~Receiving
        BY <1>1, <1>3 DEF Receiving
      <3> QED BY <2>1, <3>1, <3>2, <3>3, <3>4 DEF Phases, ReceiveAsked, ReceiveArrived, ReceiveMoves,
            ReceiveEnds, ReceiveOverflows
    <2>3. /\ Sending /\ queue = <<>> /\ ~usbd.raised /\ usbd.dma = "none" /\ usbd.acked = {}
          /\ usbd.ready = {} /\ packet.data = Number /\ (size < EpSize => usbd.left[I] = 0)
          /\ host.count + size + usbd.left[I] = Answered(host.request)
      BY <1>3, <1>6, <2>2 DEF SendReady, Sending, OfAnswer
    <2>4. /\ host.count \in Nat /\ host.request.length \in Nat /\ usbd.left[I] \in Nat
          /\ Answered(host.request) \in Nat /\ Answered(host.request) <= host.request.length
      <3>1. usbd.left \in [Endpoints -> Nat]
        BY Types, FieldTypes
      <3> QED BY <3>1, Types, RequestTypes, AnsweredIs, TwoEndpoints
    <2>5. host'.stage = "status" => host'.count = Answered(host.request)
      BY <1>4, <1>12, <2>3, <2>4, TwoEndpoints
    <2>6. ~host'.foreign
      BY <1>1, <1>6, <1>12, <2>1, <2>3 DEF Stages
    <2>7. host'.ended = "none" => host'.stage # "none"
      BY <1>12
    <2>8. Stages'
      BY <1>1, <1>12, <2>1, <2>5, <2>6, <2>7 DEF Stages, Number
    <2>9. Sending'
      <3>1. Transferring({"read", "getConfiguration"}, "empty")'
        BY <1>1, <1>2, <1>9, <1>12, <2>3 DEF Sending, Transferring
      <3>2. usbd'.buffer[I].size = 0
        BY <1>2, <1>5, <1>9, NoPacketIs
      <3>3. host'.count + usbd'.buffer[I].size + usbd'.left[I] = Answered(host'.request)
        BY <1>2, <1>4, <1>9, <1>12, <2>3, <2>4, <3>2
      <3> QED BY <1>1, <1>2, <1>9, <2>3, <3>1, <3>3 DEF Sending, Number
    <2>10. SendFetched'
      BY <1>1, <1>2, <1>5, <1>6, <1>9, <2>3, <2>9 DEF SendFetched
    <2> QED BY <2>8, <2>10 DEF Phases
  <1>14. CleanInv'
    BY <1>12, <1>13 DEF CleanInv
  <1> QED BY <1>11, <1>14 DEF ControlInv

\* The host sends the report.
LEMMA HostOutKeeps == ASSUME ControlInv, HostOut PROVE ControlInv'
  <1> DEFINE size == Min({EpSize, host.request.length - host.count})
             packet == Packet(Number, size)
             f1 == [usbd.buffer EXCEPT ![O] = packet]
             f2 == usbd.acked \cup {O}
             w1 == [usbd EXCEPT !.buffer = f1]
             w2 == [w1 EXCEPT !.rcvOut = FALSE]
             w3 == [w2 EXCEPT !.acked = f2]
  <1>1. /\ host.stage = "data" /\ host.request.dir = O /\ usbd.rcvOut
        /\ usbd.stalled = {} /\ host' = Moved(size)
        /\ UNCHANGED <<queue, setup, thread, handler, state, reports, status, budget>>
    BY DEF HostOut, device, O
  <1>2. usbd' = w3
    BY Types, Fields DEF HostOut, O
  <1>3. usbd \in DriverType /\ O \in Endpoints /\ usbd.buffer \in [Endpoints -> Packets]
    BY Types, FieldTypes, TwoEndpoints
  <1>4. /\ size \in 0 .. EpSize /\ size \in Nat
        /\ (host.count = 0 => size = Min({EpSize, host.request.length}))
    <2>1. host.count < host.request.length /\ host.count \in Nat /\ host.request.length \in Nat
      BY <1>1, Types, RequestTypes DEF ControlInv, HostInv
    <2>2. size = IF EpSize <= host.request.length - host.count THEN EpSize
                 ELSE host.request.length - host.count
      BY <2>1, MinIs, TwoEndpoints
    <2>3. host.count = 0 => host.request.length - host.count = host.request.length
      BY <2>1
    <2> HIDE DEF size
    <2>4. size \in 0 .. EpSize /\ size \in Nat
      BY <2>1, <2>2, TwoEndpoints
    <2> QED BY <2>3, <2>4 DEF size
  <1>5. packet \in Packets
    BY <1>4, Types DEF Packet, Packets, Number
  <1>6. f1 \in [Endpoints -> Packets] /\ f1[O] = packet /\ f1[I] = usbd.buffer[I] /\ f2 \in SUBSET Endpoints
    BY <1>3, <1>5, FieldTypes, TwoEndpoints
  <1>7. f2 = usbd.acked \cup {O} /\ packet = Packet(Number, size)
    OBVIOUS
  <1> HIDE DEF size, packet, f1, f2
  <1>8. PacketMoved(host, host', size, FALSE)
    BY <1>1, <1>4, MovedIs
  <1>9. w1 \in DriverType
    BY <1>3, <1>6, FieldReplaced
  <1>10. /\ w3.buffer = f1 /\ w3.acked = f2 /\ w3.rcvOut = FALSE
         /\ w3.evts = usbd.evts /\ w3.waiting = usbd.waiting
         /\ w3.ready = usbd.ready /\ w3.handler = usbd.handler /\ w3.left = usbd.left
         /\ w3.status = usbd.status /\ w3.dma = usbd.dma /\ w3.setupDir = usbd.setupDir
         /\ w3.causes = usbd.causes /\ w3.raised = usbd.raised /\ w3.stalled = usbd.stalled
         /\ w3.data = usbd.data
    BY <1>3, Fields
  <1> HIDE DEF w1
  <1>11. w2 \in DriverType
    BY <1>9, FieldReplaced
  <1> HIDE DEF w2
  <1>12. w3 \in DriverType
    BY <1>6, <1>11, FieldReplaced
  <1> HIDE DEF w3
  <1>13. Typing' /\ HostInv' /\ Scheduled(usbd)'
    BY <1>1, <1>2, <1>4, <1>8, <1>10, <1>12, Types, MoveTypes
  <1>14. /\ host'.request = host.request /\ host'.clean = host.clean /\ host'.serves = host.serves
         /\ host'.ended = host.ended /\ host'.stage \in {"data", "status"}
    BY <1>8 DEF PacketMoved
  <1>15. ASSUME host.clean, host.ended # "abandoned" PROVE Stages' /\ Phases'
    <2>1. Stages /\ Phases
      BY <1>15 DEF ControlInv, CleanInv
    <2>2. ReceiveAsked /\ thread.at = "idle"
      <3>1. ~Arrived /\ ~Noted /\ ~Serving
        BY <1>1 DEF Arrived, Noted, Serving, Fresh, Blank
      <3>2. ~Answering /\ ~Settling /\ ~Sending
        BY <1>1 DEF Answering, Settling, NothingLeft, Sending
      <3>3. ~ReceiveArrived /\ ~ReceiveMoves /\ ~ReceiveEnds /\ ~ReceiveOverflows
        BY <1>1 DEF ReceiveArrived, ReceiveMoves, ReceiveEnds, ReceiveOverflows
      <3>4. ReceiveAsked
        BY <2>1, <3>1, <3>2, <3>3 DEF Phases, SendAsked, SendMoves, SendReady, SendFetched, SendEnds
      <3> QED BY <1>1, <3>4 DEF ReceiveAsked
    <2>3. /\ Receiving /\ queue = <<>> /\ usbd.dma = "none" /\ usbd.acked = {}
          /\ usbd.waiting = {O} /\ usbd.ready = {I} /\ ~usbd.raised
          /\ usbd.handler[O] = "consumer" /\ usbd.status[O] = "OK" /\ usbd.left[O] = EpSize - 1
          /\ host.count = 0 /\ usbd.buffer[I] = NoPacket
      BY <2>2 DEF ReceiveAsked, Receiving
    <2>4. Stages'
      BY <1>1, <1>14, <2>1, TwoEndpoints DEF Stages, Number
    <2>5. Receiving'
      <3>1. Transferring({"setReport"}, "report")'
        BY <1>1, <1>2, <1>10, <1>14, <2>3 DEF Receiving, Transferring
      <3> QED BY <1>2, <1>6, <1>10, <2>3, <3>1 DEF Receiving
    <2>6. usbd'.buffer[O] = Packet(Number', Min({EpSize, host'.request.length}))
      BY <1>1, <1>2, <1>4, <1>6, <1>7, <1>10, <1>14, <2>3 DEF Number
    <2>7. ReceiveArrived'
      BY <1>1, <1>2, <1>7, <1>10, <2>2, <2>3, <2>5, <2>6 DEF ReceiveArrived, Number
    <2> QED BY <2>4, <2>7 DEF Phases
  <1>16. CleanInv'
    BY <1>14, <1>15 DEF CleanInv
  <1> QED BY <1>13, <1>16 DEF ControlInv

\* The request ends: the device has settled.
LEMMA EndsIn ==
  ASSUME ControlInv, NEW how \in {"done", "stalled"}, HostEnds(how), host.stage # "none",
         host.clean /\ host.ended # "abandoned" => Settling /\ Outcome(how = "done")
  PROVE  ControlInv'
  <1>1. /\ host' = [host EXCEPT !.stage = "none", !.ended = how]
        /\ UNCHANGED <<usbd, queue, setup, thread, handler, state, reports, status, budget>>
    BY DEF HostEnds, device
  <1>2. /\ host' \in HostType /\ host'.stage = "none" /\ host'.ended = how
        /\ host'.request = host.request /\ host'.count = host.count /\ host'.clean = host.clean
        /\ host'.foreign = host.foreign /\ host'.serves = host.serves
    BY <1>1 DEF ControlInv, Typing, RestTypes, HostType
  <1>3. Typing' /\ HostInv' /\ Scheduled(usbd)'
    BY <1>1, <1>2 DEF ControlInv, Typing, RestTypes, HostType, HostInv, Scheduled
  <1>4. ASSUME host.clean, host.ended # "abandoned" PROVE Stages' /\ Phases'
    <2>1. Stages'
      BY <1>1, <1>2, <1>4 DEF ControlInv, CleanInv, Stages, Number
    <2>2. \A ok \in BOOLEAN : Outcome(ok)' <=> Outcome(ok)
      BY <1>1, <1>2 DEF Outcome, Fits, Number
    <2>3. NothingLeft'
      BY <1>1, <1>2, <1>4 DEF Settling, NothingLeft, Rests, Fits
    <2>4. /\ how = "done" => Outcome(TRUE)'
          /\ how = "stalled" => Outcome(FALSE)'
      BY <1>4, <2>2 DEF Outcome
    <2>5. IF usbd.stalled = {} THEN status /\ Outcome(TRUE)' ELSE Outcome(FALSE)'
      BY <1>4, <2>2 DEF Settling
    <2>6. Settling'
      BY <1>1, <1>2, <1>4, <2>3, <2>4, <2>5 DEF Settling
    <2> QED BY <2>1, <2>6 DEF Phases
  <1>5. CleanInv'
    <2>1. ASSUME host.clean, host.ended = "abandoned" PROVE FALSE
      <3>1. host.stage = "none"
        BY <2>1 DEF ControlInv, HostInv
      <3> QED BY <2>1, <3>1
    <2> QED BY <1>2, <1>4, <2>1 DEF CleanInv
  <1> QED BY <1>3, <1>5 DEF ControlInv

\* The phase in which the host finds the end of a request.
LEMMA EndPhase ==
  ASSUME ControlInv, host.clean, host.ended # "abandoned",
         status \/ usbd.stalled # {} \/ host.ended # "none"
  PROVE  Settling
  <1>1. Phases
    BY DEF ControlInv, CleanInv
  <1>2. ~Arrived /\ ~Noted /\ ~Serving
    BY DEF Arrived, Noted, Serving, Fresh, Blank, Untouched
  <1>3. ~Sending /\ ~Receiving /\ ~Answering
    BY DEF Sending, Receiving, Transferring, Answering
  <1> QED BY <1>1, <1>2, <1>3 DEF Phases, SendAsked, SendMoves, SendReady, SendFetched, SendEnds,
        ReceiveAsked, ReceiveArrived, ReceiveMoves, ReceiveEnds, ReceiveOverflows

\* The status stage is acknowledged.
LEMMA HostStatusKeeps == ASSUME ControlInv, HostStatus PROVE ControlInv'
  <1>1. host.stage = "status" /\ status /\ usbd.stalled = {} /\ HostEnds("done")
    BY DEF HostStatus
  <1>2. ASSUME host.clean, host.ended # "abandoned" PROVE Settling /\ Outcome(TRUE)
    <2>1. Settling
      BY <1>1, <1>2, EndPhase
    <2> QED BY <1>1, <2>1 DEF Settling
  <1> DEFINE how == "done"
  <1>3. host.clean /\ host.ended # "abandoned" => Settling /\ Outcome(how = "done")
    BY <1>2 DEF Outcome
  <1> QED BY <1>1, <1>3, EndsIn

\* The host sees the stall.
LEMMA HostStalledKeeps == ASSUME ControlInv, HostStalled PROVE ControlInv'
  <1>1. host.stage # "none" /\ usbd.stalled # {} /\ HostEnds("stalled")
    BY DEF HostStalled
  <1>2. ASSUME host.clean, host.ended # "abandoned" PROVE Settling /\ Outcome(FALSE)
    <2>1. Settling
      BY <1>1, <1>2, EndPhase
    <2> QED BY <1>1, <2>1 DEF Settling
  <1> DEFINE how == "stalled"
  <1>3. host.clean /\ host.ended # "abandoned" => Settling /\ Outcome(how = "done")
    BY <1>2 DEF Outcome
  <1> QED BY <1>1, <1>3, EndsIn
-----------------------------------------------------------------------------
(* The invariant, and what follows from it.                                *)

\* Initially the host has sent nothing.
LEMMA InitKeeps == ASSUME Init PROVE ControlInv
  <1>1. usbd = IdleDriver /\ usbd.evts = <<>>
    BY DEF Init, IdleDriver
  <1>2. usbd \in DriverType
    <2>1. [ep \in Endpoints |-> NoPacket] \in [Endpoints -> Packets]
      BY NoPacketIs
    <2>2. 0 \in Numbers /\ "OUT0" \in Endpoints /\ <<>> \in Seq(Events)
      BY UsbControlAssumption, TwoEndpoints DEF Numbers, O
    <2>3. Ins \in SUBSET Endpoints /\ Endpoints \cap Control \in SUBSET Endpoints
      BY DEF Ins
    <2>4. /\ [ep \in Endpoints |-> "NULL"] \in [Endpoints -> Kinds]
          /\ [ep \in Endpoints |-> 0] \in [Endpoints -> Nat]
          /\ [ep \in Endpoints |-> "OK"] \in [Endpoints -> Statuses]
          /\ [ep \in Endpoints |-> 0] \in [Endpoints -> Numbers]
      BY <2>2 DEF Kinds, Statuses
    <2> QED BY <1>1, <2>1, <2>2, <2>3, <2>4 DEF IdleDriver, DriverType
  <1>3. /\ setup.request = NoRequest /\ setup.number = 0 /\ thread = Idle /\ handler = "NULL"
        /\ state = "Default" /\ reports = {} /\ status = FALSE /\ queue = <<>>
        /\ host = [stage |-> "none", request |-> NoRequest, count |-> 0, foreign |-> FALSE,
                   clean |-> FALSE, serves |-> FALSE, ended |-> "none"]
        /\ budget = [requests |-> MaxRequests, abandoned |-> MaxAbandoned]
    BY DEF Init, Numbered
  <1>4. RestTypes
    <2>1. 0 \in Numbers /\ MaxRequests \in Numbers /\ MaxAbandoned \in 0 .. MaxAbandoned
      BY UsbControlAssumption DEF Numbers
    <2>2. NoRequest \in Named /\ setup \in [request : Named, number : Numbers]
      BY <2>1 DEF Named, Init, Numbered
    <2>3. host \in HostType
      BY <1>3, <2>2 DEF HostType
    <2>4. budget \in [requests : Numbers, abandoned : 0 .. MaxAbandoned]
      BY <1>3, <2>1
    <2>5. thread \in ThreadType
      BY <1>3, IdleIs
    <2>6. queue \in Seq(Events)
      BY <1>3
    <2> QED BY <1>3, <2>2, <2>3, <2>4, <2>5, <2>6 DEF RestTypes
  <1>5. HostInv
    BY <1>3, UsbControlAssumption, TwoEndpoints DEF HostInv, NoRequest
  <1>6. Scheduled(usbd)
    BY <1>1 DEF Scheduled, IdleDriver
  <1>7. CleanInv
    BY <1>3 DEF CleanInv
  <1> QED BY <1>1, <1>2, <1>4, <1>5, <1>6, <1>7 DEF ControlInv, Typing

\* Every step keeps the invariant.
LEMMA NextKeeps == ASSUME ControlInv, [Next]_vars PROVE ControlInv'
  <1>1. CASE Next
    BY <1>1, UsbInterruptKeeps, ExecuteKeeps, HostSetupKeeps, HostResetKeeps, HostInKeeps,
       HostOutKeeps, HostStatusKeeps, HostStalledKeeps DEF Next
  <1>2. CASE UNCHANGED vars
    <2>1. UNCHANGED <<usbd, queue, setup, thread, handler, state, reports, status, host, budget>>
      BY <1>2 DEF vars, device
    <2>2. Typing' /\ HostInv' /\ Scheduled(usbd)'
      BY <2>1 DEF ControlInv, Typing, RestTypes, HostInv, Scheduled
    <2>3. CleanInv'
      BY SMTT(30), <2>1 DEF ControlInv, CleanInv, Stages, Phases, Number, Arrived, Noted,
         Serving, Answering, Settling,
         SendAsked, SendMoves, SendReady, SendFetched, SendEnds, ReceiveAsked, ReceiveArrived,
         ReceiveMoves, ReceiveEnds, ReceiveOverflows, Sending, Receiving, Transferring, OfAnswer,
         NothingLeft, Outcome, Fits, Fresh, Rests, Blank, Untouched
    <2> QED BY <2>2, <2>3 DEF ControlInv
  <1> QED BY <1>1, <1>2

\* In every reachable state a clean request is in one of the phases of usbd_core and
\* nrf_drv_usbd: its SETUP packet noted, read, its transfer under way, answered; each
\* phase names all that driver, queue and main loop hold of it, and nothing of an
\* earlier request is among it.
THEOREM PhasesAgree == Spec => []ControlInv
  <1>1. Init => ControlInv
    BY InitKeeps
  <1>2. ControlInv /\ [Next]_vars => ControlInv'
    BY NextKeeps
  <1> QED BY <1>1, <1>2, PTL DEF Spec

\* The types.
LEMMA TypesFollow == ASSUME ControlInv PROVE UsbControlTypeOK
  <1>1. usbd \in DriverType /\ usbd.evts = <<>> /\ RestTypes /\ HostInv
    BY DEF ControlInv, Typing
  <1>2. /\ usbd.dma \in Endpoints \cup {"none"} /\ usbd.left \in [Endpoints -> Nat]
        /\ usbd.waiting \subseteq Endpoints
    BY <1>1, FieldTypes
  <1>3. host.count \in 0 .. host.request.length + EpSize
    <2>1. host.count \in Nat /\ host.request.length \in Nat
      BY Types, RequestTypes
    <2> QED BY <1>1, <2>1, TwoEndpoints DEF HostInv
  <1> QED BY <1>1, <1>2, <1>3 DEF ThreadType, HostType, UsbControlTypeOK, RestTypes, Events, SETUP,
        RESET, Named, Numbers

\* What the end of a clean request shows.
LEMMA EndsFollow == ASSUME ControlInv PROVE DoneIsDone /\ EndsRight /\ NothingRemains
  <1>1. ASSUME host.clean, host.ended \in {"done", "stalled"}
        PROVE  /\ NothingLeft
               /\ host.ended = "done" => Outcome(TRUE)
               /\ host.ended = "stalled" => Outcome(FALSE)
    <2>1. Settling
      BY <1>1, EndPhase
    <2> QED BY <2>1 DEF Settling
  <1>2. DoneIsDone
    BY <1>1 DEF DoneIsDone, Outcome
  <1>3. EndsRight
    BY <1>1 DEF EndsRight, Outcome
  <1>4. NothingRemains
    BY <1>1, TwoEndpoints DEF NothingRemains, NothingLeft, I
  <1> QED BY <1>2, <1>3, <1>4

\* A control request that starts on an idle device does what its status stage says,
\* ends in a stall exactly if app_usbd_core and the HID class do not serve it or its
\* report does not fit, and leaves no transfer, handler or packet behind.
THEOREM RequestsAreRight == Spec => []UsbControlInv
  <1>1. ControlInv => UsbControlInv
    BY TypesFollow, EndsFollow DEF UsbControlInv
  <1> QED BY <1>1, PhasesAgree, PTL

\* Whatever requests the host abandoned before, the answer of a read that starts on an
\* idle device has the length app_usbd_core_setup_rsp promises, and every byte of it is
\* of this request.
THEOREM ReadsAreExact == Spec => []ReadExact
  <1>1. ASSUME ControlInv PROVE ReadExact
    <2>1. SUFFICES ASSUME host.clean, host.request.dir = "IN0", host.stage = "status"
                   PROVE  host.count = Min({host.request.length, host.request.size}) /\ ~host.foreign
      BY DEF ReadExact
    <2>2. host.ended # "abandoned"
      BY <1>1, <2>1 DEF ControlInv, HostInv
    <2>3. Stages
      BY <1>1, <2>1, <2>2 DEF ControlInv, CleanInv
    <2> QED BY <2>1, <2>3 DEF Stages, Answered, I
  <1> QED BY <1>1, PhasesAgree, PTL

=============================================================================
