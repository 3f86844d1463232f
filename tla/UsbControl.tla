------------------------------ MODULE UsbControl ------------------------------
(***************************************************************************)
(* The control requests: app_usbd_core.c and the requests of the HID class *)
(* over endpoint 0 of UsbTransfers, with a host that may abandon a request *)
(* or reset the bus and start another request at any time.                 *)
(*                                                                         *)
(* A SETUP event carries nothing: the main loop reads the registers when   *)
(* it gets to the event.  Between that, the transfer it starts and the     *)
(* answer it gives to the host, interrupts may bring a newer request.      *)
(*                                                                         *)
(* A request is one of a few kinds: a read of a descriptor, status or      *)
(* report; the configuration read and set; the address set; a report       *)
(* written; one nobody supports.  Reads without a data stage are left out. *)
(* The device is active throughout; UsbDevice has the other states.        *)
(***************************************************************************)
EXTENDS UsbTransfers

CONSTANTS
  Reads,        \* the reads: pairs of wLength and the size of the answer
  Reports,      \* the lengths of the reports written
  MaxRequests,  \* bound: requests
  MaxAbandoned  \* bound: requests abandoned and resets

ASSUME UsbControlAssumption ==
  /\ Endpoints = Control
  /\ Reads \subseteq (Nat \ {0}) \X Nat
  /\ Reports \subseteq Nat \ {0}
  /\ MaxRequests \in Nat /\ MaxAbandoned \in Nat

VARIABLES
  setup,    \* the SETUP registers: the last request of the host
  thread,   \* how far the main loop is with an event, for which request, and
            \* whether it succeeded
  handler,  \* m_ep0_handler_desc: "NULL", "empty" or "report"
  state,    \* m_app_usbd_state
  reports,  \* history: the requests whose report was handed to the application; 0 for
            \* one that was dropped from the endpoint by then
  status,   \* EP0STATUS was triggered: the status stage is acknowledged
  host,     \* the stage of the request and its number, the bytes moved, whether
            \* some were of another request, whether the device was idle when it
            \* started, what it should do, and how it ended
  budget

device == <<thread, handler, state, reports>>
vars == <<usbd, queue, setup, device, status, host, budget>>

Requests ==
  [kind : {"read"}, dir : {"IN0"}, length : {r[1] : r \in Reads}, size : {r[2] : r \in Reads}]
    \cup [kind : {"getConfiguration", "unknownRead"}, dir : {"IN0"}, length : {1}, size : {1}]
    \cup [kind : {"setAddress", "setConfiguration", "unknown"}, dir : {"OUT0"}, length : {0},
          size : {0}]
    \cup [kind : {"setReport"}, dir : {"OUT0"}, length : Reports, size : {0}]
Sent == {r \in Requests : r.kind = "read" => <<r.length, r.size>> \in Reads}
NoRequest == [kind |-> "none", dir |-> "OUT0", length |-> 0, size |-> 0]

\* usbd.data names the request a packet belongs to by its number.
Numbered(request, number) == [request |-> request, number |-> number]
Idle == [at |-> "idle", for |-> Numbered(NoRequest, 0), ok |-> TRUE, ep |-> "none"]

UsbControlTypeOK ==
  /\ usbd.dma \in Endpoints \cup {"none"} /\ usbd.evts = <<>>
  /\ usbd.left \in [Endpoints -> Nat]
  /\ usbd.waiting \subseteq Endpoints
  /\ queue \in Seq({<<"SETUP", "">>, <<"RESET", "">>}
                     \cup Endpoints \X {"OK", "ABORTED", "OVERLOAD", "WAITING"})
  /\ setup \in [request : Sent \cup {NoRequest}, number : 0 .. MaxRequests]
  /\ thread \in [at : {"idle", "serve", "answer"}, for : [request : Sent \cup {NoRequest},
                 number : 0 .. MaxRequests], ok : BOOLEAN, ep : Endpoints \cup {"none"}]
  /\ handler \in {"NULL", "empty", "report"}
  /\ state \in {"Default", "Addressed", "Configured"}
  /\ reports \subseteq 0 .. MaxRequests
  /\ status \in BOOLEAN
  /\ host.stage \in {"none", "data", "status"}
  /\ host.count \in 0 .. host.request.length + EpSize
  /\ host.foreign \in BOOLEAN /\ host.clean \in BOOLEAN
  /\ host.ended \in {"none", "done", "stalled", "abandoned"}
  /\ budget \in [requests : 0 .. MaxRequests, abandoned : 0 .. MaxAbandoned]

\* After the first reset.
Init ==
  /\ usbd = IdleDriver /\ queue = <<>>
  /\ setup = Numbered(NoRequest, 0) /\ thread = Idle
  /\ handler = "NULL" /\ state = "Default" /\ reports = {} /\ status = FALSE
  /\ host = [stage |-> "none", request |-> NoRequest, count |-> 0, foreign |-> FALSE,
             clean |-> FALSE, serves |-> FALSE, ended |-> "none"]
  /\ budget = [requests |-> MaxRequests, abandoned |-> MaxAbandoned]
-----------------------------------------------------------------------------
(* The interrupt and the event queue.                                      *)

Put(u, left) ==
  \E v \in {u} : usbd' = [v EXCEPT !.evts = <<>>] /\ queue' = left \o v.evts

UsbInterrupt ==
  /\ InterruptPending(usbd)
  /\ Put(Interrupt(usbd, setup.request.dir), queue)
  /\ UNCHANGED <<setup, device, status, host, budget>>

Executes(event) == thread.at = "idle" /\ ThreadRuns(usbd) /\ queue # <<>> /\ Head(queue) = event
-----------------------------------------------------------------------------
(* app_usbd_core_setup_req_handler.                                        *)

\* The registers are read and the handler of an unfinished request forgotten.
ReadSetup ==
  /\ Executes(<<"SETUP", "">>)
  /\ thread' = [Idle EXCEPT !.at = "serve", !.for = setup]
  /\ handler' = "NULL"
  /\ queue' = Tail(queue)
  /\ UNCHANGED <<usbd, setup, state, reports, status, host, budget>>

\* Changed on purpose: the empty packet is forgotten; the answer is not cut short.
ZlpNever(request) == FALSE
AnsweredWhole(request) == request.size

\* app_usbd_core_setup_rsp: the answer ends with an empty packet if the host
\* could not tell its end otherwise.
ZlpRequired(request) == request.size < request.length /\ request.size % EpSize = 0
Answered(request) == Min({request.length, request.size})

\* The transfer and the handler of its end, in one critical region.
StartTransfer(ep, kind, size, then) ==
  LET ok == Accepts(usbd, ep)
  IN /\ usbd' = IF ok THEN Transfer(usbd, ep, kind, thread.for.number, size) ELSE usbd
     /\ handler' = IF ok THEN then ELSE handler
     /\ thread' = [thread EXCEPT !.at = "answer", !.ok = ok]
     /\ UNCHANGED <<state, reports>>

SetState(enters) ==
  /\ state' = enters
  /\ thread' = [thread EXCEPT !.at = "answer", !.ok = TRUE]
  /\ UNCHANGED <<usbd, handler, reports>>

Refuse ==
  /\ thread' = [thread EXCEPT !.at = "answer", !.ok = FALSE]
  /\ UNCHANGED <<usbd, handler, state, reports>>

Serves(request, in) ==
  CASE request.kind = "getConfiguration" -> in # "Default"
    [] request.kind = "setConfiguration" -> in # "Default"
    [] OTHER -> request.kind \notin {"unknown", "unknownRead", "none"}

Serve ==
  LET request == thread.for.request
  IN /\ thread.at = "serve" /\ ThreadRuns(usbd)
     /\ \/ /\ request.kind \in {"read", "getConfiguration"} /\ Serves(request, state)
           /\ StartTransfer("IN0", IF ZlpRequired(request) THEN "feeder_zlp" ELSE "feeder",
                            Answered(request), "empty")
        \* hid_generic_on_set_report: the first byte of the buffer is the report's identifier.
        \/ request.kind = "setReport" /\ StartTransfer("OUT0", "consumer", EpSize - 1, "report")
        \/ request.kind = "setAddress" /\ SetState("Addressed")
        \/ request.kind = "setConfiguration" /\ Serves(request, state) /\ SetState("Configured")
        \/ ~Serves(request, state) /\ Refuse
     /\ UNCHANGED <<queue, setup, status, host, budget>>
-----------------------------------------------------------------------------
(* app_usbd_core_event_handler: the end of a transfer and of a reset.      *)

\* usbd_core_ep0_handler_call_and_clear: only the report's handler looks at the status.
CallHandler(ep, result) ==
  /\ result # "ABORTED"
  /\ Executes(<<ep, result>>)
  /\ LET ok == handler = "empty" \/ (handler = "report" /\ result = "OK")
     IN /\ thread' = [Idle EXCEPT !.at = "answer", !.ep = ep, !.ok = ok]
        /\ reports' = IF handler = "report" /\ ok
                      THEN reports \cup {usbd.received["OUT0"].data} ELSE reports
  /\ handler' = "NULL"
  /\ queue' = Tail(queue)
  /\ UNCHANGED <<usbd, setup, state, status, host, budget>>

IgnoreAborted(ep) ==
  /\ Executes(<<ep, "ABORTED">>)
  /\ queue' = Tail(queue)
  /\ UNCHANGED <<usbd, setup, device, status, host, budget>>

ExecReset ==
  /\ Executes(<<"RESET", "">>)
  /\ state' = "Default"
  /\ queue' = Tail(queue)
  /\ UNCHANGED <<usbd, setup, thread, handler, reports, status, host, budget>>

\* How both functions end: with the data or the status stage, or with a stall.
Answer ==
  LET dir == IF thread.ep = "none" THEN usbd.setupDir ELSE thread.ep
  IN /\ thread.at = "answer" /\ ThreadRuns(usbd)
     /\ thread' = Idle
     /\ IF ~thread.ok THEN usbd' = [usbd EXCEPT !.stalled = Control] /\ UNCHANGED status
        ELSE IF handler = "NULL" THEN status' = TRUE /\ UNCHANGED usbd
        ELSE usbd' = [usbd EXCEPT !.rcvOut = @ \/ dir = "OUT0"] /\ UNCHANGED status
     /\ UNCHANGED <<queue, setup, handler, state, reports, host, budget>>

Execute ==
  \/ ReadSetup \/ Serve \/ Answer \/ ExecReset
  \/ \E ep \in Endpoints : \/ IgnoreAborted(ep)
                           \/ \E result \in {"OK", "OVERLOAD", "WAITING"} : CallHandler(ep, result)
-----------------------------------------------------------------------------
(* The host and the hardware of endpoint 0.                                *)

Number == setup.number
Settled == queue = <<>> /\ thread.at = "idle" /\ ~InterruptPending(usbd)

\* A SETUP token clears whatever was in the endpoint.
Cleared(u, cause) ==
  [u EXCEPT !.causes = @ \cup {cause}, !.stalled = {}, !.rcvOut = FALSE,
            !.buffer = [ep \in Endpoints |-> NoPacket]]

\* The registers of a request to come are those of a request that is not under way.
HostSetup ==
  /\ budget.requests > 0
  /\ usbd.causes = {}
  /\ \/ host.stage = "none" /\ budget' = [budget EXCEPT !.requests = @ - 1]
     \/ host.stage # "none" /\ budget.abandoned > 0
        /\ budget' = [budget EXCEPT !.requests = @ - 1, !.abandoned = @ - 1]
  /\ \E request \in Sent :
       /\ setup' = Numbered(request, Number + 1)
       /\ host' = [stage |-> IF request.length = 0 THEN "status" ELSE "data",
                   request |-> request, count |-> 0, foreign |-> FALSE,
                   clean |-> Settled /\ "OUT0" \notin usbd.ready, serves |-> Serves(request, state), ended |-> "none"]
  /\ usbd' = Cleared(usbd, "SETUP")
  /\ status' = FALSE
  /\ UNCHANGED <<queue, device>>

HostReset ==
  /\ budget.abandoned > 0 /\ budget' = [budget EXCEPT !.abandoned = @ - 1]
  /\ usbd.causes = {}
  /\ usbd' = Cleared(usbd, "RESET")
  /\ status' = FALSE
  /\ host' = [host EXCEPT !.stage = "none", !.ended = "abandoned"]
  /\ UNCHANGED <<queue, setup, device>>

\* The data stage ends with a packet that is not full, or with the last byte.
Moved(size) ==
  [host EXCEPT !.count = @ + size,
               !.stage = IF size < EpSize \/ host.count + size >= host.request.length
                         THEN "status" ELSE @]

HostIn ==
  LET packet == usbd.buffer["IN0"]
  IN /\ host.stage = "data" /\ host.request.dir = "IN0"
     /\ packet # NoPacket /\ usbd.dma # "IN0" /\ usbd.stalled = {}
     /\ host' = [Moved(packet.size) EXCEPT !.foreign = @ \/ packet.data # Number]
     /\ usbd' = [usbd EXCEPT !.buffer["IN0"] = NoPacket, !.acked = @ \cup {"IN0"}]
     /\ UNCHANGED <<queue, setup, device, status, budget>>

HostOut ==
  LET size == Min({EpSize, host.request.length - host.count})
  IN /\ host.stage = "data" /\ host.request.dir = "OUT0"
     /\ usbd.rcvOut /\ usbd.stalled = {}
     /\ host' = Moved(size)
     /\ usbd' = [usbd EXCEPT !.buffer["OUT0"] = Packet(Number, size), !.rcvOut = FALSE,
                             !.acked = @ \cup {"OUT0"}]
     /\ UNCHANGED <<queue, setup, device, status, budget>>

HostEnds(how) ==
  /\ host' = [host EXCEPT !.stage = "none", !.ended = how]
  /\ UNCHANGED <<usbd, queue, setup, device, status, budget>>

HostStatus == host.stage = "status" /\ status /\ usbd.stalled = {} /\ HostEnds("done")
HostStalled == host.stage # "none" /\ usbd.stalled # {} /\ HostEnds("stalled")

Next ==
  \/ UsbInterrupt \/ Execute
  \/ HostSetup \/ HostReset \/ HostIn \/ HostOut \/ HostStatus \/ HostStalled

Spec == Init /\ [][Next]_vars

\* The interrupts are taken, the main loop processes its queue, and the host
\* goes on with a request as soon as the device lets it.
FairSpec ==
  /\ Spec
  /\ WF_vars(UsbInterrupt) /\ WF_vars(Execute)
  /\ WF_vars(HostIn \/ HostOut \/ HostStatus \/ HostStalled)
-----------------------------------------------------------------------------
(* Properties.  A clean request is one the host starts when the device has *)
(* nothing left to do, whatever requests were abandoned before, and no     *)
(* packet of an earlier report is left in its endpoint.                    *)

\* The answer of a read has as many bytes as the host asked for or there are,
\* all of this request: nothing of an abandoned one is in it.
ReadExact ==
  host.clean /\ host.request.dir = "IN0" /\ host.stage = "status"
    => /\ host.count = Min({host.request.length, host.request.size})
       /\ ~host.foreign

\* Once the status stage of a write is acknowledged the device did what was
\* asked: it took the address or the configuration, or handed the report over.
DoneIsDone ==
  host.clean /\ host.ended = "done"
    => CASE host.request.kind = "setAddress" -> state = "Addressed"
         [] host.request.kind = "setConfiguration" -> state = "Configured"
         [] host.request.kind = "setReport" -> Number \in reports
         [] OTHER -> TRUE

Fits(request) == request.kind = "setReport" => request.length < EpSize

\* A clean request ends as it should: in a stall exactly if it is not served or
\* its report does not fit.
EndsRight ==
  host.clean => /\ host.ended = "stalled" => ~(host.serves /\ Fits(host.request))
                /\ host.ended = "done" => host.serves /\ Fits(host.request)

\* Nothing of a clean request is left once it ended: no transfer, no handler, no
\* packet that the next request would get.
NothingRemains ==
  host.clean /\ host.ended \in {"done", "stalled"} /\ Settled
    => /\ handler = "NULL" /\ usbd.waiting = {} /\ usbd.buffer["IN0"] = NoPacket
       /\ usbd.ready = Ins \/ ~Fits(host.request)

\* A clean request ends, or the host abandons it.
RequestEnds ==
  \A number \in 1 .. MaxRequests :
    Number = number /\ host.clean /\ host.stage # "none" ~> Number # number \/ host.stage = "none"

\* A clean request does what it says, ends as it should and leaves nothing.
UsbControlInv == UsbControlTypeOK /\ DoneIsDone /\ EndsRight /\ NothingRemains
=============================================================================
