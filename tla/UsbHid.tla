-------------------------------- MODULE UsbHid --------------------------------
(***************************************************************************)
(* The reports of the HID interface: the class of app_usbd_hid.c and       *)
(* app_usbd_hid_generic.c over the endpoints of UsbTransfers, the event    *)
(* queue between the interrupt and the main loop, the suspend states of    *)
(* app_usbd.c as far as they allow transfers, and the table of APDU        *)
(* commands of usb-hid.c.                                                  *)
(*                                                                         *)
(* A report is one full packet.  The main loop executes an event in one    *)
(* step: what interrupts it changes nothing the event handlers read        *)
(* outside the critical regions of the driver.  The host is configured     *)
(* with one request, which stands for SET_ADDRESS and SET_CONFIGURATION;   *)
(* it has not enabled remote wake-up and left the idle rate at zero, so    *)
(* SOF events do nothing.                                                  *)
(***************************************************************************)
EXTENDS UsbTransfers

CONSTANTS
  ApduSize,    \* APDU_COMMAND_QUEUE_SIZE
  MaxOut,      \* bound: reports the host sends
  MaxIn,       \* bound: reports the application gives
  MaxBus,      \* bound: resets and suspends
  Patient      \* the host waits for the answer to a report before it sends the
               \* next, and leaves the device the time USB grants it after a
               \* reset, before a suspend and before a resume

ASSUME UsbHidAssumption ==
  /\ Endpoints = {"IN1", "OUT1"} /\ ApduSize \in Nat \ {0} /\ Patient \in BOOLEAN
  /\ MaxOut \in Nat /\ MaxIn \in Nat /\ MaxBus \in Nat

VARIABLES
  sustate,     \* m_sustate
  clock,       \* the HF clock was requested and has not been reported
  inProgress,  \* APP_USBD_HID_STATE_FLAG_TRANS_IN_PROGRESS
  asleep,      \* APP_USBD_HID_STATE_FLAG_SUSPENDED
  reports,     \* p_rep_in_queue, of REPORT_IN_QUEUE_SIZE = 1
  apdu,        \* g_apdu_command_received
  given,       \* the number of reports the application gave and was not refused
  handed,      \* history: the reports handed to the application, in order
  host,        \* the host: its view of the device, whether it suspended the bus,
               \* how many reports it sent, whether the last one is unanswered
               \* and the report it fetched last
  ghost        \* history: the OUT and the IN reports a bus event may have cost,
               \* the reports the full table refused, whether a sleep left a
               \* packet in the IN endpoint

class == <<inProgress, asleep, reports>>
application == <<apdu, given, handed, ghost>>
vars == <<usbd, queue, sustate, clock, class, application, host>>

Events == {<<"RESET", "">>, <<"SUSPEND", "">>, <<"RESUME", "">>, <<"SETUP", "">>,
           <<"SUSPEND_REQ", "">>, <<"HFCLK_READY", "">>}
            \cup (Endpoints \X {"OK", "ABORTED", "OVERLOAD", "WAITING"})

\* The types, the driver's included.
UsbHidTypeOK ==
  /\ [f \in DOMAIN [waiting |-> {}, ready |-> {}, dma |-> "", enabled |-> {}] |-> usbd[f]]
       \in [waiting : SUBSET Endpoints, ready : SUBSET Endpoints,
            dma : Endpoints \cup {"none"}, enabled : SUBSET Endpoints]
  /\ queue \in Seq(Events) /\ usbd.evts = <<>>
  /\ sustate \in {"ACTIVE", "SUSPENDING", "SUSPEND", "RESUMING"}
  /\ usbd.irqs = (sustate = "ACTIVE")
  /\ clock \in BOOLEAN /\ inProgress \in BOOLEAN /\ asleep \in BOOLEAN
  /\ Len(reports) <= 1 /\ Range(reports) \subseteq 1 .. MaxIn + 1
  /\ apdu \in 0 .. ApduSize /\ given \in 0 .. MaxIn
  /\ Range(handed) \subseteq 1 .. MaxOut
  /\ host \in [state : {"default", "configuring", "configured"}, asleep : BOOLEAN,
               sent : 0 .. MaxOut, unanswered : BOOLEAN, got : 0 .. MaxIn, bus : 0 .. MaxBus]
  /\ ghost.out \in 0 .. MaxOut /\ ghost.in \in 0 .. MaxIn 
  /\ ghost.refused \subseteq 1 .. MaxOut /\ ghost.leftover \in BOOLEAN

\* The device was reset once and is addressed but not configured.
Init ==
  /\ usbd = IdleDriver /\ queue = <<>>
  /\ sustate = "ACTIVE" /\ clock = FALSE
  /\ inProgress = FALSE /\ asleep = FALSE /\ reports = <<>>
  /\ apdu = 0 /\ given = 0 /\ handed = <<>>
  /\ host = [state |-> "default", asleep |-> FALSE, sent |-> 0, unanswered |-> FALSE,
             got |-> 0, bus |-> MaxBus]
  /\ ghost = [out |-> 0, in |-> 0, refused |-> {}, leftover |-> FALSE]
-----------------------------------------------------------------------------
(* The event queue and the interrupt that fills it.                        *)

\* The driver's new state, its events appended to what is left of the queue.
Put(u, left) ==
  \E v \in {u} : usbd' = [v EXCEPT !.evts = <<>>] /\ queue' = left \o v.evts

UsbInterrupt ==
  /\ InterruptPending(usbd)
  /\ Put(Interrupt(usbd, "OUT0"), queue)
  /\ UNCHANGED <<sustate, clock, class, application, host>>

\* app_usbd_hfclk_ready
ClockReady ==
  /\ clock
  /\ clock' = FALSE
  /\ queue' = Append(queue, <<"HFCLK_READY", "">>)
  /\ UNCHANGED <<usbd, sustate, class, application, host>>

\* app_usbd_event_queue_process takes the oldest event.
Executes(event) == ThreadRuns(usbd) /\ queue # <<>> /\ Head(queue) = event

\* sustate_set: only in the active state are the endpoints' interrupts on.
SetSustate(s, u) == sustate' = s /\ Put([u EXCEPT !.irqs = (s = "ACTIVE")], Tail(queue))
-----------------------------------------------------------------------------
(* The class.                                                              *)

\* app_usbd_ep_transfer
CanTransfer(u, ep) == ep \in u.enabled /\ sustate = "ACTIVE" /\ Accepts(u, ep)

\* An endpoint whose event ends in an error is stalled.
Serve(u, ep, handler, data) ==
  IF CanTransfer(u, ep) THEN Transfer(u, ep, handler, data, EpSize)
  ELSE [u EXCEPT !.stalled = @ \cup {ep}]

\* Changed on purpose: the report sent stays in the queue.
TransferInPeeks(u) ==
  /\ reports' = reports
  /\ inProgress' = (reports # <<>> /\ CanTransfer(u, "IN1"))

\* hid_generic_ep_transfer_in: the oldest report leaves the queue, whether or
\* not its transfer starts.
TransferIn(u) ==
  /\ reports' = <<>>
  /\ inProgress' = (reports # <<>> /\ CanTransfer(u, "IN1"))

ServeIn(u) == IF reports = <<>> THEN u ELSE Serve(u, "IN1", "feeder", Head(reports))

ExecIn(status) ==
  /\ Executes(<<"IN1", status>>)
  /\ TransferIn(usbd)
  /\ Put(ServeIn(usbd), Tail(queue))
  /\ UNCHANGED <<sustate, clock, asleep, application, host>>

\* hid_user_ev_handler copies the report to the table, or drops it.
Hand(report) ==
  IF apdu = ApduSize
  THEN ghost' = [ghost EXCEPT !.refused = @ \cup {report}] /\ UNCHANGED <<apdu, handed>>
  ELSE apdu' = apdu + 1 /\ handed' = Append(handed, report) /\ UNCHANGED ghost

\* Changed on purpose: a waiting packet is handed over at once.
ExecOutHandsWaiting(status) ==
  /\ Executes(<<"OUT1", status>>)
  /\ IF status \in {"OK", "WAITING"} THEN Hand(usbd.received["OUT1"].data)
     ELSE UNCHANGED <<apdu, handed, ghost>>
  /\ Put(Serve(usbd, "OUT1", "consumer", 0), Tail(queue))
  /\ UNCHANGED <<sustate, clock, class, given, host>>

ExecOut(status) ==
  /\ Executes(<<"OUT1", status>>)
  /\ IF status = "OK" THEN Hand(usbd.received["OUT1"].data)
     ELSE UNCHANGED <<apdu, handed, ghost>>
  /\ Put(Serve(usbd, "OUT1", "consumer", 0), Tail(queue))
  /\ UNCHANGED <<sustate, clock, class, given, host>>

\* app_usbd_hid_generic_in_report_set: the new report replaces one that waits.
\* An error of the transfer is returned, and the report is not kept.
GiveReport ==
  LET sends == ~asleep /\ ~inProgress
      report == given + 1
  IN /\ ThreadRuns(usbd) /\ given < MaxIn
     /\ IF sends /\ ~CanTransfer(usbd, "IN1") THEN UNCHANGED given ELSE given' = report
     /\ reports' = IF sends THEN <<>> ELSE <<report>>
     /\ inProgress' = (inProgress \/ (sends /\ CanTransfer(usbd, "IN1")))
     /\ Put(IF sends /\ CanTransfer(usbd, "IN1")
            THEN Transfer(usbd, "IN1", "feeder", report, EpSize) ELSE usbd, queue)
     /\ UNCHANGED <<sustate, clock, asleep, apdu, handed, ghost, host>>
-----------------------------------------------------------------------------
(* The events of the bus.                                                  *)

\* The interface is deselected: both endpoints are aborted and disabled.
Deselected(u) == EpDisable(EpDisable(u, "IN1"), "OUT1")

\* Changed on purpose: a reset leaves the flag of the class set.
ExecResetKeepsFlag ==
  /\ Executes(<<"RESET", "">>)
  /\ SetSustate("ACTIVE", Deselected(usbd))
  /\ clock' = (clock \/ sustate \in {"SUSPENDING", "SUSPEND"})
  /\ ghost' = [ghost EXCEPT !.in = given]
  /\ UNCHANGED <<inProgress, asleep, reports, apdu, given, handed, host>>

ExecReset ==
  /\ Executes(<<"RESET", "">>)
  /\ SetSustate("ACTIVE", Deselected(usbd))
  /\ clock' = (clock \/ sustate \in {"SUSPENDING", "SUSPEND"})
  /\ inProgress' = FALSE
  /\ ghost' = [ghost EXCEPT !.in = given, !.leftover = FALSE]
  /\ UNCHANGED <<asleep, reports, apdu, given, handed, host>>

\* SET_CONFIGURATION selects the interface and is acknowledged.
ExecSetup ==
  /\ Executes(<<"SETUP", "">>)
  /\ Put(EpEnable(EpEnable(usbd, "IN1"), "OUT1"), Tail(queue))
  /\ host' = [host EXCEPT !.state = IF @ = "configuring" THEN "configured" ELSE @]
  /\ UNCHANGED <<sustate, clock, class, application>>

\* usbd_user_ev_handler asks for the suspend, which is queued.
ExecSuspend ==
  /\ Executes(<<"SUSPEND", "">>)
  /\ SetSustate("SUSPENDING", Report(usbd, "SUSPEND_REQ", ""))
  /\ clock' = FALSE
  /\ asleep' = TRUE
  /\ ghost' = [ghost EXCEPT !.in = given]
  /\ UNCHANGED <<inProgress, reports, apdu, given, handed, host>>

ExecSuspendRequest ==
  /\ Executes(<<"SUSPEND_REQ", "">>)
  /\ IF sustate = "SUSPENDING"
     THEN SetSustate(IF MaySleep(usbd) THEN "SUSPEND" ELSE sustate, Sleep(usbd))
     ELSE SetSustate(sustate, usbd)
  /\ ghost' = [ghost EXCEPT !.leftover =
                  @ \/ (sustate = "SUSPENDING" /\ "IN1" \notin usbd.ready \cup usbd.waiting)]
  /\ UNCHANGED <<clock, class, apdu, given, handed, host>>

\* The class tries to send, but no transfer starts before the clock runs.
ExecResume ==
  /\ Executes(<<"RESUME", "">>)
  /\ SetSustate("RESUMING", usbd)
  /\ clock' = (clock \/ sustate \in {"SUSPENDING", "SUSPEND"})
  /\ asleep' = FALSE
  /\ reports' = <<>> /\ inProgress' = FALSE
  /\ ghost' = [ghost EXCEPT !.in = given]
  /\ UNCHANGED <<apdu, given, handed, host>>

ExecClockReady ==
  /\ Executes(<<"HFCLK_READY", "">>)
  /\ SetSustate(IF sustate = "RESUMING" THEN "ACTIVE" ELSE sustate, usbd)
  /\ UNCHANGED <<clock, class, application, host>>

Execute ==
  \/ \E status \in {"OK", "ABORTED"} : ExecIn(status)
  \/ \E status \in {"OK", "WAITING"} : ExecOut(status)
  \/ ExecReset \/ ExecSetup \/ ExecSuspend \/ ExecSuspendRequest
  \/ ExecResume \/ ExecClockReady
-----------------------------------------------------------------------------
(* The application and the host.                                           *)

\* The main loop executes the commands in the table and answers them.
TakeCommands ==
  /\ ThreadRuns(usbd) /\ apdu > 0
  /\ apdu' = 0
  /\ host' = [host EXCEPT !.unanswered = @ /\ host.sent # Last(handed)]
  /\ UNCHANGED <<usbd, queue, sustate, clock, class, given, handed, ghost>>

Attached == host.state = "configured" /\ ~host.asleep
Reachable(ep) == Attached /\ ep \in usbd.enabled \ usbd.stalled
Settled == queue = <<>> /\ ~InterruptPending(usbd) /\ usbd.acked = {} /\ ~clock

\* An endpoint that holds a packet answers NAK to the next.
HostOut ==
  /\ Reachable("OUT1") /\ host.sent < MaxOut
  /\ usbd.buffer["OUT1"] = NoPacket /\ "OUT1" \notin usbd.acked
  /\ Patient => ~host.unanswered
  /\ host' = [host EXCEPT !.sent = @ + 1, !.unanswered = TRUE]
  /\ usbd' = [usbd EXCEPT !.buffer["OUT1"] = Packet(host.sent + 1, EpSize),
                          !.acked = @ \cup {"OUT1"}]
  /\ UNCHANGED <<queue, sustate, clock, class, application>>

HostIn ==
  /\ Reachable("IN1") /\ usbd.dma # "IN1"
  /\ usbd.buffer["IN1"] # NoPacket
  /\ host' = [host EXCEPT !.got = usbd.buffer["IN1"].data]
  /\ usbd' = [usbd EXCEPT !.buffer["IN1"] = NoPacket, !.acked = @ \cup {"IN1"}]
  /\ UNCHANGED <<queue, sustate, clock, class, application>>

HostConfigure ==
  /\ host.state = "default" /\ ~host.asleep
  /\ Patient => Settled
  /\ host' = [host EXCEPT !.state = "configuring"]
  /\ usbd' = [usbd EXCEPT !.causes = @ \cup {"SETUP"}]
  /\ UNCHANGED <<queue, sustate, clock, class, application>>

HostBus(cause, state) ==
  /\ host' = [state EXCEPT !.unanswered = FALSE]
  /\ usbd' = [usbd EXCEPT !.causes = @ \cup {cause}]
  /\ ghost' = [ghost EXCEPT !.out = host.sent]
  /\ UNCHANGED <<queue, sustate, clock, class, apdu, given, handed>>

HostReset ==
  /\ ~host.asleep /\ host.bus > 0
  /\ Patient => "SETUP" \notin usbd.causes
  /\ HostBus("RESET", [host EXCEPT !.state = "default", !.bus = @ - 1])

HostSuspend ==
  /\ ~host.asleep /\ host.bus > 0
  /\ Patient => Settled
  /\ HostBus("SUSPEND", [host EXCEPT !.asleep = TRUE, !.bus = @ - 1])

HostResume ==
  /\ host.asleep
  /\ Patient => Settled
  /\ HostBus("RESUME", [host EXCEPT !.asleep = FALSE])

Next ==
  \/ UsbInterrupt \/ ClockReady \/ Execute \/ GiveReport \/ TakeCommands
  \/ HostOut \/ HostIn \/ HostConfigure \/ HostReset \/ HostSuspend \/ HostResume

Spec == Init /\ [][Next]_vars

\* The interrupts are taken, the clock starts, the main loop processes its
\* queue and its commands, and a host polls the IN endpoint.
FairSpec ==
  /\ Spec
  /\ WF_vars(UsbInterrupt) /\ WF_vars(ClockReady) /\ WF_vars(Execute)
  /\ WF_vars(TakeCommands) /\ WF_vars(HostIn)
-----------------------------------------------------------------------------
(* Properties.                                                             *)

\* The reports are handed to the application in the order they were sent, and
\* none twice: the one buffer of the class is not overwritten before its
\* OUT_REPORT_READY was handled, nor handled again.
OutInOrder == \A i, j \in DOMAIN handed : i < j => handed[i] < handed[j]

\* Where a report that was sent may still be.
Held(report) ==
  \/ usbd.buffer["OUT1"].data = report
  \/ usbd.received["OUT1"].data = report
       /\ (usbd.dma = "OUT1" \/ <<"OUT1", "OK">> \in Range(queue))

\* A report the host's controller saw acknowledged is in the device until it
\* is handed over; only a bus event or a full table costs one.
NothingLost ==
  \A report \in ghost.out + 1 .. host.sent :
    report \in Range(handed) \cup ghost.refused \/ Held(report)

\* No event of a configured device ends in an error, which would stall the
\* endpoint until the next configuration: no transfer is asked for while one is
\* under way, while the device sleeps or before its clock runs.  (A packet that
\* usbd_ep_abort_all left in the endpoint is excepted.)
NeverStalled == Attached /\ ~ghost.leftover => usbd.stalled = {}

\* The host fetches the reports in the order they were given, and none twice,
\* over resets and suspends.
FetchedOnce == [][HostIn => host'.got > host.got]_vars

\* A report that was sent is handed over, unless a bus event comes in between.
OutArrives ==
  \A report \in 1 .. MaxOut :
    host.sent >= report ~> \/ report \in Range(handed) \cup ghost.refused
                           \/ ghost.out >= report

\* The latest report given is fetched, or a later one that replaced it, unless a
\* bus event comes in between or the host is not there: the flag that marks a
\* transfer is cleared whenever there is none.
LatestArrives ==
  \A report \in 1 .. MaxIn :
    given >= report ~> \/ host.got >= report \/ ghost.in >= report
                       \/ asleep \/ host.state # "configured" \/ ghost.leftover

\* No report from the host is lost, handed over twice or out of order, and no
\* endpoint is stalled.
UsbHidInv == UsbHidTypeOK /\ OutInOrder /\ NothingLost /\ NeverStalled

\* Reports arrive, in both directions.
ReportsArrive == OutArrives /\ LatestArrives
=============================================================================
