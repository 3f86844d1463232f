------------------------------ MODULE UsbDevice ------------------------------
(***************************************************************************)
(* The USB device of usb-hid.c: interrupts (driver, power, clock) put      *)
(* events in the queue of app_usbd, and the main loop executes them one at *)
(* a time.  Executing an event changes the suspend state machine and the   *)
(* driver, calls the application's handler, which may queue more events.   *)
(*                                                                         *)
(* An interrupt only sets driver variables and queues an event, so one     *)
(* event is one step.  The element being executed keeps its place in the   *)
(* queue until it is freed.  Transfers, SETUP and SOF events are left out. *)
(***************************************************************************)
EXTENDS Naturals, Sequences

CONSTANTS
  QueueSize,   \* APP_USBD_CONFIG_EVENT_QUEUE_SIZE
  ClockShared, \* another module keeps the HF clock running all the time
  MaxCable,    \* bound: how often the cable is plugged or pulled
  MaxHost,     \* bound: resets, suspends and resumes by the host
  MaxWakeups,  \* bound: calls of app_usbd_wakeup_req
  Environment  \* "fast": the cable moves while events are unprocessed,
               \* "glitch": it is pulled before the regulator is ready

ASSUME QueueSizeAssumption == QueueSize \in Nat \ {0}
ASSUME ClockSharedAssumption == ClockShared \in BOOLEAN
ASSUME BudgetAssumption == MaxCable \in Nat /\ MaxHost \in Nat /\ MaxWakeups \in Nat

VARIABLES
  queue,       \* m_event_queue, the event in execution first
  sustate,     \* m_sustate
  core,        \* m_app_usbd_state; "default" stands for the states above too
  drv,         \* m_drv_state: "initialized" or "poweredOn"
  irqOn,       \* USBD_IRQn is enabled and the pull-up is on
  epIrqs,      \* the interrupts that need the HF clock are enabled
  busSuspend,  \* m_bus_suspend
  lowPower,    \* USBD LOWPOWER register
  flags,       \* USBD event registers not yet handled
  waking,      \* the peripheral has left low power to signal a wake-up
  hfOn,        \* m_clock_cb.hfclk_on
  hfRequests,  \* the part of m_clock_cb.hfclk_requests that is app_usbd's
  hfWaiting,   \* its handler is in the list p_hf_head
  vbus, outrdy,\* USBREGSTATUS
  powerFlag,   \* the power event not yet handled
  bus,         \* the host's view: "none", "active", "suspended"
  budget

driver == <<drv, irqOn, busSuspend, lowPower, flags, waking>>
clock == <<hfOn, hfRequests, hfWaiting>>
power == <<vbus, outrdy, powerFlag>>
vars == <<queue, sustate, core, driver, epIrqs, clock, power, bus, budget>>

PowerEvents == {"POWER_DETECTED", "POWER_REMOVED", "POWER_READY"}
DriverEvents == {"DRV_RESET", "DRV_SUSPEND", "DRV_RESUME", "DRV_WUREQ"}
Requests == {"START_REQ", "STOP_REQ", "SUSPEND_REQ", "WAKEUP_REQ"}
Events == PowerEvents \cup DriverEvents \cup Requests \cup {"HFCLK_READY"}
Sustates == {"STOPPED", "STARTED", "ACTIVE", "SUSPENDING", "SUSPEND", "RESUMING",
             "WAITING_HFCLK_WREQ", "WAITING_HFCLK", "WAITING_WREQ"}

TypeOK ==
  /\ queue \in Seq(Events) /\ Len(queue) <= QueueSize
  /\ sustate \in Sustates
  /\ core \in {"disabled", "unattached", "powered", "default"}
  /\ drv \in {"initialized", "poweredOn"}
  /\ irqOn \in BOOLEAN /\ epIrqs \in BOOLEAN /\ busSuspend \in BOOLEAN
  /\ lowPower \in BOOLEAN /\ waking \in BOOLEAN
  /\ flags \subseteq DriverEvents
  /\ hfOn \in BOOLEAN /\ hfWaiting \in BOOLEAN /\ hfRequests \in 0 .. 1
  /\ vbus \in BOOLEAN /\ outrdy \in BOOLEAN
  /\ powerFlag \in PowerEvents \cup {"none"}
  /\ bus \in {"none", "active", "suspended"}
  /\ budget \in [cable : 0 .. MaxCable, host : 0 .. MaxHost, wakeups : 0 .. MaxWakeups]

\* After usb_init with the SoftDevice enabled; the cable may be plugged already.
Init ==
  /\ vbus \in BOOLEAN
  /\ queue = IF vbus THEN <<"POWER_DETECTED">> ELSE <<>>
  /\ outrdy = FALSE /\ powerFlag = "none" /\ bus = "none"
  /\ sustate = "STOPPED" /\ core = "disabled" /\ drv = "initialized"
  /\ irqOn = FALSE /\ epIrqs = FALSE /\ busSuspend = FALSE /\ lowPower = FALSE
  /\ flags = {} /\ waking = FALSE
  /\ hfOn = ClockShared /\ hfRequests = 0 /\ hfWaiting = FALSE
  /\ budget = [cable |-> MaxCable, host |-> MaxHost, wakeups |-> MaxWakeups]
-----------------------------------------------------------------------------
(* The event queue.                                                        *)

\* app_usbd_event_add: with the queue full the event is lost.
Add(q, event) == IF Len(q) < QueueSize THEN Append(q, event) ELSE q

Executes(event) == queue # <<>> /\ Head(queue) = event

\* The event executed is freed after the event its execution adds, if it adds
\* one, is queued.
Consume(added) == queue' = Tail(IF added = <<>> THEN queue ELSE Add(queue, Head(added)))
-----------------------------------------------------------------------------
(* sustate_set.                                                            *)

ClockRequested(s) ==
  s \in {"ACTIVE", "RESUMING", "WAITING_HFCLK_WREQ", "WAITING_HFCLK", "WAITING_WREQ"}
ClockRunning(s) == s \in {"ACTIVE", "WAITING_WREQ"}

\* nrf_drv_clock_hfclk_request and nrf_drv_clock_hfclk_release
RequestClock ==
  /\ hfRequests' = hfRequests + 1
  /\ hfWaiting' = (hfWaiting \/ ~hfOn)
  /\ UNCHANGED hfOn

ReleaseClock ==
  /\ hfRequests' = hfRequests - 1
  /\ hfOn' = IF hfRequests' = 0 THEN ClockShared ELSE hfOn
  /\ UNCHANGED hfWaiting

\* The new state, with the endpoint interrupts as the driver left them.
SetSustateFrom(s, irqs) ==
  /\ sustate' = s
  /\ epIrqs' = IF ClockRunning(s) # ClockRunning(sustate) THEN ClockRunning(s) ELSE irqs
  /\ CASE ClockRequested(s) /\ ~ClockRequested(sustate) -> RequestClock
       [] ~ClockRequested(s) /\ ClockRequested(sustate) -> ReleaseClock
       [] OTHER -> UNCHANGED clock

SetSustate(s) == SetSustateFrom(s, epIrqs)
KeepSustate == UNCHANGED <<sustate, epIrqs, clock>>

\* A clock that runs already is reported at once.
ClockEvents(s) ==
  IF ClockRequested(s) /\ ~ClockRequested(sustate) /\ hfOn THEN <<"HFCLK_READY">> ELSE <<>>
-----------------------------------------------------------------------------
(* app_usbd_event_execute, with the handler usbd_user_ev_handler.          *)

\* The driver asserts that it is powered on, which a release build ignores.
ExecStart ==
  /\ Executes("START_REQ")
  /\ core' = IF vbus THEN "powered" ELSE "unattached"
  /\ irqOn' = TRUE
  /\ busSuspend' = FALSE
  /\ SetSustateFrom("STARTED", TRUE)
  /\ Consume(<<>>)
  /\ UNCHANGED <<drv, lowPower, flags, waking, power, bus, budget>>

\* Changed on purpose: the state machine is not reset.
ExecStopKeepsState ==
  /\ Executes("STOP_REQ")
  /\ irqOn' = FALSE /\ drv' = "initialized" /\ core' = "unattached"
  /\ flags' = {} /\ waking' = FALSE /\ lowPower' = FALSE
  /\ bus' = "none"
  /\ KeepSustate
  /\ Consume(<<>>)
  /\ UNCHANGED <<busSuspend, power, budget>>

\* The handler disables the driver when it is told of the stop.
ExecStop ==
  /\ Executes("STOP_REQ")
  /\ irqOn' = FALSE
  /\ drv' = "initialized"
  /\ core' = "unattached"
  /\ flags' = {} /\ waking' = FALSE /\ lowPower' = FALSE
  /\ bus' = "none"
  /\ SetSustateFrom("STOPPED", FALSE)
  /\ Consume(<<>>)
  /\ UNCHANGED <<busSuspend, power, budget>>

\* Changed on purpose: the clock does not end a resume.
AfterClockNoResume(s) ==
  CASE s = "WAITING_HFCLK_WREQ" -> "WAITING_WREQ" [] s = "WAITING_HFCLK" -> "ACTIVE"
    [] OTHER -> s

AfterClock(s) ==
  CASE s = "RESUMING" -> "ACTIVE"
    [] s = "WAITING_HFCLK_WREQ" -> "WAITING_WREQ"
    [] s = "WAITING_HFCLK" -> "ACTIVE"
    [] OTHER -> s

ExecClockReady ==
  /\ Executes("HFCLK_READY")
  /\ SetSustate(AfterClock(sustate))
  /\ Consume(<<>>)
  /\ UNCHANGED <<core, driver, power, bus, budget>>

\* Changed on purpose: the resume is not looked for.
MaySuspendAnyway == busSuspend

\* nrf_drv_usbd_suspend: not when a resume was just detected.
MaySuspend == busSuspend /\ "DRV_RESUME" \notin flags

ExecSuspendRequest ==
  /\ Executes("SUSPEND_REQ")
  /\ IF sustate = "SUSPENDING" /\ MaySuspend
     THEN lowPower' = TRUE /\ waking' = FALSE /\ SetSustate("SUSPEND")
     ELSE UNCHANGED <<lowPower, waking>> /\ KeepSustate
  /\ Consume(<<>>)
  /\ UNCHANGED <<core, drv, irqOn, busSuspend, flags, power, bus, budget>>

\* nrf_drv_usbd_wakeup_req works from low power only, entered here if need be.
ExecWakeupRequest ==
  LET suspends == sustate = "SUSPENDING" /\ MaySuspend
      wakes == busSuspend /\ (lowPower \/ suspends)
  IN /\ Executes("WAKEUP_REQ")
     /\ lowPower' = (lowPower /\ ~wakes)
     /\ waking' = (waking \/ wakes)
     /\ IF wakes THEN SetSustate("WAITING_HFCLK_WREQ") ELSE KeepSustate
     /\ Consume(IF wakes THEN ClockEvents("WAITING_HFCLK_WREQ") ELSE <<>>)
     /\ UNCHANGED <<core, drv, irqOn, busSuspend, flags, power, bus, budget>>

ExecReset ==
  /\ Executes("DRV_RESET")
  /\ SetSustate("ACTIVE")
  /\ core' = "default"
  /\ Consume(ClockEvents("ACTIVE"))
  /\ UNCHANGED <<driver, power, bus, budget>>

ExecResume ==
  /\ Executes("DRV_RESUME")
  /\ SetSustate("RESUMING")
  /\ Consume(ClockEvents("RESUMING"))
  /\ UNCHANGED <<core, driver, power, bus, budget>>

AfterWakeup(s) == IF s = "WAITING_HFCLK_WREQ" THEN "WAITING_HFCLK" ELSE "ACTIVE"

ExecWakeup ==
  /\ Executes("DRV_WUREQ")
  /\ SetSustate(AfterWakeup(sustate))
  /\ Consume(ClockEvents(AfterWakeup(sustate)))
  /\ UNCHANGED <<core, driver, power, bus, budget>>

ExecSuspend ==
  /\ Executes("DRV_SUSPEND")
  /\ SetSustate("SUSPENDING")
  /\ Consume(<<"SUSPEND_REQ">>)
  /\ UNCHANGED <<core, driver, power, bus, budget>>

\* Changed on purpose: the handler does not stop the device.
ExecPowerRemovedIgnored ==
  /\ Executes("POWER_REMOVED")
  /\ Consume(<<>>)
  /\ UNCHANGED <<sustate, core, driver, epIrqs, clock, power, bus, budget>>

ExecPowerDetected ==
  /\ Executes("POWER_DETECTED")
  /\ drv' = "poweredOn"
  /\ Consume(<<>>)
  /\ UNCHANGED <<sustate, core, irqOn, epIrqs, busSuspend, lowPower, flags, waking, clock,
                 power, bus, budget>>

ExecPowerRemoved ==
  /\ Executes("POWER_REMOVED")
  /\ Consume(<<"STOP_REQ">>)
  /\ UNCHANGED <<sustate, core, driver, epIrqs, clock, power, bus, budget>>

\* app_usbd_start waits for the regulator as long as there is power.
ExecPowerReady ==
  /\ Executes("POWER_READY")
  /\ outrdy \/ ~vbus
  /\ Consume(IF outrdy THEN <<"START_REQ">> ELSE <<>>)
  /\ UNCHANGED <<sustate, core, driver, epIrqs, clock, power, bus, budget>>

Execute ==
  \/ ExecStart \/ ExecStop \/ ExecClockReady
  \/ ExecSuspendRequest \/ ExecWakeupRequest
  \/ ExecReset \/ ExecResume \/ ExecWakeup \/ ExecSuspend
  \/ ExecPowerDetected \/ ExecPowerRemoved \/ ExecPowerReady
-----------------------------------------------------------------------------
(* Interrupts.                                                             *)

\* USBD_IRQHandler: a reset first, then what ev_usbevent_handler finds, in
\* its order.  A wake-up that finds the bus resumed is dropped.
UsbInterrupt ==
  LET suspended == \/ "DRV_SUSPEND" \in flags /\ "DRV_RESUME" \notin flags
                   \/ busSuspend /\ flags \cap {"DRV_RESET", "DRV_RESUME"} = {}
      wakes == "DRV_WUREQ" \in flags /\ suspended
      Report(q, flag) == IF flag \in flags /\ (flag = "DRV_WUREQ" => wakes) THEN Add(q, flag) ELSE q
  IN /\ irqOn /\ drv = "poweredOn"
     /\ flags # {}
     /\ flags' = {}
     /\ busSuspend' = (suspended /\ ~wakes)
     /\ queue' = Report(Report(Report(Report(queue, "DRV_RESET"), "DRV_SUSPEND"), "DRV_RESUME"), "DRV_WUREQ")
     /\ bus' = IF wakes THEN "active" ELSE bus
     /\ UNCHANGED <<sustate, core, drv, irqOn, epIrqs, lowPower, waking, clock, power, budget>>

\* nrf_drv_power_sdh_soc_evt_handler
PowerInterrupt ==
  /\ powerFlag # "none"
  /\ queue' = Add(queue, powerFlag)
  /\ powerFlag' = "none"
  /\ UNCHANGED <<sustate, core, driver, epIrqs, clock, vbus, outrdy, bus, budget>>

\* The HF clock has started: clock_clk_started_notify
ClockStarts ==
  /\ hfRequests > 0 /\ ~hfOn
  /\ hfOn' = TRUE
  /\ hfWaiting' = FALSE
  /\ queue' = IF hfWaiting THEN Add(queue, "HFCLK_READY") ELSE queue
  /\ UNCHANGED <<sustate, core, driver, epIrqs, hfRequests, power, bus, budget>>
-----------------------------------------------------------------------------
(* The cable, the host and the application.                                *)

Spend(what) == budget[what] > 0 /\ budget' = [budget EXCEPT ![what] = @ - 1]
Settled == queue = <<>> /\ flags = {} /\ ~waking
Attached == vbus /\ drv = "poweredOn" /\ irqOn

CableIn ==
  /\ ~vbus /\ powerFlag = "none"
  /\ Settled \/ "fast" \in Environment
  /\ Spend("cable")
  /\ vbus' = TRUE
  /\ powerFlag' = "POWER_DETECTED"
  /\ UNCHANGED <<queue, sustate, core, driver, epIrqs, clock, outrdy, bus>>

RegulatorReady ==
  /\ vbus /\ ~outrdy /\ powerFlag = "none"
  /\ outrdy' = TRUE
  /\ powerFlag' = "POWER_READY"
  /\ UNCHANGED <<queue, sustate, core, driver, epIrqs, clock, vbus, bus, budget>>

CableOut ==
  /\ vbus /\ powerFlag = "none"
  /\ Settled \/ "fast" \in Environment
  /\ outrdy \/ "glitch" \in Environment
  /\ Spend("cable")
  /\ vbus' = FALSE /\ outrdy' = FALSE
  /\ powerFlag' = "POWER_REMOVED"
  /\ bus' = "none"
  /\ UNCHANGED <<queue, sustate, core, driver, epIrqs, clock>>

\* The host changes the state of the bus.
HostSignals(signals, state) ==
  /\ Attached
  /\ flags = {}
  /\ Spend("host")
  /\ flags' = signals
  /\ bus' = state
  /\ lowPower' = (lowPower /\ state = "suspended")
  /\ UNCHANGED <<queue, sustate, core, drv, irqOn, busSuspend, waking, epIrqs, clock, power>>

\* A reset of a suspended bus is activity: the peripheral detects a resume too.
HostReset ==
  HostSignals({"DRV_RESET"} \cup (IF bus = "suspended" THEN {"DRV_RESUME"} ELSE {}), "active")
HostSuspend == bus = "active" /\ HostSignals({"DRV_SUSPEND"}, "suspended")
HostResume == bus = "suspended" /\ HostSignals({"DRV_RESUME"}, "active")

\* Out of low power on a suspended bus, the peripheral may signal after a while.
WakeupAllowed ==
  /\ waking
  /\ waking' = FALSE
  /\ flags' = IF bus = "suspended" THEN flags \cup {"DRV_WUREQ"} ELSE flags
  /\ UNCHANGED <<queue, sustate, core, drv, irqOn, busSuspend, lowPower, epIrqs, clock, power,
                 bus, budget>>

\* app_usbd_wakeup_req, with remote wake-up enabled by the host.
AppWakeup ==
  /\ core = "default"
  /\ Spend("wakeups")
  /\ queue' = Add(queue, "WAKEUP_REQ")
  /\ UNCHANGED <<sustate, core, driver, epIrqs, clock, power, bus>>

Next ==
  \/ Execute
  \/ UsbInterrupt
  \/ PowerInterrupt \/ ClockStarts
  \/ CableIn \/ RegulatorReady \/ CableOut
  \/ HostReset \/ HostSuspend \/ HostResume \/ WakeupAllowed
  \/ AppWakeup

\* The main loop processes the queue, and the hardware answers.
Fairness ==
  /\ WF_vars(Execute)
  /\ WF_vars(UsbInterrupt)
  /\ WF_vars(PowerInterrupt)
  /\ WF_vars(ClockStarts)
  /\ WF_vars(RegulatorReady)
  /\ WF_vars(WakeupAllowed)

Spec == Init /\ [][Next]_vars
FairSpec == Spec /\ Fairness
-----------------------------------------------------------------------------
(* What must hold.                                                         *)

Idle == queue = <<>> /\ powerFlag = "none" /\ flags = {}

\* app_usbd holds the HF clock exactly in the states that need it, once.
ClockHeldWhenNeeded == hfRequests = (IF ClockRequested(sustate) THEN 1 ELSE 0)

\* nrf_drv_usbd_start asserts that the driver is powered on.
StartedPoweredOn == Executes("START_REQ") => drv = "poweredOn"

\* The driver is stopped only when it is powered on and was attached: the
\* assertions of nrf_drv_usbd_stop and of the core on APP_USBD_EVT_STOPPED.
StoppedAttached ==
  Executes("STOP_REQ") => drv = "poweredOn" /\ core \notin {"disabled", "unattached"}

\* A disabled driver does not keep the HF clock running.
DisabledReleasesClock == Idle /\ drv = "initialized" => hfRequests = 0

\* As long as the application has asked for no wake-up, the peripheral is
\* never in low power while the host uses the bus.
NoWakeupAsked == budget.wakeups = MaxWakeups
LowPowerOffTheBus == NoWakeupAsked => (lowPower => bus # "active")

\* In the active state the transfers of the endpoints are served.
ActiveServesEndpoints == sustate = "ACTIVE" /\ irqOn => epIrqs

\* A wake-up asked for by the application ends, whatever the host does.
Waking == {"WAITING_HFCLK_WREQ", "WAITING_HFCLK", "WAITING_WREQ"}
WakeupEnds == sustate \in Waking ~> sustate \notin Waking

\* A resume by the host, with no wake-up asked for before, ends.
ResumeEnds == sustate = "RESUMING" /\ NoWakeupAsked ~> sustate # "RESUMING"

\* A cable that stays plugged ends in a device the host can see, one that
\* stays pulled in a disabled driver that holds no clock.
PluggedAttaches == <>[]vbus => <>[]Attached
PulledReleases == <>[]~vbus => <>[](drv = "initialized" /\ hfRequests = 0)

\* The nine states of sustate_set agree with the clock and the interrupts.
UsbDeviceInv ==
  TypeOK /\ ClockHeldWhenNeeded /\ DisabledReleasesClock /\ ActiveServesEndpoints

\* app_usbd calls the driver in the states it asserts, in whatever order events come.
DriverCalledRight == StartedPoweredOn /\ StoppedAttached /\ LowPowerOffTheBus

\* Leaving the suspended state comes to an end, whoever began it.
SuspendIsLeft == ResumeEnds /\ WakeupEnds

\* The device ends up as the cable is.
CableIsFollowed == PluggedAttaches /\ PulledReleases
=============================================================================
