------------------------------- MODULE HfClock -------------------------------
(***************************************************************************)
(* nrf_drv_clock: the high-frequency clock is shared by users that request *)
(* and release it.  It starts with the first request and stops with the    *)
(* last release; a user that requests it is told when it is running, at    *)
(* once or by the interrupt (the SoftDevice's event) that says so.         *)
(*                                                                         *)
(* hfclk_on is tested before the critical region that uses the result, so  *)
(* a request is two or three steps.  Calls preempt one another by level    *)
(* and form a stack: only the newest one runs.  The low-frequency clock,   *)
(* which is the same code but for the SoftDevice's own request, and the    *)
(* calibration, which a build with the SoftDevice leaves out, are not here.*)
(***************************************************************************)
EXTENDS Naturals, FiniteSets, SequencesExt

CONSTANTS
  ThreadUsers,     \* modules that request the clock from the thread
  InterruptUsers,  \* modules that request it above the clock's interrupt
  SoftDevice,      \* the SoftDevice is enabled and owns the clock
  MaxHfRequests,   \* bound: how many requests a run makes
  ClockUse         \* "early": users release before they are told

ASSUME UsersAssumption ==
  IsFiniteSet(ThreadUsers) /\ IsFiniteSet(InterruptUsers) /\ ThreadUsers \cap InterruptUsers = {}
ASSUME MaxHfRequestsAssumption == MaxHfRequests \in Nat
ASSUME SoftDeviceAssumption == SoftDevice \in BOOLEAN

VARIABLES
  hfclk_on,        \* m_clock_cb.hfclk_on
  hfclk_requests,  \* m_clock_cb.hfclk_requests
  waiting,         \* p_hf_head: the handler items, the newest first
  hfclk_started,   \* nrfx_clock: hfclk_started, the event was passed on already
  oscillator,      \* the oscillator: "off", "starting", "on"
  startedEvent,    \* HFCLKSTARTED is pending, here or in the SoftDevice
  stack,           \* the calls in progress, the running one last
  held,            \* the users whose request has returned and is not released
  told,            \* the users told that the clock is running, since they asked
  hfBudget         \* requests that may still be made

clockVars == <<hfclk_on, hfclk_requests, waiting, hfclk_started, oscillator, startedEvent>>
hfclkVars == <<clockVars, stack, held, told, hfBudget>>

Users == ThreadUsers \cup InterruptUsers
PriorityOf(u) == IF u \in ThreadUsers THEN 1 ELSE 3
ClockLevel == 2
Frames == [level : 1 .. 3, at : {"ready", "count", "enqueue", "notify", "unlink"},
           user : Users, rest : Seq(Users)]

ClockTypeOK ==
  /\ hfclk_on \in BOOLEAN /\ hfclk_started \in BOOLEAN /\ startedEvent \in BOOLEAN
  /\ hfclk_requests \in 0 .. Cardinality(Users)
  /\ waiting \in Seq(Users) /\ IsInjective(waiting)
  /\ oscillator \in {"off", "starting", "on"}
  /\ stack \in Seq(Frames)
  /\ held \subseteq Users /\ told \subseteq Users
  /\ hfBudget \in 0 .. MaxHfRequests

\* After nrf_drv_clock_init.
ClockInit ==
  /\ hfclk_on = FALSE /\ hfclk_requests = 0 /\ waiting = <<>> /\ hfclk_started = FALSE
  /\ oscillator = "off" /\ startedEvent = FALSE
  /\ stack = <<>> /\ held = {} /\ told = {} /\ hfBudget = MaxHfRequests
-----------------------------------------------------------------------------
Running == Last(stack)
Now(at) == stack # <<>> /\ Running.at = at
Level == IF stack = <<>> THEN 0 ELSE Running.level

Enter(level, at, u) ==
  stack' = Append(stack, [level |-> level, at |-> at, user |-> u, rest |-> <<>>])
Goto(at) == stack' = [stack EXCEPT ![Len(stack)].at = at]
Leave == stack' = Front(stack)

\* The users in the middle of a request.
Asking == {stack[i].user : i \in {j \in DOMAIN stack : stack[j].at \in {"ready", "count", "enqueue"}}}

\* hfclk_start and hfclk_stop, through the SoftDevice or not.  Neither takes
\* back an event that is pending in the SoftDevice.
StartClock ==
  /\ oscillator' = "starting"
  /\ startedEvent' = (startedEvent /\ SoftDevice)
\* Changed on purpose: the next event is taken for a repeated one; the clock
\* is still said to be on.
StopClockKeepsReported ==
  /\ oscillator' = "off"
  /\ hfclk_on' = FALSE
  /\ UNCHANGED <<startedEvent, hfclk_started>>
StopClockStaysOn ==
  /\ oscillator' = "off"
  /\ hfclk_started' = FALSE
  /\ UNCHANGED <<hfclk_on, startedEvent>>

StopClock ==
  /\ oscillator' = "off"
  /\ hfclk_on' = FALSE
  /\ hfclk_started' = FALSE
  /\ UNCHANGED startedEvent
-----------------------------------------------------------------------------
(* nrf_drv_clock_hfclk_request.                                            *)

\* hfclk_on is read; what follows goes by the value it had.
hfclk_request(u) ==
  /\ u \notin held \cup Asking
  /\ PriorityOf(u) > Level
  /\ hfBudget > 0
  /\ hfBudget' = hfBudget - 1
  /\ told' = told \ {u}
  /\ Enter(PriorityOf(u), IF hfclk_on THEN "ready" ELSE "enqueue", u)
  /\ UNCHANGED <<clockVars, held>>

\* The clock was on: the handler is called, then the request is counted.
RequestReady ==
  /\ Now("ready")
  /\ told' = told \cup {Running.user}
  /\ Goto("count")
  /\ UNCHANGED <<clockVars, held, hfBudget>>

RequestCount ==
  /\ Now("count")
  /\ hfclk_requests' = hfclk_requests + 1
  /\ held' = held \cup {Running.user}
  /\ Leave
  /\ UNCHANGED <<hfclk_on, waiting, hfclk_started, oscillator, startedEvent, told, hfBudget>>

\* The clock was not on: one critical region.
RequestEnqueue ==
  /\ Now("enqueue")
  /\ IF hfclk_requests = 0 THEN StartClock ELSE UNCHANGED <<oscillator, startedEvent>>
  /\ waiting' = IF Contains(waiting, Running.user) THEN waiting ELSE <<Running.user>> \o waiting
  /\ hfclk_requests' = hfclk_requests + 1
  /\ held' = held \cup {Running.user}
  /\ Leave
  /\ UNCHANGED <<hfclk_on, hfclk_started, told, hfBudget>>
-----------------------------------------------------------------------------
(* nrf_drv_clock_hfclk_release: one critical region.                       *)

MayRelease(u) == u \in held /\ PriorityOf(u) > Level /\ (u \in told \/ "early" \in ClockUse)

hfclk_release(u) ==
  /\ MayRelease(u)
  /\ hfclk_requests' = hfclk_requests - 1
  /\ IF hfclk_requests' = 0 THEN StopClock ELSE UNCHANGED <<hfclk_on, hfclk_started, oscillator, startedEvent>>
  /\ held' = held \ {u}
  /\ UNCHANGED <<waiting, stack, told, hfBudget>>
-----------------------------------------------------------------------------
(* The clock, and the interrupt or the SoftDevice's event.                 *)

OscillatorStarts ==
  /\ oscillator = "starting"
  /\ oscillator' = "on"
  /\ startedEvent' = TRUE
  /\ UNCHANGED <<hfclk_on, hfclk_requests, waiting, hfclk_started, stack, held, told, hfBudget>>

\* nrfx_clock_irq_handler passes the event on once (anomaly 201); the
\* SoftDevice's event goes straight to soc_evt_handler.
Interrupt ==
  /\ startedEvent
  /\ Level < ClockLevel
  /\ startedEvent' = FALSE
  /\ IF hfclk_started /\ ~SoftDevice
     THEN UNCHANGED <<hfclk_on, hfclk_started, stack>>
     ELSE /\ hfclk_on' = TRUE
          /\ hfclk_started' = ~SoftDevice
          /\ stack' = Append(stack, [level |-> ClockLevel, at |-> "notify",
                                     user |-> CHOOSE u \in Users : TRUE, rest |-> <<>>])
  /\ UNCHANGED <<hfclk_requests, waiting, oscillator, held, told, hfBudget>>

\* clock_clk_started_notify: item_dequeue reads the head and what follows ...
Notify ==
  /\ Now("notify")
  /\ stack' = IF waiting = <<>>
              THEN Front(stack)
              ELSE [stack EXCEPT ![Len(stack)].at = "unlink",
                                 ![Len(stack)].user = Head(waiting),
                                 ![Len(stack)].rest = Tail(waiting)]
  /\ UNCHANGED <<clockVars, held, told, hfBudget>>

\* ... and then moves the head; the handler is called.
Unlink ==
  /\ Now("unlink")
  /\ waiting' = Running.rest
  /\ told' = told \cup {Running.user}
  /\ Goto("notify")
  /\ UNCHANGED <<hfclk_on, hfclk_requests, hfclk_started, oscillator, startedEvent, held, hfBudget>>
-----------------------------------------------------------------------------
ClockStep ==
  \/ RequestReady \/ RequestCount \/ RequestEnqueue
  \/ Notify \/ Unlink

ClockNext ==
  \/ \E u \in Users : hfclk_request(u) \/ hfclk_release(u)
  \/ ClockStep
  \/ OscillatorStarts \/ Interrupt

\* A call that runs goes on, the oscillator starts, its event is delivered.
ClockFairness == WF_hfclkVars(ClockStep) /\ WF_hfclkVars(OscillatorStarts) /\ WF_hfclkVars(Interrupt)

ClockSpec == ClockInit /\ [][ClockNext]_hfclkVars
FairClockSpec == ClockSpec /\ ClockFairness
-----------------------------------------------------------------------------
(* What must hold.                                                         *)

\* The clock that somebody holds is never stopped, and nobody's is.
RunsWhileHeld == stack = <<>> => (oscillator = "off" <=> held = {})

\* A user that was told that the clock is running has a running clock.
ToldMeansRunning == \A u \in held \cap told : oscillator = "on"

\* Whoever waits while the clock is starting is told when it runs, or gives
\* it up.
WaitingIsTold ==
  \A u \in Users : u \in held /\ oscillator = "starting" ~> u \in told \/ u \notin held

\* The counter, the list and the flag of nrf_drv_clock.c agree with the clock.
HfClockInv == ClockTypeOK /\ RunsWhileHeld /\ ToldMeansRunning
=============================================================================
