------------------------------- MODULE Buttons -------------------------------
(***************************************************************************)
(* A push of a button, from its pin to the event the application gets:     *)
(* nrfx_gpiote.c finds the pins that changed and inverts what each is      *)
(* sensed for, app_button.c waits until a pin is steady, with one timer    *)
(* for all of them, bsp.c times long pushes, with another timer for all,   *)
(* and bsp_btn_ble.c binds the events anew when a link comes or goes.      *)
(* The interrupts of the pins and of the timers have one priority; a pin   *)
(* changes at any time.  Buttons are active low.                           *)
(***************************************************************************)
EXTENDS Integers

CONSTANTS
  ButtonCount,  \* m_button_count
  MaxEdges,     \* bound: changes of the pins
  MaxFull,      \* bound: timer operations that find the timer's queue full
  MaxOther      \* bound: links that come or go, and app_button_disable

ASSUME ButtonsAssumption ==
  ButtonCount \in Nat \ {0} /\ MaxEdges \in Nat /\ MaxFull \in Nat /\ MaxOther \in Nat

Ids == 0 .. ButtonCount - 1

VARIABLES
  high,        \* the pins' levels
  sense,       \* what each pin is sensed for
  port,        \* NRF_GPIOTE_EVENTS_PORT
  irq,         \* the interrupt handler that runs
  state, transition,  \* m_pin_state, m_pin_transition
  detection,   \* m_detection_delay_timer_id runs
  longTimer,   \* m_bsp_button_tmr runs
  longPin,     \* current_long_push_pin_no
  releaseAt,   \* release_event_at_push
  links,       \* m_num_connections
  reported,    \* history: the last report of each button
  linksAt,     \* history: the links when its push was reported, or -1
  given,       \* history: the last event, and the button it is of
  missed,      \* history: a timer operation failed, or the buttons were disabled
  budget       \* what is left of the bounds

pins == <<high, sense, port>>
waits == <<state, transition, detection>>
bsp == <<longTimer, longPin, releaseAt, reported, linksAt, given>>
buttonVars == <<pins, irq, waits, bsp, links, missed, budget>>

LevelOf(isHigh) == IF isHigh THEN "high" ELSE "low"
Events == {"nothing", "key", "sleep", "disconnect", "whitelist off"}
Idle == [at |-> "idle", input |-> [b \in Ids |-> FALSE], next |-> 0, repeat |-> FALSE]

ButtonsTypeOK ==
  /\ high \in [Ids -> BOOLEAN] /\ sense \in [Ids -> {"high", "low", "none"}] /\ port \in BOOLEAN
  /\ irq \in [at : {"idle", "port", "timer"}, input : [Ids -> BOOLEAN],
              next : 0 .. ButtonCount, repeat : BOOLEAN]
  /\ state \in [Ids -> BOOLEAN] /\ transition \subseteq Ids
  /\ detection \in BOOLEAN /\ longTimer \in BOOLEAN /\ longPin \in Ids
  /\ releaseAt \in [Ids -> Events] /\ links \in 0 .. MaxOther
  /\ reported \in [Ids -> {"pushed", "released"}] /\ linksAt \in [Ids -> -1 .. MaxOther]
  /\ given \in [event : Events, of : Ids] /\ missed \in BOOLEAN
  /\ budget \in [edges : 0 .. MaxEdges, full : 0 .. MaxFull, other : 0 .. MaxOther]

Pushed(b) == ~high[b]
Steady(b) == IF Pushed(b) THEN "pushed" ELSE "released"

\* nrfx_gpiote_in_event_enable: the opposite of what the pin is now.
Opposite(isHigh) == LevelOf(~isHigh)

\* After bsp_init; a button may already be held.
ButtonsInit ==
  /\ high \in [Ids -> BOOLEAN]
  /\ sense = [b \in Ids |-> Opposite(high[b])] /\ port = FALSE
  /\ irq = Idle
  /\ state = [b \in Ids |-> FALSE] /\ transition = {} /\ detection = FALSE
  /\ longTimer = FALSE /\ longPin = 0
  /\ releaseAt = [b \in Ids |-> "nothing"] /\ links = 0
  /\ reported = [b \in Ids |-> Steady(b)] /\ linksAt = [b \in Ids |-> -1]
  /\ given = [event |-> "nothing", of |-> 0] /\ missed = FALSE
  /\ budget = [edges |-> MaxEdges, full |-> MaxFull, other |-> MaxOther]

Spend(what) == budget[what] > 0 /\ budget' = [budget EXCEPT ![what] = @ - 1]
-----------------------------------------------------------------------------
(* The pins (external).                                                    *)

Sensed(b) == sense[b] = LevelOf(high[b])
Detect == \E b \in Ids : Sensed(b)

\* The event comes when the first of the pins is what it is sensed for.
Latch == port' = (port \/ (~Detect /\ Detect'))

\* A pin that changed during its delay, and the pins that are waited for.
Bouncing(b) == b \in transition /\ Sensed(b)
Unsteady == transition \cup {b \in Ids : Sensed(b)}

\* A pin changes at most once until it is dealt with, not while the end of its
\* delay is dealt with, and bounces alone.
Edge(b) ==
  /\ ~Sensed(b) /\ ~(irq.at = "timer" /\ b \in transition)
  /\ IF b \in transition THEN Unsteady = {b} ELSE \A c \in Ids : ~Bouncing(c)
  /\ Spend("edges")
  /\ high' = [high EXCEPT ![b] = ~@]
  /\ UNCHANGED <<sense, irq, waits, bsp, links, missed>>
  /\ Latch
-----------------------------------------------------------------------------
(* nrfx_gpiote_irq_handler and gpiote_event_handler.                       *)

PortEvent ==
  /\ irq.at = "idle" /\ port
  /\ port' = FALSE
  /\ irq' = [Idle EXCEPT !.at = "port", !.input = high]
  /\ UNCHANGED <<high, sense, waits, bsp, links, missed, budget>>

\* A call of app_timer_stop or app_timer_start succeeds, or its queue is full.
TimerAccepts == UNCHANGED <<missed, budget>>
TimerFull == Spend("full") /\ missed' = TRUE

\* A pin that is already waited for has bounced: it is as it was before.
gpiote_event_handler(b) ==
  \/ /\ TimerFull                                   \* app_timer_stop fails
     /\ UNCHANGED waits
  \/ /\ b \notin transition
     /\ state' = [state EXCEPT ![b] = high[b]]
     /\ transition' = transition \cup {b}
     /\ \/ TimerAccepts /\ detection' = TRUE
        \/ TimerFull /\ detection' = FALSE          \* app_timer_start fails
  \/ /\ b \in transition
     /\ transition' = transition \ {b} /\ detection' = FALSE
     /\ TimerAccepts
     /\ UNCHANGED state

Seen(b) == sense[b] = LevelOf(irq.input[b])

Pin ==
  LET b == irq.next IN
  /\ irq.at = "port" /\ b < ButtonCount
  /\ \/ /\ Seen(b)
        /\ sense' = [sense EXCEPT ![b] = Opposite(irq.input[b])]
        /\ irq' = [irq EXCEPT !.next = b + 1, !.repeat = TRUE]
        /\ gpiote_event_handler(b)
     \/ /\ ~Seen(b)
        /\ irq' = [irq EXCEPT !.next = b + 1]
        /\ UNCHANGED <<sense, waits, missed, budget>>
  /\ UNCHANGED <<high, bsp, links>>
  /\ Latch

\* Changed on purpose: the pins are not looked at again.
LookAgainNever == FALSE

\* Another pin may have changed while the event could not come.
LookAgain == irq.repeat /\ irq.input # high

PortDone ==
  /\ irq.at = "port" /\ irq.next = ButtonCount
  /\ irq' = IF LookAgain THEN [Idle EXCEPT !.at = "port", !.input = high] ELSE Idle
  /\ UNCHANGED <<pins, waits, bsp, links, missed, budget>>
-----------------------------------------------------------------------------
(* detection_delay_timeout_handler and bsp_button_event_handler.           *)

\* Of two interrupts the one of the pins, with the lower number, is first.
DetectionEnds ==
  /\ irq.at = "idle" /\ ~port /\ detection
  /\ detection' = FALSE
  /\ irq' = [Idle EXCEPT !.at = "timer"]
  /\ UNCHANGED <<pins, state, transition, bsp, links, missed, budget>>

\* connection_buttons_configure and advertising_buttons_configure
PushEvent(b) == "key"
LongEvent(b) ==
  IF b = 0 THEN IF links > 0 THEN "disconnect" ELSE "nothing"
  ELSE IF b = 1 THEN "whitelist off" ELSE "nothing"
ReleaseEvent(b) == IF b = 0 /\ links = 0 THEN "sleep" ELSE "nothing"

Give(event, b) == given' = [event |-> event, of |-> b]

Push(b) ==
  /\ reported' = [reported EXCEPT ![b] = "pushed"]
  /\ linksAt' = [linksAt EXCEPT ![b] = links]
  /\ releaseAt' = [releaseAt EXCEPT ![b] = ReleaseEvent(b)]
  /\ Give(PushEvent(b), b)
  /\ \/ LongEvent(b) = "nothing" /\ TimerAccepts /\ UNCHANGED <<longTimer, longPin>>
     \/ LongEvent(b) # "nothing" /\ TimerAccepts /\ longTimer' = TRUE /\ longPin' = b
     \/ LongEvent(b) # "nothing" /\ TimerFull /\ UNCHANGED <<longTimer, longPin>>

\* Changed on purpose: a release does not stop the timer of the long push.
StopLongNever == UNCHANGED longTimer /\ TimerAccepts

StopLong == (TimerAccepts /\ longTimer' = FALSE) \/ (TimerFull /\ UNCHANGED longTimer)

ReleaseGives(b) == IF releaseAt[b] = ReleaseEvent(b) THEN ReleaseEvent(b) ELSE "nothing"

Release(b) ==
  /\ reported' = [reported EXCEPT ![b] = "released"]
  /\ StopLong
  /\ Give(ReleaseGives(b), b)
  /\ UNCHANGED <<longPin, releaseAt, linksAt>>

ButtonsLeft(b) == b < ButtonCount

\* A button whose pin is no longer what it became has not been pushed.
Button ==
  LET b == irq.next IN
  /\ irq.at = "timer" /\ ButtonsLeft(b)
  /\ irq' = [irq EXCEPT !.next = b + 1]
  /\ transition' = transition \ {b}
  /\ IF b \in transition /\ state[b] = high[b]
     THEN IF Pushed(b) THEN Push(b) ELSE Release(b)
     ELSE TimerAccepts /\ UNCHANGED bsp
  /\ UNCHANGED <<pins, state, detection, links>>

ButtonsDone ==
  /\ irq.at = "timer" /\ irq.next = ButtonCount
  /\ irq' = Idle
  /\ UNCHANGED <<pins, waits, bsp, links, missed, budget>>

\* button_timer_handler
LongPush ==
  /\ irq.at = "idle" /\ ~port /\ longTimer
  /\ longTimer' = FALSE
  /\ Give(LongEvent(longPin), longPin)
  /\ UNCHANGED <<pins, irq, waits, longPin, releaseAt, links, reported, linksAt, missed, budget>>
-----------------------------------------------------------------------------
\* ble_evt_handler of bsp_btn_ble.c
Connected ==
  /\ irq.at = "idle" /\ Spend("other")
  /\ links' = links + 1
  /\ UNCHANGED <<pins, irq, waits, bsp, missed>>

Disconnected ==
  /\ irq.at = "idle" /\ links > 0
  /\ links' = links - 1
  /\ UNCHANGED <<pins, irq, waits, bsp, missed, budget>>

\* What waits is not forgotten.
app_button_disable ==
  /\ irq.at = "idle" /\ Spend("other")
  /\ sense' = [b \in Ids |-> "none"] /\ detection' = FALSE /\ missed' = TRUE
  /\ UNCHANGED <<high, port, irq, state, transition, bsp, links>>

app_button_enable ==
  /\ irq.at = "idle" /\ \A b \in Ids : sense[b] = "none"
  /\ sense' = [b \in Ids |-> Opposite(high[b])]
  /\ UNCHANGED <<high, port, irq, waits, bsp, links, missed, budget>>

Interrupts == PortEvent \/ Pin \/ PortDone \/ DetectionEnds \/ Button \/ ButtonsDone

ButtonsNext ==
  \/ \E b \in Ids : Edge(b)
  \/ Interrupts \/ LongPush
  \/ Connected \/ Disconnected \/ app_button_disable \/ app_button_enable

\* Interrupts are taken and their handlers run to the end; the timer runs.
ButtonsFairness == WF_buttonVars(Interrupts)

ButtonsSpec == ButtonsInit /\ [][ButtonsNext]_buttonVars /\ ButtonsFairness
-----------------------------------------------------------------------------
\* With no timer operation refused and the buttons never disabled, the last
\* report of each button is what its pin is once it stays so: no press is
\* lost, and none stays reported, although the buttons share an event and a
\* timer.
ReportsSettle ==
  <>[](~missed => \A b \in Ids : reported[b] = Steady(b))

\* A long push is of a button whose last report is that it is pushed.
LongPushIsHeld ==
  [][(LongPush /\ ~missed) => reported[longPin] = "pushed"]_buttonVars

\* The device is told to sleep only by a button that was pushed, while it had
\* no link, and released without one: not by the button that woke it.
SleepIsMeant ==
  given.event = "sleep" => linksAt[given.of] = 0

\* No event is given that no push was meant for.
PushesAreMeant == [](ButtonsTypeOK /\ SleepIsMeant) /\ LongPushIsHeld
=============================================================================
