--------------------------- MODULE UsbDeviceProofs ---------------------------
(***************************************************************************)
(* Proofs about UsbDevice for every length of the event queue and however  *)
(* often the cable is moved and the host and the application signal:       *)
(* app_usbd holds the clock when it needs it, serves the endpoints when it *)
(* is active, and calls the driver as the driver asserts.  Events stay in  *)
(* the queue while the cable and the bus go on, so the invariant says      *)
(* which events can be queued while the cable is in (PluggedInv), while it *)
(* is out (PulledInv) and for what the host does to the bus (BusInv).  An  *)
(* event that found the queue full is lost, and the device may be stopped  *)
(* too late or never; it still is not stopped or started wrongly.          *)
(*                                                                         *)
(* The second part is about HfClock, the clock that the device requests,   *)
(* for every number of users that request it from the thread and release   *)
(* it once they were told that it runs, with the SoftDevice or without:    *)
(* the clock runs exactly while somebody holds it, and who was told that   *)
(* it runs has a running clock.                                            *)
(***************************************************************************)
EXTENDS UsbDevice, HfClock, SequenceTheorems, FiniteSetTheorems, TLAPS

ContentsOf(q) == {q[i] : i \in DOMAIN q}
Contents == ContentsOf(queue)

Detected == <<"POWER_DETECTED">>
Ready == <<"POWER_READY">>
DetectedReady == <<"POWER_DETECTED", "POWER_READY">>
Start == <<"START_REQ">>

ClockInv == ClockHeldWhenNeeded /\ (ClockRunning(sustate) => epIrqs)

\* Before the start and after the stop there is nothing of a bus.
AttachInv ==
  /\ irqOn => drv = "poweredOn"
  /\ irqOn <=> core \in {"powered", "default"}
  /\ ~irqOn => sustate = "STOPPED" /\ flags = {} /\ ~lowPower /\ ~waking /\ bus = "none"
  /\ flags # {} \/ bus # "none" => vbus

\* The removal of the power stops the device once: until then it was started.
Removal == {"POWER_REMOVED", "STOP_REQ"}

OneRemoval == \A i, j \in DOMAIN queue : queue[i] \in Removal /\ queue[j] \in Removal => i = j

Pulled ==
  /\ Contents \subseteq Removal \cup {"WAKEUP_REQ", "HFCLK_READY"}
  /\ powerFlag \in {"none", "POWER_REMOVED"} /\ ~outrdy
  /\ powerFlag = "POWER_REMOVED" => Contents \cap Removal = {}
  /\ OneRemoval
  /\ powerFlag = "POWER_REMOVED" \/ "POWER_REMOVED" \in Contents => irqOn \/ QueueSize = 1
  /\ "STOP_REQ" \in Contents => irqOn

PulledInv == ~vbus => Pulled

\* The way from the cable to the start; with a queue of one event it gets lost.
Starting ==
  /\ queue \in {<<>>, Detected, Ready, DetectedReady, Start}
  /\ powerFlag = "POWER_DETECTED" => queue = <<>> /\ ~outrdy
  /\ powerFlag = "POWER_READY" => queue \in {<<>>, Detected} /\ outrdy
  /\ outrdy /\ powerFlag = "none" /\ QueueSize > 1 => queue \in {Ready, DetectedReady, Start}
  /\ drv = "initialized" => powerFlag = "POWER_DETECTED" \/ queue \in {Detected, DetectedReady}
  /\ queue \in {Ready, DetectedReady, Start} => outrdy

PluggedInv ==
  vbus => /\ Contents \cap Removal = {} /\ powerFlag # "POWER_REMOVED"
          /\ ~irqOn => Starting

\* What the driver believes of the bus and what is queued of it is true, or a
\* reset or resume that says otherwise is about to be handled.
Suspends == {"DRV_SUSPEND", "SUSPEND_REQ"}

AwakeInv ==
  /\ ~waking /\ "DRV_WUREQ" \notin flags /\ Contents \cap {"WAKEUP_REQ", "DRV_WUREQ"} = {}
  /\ busSuspend /\ bus = "active" =>
       "DRV_RESUME" \in flags \/ ("DRV_RESET" \in flags /\ Contents \cap Suspends = {})
  /\ lowPower => bus # "active"

BusInv ==
  /\ "DRV_SUSPEND" \in flags => bus = "suspended"
  /\ bus = "none" => Contents \cap Suspends = {}
  /\ NoWakeupAsked => AwakeInv

DeviceInv == TypeOK /\ ClockInv /\ AttachInv /\ PulledInv /\ PluggedInv /\ BusInv

QueueType(q) == q \in Seq(Events) /\ Len(q) <= QueueSize
-----------------------------------------------------------------------------
(* The event queue.                                                        *)

\* app_usbd_event_add: behind the others, or lost.
LEMMA Added ==
  ASSUME NEW q, QueueType(q), NEW e \in Events
  PROVE  /\ QueueType(Add(q, e)) /\ ContentsOf(Add(q, e)) \subseteq ContentsOf(q) \cup {e}
         /\ DOMAIN q = 1 .. Len(q) /\ Len(q) \in Nat
         /\ \A i \in DOMAIN Add(q, e) : \/ i \in DOMAIN q /\ Add(q, e)[i] = q[i]
                                        \/ i = Len(q) + 1 /\ Add(q, e)[i] = e /\ Len(q) < QueueSize
         /\ Len(Add(q, e)) >= Len(q)
         /\ \A i \in DOMAIN q : i \in DOMAIN Add(q, e) /\ Add(q, e)[i] = q[i]
<1>1. q \in Seq(Events) /\ Len(q) \in Nat /\ DOMAIN q = 1 .. Len(q) /\ Len(q) <= QueueSize /\ QueueSize \in Nat
  BY LenProperties, QueueSizeAssumption DEF QueueType
<1>2. CASE Len(q) < QueueSize
  <2>1. Add(q, e) = Append(q, e)
    BY <1>2 DEF Add
  <2>2. /\ Append(q, e) \in Seq(Events) /\ Len(Append(q, e)) = Len(q) + 1
        /\ \A i \in 1 .. Len(q) : Append(q, e)[i] = q[i]
        /\ Append(q, e)[Len(q) + 1] = e
    BY <1>1, AppendProperties
  <2>3. DOMAIN Append(q, e) = 1 .. Len(q) + 1
    BY <2>2, LenProperties
  <2>4. \A i \in DOMAIN Append(q, e) : \/ i \in DOMAIN q /\ Append(q, e)[i] = q[i]
                                       \/ i = Len(q) + 1 /\ Append(q, e)[i] = e
    BY <1>1, <2>2, <2>3
  <2>5. \A i \in DOMAIN q : i \in DOMAIN Append(q, e) /\ Append(q, e)[i] = q[i]
    BY <1>1, <2>2, <2>3
  <2>6. Len(Append(q, e)) <= QueueSize /\ Len(Append(q, e)) >= Len(q)
    BY <1>1, <1>2, <2>2
  <2> QED
    BY <1>1, <1>2, <2>1, <2>2, <2>4, <2>5, <2>6 DEF QueueType, ContentsOf
<1>3. CASE ~(Len(q) < QueueSize)
  BY <1>1, <1>3 DEF Add, QueueType, ContentsOf
<1> QED
  BY <1>2, <1>3

\* An event is executed and freed, with an event that it adds, or none.
LEMMA Consumed ==
  ASSUME QueueType(queue), queue # <<>>, NEW added, added = <<>> \/ \E e \in Events : added = <<e>>, Consume(added)
  PROVE  /\ QueueType(queue') /\ Contents' \subseteq Contents \cup ContentsOf(added)
         /\ DOMAIN queue = 1 .. Len(queue) /\ Len(queue) \in Nat /\ Len(queue) > 0
         /\ Head(queue) = queue[1] /\ Head(queue) \in Contents /\ Head(queue) \in Events /\ 1 \in DOMAIN queue
         /\ DOMAIN queue' \subseteq Nat
         /\ \A i \in DOMAIN queue' :
              \/ i + 1 \in DOMAIN queue /\ queue'[i] = queue[i + 1]
              \/ i = Len(queue) /\ added # <<>> /\ queue'[i] \in ContentsOf(added) /\ QueueSize > 1
<1>1. /\ queue \in Seq(Events) /\ Len(queue) \in Nat /\ DOMAIN queue = 1 .. Len(queue) /\ Len(queue) > 0
      /\ Head(queue) = queue[1] /\ 1 \in DOMAIN queue /\ QueueSize \in Nat
  BY LenProperties, EmptySeq, QueueSizeAssumption DEF QueueType
<1>2. Head(queue) \in Contents /\ Head(queue) \in Events
  BY <1>1 DEF Contents, ContentsOf
<1> DEFINE q == IF added = <<>> THEN queue ELSE Add(queue, Head(added))
<1>3. /\ QueueType(q) /\ Len(q) >= Len(queue) /\ ContentsOf(q) \subseteq Contents \cup ContentsOf(added)
      /\ \A i \in DOMAIN q : \/ i \in DOMAIN queue /\ q[i] = queue[i]
                             \/ /\ i = Len(queue) + 1 /\ added # <<>> /\ q[i] \in ContentsOf(added)
                                /\ Len(queue) < QueueSize
  <2>1. CASE added = <<>>
    BY <1>1, <2>1 DEF Contents, ContentsOf
  <2>2. CASE \E e \in Events : added = <<e>>
    <3>1. PICK e \in Events : added = <<e>>
      BY <2>2
    <3>2. q = Add(queue, e) /\ added # <<>> /\ ContentsOf(added) = {e}
      BY <3>1 DEF ContentsOf
    <3>3. /\ QueueType(Add(queue, e)) /\ ContentsOf(Add(queue, e)) \subseteq ContentsOf(queue) \cup {e}
          /\ \A i \in DOMAIN Add(queue, e) :
               \/ i \in DOMAIN queue /\ Add(queue, e)[i] = queue[i]
               \/ i = Len(queue) + 1 /\ Add(queue, e)[i] = e /\ Len(queue) < QueueSize
          /\ Len(Add(queue, e)) >= Len(queue)
      BY Added
    <3> QED
      BY <3>2, <3>3 DEF Contents
  <2> QED
    BY <2>1, <2>2
<1>4. queue' = Tail(q)
  BY DEF Consume
<1> HIDE DEF q
<1>5. q \in Seq(Events) /\ q # <<>> /\ Len(q) \in Nat /\ DOMAIN q = 1 .. Len(q) /\ Len(q) <= QueueSize
  BY <1>1, <1>3, LenProperties, EmptySeq DEF QueueType
<1>6. /\ Tail(q) \in Seq(Events) /\ Len(Tail(q)) = Len(q) - 1
      /\ \A i \in 1 .. Len(q) - 1 : Tail(q)[i] = q[i + 1]
  BY <1>5, HeadTailProperties
<1>7. DOMAIN queue' = 1 .. Len(q) - 1
  BY <1>4, <1>6, LenProperties
<1>8. ASSUME NEW i \in DOMAIN queue'
      PROVE  /\ i + 1 \in DOMAIN q /\ queue'[i] = q[i + 1] /\ i \in Nat
             /\ \/ i + 1 \in DOMAIN queue /\ queue'[i] = queue[i + 1]
                \/ i = Len(queue) /\ added # <<>> /\ queue'[i] \in ContentsOf(added) /\ QueueSize > 1
  <2>1. i + 1 \in DOMAIN q /\ queue'[i] = q[i + 1] /\ i \in Nat
    BY <1>4, <1>5, <1>6, <1>7
  <2>2. CASE i + 1 \in DOMAIN queue /\ q[i + 1] = queue[i + 1]
    BY <2>1, <2>2
  <2>3. CASE /\ i + 1 = Len(queue) + 1 /\ added # <<>> /\ q[i + 1] \in ContentsOf(added)
             /\ Len(queue) < QueueSize
    <3>1. i = Len(queue) /\ QueueSize > 1
      BY <1>1, <2>1, <2>3
    <3> QED
      BY <2>1, <2>3, <3>1
  <2> QED
    BY <1>3, <2>1, <2>2, <2>3
<1>9. ContentsOf(queue') \subseteq ContentsOf(q)
  BY <1>8 DEF ContentsOf
<1>10. Contents' = ContentsOf(queue')
  BY DEF Contents, ContentsOf
<1>11. QueueType(queue')
  <2>1. Len(q) - 1 <= QueueSize
    BY <1>1, <1>5
  <2> QED
    BY <1>4, <1>6, <2>1 DEF QueueType
<1> QED
  BY <1>1, <1>2, <1>3, <1>7, <1>8, <1>9, <1>10, <1>11

\* The two events on the way to the start, one by one.
LEMMA Short ==
  ASSUME NEW x, NEW y
  PROVE  /\ Head(<<x>>) = x /\ Tail(<<x>>) = <<>> /\ Head(<<x, y>>) = x /\ Tail(<<x, y>>) = <<y>>
         /\ <<x>> # <<>> /\ <<x, y>> # <<>>
         /\ Add(<<>>, x) = <<x>>
         /\ Add(<<x>>, y) = IF QueueSize > 1 THEN <<x, y>> ELSE <<x>>
         /\ ContentsOf(<<>>) = {} /\ ContentsOf(<<x>>) = {x} /\ ContentsOf(<<x, y>>) = {x, y}
<1>1. Len(<<>>) = 0 /\ Len(<<x>>) = 1 /\ QueueSize >= 1 /\ QueueSize \in Nat
  BY QueueSizeAssumption
<1>2. Append(<<>>, x) = <<x>> /\ Append(<<x>>, y) = <<x, y>>
  <2>1. Append(<<>>, x) = <<x>>
    OBVIOUS
  <2>2. <<x>> \in Seq({x, y}) /\ <<x>>[1] = x /\ <<x, y>> \in Seq({x, y}) /\ Len(<<x, y>>) = 2
    OBVIOUS
  <2>3. /\ Append(<<x>>, y) \in Seq({x, y}) /\ Len(Append(<<x>>, y)) = 2
        /\ Append(<<x>>, y)[1] = x /\ Append(<<x>>, y)[2] = y
    BY <1>1, <2>2, AppendProperties
  <2>4. \A i \in 1 .. 2 : Append(<<x>>, y)[i] = <<x, y>>[i]
    <3>1. <<x, y>>[1] = x /\ <<x, y>>[2] = y
      OBVIOUS
    <3>2. \A i \in 1 .. 2 : i = 1 \/ i = 2
      OBVIOUS
    <3> QED
      BY <2>3, <3>1, <3>2
  <2>5. Append(<<x>>, y) = <<x, y>>
    BY <2>2, <2>3, <2>4, SeqEqual
  <2> QED
    BY <2>1, <2>5
<1>3. ContentsOf(<<>>) = {} /\ ContentsOf(<<x>>) = {x} /\ ContentsOf(<<x, y>>) = {x, y}
  BY DEF ContentsOf
<1>4. Head(<<x>>) = x /\ Tail(<<x>>) = <<>> /\ Head(<<x, y>>) = x /\ Tail(<<x, y>>) = <<y>>
  OBVIOUS
<1>5. Add(<<>>, x) = <<x>>
  BY <1>1, <1>2 DEF Add
<1>6. Add(<<x>>, y) = IF QueueSize > 1 THEN <<x, y>> ELSE <<x>>
  BY <1>1, <1>2 DEF Add
<1> QED
  BY <1>3, <1>4, <1>5, <1>6

-----------------------------------------------------------------------------
(* sustate_set.                                                            *)

\* The clock is requested and released with the states that need it.
LEMMA ClockKept ==
  ASSUME TypeOK, ClockInv, NEW s \in Sustates, NEW irqs \in BOOLEAN, SetSustateFrom(s, irqs),
         ClockRunning(s) /\ ClockRunning(sustate) => irqs
  PROVE  /\ sustate' = s /\ ClockInv' /\ epIrqs' \in BOOLEAN
         /\ hfOn' \in BOOLEAN /\ hfWaiting' \in BOOLEAN /\ hfRequests' \in 0 .. 1
<1>1. /\ sustate' = s
      /\ epIrqs' = IF ClockRunning(s) # ClockRunning(sustate) THEN ClockRunning(s) ELSE irqs
  BY DEF SetSustateFrom
<1>2. /\ hfOn \in BOOLEAN /\ hfWaiting \in BOOLEAN /\ hfRequests \in 0 .. 1 /\ sustate \in Sustates
      /\ hfRequests = (IF ClockRequested(sustate) THEN 1 ELSE 0)
  BY DEF TypeOK, ClockInv, ClockHeldWhenNeeded
<1>3. ClockRequested(s) \in BOOLEAN /\ ClockRunning(s) \in BOOLEAN /\ ClockRunning(sustate) \in BOOLEAN
  BY DEF ClockRequested, ClockRunning
<1>4. /\ hfOn' \in BOOLEAN /\ hfWaiting' \in BOOLEAN
      /\ hfRequests' = (IF ClockRequested(s) THEN 1 ELSE 0)
  <2>1. CASE ClockRequested(s) /\ ~ClockRequested(sustate)
    <3>1. RequestClock
      BY <2>1 DEF SetSustateFrom
    <3>2. hfWaiting' \in BOOLEAN /\ hfOn' = hfOn /\ hfRequests' = hfRequests + 1
      BY <1>2, <3>1 DEF RequestClock
    <3> QED
      BY <1>2, <2>1, <3>2
  <2>2. CASE ~ClockRequested(s) /\ ClockRequested(sustate)
    <3>1. ReleaseClock
      BY <2>2 DEF SetSustateFrom
    <3>2. hfWaiting' = hfWaiting /\ hfOn' \in BOOLEAN /\ hfRequests' = hfRequests - 1
      BY <1>2, <3>1, ClockSharedAssumption DEF ReleaseClock
    <3> QED
      BY <1>2, <2>2, <3>2
  <2>3. CASE ClockRequested(s) <=> ClockRequested(sustate)
    <3>1. UNCHANGED clock
      BY <2>3 DEF SetSustateFrom
    <3> QED
      BY <1>2, <2>3, <3>1 DEF clock
  <2> QED
    BY <2>1, <2>2, <2>3
<1>5. epIrqs' \in BOOLEAN /\ (ClockRunning(s) => epIrqs')
  BY <1>1, <1>3
<1>6. ClockRunning(sustate)' = ClockRunning(s) /\ ClockRequested(sustate)' = ClockRequested(s)
  BY <1>1 DEF ClockRunning, ClockRequested
<1> QED
  BY <1>1, <1>4, <1>5, <1>6 DEF ClockInv, ClockHeldWhenNeeded

\* The same with the interrupts as they were.
LEMMA ClockSet ==
  ASSUME TypeOK, ClockInv, NEW s \in Sustates, SetSustate(s)
  PROVE  /\ sustate' = s /\ ClockInv' /\ epIrqs' \in BOOLEAN
         /\ hfOn' \in BOOLEAN /\ hfWaiting' \in BOOLEAN /\ hfRequests' \in 0 .. 1
<1>1. epIrqs \in BOOLEAN /\ (ClockRunning(sustate) => epIrqs)
  BY DEF TypeOK, ClockInv
<1> QED
  BY <1>1, ClockKept DEF SetSustate

LEMMA ClockSame ==
  ASSUME TypeOK, ClockInv, UNCHANGED <<sustate, epIrqs, hfRequests>>
  PROVE  ClockInv'
BY DEF ClockInv, ClockHeldWhenNeeded, ClockRunning, ClockRequested

-----------------------------------------------------------------------------
(* What the queue may hold after an event was executed.                    *)

\* With the cable out, and nothing but the clock's event added.
LEMMA PulledExecuted ==
  ASSUME DeviceInv, queue # <<>>, NEW added \in {<<>>, <<"HFCLK_READY">>}, Consume(added),
         Head(queue) \notin Removal, UNCHANGED <<powerFlag, outrdy, irqOn, vbus>>
  PROVE  PulledInv'
<1> SUFFICES ASSUME ~vbus PROVE Pulled'
  BY DEF PulledInv
<1>1. Pulled /\ QueueType(queue)
  BY DEF DeviceInv, PulledInv, TypeOK, QueueType
<1>2. added = <<>> \/ \E e \in Events : added = <<e>>
  BY DEF Events
<1>3. ContentsOf(added) \subseteq {"HFCLK_READY"}
  BY Short
<1>4. /\ QueueType(queue') /\ Contents' \subseteq Contents \cup ContentsOf(added)
      /\ DOMAIN queue' \subseteq Nat
      /\ \A i \in DOMAIN queue' :
           \/ i + 1 \in DOMAIN queue /\ queue'[i] = queue[i + 1]
           \/ i = Len(queue) /\ added # <<>> /\ queue'[i] \in ContentsOf(added) /\ QueueSize > 1
  BY <1>1, <1>2, Consumed
<1>5. Contents' \cap Removal \subseteq Contents \cap Removal
      /\ Contents' \subseteq Contents \cup {"HFCLK_READY"}
  BY <1>3, <1>4 DEF Removal
<1>6. OneRemoval'
  <2>1. ASSUME NEW i \in DOMAIN queue', queue'[i] \in Removal
        PROVE  i + 1 \in DOMAIN queue /\ queue'[i] = queue[i + 1] /\ i \in Nat
    BY <1>3, <1>4, <2>1 DEF Removal
  <2> SUFFICES ASSUME NEW i \in DOMAIN queue', NEW j \in DOMAIN queue',
                      queue'[i] \in Removal, queue'[j] \in Removal
               PROVE  i = j
    BY DEF OneRemoval, Removal
  <2>2. i + 1 = j + 1
    BY <1>1, <2>1 DEF Pulled, OneRemoval
  <2> QED
    BY <2>1, <2>2
<1> QED
  BY <1>1, <1>5, <1>6 DEF Pulled, Removal

\* With the cable in.
LEMMA PluggedExecuted ==
  ASSUME DeviceInv, queue # <<>>, NEW added, added = <<>> \/ \E e \in Events \ Removal : added = <<e>>,
         Consume(added), vbus /\ ~irqOn' => Starting', UNCHANGED <<powerFlag, vbus>>
  PROVE  PluggedInv'
<1>1. vbus => Contents \cap Removal = {} /\ powerFlag # "POWER_REMOVED"
  BY DEF DeviceInv, PluggedInv
<1>2. QueueType(queue) /\ (added = <<>> \/ \E e \in Events : added = <<e>>)
  BY DEF DeviceInv, TypeOK, QueueType
<1>3. Contents' \subseteq Contents \cup ContentsOf(added)
  BY <1>2, Consumed
<1>4. ContentsOf(added) \cap Removal = {}
  <2>1. CASE added = <<>>
    BY <2>1, Short
  <2>2. CASE \E e \in Events \ Removal : added = <<e>>
    <3>1. PICK e \in Events \ Removal : added = <<e>>
      BY <2>2
    <3>2. ContentsOf(<<e>>) = {e}
      BY Short
    <3> QED
      BY <3>1, <3>2
  <2> QED
    BY <2>1, <2>2
<1>5. vbus => (Contents \cap Removal = {})'
  BY <1>1, <1>3, <1>4 DEF Removal
<1> QED
  BY <1>1, <1>5 DEF PluggedInv

\* A request to suspend comes from the event of a suspended bus.
LEMMA BusExecuted ==
  ASSUME DeviceInv, queue # <<>>, NEW added, added = <<>> \/ \E e \in Events : added = <<e>>,
         Consume(added), ContentsOf(added) \cap {"WAKEUP_REQ", "DRV_WUREQ"} = {},
         ContentsOf(added) \cap Suspends = {} \/ Head(queue) \in Suspends,
         UNCHANGED <<flags, bus, budget, waking, lowPower>>, busSuspend' => busSuspend
  PROVE  BusInv'
<1>1. QueueType(queue) /\ BusInv
  BY DEF DeviceInv, TypeOK, QueueType
<1>2. Contents' \subseteq Contents \cup ContentsOf(added) /\ Head(queue) \in Contents
  BY <1>1, Consumed
<1>3. Contents \cap Suspends = {} => Contents' \cap Suspends = {}
  BY <1>2
<1>4. Contents \cap {"WAKEUP_REQ", "DRV_WUREQ"} = {} => Contents' \cap {"WAKEUP_REQ", "DRV_WUREQ"} = {}
  BY <1>2
<1> QED
  BY <1>1, <1>3, <1>4 DEF BusInv, AwakeInv, NoWakeupAsked, Suspends

\* The event that is executed fits the cable and the start.
LEMMA Executed ==
  ASSUME DeviceInv, queue # <<>>
  PROVE  /\ Head(queue) \in Contents /\ QueueType(queue)
         /\ ~vbus => Head(queue) \in Removal \cup {"WAKEUP_REQ", "HFCLK_READY"}
         /\ vbus => Head(queue) \notin Removal
         /\ vbus /\ ~irqOn => Head(queue) \in {"POWER_DETECTED", "POWER_READY", "START_REQ"}
         /\ "STOP_REQ" = Head(queue) => ~vbus /\ irqOn
         /\ ~irqOn => sustate = "STOPPED" /\ flags = {} /\ ~lowPower /\ ~waking /\ bus = "none"
<1>1. QueueType(queue) /\ PulledInv /\ PluggedInv /\ AttachInv /\ queue \in Seq(Events)
  BY DEF DeviceInv, TypeOK, QueueType
<1>2. Len(queue) \in Nat /\ Len(queue) > 0 /\ DOMAIN queue = 1 .. Len(queue) /\ Head(queue) = queue[1]
  BY <1>1, LenProperties, EmptySeq
<1>3. Head(queue) \in Contents
  BY <1>2 DEF Contents, ContentsOf
<1>4. vbus /\ ~irqOn => Head(queue) \in {"POWER_DETECTED", "POWER_READY", "START_REQ"}
  BY <1>1, Short DEF PluggedInv, Starting, Detected, Ready, DetectedReady, Start
<1> QED
  BY <1>1, <1>3, <1>4 DEF PulledInv, Pulled, PluggedInv, Removal, AttachInv


-----------------------------------------------------------------------------
(* app_usbd_event_execute.                                                 *)

\* The events of which the state machine alone takes notice.
LEMMA StateExecuted ==
  ASSUME DeviceInv, queue # <<>>, NEW s \in Sustates, SetSustate(s), ~irqOn => s = sustate,
         NEW added, added = <<>> \/ \E e \in Events \ (Removal \cup {"WAKEUP_REQ", "DRV_WUREQ"}) : added = <<e>>,
         Consume(added), UNCHANGED <<driver, power, bus, budget>>,
         core' = core \/ (irqOn /\ core' = "default"),
         vbus => irqOn,
         ~vbus => added \in {<<>>, <<"HFCLK_READY">>} /\ Head(queue) \notin Removal,
         ContentsOf(added) \cap Suspends = {} \/ Head(queue) \in Suspends
  PROVE  DeviceInv'
<1>1. /\ UNCHANGED <<drv, irqOn, busSuspend, lowPower, flags, waking, vbus, outrdy, powerFlag, bus, budget>>
      /\ TypeOK /\ ClockInv /\ AttachInv /\ QueueType(queue)
      /\ added = <<>> \/ \E e \in Events : added = <<e>>
      /\ added = <<>> \/ \E e \in Events \ Removal : added = <<e>>
  BY DEF driver, power, DeviceInv, TypeOK, QueueType
<1>2. /\ sustate' = s /\ ClockInv' /\ epIrqs' \in BOOLEAN
      /\ hfOn' \in BOOLEAN /\ hfWaiting' \in BOOLEAN /\ hfRequests' \in 0 .. 1
  BY <1>1, ClockSet
<1>3. QueueType(queue')
  BY <1>1, Consumed
<1>4. TypeOK'
  BY <1>1, <1>2, <1>3 DEF TypeOK, QueueType
<1>5. AttachInv'
  BY <1>1, <1>2 DEF AttachInv
<1>6. PulledInv'
  <2>1. CASE vbus
    BY <1>1, <2>1 DEF PulledInv
  <2>2. CASE ~vbus
    BY <1>1, <2>2, PulledExecuted
  <2> QED
    BY <2>1, <2>2
<1>7. PluggedInv'
  BY <1>1, PluggedExecuted
<1>8. ContentsOf(added) \cap {"WAKEUP_REQ", "DRV_WUREQ"} = {}
  <2>1. CASE added = <<>>
    BY <2>1, Short
  <2>2. CASE \E e \in Events \ (Removal \cup {"WAKEUP_REQ", "DRV_WUREQ"}) : added = <<e>>
    <3>1. PICK e \in Events \ (Removal \cup {"WAKEUP_REQ", "DRV_WUREQ"}) : added = <<e>>
      BY <2>2
    <3>2. ContentsOf(<<e>>) = {e}
      BY Short
    <3> QED
      BY <3>1, <3>2
  <2> QED
    BY <2>1, <2>2
<1>9. BusInv'
  BY <1>1, <1>8, BusExecuted
<1> QED
  BY <1>2, <1>4, <1>5, <1>6, <1>7, <1>9 DEF DeviceInv

\* The clock's event, when the clock runs already.
LEMMA ClockEvent ==
  ASSUME NEW s
  PROVE  /\ ClockEvents(s) \in {<<>>, <<"HFCLK_READY">>}
         /\ ClockEvents(s) = <<>> \/ \E e \in Events \ (Removal \cup {"WAKEUP_REQ", "DRV_WUREQ"}) : ClockEvents(s) = <<e>>
         /\ ContentsOf(ClockEvents(s)) \cap (Suspends \cup {"WAKEUP_REQ", "DRV_WUREQ"}) = {}
<1>1. ClockEvents(s) \in {<<>>, <<"HFCLK_READY">>}
  BY DEF ClockEvents
<1>2. "HFCLK_READY" \in Events \ (Removal \cup {"WAKEUP_REQ", "DRV_WUREQ"})
  BY DEF Events, Removal
<1>3. ContentsOf(<<>>) = {} /\ ContentsOf(<<"HFCLK_READY">>) = {"HFCLK_READY"}
  BY Short
<1>4. ContentsOf(ClockEvents(s)) \subseteq {"HFCLK_READY"}
  BY <1>1, <1>3
<1> QED
  BY <1>1, <1>2, <1>4 DEF Suspends

LEMMA ExecClockReadyStep ==
  ASSUME DeviceInv, ExecClockReady
  PROVE  DeviceInv'
<1>1. /\ queue # <<>> /\ Head(queue) = "HFCLK_READY" /\ SetSustate(AfterClock(sustate)) /\ Consume(<<>>)
      /\ UNCHANGED <<core, driver, power, bus, budget>>
  BY DEF ExecClockReady, Executes
<1>2. sustate \in Sustates
  BY DEF DeviceInv, TypeOK
<1>3. AfterClock(sustate) \in Sustates /\ (sustate = "STOPPED" => AfterClock(sustate) = sustate)
  BY <1>2 DEF AfterClock, Sustates
<1>4. (~irqOn => sustate = "STOPPED") /\ (vbus => irqOn) /\ "HFCLK_READY" \notin Removal
  BY <1>1, Executed DEF Removal
<1>5. ContentsOf(<<>>) \cap Suspends = {}
  BY Short
<1> QED
  BY <1>1, <1>3, <1>4, <1>5, StateExecuted

LEMMA ExecResetStep ==
  ASSUME DeviceInv, ExecReset
  PROVE  DeviceInv'
<1>1. /\ queue # <<>> /\ Head(queue) = "DRV_RESET" /\ SetSustate("ACTIVE") /\ Consume(ClockEvents("ACTIVE"))
      /\ UNCHANGED <<driver, power, bus, budget>> /\ core' = "default"
  BY DEF ExecReset, Executes
<1>2. vbus /\ irqOn /\ "ACTIVE" \in Sustates
  BY <1>1, Executed DEF Removal, Sustates
<1> QED
  BY <1>1, <1>2, StateExecuted, ClockEvent

LEMMA ExecResumeStep ==
  ASSUME DeviceInv, ExecResume
  PROVE  DeviceInv'
<1>1. /\ queue # <<>> /\ Head(queue) = "DRV_RESUME" /\ SetSustate("RESUMING") /\ Consume(ClockEvents("RESUMING"))
      /\ UNCHANGED <<core, driver, power, bus, budget>>
  BY DEF ExecResume, Executes
<1>2. vbus /\ irqOn /\ "RESUMING" \in Sustates
  BY <1>1, Executed DEF Removal, Sustates
<1> QED
  BY <1>1, <1>2, StateExecuted, ClockEvent

LEMMA ExecWakeupStep ==
  ASSUME DeviceInv, ExecWakeup
  PROVE  DeviceInv'
<1>1. /\ queue # <<>> /\ Head(queue) = "DRV_WUREQ" /\ SetSustate(AfterWakeup(sustate))
      /\ Consume(ClockEvents(AfterWakeup(sustate)))
      /\ UNCHANGED <<core, driver, power, bus, budget>>
  BY DEF ExecWakeup, Executes
<1>2. vbus /\ irqOn /\ AfterWakeup(sustate) \in Sustates
  BY <1>1, Executed DEF Removal, Sustates, AfterWakeup
<1> QED
  BY <1>1, <1>2, StateExecuted, ClockEvent

LEMMA ExecSuspendStep ==
  ASSUME DeviceInv, ExecSuspend
  PROVE  DeviceInv'
<1>1. /\ queue # <<>> /\ Head(queue) = "DRV_SUSPEND" /\ SetSustate("SUSPENDING") /\ Consume(<<"SUSPEND_REQ">>)
      /\ UNCHANGED <<core, driver, power, bus, budget>>
  BY DEF ExecSuspend, Executes
<1>2. vbus /\ irqOn /\ "SUSPENDING" \in Sustates
  BY <1>1, Executed DEF Removal, Sustates
<1>3. "SUSPEND_REQ" \in Events \ (Removal \cup {"WAKEUP_REQ", "DRV_WUREQ"}) /\ "DRV_SUSPEND" \in Suspends
  BY DEF Events, Requests, Removal, Suspends
<1> QED
  BY <1>1, <1>2, <1>3, StateExecuted


LEMMA ExecStartStep ==
  ASSUME DeviceInv, ExecStart
  PROVE  DeviceInv'
<1>1. /\ queue # <<>> /\ Head(queue) = "START_REQ" /\ SetSustateFrom("STARTED", TRUE) /\ Consume(<<>>)
      /\ core' = (IF vbus THEN "powered" ELSE "unattached") /\ irqOn' = TRUE /\ busSuspend' = FALSE
      /\ UNCHANGED <<drv, lowPower, flags, waking, vbus, outrdy, powerFlag, bus, budget>>
  BY DEF ExecStart, Executes, power
<1>2. TypeOK /\ ClockInv /\ AttachInv /\ QueueType(queue) /\ "STARTED" \in Sustates /\ vbus
  BY <1>1, Executed DEF DeviceInv, TypeOK, QueueType, Sustates, Removal
<1>3. drv = "poweredOn"
  <2>1. CASE irqOn
    BY <1>2, <2>1 DEF AttachInv
  <2>2. CASE ~irqOn
    <3>1. Starting
      BY <1>2, <2>2 DEF DeviceInv, PluggedInv
    <3>2. queue # Detected /\ queue # DetectedReady
      BY <1>1, Short DEF Detected, DetectedReady
    <3> QED
      BY <1>1, <1>2, <3>1, <3>2 DEF Starting, TypeOK
  <2> QED
    BY <2>1, <2>2
<1>4. /\ sustate' = "STARTED" /\ ClockInv' /\ epIrqs' \in BOOLEAN
      /\ hfOn' \in BOOLEAN /\ hfWaiting' \in BOOLEAN /\ hfRequests' \in 0 .. 1
  BY <1>1, <1>2, ClockKept
<1>5. QueueType(queue')
  BY <1>1, <1>2, Consumed
<1>6. TypeOK'
  BY <1>1, <1>2, <1>4, <1>5 DEF TypeOK, QueueType
<1>7. AttachInv'
  BY <1>1, <1>2, <1>3 DEF AttachInv
<1>8. PulledInv' /\ PluggedInv'
  BY <1>1, <1>2, PluggedExecuted DEF PulledInv
<1>9. BusInv'
  BY <1>1, Short, BusExecuted
<1> QED
  BY <1>4, <1>6, <1>7, <1>8, <1>9 DEF DeviceInv

LEMMA ExecStopStep ==
  ASSUME DeviceInv, ExecStop
  PROVE  DeviceInv'
<1>1. /\ queue # <<>> /\ Head(queue) = "STOP_REQ" /\ SetSustateFrom("STOPPED", FALSE) /\ Consume(<<>>)
      /\ irqOn' = FALSE /\ drv' = "initialized" /\ core' = "unattached"
      /\ flags' = {} /\ waking' = FALSE /\ lowPower' = FALSE /\ bus' = "none"
      /\ UNCHANGED <<busSuspend, vbus, outrdy, powerFlag, budget>>
  BY DEF ExecStop, Executes, power
<1>2. TypeOK /\ ClockInv /\ QueueType(queue) /\ "STOPPED" \in Sustates /\ ~vbus /\ Pulled
  BY <1>1, Executed DEF DeviceInv, PulledInv, TypeOK, QueueType, Sustates
<1>3. /\ sustate' = "STOPPED" /\ ClockInv' /\ epIrqs' \in BOOLEAN
      /\ hfOn' \in BOOLEAN /\ hfWaiting' \in BOOLEAN /\ hfRequests' \in 0 .. 1
  BY <1>1, <1>2, ClockKept DEF ClockRunning
<1>4. /\ QueueType(queue') /\ Contents' \subseteq Contents \cup ContentsOf(<<>>)
      /\ Head(queue) = queue[1] /\ 1 \in DOMAIN queue /\ Head(queue) \in Contents
      /\ DOMAIN queue' \subseteq Nat
      /\ \A i \in DOMAIN queue' : i + 1 \in DOMAIN queue /\ queue'[i] = queue[i + 1]
  BY <1>1, <1>2, Consumed
<1>5. Contents' \subseteq Contents
  BY <1>4, Short
<1>6. \A i \in DOMAIN queue' : queue'[i] \notin Removal
  <2> SUFFICES ASSUME NEW i \in DOMAIN queue', queue'[i] \in Removal PROVE FALSE
    OBVIOUS
  <2>1. i + 1 \in DOMAIN queue /\ queue[i + 1] \in Removal /\ queue[1] \in Removal
    BY <1>1, <1>4 DEF Removal
  <2>2. i + 1 = 1
    BY <1>2, <1>4, <2>1 DEF Pulled, OneRemoval
  <2>3. i = 0 /\ DOMAIN queue' = 1 .. Len(queue')
    BY <1>4, <2>2, LenProperties DEF QueueType
  <2> QED
    BY <2>3
<1>7. Contents' \cap Removal = {}
  BY <1>6 DEF Contents, ContentsOf
<1>8. TypeOK'
  BY <1>1, <1>2, <1>3, <1>4 DEF TypeOK, QueueType
<1>9. AttachInv'
  BY <1>1, <1>3 DEF AttachInv
<1>10. PulledInv' /\ PluggedInv'
  <2>1. powerFlag # "POWER_REMOVED"
    BY <1>1, <1>2, <1>4 DEF Pulled, Removal
  <2>2. OneRemoval'
    BY <1>6 DEF OneRemoval, Removal
  <2> QED
    BY <1>1, <1>2, <1>5, <1>7, <2>1, <2>2 DEF PulledInv, Pulled, PluggedInv, Removal
<1>11. BusInv'
  <2>1. Contents \cap Suspends = {}
    BY <1>2 DEF Pulled, Suspends, Removal
  <2>2. NoWakeupAsked => Contents \cap {"WAKEUP_REQ", "DRV_WUREQ"} = {}
    BY DEF DeviceInv, BusInv, AwakeInv
  <2> QED
    BY <1>1, <1>5, <2>1, <2>2 DEF BusInv, AwakeInv, NoWakeupAsked, Suspends
<1> QED
  BY <1>3, <1>8, <1>9, <1>10, <1>11 DEF DeviceInv

LEMMA ExecSuspendRequestStep ==
  ASSUME DeviceInv, ExecSuspendRequest
  PROVE  DeviceInv'
<1>1. /\ queue # <<>> /\ Head(queue) = "SUSPEND_REQ" /\ Consume(<<>>)
      /\ UNCHANGED <<core, drv, irqOn, busSuspend, flags, vbus, outrdy, powerFlag, bus, budget>>
  BY DEF ExecSuspendRequest, Executes, power
<1>2. /\ TypeOK /\ ClockInv /\ AttachInv /\ BusInv /\ QueueType(queue) /\ vbus /\ irqOn
      /\ "SUSPEND_REQ" \in Contents /\ "SUSPEND" \in Sustates
  BY <1>1, Executed DEF DeviceInv, TypeOK, QueueType, Sustates, Removal
<1>3. CASE sustate = "SUSPENDING" /\ MaySuspend
  <2>1. lowPower' = TRUE /\ waking' = FALSE /\ SetSustate("SUSPEND")
    BY <1>3 DEF ExecSuspendRequest
  <2>2. /\ sustate' = "SUSPEND" /\ ClockInv' /\ epIrqs' \in BOOLEAN
        /\ hfOn' \in BOOLEAN /\ hfWaiting' \in BOOLEAN /\ hfRequests' \in 0 .. 1
    BY <1>2, <2>1, ClockSet
  <2>3. QueueType(queue') /\ Contents' \subseteq Contents \cup ContentsOf(<<>>)
    BY <1>1, <1>2, Consumed
  <2>4. TypeOK'
    BY <1>1, <1>2, <2>1, <2>2, <2>3 DEF TypeOK, QueueType
  <2>5. AttachInv'
    BY <1>1, <1>2, <2>1 DEF AttachInv
  <2>6. PulledInv' /\ PluggedInv'
    BY <1>1, <1>2, PluggedExecuted DEF PulledInv
  <2>7. Contents' \subseteq Contents
    BY <2>3, Short
  <2>8. NoWakeupAsked => bus # "active"
    BY <1>2, <1>3 DEF BusInv, AwakeInv, MaySuspend, Suspends
  <2>9. BusInv'
    BY <1>1, <1>2, <2>1, <2>7, <2>8 DEF BusInv, AwakeInv, NoWakeupAsked, Suspends
  <2> QED
    BY <2>2, <2>4, <2>5, <2>6, <2>9 DEF DeviceInv
<1>4. CASE ~(sustate = "SUSPENDING" /\ MaySuspend)
  <2>1. UNCHANGED <<lowPower, waking, sustate, epIrqs, hfOn, hfRequests, hfWaiting>>
    BY <1>4 DEF ExecSuspendRequest, KeepSustate, clock
  <2>2. QueueType(queue')
    BY <1>1, <1>2, Consumed
  <2>3. TypeOK'
    BY <1>1, <1>2, <2>1, <2>2 DEF TypeOK, QueueType
  <2>4. AttachInv' /\ ClockInv'
    BY <1>1, <1>2, <2>1, ClockSame DEF AttachInv
  <2>5. PulledInv' /\ PluggedInv'
    BY <1>1, <1>2, PluggedExecuted DEF PulledInv
  <2>6. BusInv'
    BY <1>1, <2>1, Short, BusExecuted
  <2> QED
    BY <2>3, <2>4, <2>5, <2>6 DEF DeviceInv
<1> QED
  BY <1>3, <1>4

LEMMA ExecWakeupRequestStep ==
  ASSUME DeviceInv, ExecWakeupRequest
  PROVE  DeviceInv'
<1> DEFINE suspends == sustate = "SUSPENDING" /\ MaySuspend
           wakes == busSuspend /\ (lowPower \/ suspends)
           s == IF wakes THEN "WAITING_HFCLK_WREQ" ELSE sustate
           added == IF wakes THEN ClockEvents("WAITING_HFCLK_WREQ") ELSE <<>>
<1>1. /\ queue # <<>> /\ Head(queue) = "WAKEUP_REQ" /\ Consume(added)
      /\ lowPower' = (lowPower /\ ~wakes) /\ waking' = (waking \/ wakes)
      /\ IF wakes THEN SetSustate("WAITING_HFCLK_WREQ") ELSE KeepSustate
      /\ UNCHANGED <<core, drv, irqOn, busSuspend, flags, vbus, outrdy, powerFlag, bus, budget>>
  BY DEF ExecWakeupRequest, Executes, power
<1>2. /\ TypeOK /\ ClockInv /\ AttachInv /\ BusInv /\ QueueType(queue) /\ (vbus => irqOn)
      /\ "WAKEUP_REQ" \in Contents /\ "WAITING_HFCLK_WREQ" \in Sustates /\ (wakes => irqOn)
  BY <1>1, Executed DEF DeviceInv, TypeOK, QueueType, Sustates
<1>3. wakes \in BOOLEAN
  BY DEF MaySuspend
<1>4. /\ added \in {<<>>, <<"HFCLK_READY">>}
      /\ added = <<>> \/ \E e \in Events \ (Removal \cup {"WAKEUP_REQ", "DRV_WUREQ"}) : added = <<e>>
      /\ ContentsOf(added) \cap (Suspends \cup {"WAKEUP_REQ", "DRV_WUREQ"}) = {}
  <2>1. CASE wakes
    BY <2>1, ClockEvent
  <2>2. CASE ~wakes
    <3>1. added = <<>> /\ ContentsOf(<<>>) = {}
      BY <2>2, Short
    <3> QED
      BY <3>1
  <2> QED
    BY <2>1, <2>2
<1>5. added = <<>> \/ \E e \in Events \ Removal : added = <<e>>
  BY <1>4
<1> HIDE DEF added
<1>6. /\ ClockInv' /\ epIrqs' \in BOOLEAN /\ sustate' \in Sustates /\ (~wakes => sustate' = sustate)
      /\ hfOn' \in BOOLEAN /\ hfWaiting' \in BOOLEAN /\ hfRequests' \in 0 .. 1
  <2>1. CASE wakes
    BY <1>1, <1>2, <2>1, ClockSet
  <2>2. CASE ~wakes
    <3>1. UNCHANGED <<sustate, epIrqs, hfOn, hfRequests, hfWaiting>>
      BY <1>1, <2>2 DEF KeepSustate, clock
    <3> QED
      BY <1>2, <2>2, <3>1, ClockSame DEF TypeOK
  <2> QED
    BY <2>1, <2>2
<1> HIDE DEF wakes
<1>7. QueueType(queue') /\ Contents' \subseteq Contents \cup ContentsOf(added)
  BY <1>1, <1>2, <1>5, Consumed
<1>8. TypeOK'
  BY <1>1, <1>2, <1>3, <1>6, <1>7 DEF TypeOK, QueueType
<1>9. AttachInv'
  BY <1>1, <1>2, <1>6 DEF AttachInv
<1>10. PulledInv'
  <2>1. CASE vbus
    BY <1>1, <2>1 DEF PulledInv
  <2>2. CASE ~vbus
    BY <1>1, <1>4, <2>2, PulledExecuted DEF Removal
  <2> QED
    BY <2>1, <2>2
<1>11. PluggedInv'
  BY <1>1, <1>2, <1>5, PluggedExecuted
<1>12. BusInv'
  BY <1>1, <1>2, <1>4, <1>7 DEF BusInv, AwakeInv, NoWakeupAsked, Suspends
<1> QED
  BY <1>6, <1>8, <1>9, <1>10, <1>11, <1>12 DEF DeviceInv


\* Executing a power event only adds a request.
LEMMA PowerExecuted ==
  ASSUME DeviceInv, queue # <<>>, NEW added, added = <<>> \/ \E e \in {"STOP_REQ", "START_REQ"} : added = <<e>>,
         Consume(added),
         UNCHANGED <<sustate, core, irqOn, busSuspend, lowPower, flags, waking, epIrqs, clock, power, bus, budget>>,
         drv' = drv \/ drv' = "poweredOn"
  PROVE  TypeOK' /\ ClockInv' /\ AttachInv' /\ BusInv'
<1>1. TypeOK /\ ClockInv /\ AttachInv /\ QueueType(queue) /\ {"STOP_REQ", "START_REQ"} \subseteq Events
  BY DEF DeviceInv, TypeOK, QueueType, Events, Requests
<1>2. added = <<>> \/ \E e \in Events : added = <<e>>
  BY <1>1
<1>3. QueueType(queue')
  BY <1>1, <1>2, Consumed
<1>4. UNCHANGED <<hfOn, hfRequests, hfWaiting, vbus, outrdy, powerFlag>>
  BY DEF clock, power
<1>5. TypeOK'
  BY <1>1, <1>3, <1>4 DEF TypeOK, QueueType
<1>6. ClockInv' /\ AttachInv'
  BY <1>1, <1>4, ClockSame DEF AttachInv
<1>7. ContentsOf(added) \subseteq {"STOP_REQ", "START_REQ"}
  <2>1. CASE added = <<>>
    BY <2>1, Short
  <2>2. CASE \E e \in {"STOP_REQ", "START_REQ"} : added = <<e>>
    <3>1. PICK e \in {"STOP_REQ", "START_REQ"} : added = <<e>>
      BY <2>2
    <3>2. ContentsOf(<<e>>) = {e}
      BY Short
    <3> QED
      BY <3>1, <3>2
  <2> QED
    BY <2>1, <2>2
<1>8. ContentsOf(added) \cap {"WAKEUP_REQ", "DRV_WUREQ"} = {} /\ ContentsOf(added) \cap Suspends = {}
  BY <1>7 DEF Suspends
<1>9. BusInv'
  BY <1>2, <1>4, <1>8, BusExecuted
<1> QED
  BY <1>5, <1>6, <1>9

LEMMA ExecPowerDetectedStep ==
  ASSUME DeviceInv, ExecPowerDetected
  PROVE  DeviceInv'
<1>1. /\ queue # <<>> /\ Head(queue) = "POWER_DETECTED" /\ Consume(<<>>) /\ drv' = "poweredOn"
      /\ UNCHANGED <<sustate, core, irqOn, epIrqs, busSuspend, lowPower, flags, waking, clock, power,
                     vbus, outrdy, powerFlag, bus, budget>>
  BY DEF ExecPowerDetected, Executes, power
<1>2. TypeOK' /\ ClockInv' /\ AttachInv' /\ BusInv'
  BY <1>1, PowerExecuted
<1>3. vbus /\ (~irqOn => Starting)
  BY <1>1, Executed DEF Removal, DeviceInv, PluggedInv
<1>4. ASSUME ~irqOn PROVE Starting'
  <2>1. queue \in {Detected, DetectedReady}
    BY <1>1, <1>3, <1>4, Short DEF Starting, Ready, Start
  <2>2. queue' = IF queue = Detected THEN <<>> ELSE Ready
    <3>1. queue' = Tail(queue)
      BY <1>1 DEF Consume
    <3>2. Tail(Detected) = <<>> /\ Tail(DetectedReady) = Ready
      BY Short DEF Detected, DetectedReady, Ready
    <3> QED
      BY <2>1, <3>1, <3>2
  <2>3. /\ Detected # <<>> /\ DetectedReady # <<>> /\ Detected # Start /\ DetectedReady # Detected
        /\ Detected # Ready /\ DetectedReady # Ready /\ DetectedReady # Start
    BY Short DEF Detected, DetectedReady, Ready, Start
  <2> QED
    BY <1>1, <1>3, <1>4, <2>1, <2>2, <2>3 DEF Starting, Detected, Ready, DetectedReady, Start
<1>5. PulledInv' /\ PluggedInv'
  BY <1>1, <1>3, <1>4, PluggedExecuted DEF PulledInv
<1> QED
  BY <1>2, <1>5 DEF DeviceInv

LEMMA ExecPowerReadyStep ==
  ASSUME DeviceInv, ExecPowerReady
  PROVE  DeviceInv'
<1>1. /\ queue # <<>> /\ Head(queue) = "POWER_READY" /\ (outrdy \/ ~vbus)
      /\ Consume(IF outrdy THEN <<"START_REQ">> ELSE <<>>)
      /\ UNCHANGED <<sustate, core, drv, irqOn, epIrqs, busSuspend, lowPower, flags, waking, clock, power,
                     vbus, outrdy, powerFlag, bus, budget>>
  BY DEF ExecPowerReady, Executes, power, driver
<1>2. vbus /\ outrdy /\ (~irqOn => Starting) /\ powerFlag # "POWER_REMOVED" /\ TypeOK
  BY <1>1, Executed DEF Removal, DeviceInv, PluggedInv
<1>3. Consume(Start)
  BY <1>1, <1>2 DEF Start
<1>4. TypeOK' /\ ClockInv' /\ AttachInv' /\ BusInv'
  BY <1>1, <1>3, PowerExecuted DEF Start
<1>5. ASSUME ~irqOn PROVE Starting'
  <2>1. queue = Ready
    BY <1>1, <1>2, <1>5, Short DEF Starting, Detected, DetectedReady, Start, Ready
  <2>2. /\ Detected # <<>> /\ DetectedReady # <<>> /\ Start # <<>> /\ Ready # <<>> /\ Ready # Detected
        /\ DetectedReady # Ready
    BY Short DEF Detected, DetectedReady, Ready, Start
  <2>3. queue' = IF QueueSize > 1 THEN Start ELSE <<>>
    <3>1. queue' = Tail(Add(queue, "START_REQ"))
      BY <1>3, <2>2, Short DEF Consume, Start
    <3>2. Add(Ready, "START_REQ") = IF QueueSize > 1 THEN <<"POWER_READY", "START_REQ">> ELSE Ready
      BY Short DEF Ready
    <3>3. Tail(<<"POWER_READY", "START_REQ">>) = Start /\ Tail(Ready) = <<>>
      BY Short DEF Ready, Start
    <3> QED
      BY <2>1, <3>1, <3>2, <3>3
  <2>4. powerFlag = "none" /\ drv # "initialized"
    BY <1>2, <1>5, <2>1, <2>2 DEF Starting, TypeOK, PowerEvents
  <2> QED
    BY <1>1, <1>2, <2>2, <2>3, <2>4 DEF Starting
<1>6. PulledInv' /\ PluggedInv'
  <2>1. "START_REQ" \in Events \ Removal
    BY DEF Events, Requests, Removal
  <2> QED
    BY <1>1, <1>2, <1>3, <1>5, <2>1, PluggedExecuted DEF PulledInv, Start
<1> QED
  BY <1>4, <1>6 DEF DeviceInv

LEMMA ExecPowerRemovedStep ==
  ASSUME DeviceInv, ExecPowerRemoved
  PROVE  DeviceInv'
<1>1. /\ queue # <<>> /\ Head(queue) = "POWER_REMOVED" /\ Consume(<<"STOP_REQ">>)
      /\ UNCHANGED <<sustate, core, drv, irqOn, epIrqs, busSuspend, lowPower, flags, waking, clock, power,
                     vbus, outrdy, powerFlag, bus, budget>>
  BY DEF ExecPowerRemoved, Executes, power, driver
<1>2. TypeOK' /\ ClockInv' /\ AttachInv' /\ BusInv'
  BY <1>1, PowerExecuted
<1>3. ~vbus /\ Pulled /\ QueueType(queue) /\ "POWER_REMOVED" \in Contents /\ "STOP_REQ" \in Events
  BY <1>1, Executed DEF Removal, DeviceInv, PulledInv, Events, Requests
<1>4. ContentsOf(<<"STOP_REQ">>) = {"STOP_REQ"}
  BY Short
<1>5. /\ QueueType(queue') /\ Contents' \subseteq Contents \cup {"STOP_REQ"}
      /\ Head(queue) = queue[1] /\ 1 \in DOMAIN queue /\ DOMAIN queue' \subseteq Nat
      /\ \A i \in DOMAIN queue' :
           \/ i + 1 \in DOMAIN queue /\ queue'[i] = queue[i + 1]
           \/ i = Len(queue) /\ queue'[i] = "STOP_REQ" /\ QueueSize > 1
  BY <1>1, <1>3, <1>4, Consumed
<1>6. ASSUME NEW i \in DOMAIN queue', queue'[i] \in Removal
      PROVE  i = Len(queue) /\ queue'[i] = "STOP_REQ" /\ QueueSize > 1
  <2> SUFFICES ASSUME i + 1 \in DOMAIN queue, queue'[i] = queue[i + 1] PROVE FALSE
    BY <1>5
  <2>1. queue[i + 1] \in Removal /\ queue[1] \in Removal
    BY <1>1, <1>5, <1>6 DEF Removal
  <2>2. i + 1 = 1
    BY <1>3, <1>5, <2>1 DEF Pulled, OneRemoval
  <2>3. i \in Nat /\ i # 0
    BY <1>5, LenProperties DEF QueueType
  <2> QED
    BY <2>2, <2>3
<1>7. OneRemoval'
  BY <1>6 DEF OneRemoval, Removal
<1>8. \A e \in Contents' : e \in Removal => e = "STOP_REQ" /\ QueueSize > 1
  BY <1>6 DEF Contents, ContentsOf
<1>9. powerFlag # "POWER_REMOVED"
  BY <1>3 DEF Pulled, Removal
<1>10. Pulled'
  <2>1. QueueSize > 1 => irqOn
    BY <1>3, QueueSizeAssumption DEF Pulled
  <2> QED
    BY <1>1, <1>3, <1>5, <1>7, <1>8, <1>9, <2>1 DEF Pulled, Removal
<1> QED
  BY <1>1, <1>2, <1>3, <1>10 DEF DeviceInv, PulledInv, PluggedInv

-----------------------------------------------------------------------------
(* Interrupts.                                                             *)

\* The queue grows by an event that neither the cable nor the bus is about.
LEMMA Grown ==
  ASSUME DeviceInv, NEW e \in {"WAKEUP_REQ", "HFCLK_READY"}, queue' = queue \/ queue' = Add(queue, e), irqOn,
         UNCHANGED <<powerFlag, outrdy, irqOn, vbus>>
  PROVE  QueueType(queue') /\ Contents' \subseteq Contents \cup {e} /\ PulledInv' /\ PluggedInv'
<1>1. QueueType(queue) /\ PulledInv /\ PluggedInv /\ e \in Events /\ e \notin Removal
  BY DEF DeviceInv, TypeOK, QueueType, Events, Requests, Removal
<1>2. /\ QueueType(queue') /\ Contents' \subseteq Contents \cup {e}
      /\ \A i \in DOMAIN queue' : \/ i \in DOMAIN queue /\ queue'[i] = queue[i]
                                  \/ queue'[i] = e
  <2>1. CASE queue' = queue
    BY <1>1, <2>1 DEF Contents, ContentsOf
  <2>2. CASE queue' = Add(queue, e)
    <3>1. /\ QueueType(Add(queue, e)) /\ ContentsOf(Add(queue, e)) \subseteq ContentsOf(queue) \cup {e}
          /\ \A i \in DOMAIN Add(queue, e) : \/ i \in DOMAIN queue /\ Add(queue, e)[i] = queue[i]
                                             \/ Add(queue, e)[i] = e
      BY <1>1, Added
    <3>2. Contents' = ContentsOf(queue')
      BY DEF Contents, ContentsOf
    <3> QED
      BY <2>2, <3>1, <3>2 DEF Contents
  <2> QED
    BY <2>1, <2>2
<1>3. OneRemoval => OneRemoval'
  BY <1>1, <1>2 DEF OneRemoval, Removal
<1>4. PulledInv'
  BY <1>1, <1>2, <1>3 DEF PulledInv, Pulled, Removal
<1>5. PluggedInv'
  BY <1>1, <1>2 DEF PluggedInv, Removal
<1> QED
  BY <1>2, <1>4, <1>5

LEMMA ClockStartsStep ==
  ASSUME DeviceInv, ClockStarts
  PROVE  DeviceInv'
<1>1. /\ hfRequests > 0 /\ hfOn' = TRUE /\ hfWaiting' = FALSE
      /\ queue' = queue \/ queue' = Add(queue, "HFCLK_READY")
      /\ UNCHANGED <<sustate, core, drv, irqOn, busSuspend, lowPower, flags, waking, epIrqs, hfRequests,
                     vbus, outrdy, powerFlag, bus, budget>>
  BY DEF ClockStarts, driver, power
<1>2. TypeOK /\ ClockInv /\ AttachInv /\ BusInv
  BY DEF DeviceInv
<1>3. irqOn
  <2>1. hfRequests # 0
    BY <1>1, <1>2 DEF TypeOK
  <2>2. ClockRequested(sustate)
    BY <1>2, <2>1 DEF ClockInv, ClockHeldWhenNeeded
  <2>3. sustate # "STOPPED"
    BY <2>2 DEF ClockRequested
  <2> QED
    BY <1>2, <2>3 DEF AttachInv
<1>4. QueueType(queue') /\ Contents' \subseteq Contents \cup {"HFCLK_READY"} /\ PulledInv' /\ PluggedInv'
  BY <1>1, <1>3, Grown
<1>5. TypeOK' /\ ClockInv' /\ AttachInv'
  <2>1. TypeOK'
    <3>1. /\ hfOn' \in BOOLEAN /\ hfWaiting' \in BOOLEAN
          /\ UNCHANGED <<sustate, core, drv, irqOn, busSuspend, lowPower, flags, waking, epIrqs, hfRequests,
                         vbus, outrdy, powerFlag, bus, budget>>
      BY <1>1
    <3> QED
      BY <1>2, <1>4, <3>1 DEF TypeOK, QueueType
  <2>2. ClockInv'
    BY <1>1, <1>2, ClockSame
  <2>3. AttachInv'
    BY <1>1, <1>2 DEF AttachInv
  <2> QED
    BY <2>1, <2>2, <2>3
<1>6. BusInv'
  BY <1>1, <1>2, <1>4 DEF BusInv, AwakeInv, NoWakeupAsked, Suspends
<1> QED
  BY <1>4, <1>5, <1>6 DEF DeviceInv


LEMMA PowerInterruptStep ==
  ASSUME DeviceInv, PowerInterrupt
  PROVE  DeviceInv'
<1>1. /\ powerFlag # "none" /\ queue' = Add(queue, powerFlag) /\ powerFlag' = "none"
      /\ UNCHANGED <<sustate, core, drv, irqOn, busSuspend, lowPower, flags, waking, epIrqs,
                     hfOn, hfRequests, hfWaiting, vbus, outrdy, bus, budget>>
  BY DEF PowerInterrupt, driver, clock
<1>2. /\ TypeOK /\ ClockInv /\ AttachInv /\ PulledInv /\ PluggedInv /\ BusInv /\ QueueType(queue)
      /\ powerFlag \in PowerEvents /\ powerFlag \in Events
  BY <1>1 DEF DeviceInv, TypeOK, QueueType, Events
<1>3. /\ QueueType(queue') /\ ContentsOf(Add(queue, powerFlag)) \subseteq ContentsOf(queue) \cup {powerFlag}
      /\ \A i \in DOMAIN Add(queue, powerFlag) :
           \/ i \in DOMAIN queue /\ Add(queue, powerFlag)[i] = queue[i]
           \/ i = Len(queue) + 1 /\ Add(queue, powerFlag)[i] = powerFlag
  BY <1>1, <1>2, Added
<1>4. Contents' \subseteq Contents \cup {powerFlag}
  <2>1. Contents' = ContentsOf(queue')
    BY DEF Contents, ContentsOf
  <2> QED
    BY <1>1, <1>3, <2>1 DEF Contents
<1>5. TypeOK' /\ ClockInv' /\ AttachInv'
  <2>1. TypeOK'
    BY <1>1, <1>2, <1>3 DEF TypeOK, QueueType
  <2>2. ClockInv'
    BY <1>1, <1>2, ClockSame
  <2>3. AttachInv'
    BY <1>1, <1>2 DEF AttachInv
  <2> QED
    BY <2>1, <2>2, <2>3
<1>6. BusInv'
  <2>1. powerFlag \notin Suspends /\ powerFlag \notin {"WAKEUP_REQ", "DRV_WUREQ"}
    BY <1>2 DEF PowerEvents, Suspends
  <2> QED
    BY <1>1, <1>2, <1>4, <2>1 DEF BusInv, AwakeInv, NoWakeupAsked, Suspends
<1>7. PulledInv'
  <2> SUFFICES ASSUME ~vbus PROVE Pulled'
    BY <1>1 DEF PulledInv
  <2>1. Pulled /\ powerFlag = "POWER_REMOVED" /\ Contents \cap Removal = {}
    BY <1>1, <1>2 DEF PulledInv, Pulled
  <2>2. \A i \in DOMAIN queue' : queue'[i] \in Removal => i = Len(queue) + 1
    <3>1. \A i \in DOMAIN queue : queue[i] \notin Removal
      BY <2>1 DEF Contents, ContentsOf
    <3> QED
      BY <1>1, <1>3, <3>1
  <2>3. OneRemoval'
    BY <2>2 DEF OneRemoval, Removal
  <2> QED
    BY <1>1, <1>4, <2>1, <2>3 DEF Pulled, Removal
<1>8. PluggedInv'
  <2> SUFFICES ASSUME vbus PROVE (Contents \cap Removal = {})' /\ (~irqOn => Starting')
    BY <1>1 DEF PluggedInv
  <2>1. powerFlag \in {"POWER_DETECTED", "POWER_READY"} /\ Contents \cap Removal = {}
    BY <1>1, <1>2 DEF PluggedInv, PowerEvents
  <2>2. (Contents \cap Removal = {})'
    BY <1>4, <2>1 DEF Removal
  <2>3. ASSUME ~irqOn PROVE Starting'
    <3>1. Starting
      BY <1>2, <2>3 DEF PluggedInv
    <3>2. /\ Detected # <<>> /\ DetectedReady # <<>> /\ Start # <<>> /\ Ready # <<>> /\ Ready # Detected
          /\ DetectedReady # Ready /\ DetectedReady # Detected /\ Detected # Start
      BY Short DEF Detected, DetectedReady, Ready, Start
    <3>3. CASE powerFlag = "POWER_DETECTED"
      <4>1. queue = <<>> /\ ~outrdy
        BY <3>1, <3>3 DEF Starting
      <4>2. queue' = Detected
        BY <1>1, <3>3, <4>1, Short DEF Detected
      <4> QED
        BY <1>1, <3>2, <4>1, <4>2 DEF Starting
    <3>4. CASE powerFlag = "POWER_READY" /\ queue = <<>>
      <4>1. outrdy /\ drv # "initialized"
        BY <3>1, <3>2, <3>4 DEF Starting
      <4>2. queue' = Ready
        BY <1>1, <3>4, Short DEF Ready
      <4> QED
        BY <1>1, <3>2, <4>1, <4>2 DEF Starting
    <3>5. CASE powerFlag = "POWER_READY" /\ queue = Detected
      <4>1. outrdy
        BY <3>1, <3>5 DEF Starting
      <4>2. queue' = IF QueueSize > 1 THEN DetectedReady ELSE Detected
        BY <1>1, <3>5, Short DEF Detected, DetectedReady
      <4> QED
        BY <1>1, <3>2, <4>1, <4>2 DEF Starting
    <3> QED
      BY <2>1, <3>1, <3>3, <3>4, <3>5 DEF Starting
  <2> QED
    BY <2>2, <2>3
<1> QED
  BY <1>5, <1>6, <1>7, <1>8 DEF DeviceInv

LEMMA UsbInterruptStep ==
  ASSUME DeviceInv, UsbInterrupt
  PROVE  DeviceInv'
<1> DEFINE suspended == \/ "DRV_SUSPEND" \in flags /\ "DRV_RESUME" \notin flags
                        \/ busSuspend /\ flags \cap {"DRV_RESET", "DRV_RESUME"} = {}
           wakes == "DRV_WUREQ" \in flags /\ suspended
           Report(q, flag) == IF flag \in flags /\ (flag = "DRV_WUREQ" => wakes) THEN Add(q, flag) ELSE q
<1>1. /\ irqOn /\ drv = "poweredOn" /\ flags # {} /\ flags' = {}
      /\ busSuspend' = (suspended /\ ~wakes)
      /\ queue' = Report(Report(Report(Report(queue, "DRV_RESET"), "DRV_SUSPEND"), "DRV_RESUME"), "DRV_WUREQ")
      /\ bus' = IF wakes THEN "active" ELSE bus
      /\ UNCHANGED <<sustate, core, drv, irqOn, epIrqs, lowPower, waking, hfOn, hfRequests, hfWaiting,
                     vbus, outrdy, powerFlag, budget>>
  BY DEF UsbInterrupt, clock, power
<1>2. TypeOK /\ ClockInv /\ AttachInv /\ PluggedInv /\ BusInv /\ QueueType(queue) /\ flags \subseteq DriverEvents
  BY DEF DeviceInv, TypeOK, QueueType
<1>3. suspended \in BOOLEAN /\ wakes \in BOOLEAN
  BY <1>2 DEF TypeOK
<1>4. vbus /\ DriverEvents \subseteq Events /\ DriverEvents \cap Removal = {}
  BY <1>1, <1>2 DEF AttachInv, DriverEvents, Events, Removal
<1>5. ASSUME NEW q, QueueType(q), NEW flag \in DriverEvents
      PROVE  QueueType(Report(q, flag)) /\ ContentsOf(Report(q, flag)) \subseteq ContentsOf(q) \cup flags
  <2>1. flag \in Events
    BY <1>4
  <2>2. QueueType(Add(q, flag)) /\ ContentsOf(Add(q, flag)) \subseteq ContentsOf(q) \cup {flag}
    BY <1>5, <2>1, Added
  <2> QED
    BY <1>5, <2>2
<1> HIDE DEF Report
<1>6. QueueType(queue') /\ ContentsOf(queue') \subseteq Contents \cup flags
  <2> DEFINE a == Report(queue, "DRV_RESET")
             b == Report(a, "DRV_SUSPEND")
             c == Report(b, "DRV_RESUME")
             d == Report(c, "DRV_WUREQ")
  <2>1. {"DRV_RESET", "DRV_SUSPEND", "DRV_RESUME", "DRV_WUREQ"} \subseteq DriverEvents
    BY DEF DriverEvents
  <2>2. QueueType(a) /\ ContentsOf(a) \subseteq ContentsOf(queue) \cup flags
    BY <1>2, <1>5, <2>1
  <2> HIDE DEF a
  <2>3. QueueType(b) /\ ContentsOf(b) \subseteq ContentsOf(a) \cup flags
    BY <1>5, <2>1, <2>2
  <2> HIDE DEF b
  <2>4. QueueType(c) /\ ContentsOf(c) \subseteq ContentsOf(b) \cup flags
    BY <1>5, <2>1, <2>3
  <2> HIDE DEF c
  <2>5. QueueType(d) /\ ContentsOf(d) \subseteq ContentsOf(c) \cup flags
    BY <1>5, <2>1, <2>4
  <2>6. queue' = d
    BY <1>1 DEF a, b, c
  <2> HIDE DEF d
  <2> QED
    BY <2>2, <2>3, <2>4, <2>5, <2>6 DEF Contents
<1>7. Contents' \subseteq Contents \cup flags
  <2>1. Contents' = ContentsOf(queue')
    BY DEF Contents, ContentsOf
  <2> QED
    BY <1>6, <2>1
<1>8. TypeOK'
  BY <1>1, <1>2, <1>3, <1>6 DEF TypeOK, QueueType
<1>9. ClockInv' /\ AttachInv'
  BY <1>1, <1>2, <1>4, ClockSame DEF AttachInv
<1>10. PulledInv' /\ PluggedInv'
  <2>1. Contents \cap Removal = {} /\ powerFlag # "POWER_REMOVED"
    BY <1>2, <1>4 DEF PluggedInv
  <2>2. (Contents \cap Removal = {})'
    BY <1>2, <1>4, <1>7, <2>1 DEF Removal
  <2> QED
    BY <1>1, <1>4, <2>1, <2>2 DEF PulledInv, PluggedInv
<1>11. BusInv'
  <2>1. ASSUME bus' = "none" PROVE Contents' \cap Suspends = {}
    <3>1. bus = "none"
      BY <1>1, <2>1
    <3>2. "DRV_SUSPEND" \notin flags /\ Contents \cap Suspends = {} /\ "SUSPEND_REQ" \notin flags
      BY <1>2, <3>1 DEF BusInv, DriverEvents
    <3> QED
      BY <1>7, <3>2 DEF Suspends
  <2>2. ASSUME NoWakeupAsked' PROVE AwakeInv'
    <3>1. AwakeInv
      BY <1>1, <1>2, <2>2 DEF BusInv, NoWakeupAsked
    <3>2. ~wakes /\ "DRV_WUREQ" \notin flags /\ "WAKEUP_REQ" \notin flags
      BY <1>2, <3>1 DEF AwakeInv, DriverEvents
    <3>3. ~(suspended /\ bus = "active")
      <4>1. "DRV_SUSPEND" \in flags => bus = "suspended"
        BY <1>2 DEF BusInv
      <4> QED
        BY <3>1, <4>1 DEF AwakeInv
    <3>4. bus' = bus
      BY <1>1, <3>2
    <3> QED
      BY <1>1, <1>7, <3>1, <3>2, <3>3, <3>4 DEF AwakeInv
  <2> QED
    BY <1>1, <2>1, <2>2 DEF BusInv, Suspends
<1> QED
  BY <1>8, <1>9, <1>10, <1>11 DEF DeviceInv

-----------------------------------------------------------------------------
(* The cable, the host and the application.                                *)

\* The bounds: a wake-up that was asked for stays asked for.
LEMMA Spent ==
  ASSUME TypeOK, NEW what \in {"cable", "host", "wakeups"}, Spend(what)
  PROVE  /\ budget' \in [cable : 0 .. MaxCable, host : 0 .. MaxHost, wakeups : 0 .. MaxWakeups]
         /\ NoWakeupAsked' => NoWakeupAsked /\ what # "wakeups"
<1>1. /\ budget \in [cable : 0 .. MaxCable, host : 0 .. MaxHost, wakeups : 0 .. MaxWakeups]
      /\ MaxCable \in Nat /\ MaxHost \in Nat /\ MaxWakeups \in Nat
  BY BudgetAssumption DEF TypeOK
<1>2. CASE what = "cable"
  <2>1. budget.cable > 0 /\ budget' = [budget EXCEPT !.cable = budget.cable - 1]
    BY <1>2 DEF Spend
  <2> QED
    BY <1>1, <1>2, <2>1 DEF NoWakeupAsked
<1>3. CASE what = "host"
  <2>1. budget.host > 0 /\ budget' = [budget EXCEPT !.host = budget.host - 1]
    BY <1>3 DEF Spend
  <2> QED
    BY <1>1, <1>3, <2>1 DEF NoWakeupAsked
<1>4. CASE what = "wakeups"
  <2>1. budget.wakeups > 0 /\ budget' = [budget EXCEPT !.wakeups = budget.wakeups - 1]
    BY <1>4 DEF Spend
  <2> QED
    BY <1>1, <1>4, <2>1 DEF NoWakeupAsked
<1> QED
  BY <1>2, <1>3, <1>4

\* The queue is not touched.
LEMMA SameQueue ==
  ASSUME UNCHANGED queue
  PROVE  Contents' = Contents /\ OneRemoval' = OneRemoval
BY DEF Contents, ContentsOf, OneRemoval, Removal

LEMMA CableInStep ==
  ASSUME DeviceInv, "fast" \notin Environment, CableIn
  PROVE  DeviceInv'
<1>1. /\ ~vbus /\ powerFlag = "none" /\ Settled /\ Spend("cable") /\ vbus' = TRUE /\ powerFlag' = "POWER_DETECTED"
      /\ UNCHANGED <<queue, sustate, core, drv, irqOn, busSuspend, lowPower, flags, waking, epIrqs,
                     hfOn, hfRequests, hfWaiting, outrdy, bus>>
  BY DEF CableIn, driver, clock
<1>2. TypeOK /\ ClockInv /\ AttachInv /\ Pulled /\ BusInv /\ queue = <<>>
  BY <1>1 DEF DeviceInv, PulledInv, Settled
<1>3. /\ budget' \in [cable : 0 .. MaxCable, host : 0 .. MaxHost, wakeups : 0 .. MaxWakeups]
      /\ NoWakeupAsked' => NoWakeupAsked
  BY <1>1, <1>2, Spent
<1>4. TypeOK' /\ ClockInv' /\ AttachInv'
  <2>1. TypeOK'
    <3>1. /\ vbus' \in BOOLEAN /\ outrdy' \in BOOLEAN /\ powerFlag' \in PowerEvents
          /\ bus' \in {"none", "active", "suspended"}
      BY <1>1, <1>2 DEF TypeOK, PowerEvents
    <3>2. UNCHANGED <<queue, sustate, core, drv, irqOn, busSuspend, lowPower, flags, waking, epIrqs,
                      hfOn, hfRequests, hfWaiting>>
      BY <1>1
    <3> QED
      BY <1>2, <1>3, <3>1, <3>2 DEF TypeOK
  <2>2. ClockInv'
    BY <1>1, <1>2, ClockSame
  <2>3. AttachInv'
    BY <1>1, <1>2 DEF AttachInv
  <2> QED
    BY <2>1, <2>2, <2>3
<1>5. Contents' = {}
  BY <1>1, <1>2, SameQueue, Short DEF Contents
<1>6. PulledInv' /\ PluggedInv'
  <2>1. ~outrdy
    BY <1>2 DEF Pulled
  <2>2. Starting'
    <3>1. /\ <<>> # Detected /\ <<>> # Ready /\ <<>> # DetectedReady /\ <<>> # Start
      BY Short DEF Detected, Ready, DetectedReady, Start
    <3> QED
      BY <1>1, <1>2, <2>1, <3>1 DEF Starting
  <2> QED
    BY <1>1, <1>5, <2>2 DEF PulledInv, PluggedInv, Removal
<1>7. BusInv'
  BY <1>1, <1>2, <1>3, <1>5 DEF BusInv, AwakeInv, Suspends
<1> QED
  BY <1>4, <1>6, <1>7 DEF DeviceInv

LEMMA RegulatorReadyStep ==
  ASSUME DeviceInv, RegulatorReady
  PROVE  DeviceInv'
<1>1. /\ vbus /\ ~outrdy /\ powerFlag = "none" /\ outrdy' = TRUE /\ powerFlag' = "POWER_READY"
      /\ UNCHANGED <<queue, sustate, core, drv, irqOn, busSuspend, lowPower, flags, waking, epIrqs,
                     hfOn, hfRequests, hfWaiting, vbus, bus, budget>>
  BY DEF RegulatorReady, driver, clock
<1>2. TypeOK /\ ClockInv /\ AttachInv /\ PluggedInv /\ BusInv
  BY DEF DeviceInv
<1>3. TypeOK' /\ ClockInv' /\ AttachInv'
  <2>1. TypeOK'
    BY <1>1, <1>2 DEF TypeOK, PowerEvents
  <2>2. ClockInv'
    BY <1>1, <1>2, ClockSame
  <2>3. AttachInv'
    BY <1>1, <1>2 DEF AttachInv
  <2> QED
    BY <2>1, <2>2, <2>3
<1>4. Contents' = Contents
  BY <1>1, SameQueue
<1>5. ASSUME ~irqOn PROVE Starting'
  BY <1>1, <1>2, <1>5 DEF PluggedInv, Starting
<1>6. PulledInv' /\ PluggedInv'
  BY <1>1, <1>2, <1>4, <1>5 DEF PulledInv, PluggedInv, Removal
<1>7. BusInv'
  BY <1>1, <1>2, <1>4 DEF BusInv, AwakeInv, NoWakeupAsked, Suspends
<1> QED
  BY <1>3, <1>6, <1>7 DEF DeviceInv

LEMMA CableOutStep ==
  ASSUME DeviceInv, "fast" \notin Environment, "glitch" \notin Environment, CableOut
  PROVE  DeviceInv'
<1>1. /\ vbus /\ powerFlag = "none" /\ Settled /\ outrdy /\ Spend("cable")
      /\ vbus' = FALSE /\ outrdy' = FALSE /\ powerFlag' = "POWER_REMOVED" /\ bus' = "none"
      /\ UNCHANGED <<queue, sustate, core, drv, irqOn, busSuspend, lowPower, flags, waking, epIrqs,
                     hfOn, hfRequests, hfWaiting>>
  BY DEF CableOut, driver, clock
<1>2. TypeOK /\ ClockInv /\ AttachInv /\ PluggedInv /\ BusInv /\ queue = <<>> /\ flags = {}
  BY <1>1 DEF DeviceInv, Settled
<1>3. /\ budget' \in [cable : 0 .. MaxCable, host : 0 .. MaxHost, wakeups : 0 .. MaxWakeups]
      /\ NoWakeupAsked' => NoWakeupAsked
  BY <1>1, <1>2, Spent
<1>4. TypeOK' /\ ClockInv' /\ AttachInv'
  <2>1. TypeOK'
    <3>1. /\ vbus' \in BOOLEAN /\ outrdy' \in BOOLEAN /\ powerFlag' \in PowerEvents
          /\ bus' \in {"none", "active", "suspended"}
      BY <1>1, <1>2 DEF TypeOK, PowerEvents
    <3>2. UNCHANGED <<queue, sustate, core, drv, irqOn, busSuspend, lowPower, flags, waking, epIrqs,
                      hfOn, hfRequests, hfWaiting>>
      BY <1>1
    <3> QED
      BY <1>2, <1>3, <3>1, <3>2 DEF TypeOK
  <2>2. ClockInv'
    BY <1>1, <1>2, ClockSame
  <2>3. AttachInv'
    BY <1>1, <1>2 DEF AttachInv
  <2> QED
    BY <2>1, <2>2, <2>3
<1>5. Contents' = {} /\ DOMAIN queue' = {}
  <2>1. DOMAIN <<>> = {} /\ ContentsOf(<<>>) = {}
    BY DEF ContentsOf
  <2> QED
    BY <1>1, <1>2, <2>1, SameQueue DEF Contents
<1>6. irqOn \/ QueueSize = 1
  <2> SUFFICES ASSUME ~irqOn PROVE ~(QueueSize > 1)
    BY QueueSizeAssumption
  <2>1. Starting
    BY <1>1, <1>2 DEF PluggedInv
  <2>2. <<>> # Ready /\ <<>> # DetectedReady /\ <<>> # Start
    BY Short DEF Ready, DetectedReady, Start
  <2> QED
    BY <1>1, <1>2, <2>1, <2>2 DEF Starting
<1>7. PulledInv' /\ PluggedInv'
  <2>1. OneRemoval'
    BY <1>5 DEF OneRemoval
  <2> QED
    BY <1>1, <1>5, <1>6, <2>1 DEF PulledInv, Pulled, PluggedInv, Removal
<1>8. BusInv'
  BY <1>1, <1>2, <1>3, <1>5 DEF BusInv, AwakeInv, Suspends
<1> QED
  BY <1>4, <1>7, <1>8 DEF DeviceInv

\* What the host signals is the truth of the bus.
LEMMA HostStep ==
  ASSUME DeviceInv, NEW signals, NEW state, HostSignals(signals, state),
         signals \subseteq {"DRV_RESET", "DRV_SUSPEND", "DRV_RESUME"}, state \in {"active", "suspended"},
         "DRV_SUSPEND" \in signals => state = "suspended",
         state = "active" =>
           "DRV_RESUME" \in signals \/ (bus # "suspended" /\ "DRV_RESET" \in signals)
  PROVE  DeviceInv'
<1>1. /\ Attached /\ flags = {} /\ Spend("host") /\ flags' = signals /\ bus' = state
      /\ lowPower' = (lowPower /\ state = "suspended")
      /\ UNCHANGED <<queue, sustate, core, drv, irqOn, busSuspend, waking, epIrqs,
                     hfOn, hfRequests, hfWaiting, vbus, outrdy, powerFlag>>
  BY DEF HostSignals, clock, power
<1>2. TypeOK /\ ClockInv /\ AttachInv /\ PluggedInv /\ BusInv /\ vbus /\ irqOn
  BY <1>1 DEF DeviceInv, Attached
<1>3. /\ budget' \in [cable : 0 .. MaxCable, host : 0 .. MaxHost, wakeups : 0 .. MaxWakeups]
      /\ NoWakeupAsked' => NoWakeupAsked
  BY <1>1, <1>2, Spent
<1>4. TypeOK'
  BY <1>1, <1>2, <1>3 DEF TypeOK, DriverEvents
<1>5. ClockInv' /\ AttachInv'
  BY <1>1, <1>2, ClockSame DEF AttachInv
<1>6. Contents' = Contents
  BY <1>1, SameQueue
<1>7. PulledInv' /\ PluggedInv'
  BY <1>1, <1>2, <1>6 DEF PulledInv, PluggedInv, Removal
<1>8. BusInv'
  <2>1. ASSUME NoWakeupAsked' PROVE AwakeInv'
    <3>1. AwakeInv
      BY <1>2, <1>3, <2>1 DEF BusInv
    <3>2. ASSUME busSuspend', bus' = "active", "DRV_RESUME" \notin signals
          PROVE  "DRV_RESET" \in signals /\ Contents \cap Suspends = {}
      <4>1. bus # "suspended" /\ "DRV_RESET" \in signals
        BY <1>1, <3>2
      <4>2. bus # "active"
        BY <1>1, <3>1, <3>2 DEF AwakeInv
      <4>3. bus = "none"
        BY <1>2, <4>1, <4>2 DEF TypeOK
      <4> QED
        BY <1>2, <4>1, <4>3 DEF BusInv
    <3> QED
      BY <1>1, <1>6, <3>1, <3>2 DEF AwakeInv, Suspends
  <2> QED
    BY <1>1, <2>1 DEF BusInv
<1> QED
  BY <1>4, <1>5, <1>7, <1>8 DEF DeviceInv

LEMMA WakeupAllowedStep ==
  ASSUME DeviceInv, WakeupAllowed
  PROVE  DeviceInv'
<1>1. /\ waking /\ waking' = FALSE
      /\ flags' = IF bus = "suspended" THEN flags \cup {"DRV_WUREQ"} ELSE flags
      /\ UNCHANGED <<queue, sustate, core, drv, irqOn, busSuspend, lowPower, epIrqs,
                     hfOn, hfRequests, hfWaiting, vbus, outrdy, powerFlag, bus, budget>>
  BY DEF WakeupAllowed, clock, power
<1>2. TypeOK /\ ClockInv /\ AttachInv /\ PulledInv /\ PluggedInv /\ BusInv
  BY DEF DeviceInv
<1>3. TypeOK'
  <2>1. flags' \subseteq DriverEvents
    BY <1>1, <1>2 DEF TypeOK, DriverEvents
  <2>2. /\ waking' \in BOOLEAN
        /\ UNCHANGED <<queue, sustate, core, drv, irqOn, busSuspend, lowPower, epIrqs,
                       hfOn, hfRequests, hfWaiting, vbus, outrdy, powerFlag, bus, budget>>
    BY <1>1
  <2> QED
    BY <1>2, <2>1, <2>2 DEF TypeOK
<1>4. ClockInv' /\ AttachInv'
  BY <1>1, <1>2, ClockSame DEF AttachInv
<1>5. Contents' = Contents /\ OneRemoval' = OneRemoval
  BY <1>1, SameQueue
<1>6. PulledInv' /\ PluggedInv'
  <2>1. irqOn
    BY <1>1, <1>2 DEF AttachInv
  <2> QED
    BY <1>1, <1>2, <1>5, <2>1 DEF PulledInv, Pulled, PluggedInv, Removal
<1>7. BusInv'
  BY <1>1, <1>2, <1>5 DEF BusInv, AwakeInv, NoWakeupAsked, Suspends
<1> QED
  BY <1>3, <1>4, <1>6, <1>7 DEF DeviceInv

LEMMA AppWakeupStep ==
  ASSUME DeviceInv, AppWakeup
  PROVE  DeviceInv'
<1>1. /\ core = "default" /\ Spend("wakeups") /\ queue' = Add(queue, "WAKEUP_REQ")
      /\ UNCHANGED <<sustate, core, drv, irqOn, busSuspend, lowPower, flags, waking, epIrqs,
                     hfOn, hfRequests, hfWaiting, vbus, outrdy, powerFlag, bus>>
  BY DEF AppWakeup, driver, clock, power
<1>2. TypeOK /\ ClockInv /\ AttachInv /\ BusInv /\ irqOn
  BY <1>1 DEF DeviceInv, AttachInv
<1>3. /\ budget' \in [cable : 0 .. MaxCable, host : 0 .. MaxHost, wakeups : 0 .. MaxWakeups]
      /\ ~NoWakeupAsked'
  BY <1>1, <1>2, Spent
<1>4. QueueType(queue') /\ Contents' \subseteq Contents \cup {"WAKEUP_REQ"} /\ PulledInv' /\ PluggedInv'
  BY <1>1, <1>2, Grown
<1>5. TypeOK' /\ ClockInv' /\ AttachInv'
  <2>1. TypeOK'
    BY <1>1, <1>2, <1>3, <1>4 DEF TypeOK, QueueType
  <2>2. ClockInv'
    BY <1>1, <1>2, ClockSame
  <2>3. AttachInv'
    BY <1>1, <1>2 DEF AttachInv
  <2> QED
    BY <2>1, <2>2, <2>3
<1>6. BusInv'
  BY <1>1, <1>2, <1>3, <1>4 DEF BusInv, Suspends
<1> QED
  BY <1>4, <1>5, <1>6 DEF DeviceInv


-----------------------------------------------------------------------------
(* The theorems.                                                           *)

LEMMA InitDeviceInv == Init => DeviceInv
<1> SUFFICES ASSUME Init PROVE DeviceInv
  OBVIOUS
<1>1. /\ vbus \in BOOLEAN /\ queue = (IF vbus THEN Detected ELSE <<>>)
      /\ outrdy = FALSE /\ powerFlag = "none" /\ bus = "none"
      /\ sustate = "STOPPED" /\ core = "disabled" /\ drv = "initialized"
      /\ irqOn = FALSE /\ epIrqs = FALSE /\ busSuspend = FALSE /\ lowPower = FALSE
      /\ flags = {} /\ waking = FALSE
      /\ hfOn = ClockShared /\ hfRequests = 0 /\ hfWaiting = FALSE
      /\ budget = [cable |-> MaxCable, host |-> MaxHost, wakeups |-> MaxWakeups]
  BY DEF Init, Detected
<1>2. /\ queue \in Seq(Events) /\ Len(queue) <= 1 /\ Len(queue) \in Nat
      /\ Contents = IF vbus THEN {"POWER_DETECTED"} ELSE {}
  <2>1. Detected \in Seq(Events) /\ Len(Detected) = 1 /\ <<>> \in Seq(Events) /\ Len(<<>>) = 0
    BY DEF Detected, Events, PowerEvents
  <2>2. ContentsOf(Detected) = {"POWER_DETECTED"} /\ ContentsOf(<<>>) = {}
    BY Short DEF Detected
  <2>3. CASE vbus
    BY <1>1, <2>1, <2>2, <2>3 DEF Contents
  <2>4. CASE ~vbus
    BY <1>1, <2>1, <2>2, <2>4 DEF Contents
  <2> QED
    BY <1>1, <2>3, <2>4
<1>3. TypeOK
  <2>1. Len(queue) <= QueueSize
    BY <1>2, QueueSizeAssumption
  <2>2. budget \in [cable : 0 .. MaxCable, host : 0 .. MaxHost, wakeups : 0 .. MaxWakeups]
    BY <1>1, BudgetAssumption
  <2>3. hfRequests \in 0 .. 1 /\ hfOn \in BOOLEAN /\ hfWaiting \in BOOLEAN
    <3>1. hfRequests = 0 /\ hfWaiting \in BOOLEAN /\ hfOn = ClockShared
      BY <1>1
    <3>2. hfRequests \in 0 .. 1
      BY ONLY <3>1
    <3> QED
      BY <3>1, <3>2, ClockSharedAssumption
  <2>4. /\ irqOn \in BOOLEAN /\ epIrqs \in BOOLEAN /\ busSuspend \in BOOLEAN
        /\ lowPower \in BOOLEAN /\ waking \in BOOLEAN /\ vbus \in BOOLEAN /\ outrdy \in BOOLEAN
        /\ flags \subseteq DriverEvents
    BY <1>1
  <2>5. /\ sustate \in Sustates /\ powerFlag \in PowerEvents \cup {"none"}
        /\ core \in {"disabled", "unattached", "powered", "default"}
        /\ drv \in {"initialized", "poweredOn"} /\ bus \in {"none", "active", "suspended"}
    BY <1>1 DEF Sustates
  <2> QED
    BY ONLY <1>2, <2>1, <2>2, <2>3, <2>4, <2>5 DEF TypeOK
<1>4. ClockInv /\ AttachInv
  BY <1>1 DEF ClockInv, ClockHeldWhenNeeded, ClockRequested, ClockRunning, AttachInv
<1>5. PulledInv
  <2> SUFFICES ASSUME ~vbus PROVE Pulled
    BY DEF PulledInv
  <2>1. DOMAIN queue = {}
    BY <1>1
  <2> QED
    BY <1>1, <1>2, <2>1 DEF Pulled, OneRemoval
<1>6. PluggedInv
  <2>1. vbus => Starting
    <3>1. Detected # <<>> /\ Detected # Ready /\ Detected # DetectedReady /\ Detected # Start
      BY Short DEF Detected, Ready, DetectedReady, Start
    <3> QED
      BY <1>1, <3>1 DEF Starting
  <2> QED
    BY <1>1, <1>2, <2>1 DEF PluggedInv, Removal
<1>7. BusInv
  BY <1>1, <1>2 DEF BusInv, AwakeInv, Suspends
<1> QED
  BY <1>3, <1>4, <1>5, <1>6, <1>7 DEF DeviceInv

LEMMA StutterStep ==
  ASSUME DeviceInv, UNCHANGED vars
  PROVE  DeviceInv'
<1>1. UNCHANGED <<queue, sustate, core, drv, irqOn, busSuspend, lowPower, flags, waking, epIrqs,
                  hfOn, hfRequests, hfWaiting, vbus, outrdy, powerFlag, bus, budget>>
  BY DEF vars, driver, clock, power
<1>2. Contents' = Contents /\ OneRemoval' = OneRemoval
  BY <1>1, SameQueue
<1>3. TypeOK' /\ AttachInv' /\ ClockInv'
  BY <1>1, ClockSame DEF DeviceInv, TypeOK, AttachInv
<1>4. Starting' = Starting
  BY <1>1 DEF Starting
<1>5. PulledInv' /\ PluggedInv'
  BY <1>1, <1>2, <1>4 DEF DeviceInv, PulledInv, Pulled, PluggedInv, Removal
<1>6. BusInv'
  BY <1>1, <1>2 DEF DeviceInv, BusInv, AwakeInv, NoWakeupAsked, Suspends
<1> QED
  BY <1>3, <1>5, <1>6 DEF DeviceInv

LEMMA NextDeviceInv ==
  ASSUME DeviceInv, "fast" \notin Environment, "glitch" \notin Environment, [Next]_vars
  PROVE  DeviceInv'
<1>1. CASE Execute
  BY <1>1, ExecStartStep, ExecStopStep, ExecClockReadyStep, ExecSuspendRequestStep, ExecWakeupRequestStep,
     ExecResetStep, ExecResumeStep, ExecWakeupStep, ExecSuspendStep, ExecPowerDetectedStep,
     ExecPowerRemovedStep, ExecPowerReadyStep DEF Execute
<1>2. CASE HostReset
  <2>1. HostSignals({"DRV_RESET"} \cup (IF bus = "suspended" THEN {"DRV_RESUME"} ELSE {}), "active")
    BY <1>2 DEF HostReset
  <2> QED
    BY <2>1, HostStep
<1>3. CASE HostSuspend
  <2>1. HostSignals({"DRV_SUSPEND"}, "suspended")
    BY <1>3 DEF HostSuspend
  <2> QED
    BY <2>1, HostStep
<1>4. CASE HostResume
  <2>1. HostSignals({"DRV_RESUME"}, "active")
    BY <1>4 DEF HostResume
  <2> QED
    BY <2>1, HostStep
<1> QED
  BY <1>1, <1>2, <1>3, <1>4, UsbInterruptStep, PowerInterruptStep, ClockStartsStep, CableInStep,
     RegulatorReadyStep, CableOutStep, WakeupAllowedStep, AppWakeupStep, StutterStep DEF Next

\* With the cable moved only once the device has caught up, and pulled only
\* once the regulator has answered, the events in the queue fit the cable and
\* the bus however the interrupts fall (app_usbd_event_add, app_usbd_event_execute).
THEOREM EventsFitTheCable ==
  ASSUME "fast" \notin Environment, "glitch" \notin Environment
  PROVE  Spec => []DeviceInv
BY InitDeviceInv, NextDeviceInv, PTL DEF Spec

\* app_usbd requests the HF clock exactly in the states that need it, a
\* disabled driver needs it in none, and an active device serves its endpoints
\* (sustate_set, app_usbd_stop).
THEOREM ClockFollowsTheState ==
  ASSUME "fast" \notin Environment, "glitch" \notin Environment
  PROVE  Spec => []UsbDeviceInv
<1>1. DeviceInv => UsbDeviceInv
  <2> SUFFICES ASSUME DeviceInv PROVE UsbDeviceInv
    OBVIOUS
  <2>1. TypeOK /\ ClockInv /\ AttachInv
    BY DEF DeviceInv
  <2>2. DisabledReleasesClock
    BY <2>1 DEF DisabledReleasesClock, AttachInv, ClockInv, ClockHeldWhenNeeded, ClockRequested
  <2>3. ActiveServesEndpoints
    BY <2>1 DEF ActiveServesEndpoints, ClockInv, ClockRunning
  <2> QED
    BY <2>1, <2>2, <2>3 DEF UsbDeviceInv, ClockInv
<1> QED
  BY <1>1, EventsFitTheCable, PTL

\* nrf_drv_usbd_start and nrf_drv_usbd_stop find the driver as they assert it,
\* and the peripheral is put into low power on a suspended bus only.
THEOREM DriverIsCalledRight ==
  ASSUME "fast" \notin Environment, "glitch" \notin Environment
  PROVE  Spec => []DriverCalledRight
<1>1. DeviceInv => DriverCalledRight
  <2> SUFFICES ASSUME DeviceInv PROVE DriverCalledRight
    OBVIOUS
  <2>1. TypeOK /\ AttachInv /\ PluggedInv /\ BusInv
    BY DEF DeviceInv
  <2>2. StartedPoweredOn
    <3> SUFFICES ASSUME queue # <<>>, Head(queue) = "START_REQ" PROVE drv = "poweredOn"
      BY DEF StartedPoweredOn, Executes
    <3>1. vbus
      BY Executed DEF Removal
    <3>2. CASE irqOn
      BY <2>1, <3>2 DEF AttachInv
    <3>3. CASE ~irqOn
      <4>1. Starting
        BY <2>1, <3>1, <3>3 DEF PluggedInv
      <4>2. queue # Detected /\ queue # DetectedReady
        BY Short DEF Detected, DetectedReady
      <4> QED
        BY <2>1, <4>1, <4>2 DEF Starting, TypeOK
    <3> QED
      BY <3>2, <3>3
  <2>3. StoppedAttached
    BY <2>1, Executed DEF StoppedAttached, Executes, AttachInv
  <2>4. LowPowerOffTheBus
    BY <2>1 DEF LowPowerOffTheBus, BusInv, AwakeInv
  <2> QED
    BY <2>2, <2>3, <2>4 DEF DriverCalledRight
<1> QED
  BY <1>1, EventsFitTheCable, PTL

-----------------------------------------------------------------------------
(* The clock and its users.                                                *)

\* A request goes by the value of hfclk_on that it has read.
RequestInv(f) ==
  /\ f.level = 1 /\ f.at \in {"ready", "count", "enqueue"}
  /\ f.user \notin held
  /\ f.at # "count" => f.user \notin told
  /\ f.at # "enqueue" => hfclk_on

\* Nothing changes the list between the two steps of item_dequeue.
InterruptInv(f) ==
  /\ f.level = 2 /\ f.at \in {"notify", "unlink"}
  /\ hfclk_on
  /\ f.at = "unlink" => waiting # <<>> /\ f.user = Head(waiting) /\ f.rest = Tail(waiting)

\* At most one request is in progress, and at most the clock's interrupt
\* preempts it.
StackInv ==
  \A i \in DOMAIN stack :
    (i = 1 /\ RequestInv(stack[i])) \/ (i = Len(stack) /\ InterruptInv(stack[i]))

\* The flag, the counter and the list agree with the clock.
CountInv ==
  /\ hfclk_requests = Cardinality(held)
  /\ oscillator = "off" <=> held = {}
  /\ hfclk_on => oscillator = "on" /\ ~startedEvent
  /\ startedEvent => oscillator = "on" /\ held \cap told = {}
  /\ ToldMeansRunning
  /\ ToSet(waiting) \subseteq held \ told

ClockIInv == ClockTypeOK /\ StackInv /\ CountInv

-----------------------------------------------------------------------------
(* The stack of calls.                                                     *)

LEMMA FiniteUsers ==
  ASSUME NEW S, S \subseteq Users
  PROVE  IsFiniteSet(S) /\ Cardinality(S) \in 0 .. Cardinality(Users)
<1>1. IsFiniteSet(Users)
  BY UsersAssumption, FS_Union DEF Users
<1>2. IsFiniteSet(S) /\ Cardinality(S) <= Cardinality(Users)
  BY <1>1, FS_Subset
<1> QED
  BY <1>1, <1>2, FS_CardinalityType

\* The running call.
LEMMA RunningFrame ==
  ASSUME ClockTypeOK, stack # <<>>
  PROVE  /\ Len(stack) \in DOMAIN stack /\ Len(stack) \in Nat \ {0} /\ DOMAIN stack = 1 .. Len(stack)
         /\ Running = stack[Len(stack)] /\ Running \in Frames
<1>1. stack \in Seq(Frames) /\ Len(stack) \in Nat /\ DOMAIN stack = 1 .. Len(stack) /\ Len(stack) # 0
  BY LenProperties, EmptySeq DEF ClockTypeOK
<1>2. Len(stack) \in DOMAIN stack
  BY <1>1
<1>3. Running = stack[Len(stack)]
  BY DEF Running, Last
<1> QED
  BY <1>1, <1>2, <1>3, ElementOfSeq

\* The running call goes on.
LEMMA StackReplaced ==
  ASSUME ClockTypeOK, stack # <<>>, NEW f \in Frames, stack' = [stack EXCEPT ![Len(stack)] = f]
  PROVE  /\ stack' \in Seq(Frames) /\ Len(stack') = Len(stack) /\ DOMAIN stack' = DOMAIN stack
         /\ stack'[Len(stack)] = f
         /\ \A i \in DOMAIN stack : i # Len(stack) => stack'[i] = stack[i]
<1>1. stack \in Seq(Frames) /\ Len(stack) \in DOMAIN stack /\ DOMAIN stack = 1 .. Len(stack)
  BY RunningFrame DEF ClockTypeOK
<1>2. stack' \in Seq(Frames) /\ Len(stack') = Len(stack)
  BY <1>1, ExceptSeq
<1>3. DOMAIN stack' = DOMAIN stack
  BY <1>1
<1> QED
  BY <1>1, <1>2, <1>3

\* A call begins.
LEMMA StackPushed ==
  ASSUME ClockTypeOK, NEW f \in Frames, stack' = Append(stack, f)
  PROVE  /\ stack' \in Seq(Frames) /\ Len(stack') = Len(stack) + 1
         /\ DOMAIN stack' = 1 .. Len(stack) + 1 /\ DOMAIN stack = 1 .. Len(stack) /\ Len(stack) \in Nat
         /\ stack'[Len(stack) + 1] = f
         /\ \A i \in DOMAIN stack : stack'[i] = stack[i]
BY AppendProperties, LenProperties DEF ClockTypeOK

\* The running call returns.
LEMMA StackPopped ==
  ASSUME ClockTypeOK, stack # <<>>, stack' = Front(stack)
  PROVE  /\ stack' \in Seq(Frames) /\ Len(stack') = Len(stack) - 1
         /\ DOMAIN stack' = 1 .. Len(stack) - 1
         /\ \A i \in DOMAIN stack' : i \in DOMAIN stack /\ stack'[i] = stack[i]
<1>1. stack \in Seq(Frames) /\ Len(stack) \in Nat \ {0} /\ DOMAIN stack = 1 .. Len(stack)
  BY RunningFrame DEF ClockTypeOK
<1>2. \A i \in 1 .. Len(stack) - 1 : stack[i] \in Frames
  BY <1>1, ElementOfSeq
<1>3. stack' = SubSeq(stack, 1, Len(stack) - 1)
  BY DEF Front
<1>4. /\ stack' \in Seq(Frames)
      /\ Len(stack') = IF 1 <= Len(stack) - 1 THEN Len(stack) - 1 - 1 + 1 ELSE 0
      /\ \A i \in 1 .. Len(stack) - 1 - 1 + 1 : stack'[i] = stack[1 + i - 1]
  BY <1>1, <1>2, <1>3, SubSeqProperties
<1>5. Len(stack') = Len(stack) - 1
  <2>1. CASE Len(stack) = 1
    <3> QED
      BY <2>1, <1>4
  <2>2. CASE Len(stack) # 1
    <3>1. 1 <= Len(stack) - 1 /\ Len(stack) - 1 - 1 + 1 = Len(stack) - 1
      BY <2>2, <1>1
    <3> QED
      BY <3>1, <1>4
  <2> QED
    BY <2>1, <2>2
<1>6. DOMAIN stack' = 1 .. Len(stack) - 1
  BY <1>4, <1>5, LenProperties
<1>7. ASSUME NEW i \in DOMAIN stack' PROVE i \in DOMAIN stack /\ stack'[i] = stack[i]
  <2>1. i \in 1 .. Len(stack) - 1 /\ i \in Int
    BY <1>6
  <2>2. i \in 1 .. Len(stack) - 1 - 1 + 1 /\ 1 + i - 1 = i
    BY <2>1, <1>1
  <2>3. stack'[i] = stack[1 + i - 1]
    BY <2>2, <1>4
  <2> QED
    BY <2>1, <2>2, <2>3, <1>1
<1> QED
  BY <1>4, <1>5, <1>6, <1>7

-----------------------------------------------------------------------------
(* Which call runs.                                                        *)

\* Nothing runs below the level of a call.
LEMMA BelowThread ==
  ASSUME ClockTypeOK, Level < 1
  PROVE  stack = <<>>
<1> SUFFICES ASSUME stack # <<>> PROVE FALSE
  OBVIOUS
<1>1. Running \in Frames /\ Level = Running.level
  BY RunningFrame DEF Level
<1>2. Running.level \in 1 .. 3
  BY <1>1 DEF Frames
<1> QED
  BY <1>1, <1>2

\* Below the running call there is only a request.
LEMMA BelowIsRequest ==
  ASSUME ClockTypeOK, StackInv, NEW i \in DOMAIN stack, i # Len(stack)
  PROVE  i = 1 /\ RequestInv(stack[i])
BY DEF StackInv

\* A request runs with nothing below it.
LEMMA RequestRuns ==
  ASSUME ClockTypeOK, StackInv, stack # <<>>, Running.at \in {"ready", "count", "enqueue"}
  PROVE  Len(stack) = 1 /\ Running = stack[1] /\ RequestInv(Running) /\ Running.user \in Users
<1>1. Len(stack) \in DOMAIN stack /\ Running = stack[Len(stack)] /\ Running \in Frames
  BY RunningFrame
<1>2. ~InterruptInv(Running)
  BY DEF InterruptInv
<1>3. Len(stack) = 1 /\ RequestInv(Running)
  BY <1>1, <1>2 DEF StackInv
<1> QED
  BY <1>1, <1>3 DEF Frames

LEMMA InterruptRuns ==
  ASSUME ClockTypeOK, StackInv, stack # <<>>, Running.at \in {"notify", "unlink"}
  PROVE  InterruptInv(Running)
<1>1. Len(stack) \in DOMAIN stack /\ Running = stack[Len(stack)]
  BY RunningFrame
<1>2. ~RequestInv(Running)
  BY DEF RequestInv
<1> QED
  BY <1>1, <1>2 DEF StackInv

-----------------------------------------------------------------------------
(* The initial state.                                                      *)

LEMMA InitClockIInv == ClockInit => ClockIInv
<1> SUFFICES ASSUME ClockInit PROVE ClockIInv
  OBVIOUS
<1> USE DEF ClockInit
<1>1. Cardinality({}) = 0 /\ Cardinality(Users) \in Nat
  BY FS_EmptySet, FiniteUsers
<1>2. waiting \in Seq(Users) /\ DOMAIN waiting = {} /\ stack \in Seq(Frames) /\ DOMAIN stack = {}
  BY EmptySeq, LenProperties
<1>3. IsInjective(waiting) /\ ToSet(waiting) = {}
  BY <1>2 DEF IsInjective, ToSet
<1>4. hfclk_requests \in 0 .. Cardinality(Users) /\ hfBudget \in 0 .. MaxHfRequests
  BY <1>1, MaxHfRequestsAssumption
<1>7. ClockTypeOK
  BY <1>2, <1>3, <1>4 DEF ClockTypeOK
<1>5. StackInv
  BY <1>2 DEF StackInv
<1>6. CountInv
  BY <1>1, <1>3 DEF CountInv, ToldMeansRunning
<1> QED
  BY <1>5, <1>6, <1>7 DEF ClockIInv

-----------------------------------------------------------------------------
(* Requests.                                                               *)

LEMMA RequestBegins ==
  ASSUME ClockIInv, NEW u \in Users, PriorityOf(u) = 1, hfclk_request(u)
  PROVE  ClockIInv'
<1>1. ClockTypeOK /\ StackInv /\ CountInv
  BY DEF ClockIInv
<1>2. stack = <<>>
  BY <1>1, BelowThread DEF hfclk_request
<1>3. PICK f \in Frames : /\ f.level = 1 /\ f.at = (IF hfclk_on THEN "ready" ELSE "enqueue") /\ f.user = u
                         /\ stack' = Append(stack, f)
  <2> DEFINE g == [level |-> 1, at |-> IF hfclk_on THEN "ready" ELSE "enqueue", user |-> u, rest |-> <<>>]
  <2>1. stack' = Append(stack, g)
    BY DEF hfclk_request, Enter
  <2>2. g \in Frames
    BY EmptySeq DEF Frames
  <2> QED
    BY <2>1, <2>2
<1>4. f.user \notin held' /\ f.user \notin told' /\ f.at \in {"ready", "count", "enqueue"} /\ (f.at # "enqueue" => hfclk_on')
  BY <1>3 DEF hfclk_request, clockVars
<1>5. /\ stack' \in Seq(Frames) /\ Len(stack') = 1 /\ DOMAIN stack' = {1} /\ stack'[1] = f
  BY <1>1, <1>2, <1>3, StackPushed, EmptySeq
<1>6. ClockTypeOK'
  <2>1. /\ UNCHANGED <<hfclk_on, hfclk_requests, waiting, hfclk_started, oscillator, startedEvent, held>>
        /\ told' \subseteq told /\ hfBudget > 0 /\ hfBudget' = hfBudget - 1
    BY DEF hfclk_request, clockVars
  <2>2. hfBudget' \in 0 .. MaxHfRequests
    BY <1>1, <2>1, MaxHfRequestsAssumption DEF ClockTypeOK
  <2> QED
    BY <1>1, <1>5, <2>1, <2>2 DEF ClockTypeOK
<1>7. StackInv'
  BY <1>3, <1>4, <1>5 DEF StackInv, RequestInv
<1>8. CountInv'
  BY <1>1 DEF CountInv, ToldMeansRunning, hfclk_request, clockVars
<1> QED
  BY <1>6, <1>7, <1>8 DEF ClockIInv

LEMMA RequestReadyStep ==
  ASSUME ClockIInv, RequestReady
  PROVE  ClockIInv'
<1>1. ClockTypeOK /\ StackInv /\ CountInv /\ stack # <<>> /\ Running.at = "ready"
  BY DEF ClockIInv, RequestReady, Now
<1>2. Len(stack) = 1 /\ Running = stack[1] /\ RequestInv(Running) /\ Running.user \in Users
  BY <1>1, RequestRuns
<1>3. Running \in Frames /\ DOMAIN stack = {1}
  BY <1>1, <1>2, RunningFrame
<1>4. PICK f \in Frames : /\ f.level = 1 /\ f.at = "count" /\ f.user = Running.user
                         /\ stack' = [stack EXCEPT ![Len(stack)] = f]
  <2>1. stack' = [stack EXCEPT ![Len(stack)] = [Running EXCEPT !.at = "count"]]
    BY <1>2, <1>3 DEF RequestReady, Goto
  <2>2. /\ [Running EXCEPT !.at = "count"] \in Frames
        /\ [Running EXCEPT !.at = "count"].level = Running.level
        /\ [Running EXCEPT !.at = "count"].at = "count"
        /\ [Running EXCEPT !.at = "count"].user = Running.user
    BY <1>3 DEF Frames
  <2> QED
    BY <2>1, <2>2, <1>2 DEF RequestInv
<1>5. f.user \notin held' /\ hfclk_on'
  BY <1>1, <1>2, <1>4 DEF RequestInv, RequestReady, clockVars
<1>6. /\ stack' \in Seq(Frames) /\ Len(stack') = 1 /\ DOMAIN stack' = {1} /\ stack'[1] = f
  BY <1>1, <1>2, <1>3, <1>4, StackReplaced
<1>7. ClockTypeOK'
  BY <1>1, <1>2, <1>6 DEF ClockTypeOK, RequestReady, clockVars
<1>8. StackInv'
  BY <1>4, <1>5, <1>6 DEF StackInv, RequestInv
<1>9. CountInv'
  BY <1>1, <1>2 DEF CountInv, ToldMeansRunning, RequestInv, RequestReady, clockVars
<1> QED
  BY <1>7, <1>8, <1>9 DEF ClockIInv

\* A request that returns is one more of the requests that are counted.
LEMMA OneMoreHeld ==
  ASSUME ClockTypeOK, CountInv, NEW u \in Users, u \notin held, held' = held \cup {u}
  PROVE  held' \subseteq Users /\ Cardinality(held') = Cardinality(held) + 1
         /\ Cardinality(held') \in 0 .. Cardinality(Users)
<1>1. held' \subseteq Users
  BY DEF ClockTypeOK
<1>2. IsFiniteSet(held)
  BY FiniteUsers DEF ClockTypeOK
<1> QED
  BY <1>1, <1>2, FiniteUsers, FS_AddElement

LEMMA RequestCountStep ==
  ASSUME ClockIInv, RequestCount
  PROVE  ClockIInv'
<1>1. ClockTypeOK /\ StackInv /\ CountInv /\ stack # <<>> /\ Running.at = "count"
  BY DEF ClockIInv, RequestCount, Now
<1>2. Len(stack) = 1 /\ Running = stack[1] /\ RequestInv(Running) /\ Running.user \in Users
  BY <1>1, RequestRuns
<1>3. /\ held' \subseteq Users /\ Cardinality(held') = Cardinality(held) + 1
      /\ Cardinality(held') \in 0 .. Cardinality(Users)
  BY <1>1, <1>2, OneMoreHeld DEF RequestCount, RequestInv
<1>4. stack' \in Seq(Frames) /\ DOMAIN stack' = {}
  BY <1>1, <1>2, StackPopped DEF RequestCount, Leave
<1>5. ClockTypeOK'
  BY <1>1, <1>3, <1>4 DEF ClockTypeOK, CountInv, RequestCount
<1>6. StackInv'
  BY <1>4 DEF StackInv
<1>7. hfclk_on
  BY <1>1, <1>2 DEF RequestInv
<1>8. held' # {} /\ held \subseteq held'
  BY DEF RequestCount
<1>9. CountInv'
  BY <1>1, <1>3, <1>7, <1>8 DEF CountInv, ToldMeansRunning, RequestCount
<1> QED
  BY <1>5, <1>6, <1>9 DEF ClockIInv

LEMMA RequestEnqueueStep ==
  ASSUME ClockIInv, RequestEnqueue
  PROVE  ClockIInv'
<1>1. ClockTypeOK /\ StackInv /\ CountInv /\ stack # <<>> /\ Running.at = "enqueue"
  BY DEF ClockIInv, RequestEnqueue, Now
<1>2. Len(stack) = 1 /\ Running = stack[1] /\ RequestInv(Running) /\ Running.user \in Users
  BY <1>1, RequestRuns
<1> DEFINE u == Running.user
<1>3. u \in Users /\ u \notin held /\ u \notin told
  BY <1>1, <1>2 DEF RequestInv
<1>4. /\ held' \subseteq Users /\ Cardinality(held') = Cardinality(held) + 1
      /\ Cardinality(held') \in 0 .. Cardinality(Users)
  BY <1>1, <1>3, OneMoreHeld DEF RequestEnqueue
<1>5. stack' \in Seq(Frames) /\ DOMAIN stack' = {}
  BY <1>1, <1>2, StackPopped DEF RequestEnqueue, Leave
<1>6. ~Contains(waiting, u)
  BY <1>1, <1>3, LenProperties DEF Contains, ToSet, CountInv, ClockTypeOK
<1>7. waiting' = <<u>> \o waiting
  BY <1>6 DEF RequestEnqueue
<1> HIDE DEF u
<1>8. waiting' \in Seq(Users) /\ IsInjective(waiting') /\ ToSet(waiting') = ToSet(waiting) \cup {u}
  <2>1. /\ waiting \in Seq(Users) /\ <<u>> \in Seq(Users) /\ Len(<<u>>) = 1 /\ <<u>>[1] = u
        /\ Len(waiting) \in Nat /\ DOMAIN waiting = 1 .. Len(waiting)
    BY <1>1, <1>3, LenProperties DEF ClockTypeOK
  <2>2. /\ waiting' \in Seq(Users) /\ Len(waiting') = 1 + Len(waiting)
        /\ waiting'[1] = u /\ \A i \in DOMAIN waiting : waiting'[i + 1] = waiting[i]
    BY <1>7, <2>1, ConcatProperties
  <2>3. DOMAIN waiting' = 1 .. Len(waiting) + 1
    BY <2>1, <2>2, LenProperties
  <2>4. \A i \in DOMAIN waiting' : i = 1 \/ (i - 1 \in DOMAIN waiting /\ waiting'[i] = waiting[i - 1])
    BY <2>1, <2>2, <2>3
  <2>5. \A i \in DOMAIN waiting : waiting[i] # u
    BY <1>6, <2>1 DEF Contains
  <2>6. IsInjective(waiting')
    BY <1>1, <2>2, <2>4, <2>5, <2>1, <2>3, SMTT(30) DEF IsInjective, ClockTypeOK
  <2>7. ToSet(waiting') \subseteq ToSet(waiting) \cup {u}
    BY <2>2, <2>4 DEF ToSet
  <2>8. \A i \in DOMAIN waiting : i + 1 \in DOMAIN waiting' /\ 1 \in DOMAIN waiting'
    BY <2>1, <2>3
  <2>9. ToSet(waiting) \subseteq ToSet(waiting')
    BY <2>2, <2>8 DEF ToSet
  <2>10. u \in ToSet(waiting')
    BY <2>1, <2>2, <2>3 DEF ToSet
  <2> QED
    BY <2>2, <2>6, <2>7, <2>9, <2>10
<1>9. /\ held' = held \cup {u} /\ UNCHANGED <<hfclk_on, hfclk_started, told, hfBudget>>
      /\ hfclk_requests' = hfclk_requests + 1
      /\ IF hfclk_requests = 0 THEN StartClock ELSE UNCHANGED <<oscillator, startedEvent>>
  BY DEF RequestEnqueue, u
<1>10. hfclk_requests = 0 <=> held = {}
  BY <1>1, FiniteUsers, FS_EmptySet DEF CountInv, ClockTypeOK
<1>11. /\ oscillator' # "off" /\ oscillator' \in {"starting", "on"}
       /\ startedEvent' = startedEvent
       /\ held # {} => oscillator' = oscillator
       /\ held = {} => ~hfclk_on /\ ~startedEvent
  BY <1>1, <1>9, <1>10 DEF StartClock, CountInv, ClockTypeOK
<1>12. ClockTypeOK'
  BY <1>1, <1>4, <1>5, <1>8, <1>9, <1>11 DEF ClockTypeOK, CountInv
<1>13. StackInv'
  BY <1>5 DEF StackInv
<1>14. CountInv'
  BY <1>1, <1>3, <1>4, <1>8, <1>9, <1>11 DEF CountInv, ToldMeansRunning
<1> QED
  BY <1>12, <1>13, <1>14 DEF ClockIInv

-----------------------------------------------------------------------------
(* Releases.                                                               *)

LEMMA ReleaseStep ==
  ASSUME ClockIInv, NEW u \in Users, PriorityOf(u) = 1, "early" \notin ClockUse, hfclk_release(u)
  PROVE  ClockIInv'
<1>1. ClockTypeOK /\ StackInv /\ CountInv
  BY DEF ClockIInv
<1>2. u \in held /\ u \in told /\ Level < 1
  BY DEF hfclk_release, MayRelease
<1>3. stack = <<>> /\ DOMAIN stack' = {}
  BY <1>1, <1>2, BelowThread, EmptySeq DEF hfclk_release
<1>4. /\ held' = held \ {u} /\ UNCHANGED <<waiting, stack, told, hfBudget>>
      /\ hfclk_requests' = hfclk_requests - 1
      /\ IF hfclk_requests' = 0 THEN StopClock
         ELSE UNCHANGED <<hfclk_on, hfclk_started, oscillator, startedEvent>>
  BY DEF hfclk_release
<1>5. held' \subseteq Users /\ IsFiniteSet(held) /\ IsFiniteSet(held')
      /\ Cardinality(held') \in 0 .. Cardinality(Users) /\ Cardinality(held') = Cardinality(held) - 1
  BY <1>1, <1>2, <1>4, FiniteUsers, FS_RemoveElement DEF ClockTypeOK
<1>6. hfclk_requests' = Cardinality(held') /\ (hfclk_requests' = 0 <=> held' = {})
  BY <1>1, <1>4, <1>5, FS_EmptySet DEF CountInv
<1>7. ~startedEvent /\ startedEvent' = startedEvent
  BY <1>1, <1>2, <1>4 DEF CountInv, StopClock
<1>8. /\ held' = {} => oscillator' = "off" /\ hfclk_on' = FALSE /\ hfclk_started' = FALSE
      /\ held' # {} => UNCHANGED <<hfclk_on, hfclk_started, oscillator>>
  BY <1>4, <1>6 DEF StopClock
<1>9. ClockTypeOK'
  <2>1. hfclk_requests' \in 0 .. Cardinality(Users) /\ held' \subseteq Users
    BY <1>5, <1>6
  <2>2. hfclk_on' \in BOOLEAN /\ hfclk_started' \in BOOLEAN /\ oscillator' \in {"off", "starting", "on"}
    BY <1>1, <1>8 DEF ClockTypeOK
  <2> QED
    BY <1>1, <1>4, <1>7, <2>1, <2>2 DEF ClockTypeOK
<1>10. StackInv'
  BY <1>3 DEF StackInv
<1>11. ToSet(waiting') \subseteq held' \ told'
  BY <1>1, <1>2, <1>4 DEF CountInv
<1>12. CountInv'
  BY <1>1, <1>2, <1>4, <1>6, <1>7, <1>8, <1>11 DEF CountInv, ToldMeansRunning
<1> QED
  BY <1>9, <1>10, <1>12 DEF ClockIInv

-----------------------------------------------------------------------------
(* The clock and its interrupt.                                            *)

LEMMA OscillatorStep ==
  ASSUME ClockIInv, OscillatorStarts
  PROVE  ClockIInv'
<1>1. ClockTypeOK'
  BY DEF ClockIInv, ClockTypeOK, OscillatorStarts
<1>2. StackInv'
  BY DEF ClockIInv, StackInv, RequestInv, InterruptInv, OscillatorStarts
<1>3. CountInv'
  BY DEF ClockIInv, CountInv, ToldMeansRunning, OscillatorStarts
<1> QED
  BY <1>1, <1>2, <1>3 DEF ClockIInv

LEMMA InterruptStep ==
  ASSUME ClockIInv, Interrupt
  PROVE  ClockIInv'
<1>1. ClockTypeOK /\ StackInv /\ CountInv
  BY DEF ClockIInv
<1>2. /\ startedEvent /\ startedEvent' = FALSE /\ Level < 2
      /\ UNCHANGED <<hfclk_requests, waiting, oscillator, held, told, hfBudget>>
  BY DEF Interrupt, ClockLevel
<1>3. CASE hfclk_started /\ ~SoftDevice
  <2>1. UNCHANGED <<hfclk_on, hfclk_started, stack>>
    BY <1>3 DEF Interrupt
  <2>2. ClockTypeOK' /\ CountInv'
    BY <1>1, <1>2, <2>1 DEF ClockTypeOK, CountInv, ToldMeansRunning
  <2>3. StackInv'
    BY <1>1, <1>2, <2>1 DEF StackInv, RequestInv, InterruptInv
  <2> QED
    BY <2>2, <2>3 DEF ClockIInv
<1>4. CASE ~(hfclk_started /\ ~SoftDevice)
  <2>1. Users # {}
    BY <1>1, <1>2 DEF CountInv, ClockTypeOK
  <2>2. PICK f \in Frames : f.level = 2 /\ f.at = "notify" /\ stack' = Append(stack, f)
    <3> DEFINE g == [level |-> 2, at |-> "notify", user |-> CHOOSE u \in Users : TRUE, rest |-> <<>>]
    <3>1. stack' = Append(stack, g)
      BY <1>4 DEF Interrupt, ClockLevel
    <3>2. (CHOOSE u \in Users : TRUE) \in Users
      BY <2>1
    <3>3. g \in Frames
      BY <3>2, EmptySeq DEF Frames
    <3> QED
      BY <3>1, <3>3
  <2>3. hfclk_on' = TRUE /\ hfclk_started' \in BOOLEAN
    BY <1>4, SoftDeviceAssumption DEF Interrupt
  <2>4. /\ stack' \in Seq(Frames) /\ Len(stack') = Len(stack) + 1
        /\ DOMAIN stack' = 1 .. Len(stack) + 1 /\ DOMAIN stack = 1 .. Len(stack) /\ Len(stack) \in Nat
        /\ stack'[Len(stack) + 1] = f
        /\ \A i \in DOMAIN stack : stack'[i] = stack[i]
    BY <1>1, <2>2, StackPushed
  <2>5. \A i \in DOMAIN stack : ~InterruptInv(stack[i]) \/ i # Len(stack)
    BY <1>1, <1>2, RunningFrame, EmptySeq DEF Level, InterruptInv
  <2>6. \A i \in DOMAIN stack : i = 1 /\ RequestInv(stack[i])
    BY <1>1, <2>5 DEF StackInv
  <2>7. StackInv'
    <3> SUFFICES ASSUME NEW i \in DOMAIN stack'
                 PROVE  ((i = 1 /\ RequestInv(stack[i])) \/ (i = Len(stack) /\ InterruptInv(stack[i])))'
      BY DEF StackInv
    <3>1. CASE i = Len(stack) + 1
      <4> QED
        BY <3>1, <2>2, <2>3, <2>4 DEF InterruptInv
    <3>2. CASE i # Len(stack) + 1
      <4>1. i \in DOMAIN stack
        BY <3>2, <2>4
      <4>2. i = 1 /\ RequestInv(stack[i]) /\ stack'[i] = stack[i]
        BY <4>1, <2>4, <2>6
      <4> QED
        BY <4>2, <1>2, <2>3 DEF RequestInv
    <3> QED
      BY <3>1, <3>2
  <2>8. ClockTypeOK'
    BY <1>1, <1>2, <2>3, <2>4 DEF ClockTypeOK
  <2>9. CountInv'
    BY <1>1, <1>2, <2>3 DEF CountInv, ToldMeansRunning
  <2> QED
    BY <2>7, <2>8, <2>9 DEF ClockIInv
<1> QED
  BY <1>3, <1>4

\* What the interrupt does to the calls: it goes on or returns, the request
\* below it stays as it is.
LEMMA NotifyStep ==
  ASSUME ClockIInv, Notify
  PROVE  ClockIInv'
<1>1. ClockTypeOK /\ StackInv /\ CountInv /\ stack # <<>> /\ Running.at = "notify"
  BY DEF ClockIInv, Notify, Now
<1>2. InterruptInv(Running) /\ Running \in Frames /\ DOMAIN stack = 1 .. Len(stack) /\ Running = stack[Len(stack)]
  BY <1>1, InterruptRuns, RunningFrame
<1>3. UNCHANGED <<hfclk_on, hfclk_requests, waiting, hfclk_started, oscillator, startedEvent, held, told, hfBudget>>
  BY DEF Notify, clockVars
<1>4. CASE waiting = <<>>
  <2>1. stack' = Front(stack)
    BY <1>4 DEF Notify
  <2>2. /\ stack' \in Seq(Frames) /\ Len(stack) \in Nat
        /\ \A i \in DOMAIN stack' : i \in DOMAIN stack /\ i # Len(stack) /\ stack'[i] = stack[i]
    BY <1>1, <2>1, StackPopped, RunningFrame
  <2>3. StackInv'
    <3> SUFFICES ASSUME NEW i \in DOMAIN stack'
                 PROVE  ((i = 1 /\ RequestInv(stack[i])) \/ (i = Len(stack) /\ InterruptInv(stack[i])))'
      BY DEF StackInv
    <3>1. i = 1 /\ RequestInv(stack[i]) /\ stack'[i] = stack[i]
      BY <1>1, <2>2, BelowIsRequest
    <3> QED
      BY <3>1, <1>3 DEF RequestInv
  <2>4. ClockTypeOK' /\ CountInv'
    BY <1>1, <1>3, <2>2 DEF ClockTypeOK, CountInv, ToldMeansRunning
  <2> QED
    BY <2>3, <2>4 DEF ClockIInv
<1>5. CASE waiting # <<>>
  <2>1. Head(waiting) \in Users /\ Tail(waiting) \in Seq(Users)
    BY <1>1, <1>5, HeadTailProperties DEF ClockTypeOK
  <2>2. PICK f \in Frames : /\ f.level = 2 /\ f.at = "unlink"
                           /\ f.user = Head(waiting) /\ f.rest = Tail(waiting)
                           /\ stack' = [stack EXCEPT ![Len(stack)] = f]
    <3> DEFINE g == [[[Running EXCEPT !.at = "unlink"] EXCEPT !.user = Head(waiting)] EXCEPT !.rest = Tail(waiting)]
    <3>1. stack' = [stack EXCEPT ![Len(stack)] = g]
      <4>1. Len(stack) \in DOMAIN stack
        BY <1>1, RunningFrame
      <4> QED
        BY <1>2, <1>5, <4>1 DEF Notify
    <3>2. g \in Frames /\ g.level = 2 /\ g.at = "unlink" /\ g.user = Head(waiting) /\ g.rest = Tail(waiting)
      BY <1>2, <2>1 DEF Frames, InterruptInv
    <3> QED
      BY <3>1, <3>2
  <2>3. /\ stack' \in Seq(Frames) /\ Len(stack') = Len(stack) /\ DOMAIN stack' = DOMAIN stack
        /\ stack'[Len(stack)] = f
        /\ \A i \in DOMAIN stack : i # Len(stack) => stack'[i] = stack[i]
    BY <1>1, <2>2, StackReplaced
  <2>4. StackInv'
    <3> SUFFICES ASSUME NEW i \in DOMAIN stack'
                 PROVE  ((i = 1 /\ RequestInv(stack[i])) \/ (i = Len(stack) /\ InterruptInv(stack[i])))'
      BY DEF StackInv
    <3>1. CASE i = Len(stack)
      <4> QED
        BY <3>1, <1>2, <1>3, <1>5, <2>2, <2>3 DEF InterruptInv
    <3>2. CASE i # Len(stack)
      <4>1. i = 1 /\ RequestInv(stack[i]) /\ stack'[i] = stack[i]
        BY <3>2, <1>1, <2>3, BelowIsRequest
      <4> QED
        BY <4>1, <1>3 DEF RequestInv
    <3> QED
      BY <3>1, <3>2
  <2>5. ClockTypeOK' /\ CountInv'
    BY <1>1, <1>3, <2>3 DEF ClockTypeOK, CountInv, ToldMeansRunning
  <2> QED
    BY <2>4, <2>5 DEF ClockIInv
<1> QED
  BY <1>4, <1>5

LEMMA UnlinkStep ==
  ASSUME ClockIInv, Unlink
  PROVE  ClockIInv'
<1>1. ClockTypeOK /\ StackInv /\ CountInv /\ stack # <<>> /\ Running.at = "unlink"
  BY DEF ClockIInv, Unlink, Now
<1>2. InterruptInv(Running) /\ Running \in Frames /\ DOMAIN stack = 1 .. Len(stack) /\ Running = stack[Len(stack)]
  BY <1>1, InterruptRuns, RunningFrame
<1>3. /\ UNCHANGED <<hfclk_on, hfclk_requests, hfclk_started, oscillator, startedEvent, held, hfBudget>>
      /\ waiting # <<>> /\ waiting' = Tail(waiting) /\ told' = told \cup {Head(waiting)}
      /\ hfclk_on /\ Running.level = 2
  BY <1>1, <1>2 DEF Unlink, InterruptInv
<1>4. /\ Head(waiting) \in Users /\ Head(waiting) \in held /\ waiting' \in Seq(Users)
      /\ IsInjective(waiting') /\ ToSet(waiting') \subseteq ToSet(waiting) \ {Head(waiting)}
  <2>1. /\ waiting \in Seq(Users) /\ Len(waiting) \in Nat \ {0} /\ DOMAIN waiting = 1 .. Len(waiting)
        /\ Head(waiting) = waiting[1] /\ 1 \in DOMAIN waiting
    BY <1>1, <1>3, LenProperties, EmptySeq DEF ClockTypeOK
  <2>2. /\ waiting' \in Seq(Users) /\ Len(waiting') = Len(waiting) - 1
        /\ \A i \in 1 .. Len(waiting') : waiting'[i] = waiting[i + 1]
    BY <1>3, <2>1, HeadTailProperties
  <2>3. DOMAIN waiting' = 1 .. Len(waiting) - 1
    BY <2>2, LenProperties
  <2>4. \A i \in DOMAIN waiting' : i + 1 \in DOMAIN waiting /\ i + 1 # 1 /\ i \in Int /\ waiting'[i] = waiting[i + 1]
    BY <2>1, <2>2, <2>3
  <2>5. IsInjective(waiting')
    BY <1>1, <2>4 DEF IsInjective, ClockTypeOK
  <2>6. \A i \in DOMAIN waiting' : waiting'[i] \in ToSet(waiting) \ {Head(waiting)}
    BY <1>1, <2>1, <2>4 DEF IsInjective, ClockTypeOK, ToSet
  <2>7. Head(waiting) \in Users /\ Head(waiting) \in ToSet(waiting)
    BY <2>1, ElementOfSeq DEF ToSet
  <2> QED
    BY <1>1, <2>2, <2>5, <2>6, <2>7 DEF ToSet, CountInv
<1>5. PICK f \in Frames : f.level = 2 /\ f.at = "notify" /\ stack' = [stack EXCEPT ![Len(stack)] = f]
  <2>1. stack' = [stack EXCEPT ![Len(stack)] = [Running EXCEPT !.at = "notify"]]
    BY <1>2 DEF Unlink, Goto
  <2>2. /\ [Running EXCEPT !.at = "notify"] \in Frames
        /\ [Running EXCEPT !.at = "notify"].level = 2
        /\ [Running EXCEPT !.at = "notify"].at = "notify"
    BY <1>2, <1>3 DEF Frames
  <2> QED
    BY <2>1, <2>2
<1>6. /\ stack' \in Seq(Frames) /\ Len(stack') = Len(stack) /\ DOMAIN stack' = DOMAIN stack
      /\ stack'[Len(stack)] = f
      /\ \A i \in DOMAIN stack : i # Len(stack) => stack'[i] = stack[i]
  BY <1>1, <1>5, StackReplaced
<1>7. StackInv'
  <2> SUFFICES ASSUME NEW i \in DOMAIN stack'
               PROVE  ((i = 1 /\ RequestInv(stack[i])) \/ (i = Len(stack) /\ InterruptInv(stack[i])))'
    BY DEF StackInv
  <2>1. CASE i = Len(stack)
    <3> QED
      BY <2>1, <1>3, <1>5, <1>6 DEF InterruptInv
  <2>2. CASE i # Len(stack)
    <3>1. i = 1 /\ RequestInv(stack[i]) /\ stack'[i] = stack[i]
      BY <2>2, <1>1, <1>6, BelowIsRequest
    <3> QED
      BY <3>1, <1>3, <1>4 DEF RequestInv
  <2> QED
    BY <2>1, <2>2
<1>8. ClockTypeOK'
  BY <1>1, <1>3, <1>4, <1>6 DEF ClockTypeOK
<1>9. CountInv'
  BY <1>1, <1>3, <1>4 DEF CountInv, ToldMeansRunning
<1> QED
  BY <1>7, <1>8, <1>9 DEF ClockIInv

-----------------------------------------------------------------------------
(* The theorem.                                                            *)

LEMMA NextClockIInv ==
  ASSUME InterruptUsers = {}, "early" \notin ClockUse, ClockIInv, [ClockNext]_hfclkVars
  PROVE  ClockIInv'
<1>1. \A u \in Users : PriorityOf(u) = 1
  BY DEF Users, PriorityOf
<1>2. CASE \E u \in Users : hfclk_request(u) \/ hfclk_release(u)
  BY <1>1, <1>2, RequestBegins, ReleaseStep
<1>3. CASE ClockStep
  BY <1>3, RequestReadyStep, RequestCountStep, RequestEnqueueStep, NotifyStep, UnlinkStep DEF ClockStep
<1>4. CASE OscillatorStarts \/ Interrupt
  BY <1>4, OscillatorStep, InterruptStep
<1>5. CASE UNCHANGED hfclkVars
  BY <1>5 DEF hfclkVars, clockVars, ClockIInv, ClockTypeOK, StackInv, RequestInv, InterruptInv,
              CountInv, ToldMeansRunning
<1> QED
  BY <1>2, <1>3, <1>4, <1>5 DEF ClockNext

\* Users that request the clock from the thread and release it after they
\* were told that it runs: it runs exactly while one of them holds it, and
\* who was told so has a running clock, for any number of them and with the
\* SoftDevice or without (hfclk_on, hfclk_requests and the handler list of
\* nrf_drv_clock.c, hfclk_started of nrfx_clock.c).
THEOREM ClockAgrees ==
  ASSUME InterruptUsers = {}, "early" \notin ClockUse
  PROVE  ClockSpec => []HfClockInv
<1>1. ClockIInv => HfClockInv
  BY DEF ClockIInv, HfClockInv, CountInv, RunsWhileHeld
<1>2. ClockInit => ClockIInv
  BY InitClockIInv
<1>3. ClockIInv /\ [ClockNext]_hfclkVars => ClockIInv'
  BY NextClockIInv
<1> QED
  BY <1>1, <1>2, <1>3, PTL DEF ClockSpec
=============================================================================
