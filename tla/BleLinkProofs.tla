---------------------------- MODULE BleLinkProofs ----------------------------
(***************************************************************************)
(* What BleLink states of the BLE modules between events, proved for every *)
(* size of the SoftDevice's queue and number of links.  Connection handle  *)
(* zero is reused by every link, so all depends on which events may still  *)
(* be queued: in the invariant each event waiting fits the state of the    *)
(* modules it will be given to (QueueInv), and the order of two of them is *)
(* never one that would mix up links or requests (OrderInv).               *)
(***************************************************************************)
EXTENDS BleLink, SequenceTheorems, FiniteSetTheorems, TLAPS

Authorized == {"prepare", "execute", "cancel"}
Exchanged == {"mtu_request", "mtu_response"}
Simple == {"disconnected", "terminated", "procedure", "mem_request", "mem_release", "execute", "cancel"}

Events ==
  ({"connected", "updated"} \X Offers) \cup ({"notify"} \X BOOLEAN) \cup ({"security"} \X {TRUE})
  \cup (Exchanged \X PeerMtus) \cup ({"prepare"} \X Attributes) \cup (Simple \X {0})

\* The end of a link is its last event, and its first one is "connected";
\* "terminated" belongs to no link.  The peer's next request for authorization
\* waits for the last one, and memory is released before it is used again.
MayPrecede(a, b) ==
  /\ a = "disconnected" => b = "terminated"
  /\ b = "connected" => a = "terminated"
  /\ ~(a = "terminated" /\ b = "terminated")
  /\ ~(a \in Authorized /\ b \in Authorized)
  /\ ~(a = "prepare" /\ b = "mem_release")

OrderInv == \A i, j \in DOMAIN events : i < j => MayPrecede(events[i][1], events[j][1])

Fits(e) ==
  /\ e \in Events
  /\ e[1] = "disconnected" => ~up
  /\ e[1] = "connected" => told = 0
  /\ e[1] = "terminated" => onAir = Off
  /\ e[1] \in Authorized => authorizing # "none"
  /\ e[1] = "security" /\ up => secured
  /\ e[1] \in Exchanged /\ up => e[2] = peer.mtu
  /\ e[1] = "mem_release" /\ up => prepared = {}
  /\ e[1] # "terminated" => up \/ Queued("disconnected")

QueueInv == events \in Seq(Events) /\ \A i \in DOMAIN events : Fits(events[i])

Extra(name) == IF Queued(name) THEN 1 ELSE 0
LengthInv == Len(events) <= MaxQueue + Extra("disconnected") + Extra("terminated")

\* The modules know of the link from its first event to its last.
LinkInv ==
  /\ conn.connected <=> (up \/ Queued("disconnected")) /\ ~Queued("connected")
  /\ inst.used <=> conn.connected
  /\ qwr.assigned <=> conn.connected

ParamsInv ==
  /\ NegotiationGoesOn
  /\ sent = inst.count
  /\ timer => inst.used
  /\ timer /\ inst.ok => inst.count = 0

GattInv ==
  up /\ told # 0 =>
    told = gatt.effective /\ told = Larger(DefaultMtu, Smaller(gatt.desired, peer.mtu))

\* What is kept of the writes is what the peer prepared, or nothing.
QwrInv ==
  /\ exact
  /\ Cardinality(Written) = Len(qwr.written)
  /\ Written = {} \/ Written = prepared
  /\ up => Written = prepared
  /\ ~qwr.assigned => Written = {}

SecureInv == conn.encrypted /\ conn.connected /\ up => secured

TypeInv ==
  /\ up \in BOOLEAN
  /\ ParamsTypeOK /\ GattTypeOK /\ QwrTypeOK /\ AdvTypeOK
  /\ conn \in [valid : BOOLEAN, connected : BOOLEAN, encrypted : BOOLEAN]
  /\ secured \in BOOLEAN
  /\ theme \in Themes /\ links \in 0 .. MaxLinks /\ acts \in 0 .. MaxPeer /\ starts \in 0 .. MaxStarts

WaitingInv == QueueInv /\ OrderInv /\ LengthInv
ModulesInv == ParamsInv /\ GattInv /\ QwrInv /\ SecureInv /\ AdvertisesAsTold
LinksInv == TypeInv /\ WaitingInv /\ LinkInv /\ ModulesInv
-----------------------------------------------------------------------------
(* The queue of events.                                                    *)

\* The events of procedures in the words of the queue.
LEMMA EventsOf ==
  /\ \A n \in Exchanged, m \in PeerMtus : <<n, m>> \in Events
  /\ \A a \in Attributes : <<"prepare", a>> \in Events
  /\ \A n \in Simple : <<n, 0>> \in Events
BY DEF Events


\* An event is queued behind the others.
LEMMA Raised ==
  ASSUME events \in Seq(Events), NEW e \in Events, events' = Append(events, e)
  PROVE  /\ events' \in Seq(Events) /\ Len(events') = Len(events) + 1 /\ Len(events) \in Nat
         /\ DOMAIN events = 1 .. Len(events) /\ DOMAIN events' = 1 .. Len(events) + 1
         /\ \A i \in DOMAIN events : i \in DOMAIN events' /\ events'[i] = events[i]
         /\ events'[Len(events) + 1] = e
         /\ \A i \in DOMAIN events' : i \in DOMAIN events \/ (i = Len(events) + 1 /\ events'[i] = e)
         /\ \A n : Queued(n)' <=> Queued(n) \/ n = e[1]
<1>1. /\ events' \in Seq(Events) /\ Len(events') = Len(events) + 1 /\ Len(events) \in Nat
      /\ DOMAIN events = 1 .. Len(events)
      /\ \A i \in 1 .. Len(events) : events'[i] = events[i]
      /\ events'[Len(events) + 1] = e
  BY AppendProperties, LenProperties
<1>2. DOMAIN events' = 1 .. Len(events) + 1
  BY <1>1, LenProperties
<1>3. \A i \in DOMAIN events : i \in DOMAIN events' /\ events'[i] = events[i]
  BY <1>1, <1>2
<1>4. \A i \in DOMAIN events' : i \in DOMAIN events \/ (i = Len(events) + 1 /\ events'[i] = e)
  BY <1>1, <1>2
<1>5. Len(events) + 1 \in DOMAIN events'
  BY <1>1, <1>2
<1>6. \A n : Queued(n)' <=> Queued(n) \/ n = e[1]
  BY <1>1, <1>3, <1>4, <1>5 DEF Queued
<1> QED
  BY <1>1, <1>2, <1>3, <1>4, <1>6

\* What remains to be shown when an event is raised.
LEMMA RaisedInOrder ==
  ASSUME QueueInv, OrderInv, NEW e \in Events, events' = Append(events, e),
         \A i \in DOMAIN events : MayPrecede(events[i][1], e[1])
  PROVE  OrderInv'
<1>1. /\ DOMAIN events = 1 .. Len(events) /\ Len(events) \in Nat /\ DOMAIN events' = 1 .. Len(events) + 1
      /\ \A i \in DOMAIN events : i \in DOMAIN events' /\ events'[i] = events[i]
      /\ \A i \in DOMAIN events' : i \in DOMAIN events \/ (i = Len(events) + 1 /\ events'[i] = e)
  BY Raised DEF QueueInv
<1>2. ASSUME NEW i \in DOMAIN events', NEW j \in DOMAIN events', i < j
      PROVE  MayPrecede(events'[i][1], events'[j][1])
  <2>1. i \in DOMAIN events /\ events'[i] = events[i]
    BY <1>1, <1>2
  <2>2. CASE j \in DOMAIN events
    BY <1>1, <1>2, <2>1, <2>2 DEF OrderInv
  <2>3. CASE j \notin DOMAIN events
    BY <1>1, <2>1, <2>3
  <2> QED
    BY <2>2, <2>3
<1> QED
  BY <1>2 DEF OrderInv, MayPrecede

Release == <<"mem_release", 0>>

\* The first event is given to the modules, and memory may be released.
LEMMA Given ==
  ASSUME QueueInv, OrderInv, events # <<>>, NEW r \in {<<>>, <<Release>>}, events' = Tail(events) \o r,
         r # <<>> => \A i \in DOMAIN events : i > 1 => MayPrecede(events[i][1], "mem_release")
  PROVE  /\ 1 \in DOMAIN events /\ Head(events) = events[1] /\ Fits(events[1])
         /\ DOMAIN events = 1 .. Len(events) /\ Len(events) \in Nat
         /\ events' \in Seq(Events) /\ OrderInv'
         /\ Len(events') = Len(events) - 1 + (IF r = <<>> THEN 0 ELSE 1)
         /\ \A i \in DOMAIN events' :
              \/ r # <<>> /\ events'[i] = Release
              \/ \E j \in DOMAIN events : j > 1 /\ events'[i] = events[j]
         /\ \A n : Queued(n)' <=> \/ r # <<>> /\ n = "mem_release"
                                  \/ \E j \in DOMAIN events : j > 1 /\ events[j][1] = n
         /\ \A n : Queued(n) <=> \/ n = events[1][1]
                                 \/ \E j \in DOMAIN events : j > 1 /\ events[j][1] = n
<1>1. /\ events \in Seq(Events) /\ Len(events) \in Nat /\ DOMAIN events = 1 .. Len(events)
      /\ Len(events) # 0 /\ 1 \in DOMAIN events
  BY LenProperties, EmptySeq DEF QueueInv
<1>2. Head(events) = events[1] /\ Fits(events[1])
  BY <1>1 DEF QueueInv
<1>3. /\ Tail(events) \in Seq(Events) /\ Len(Tail(events)) = Len(events) - 1
      /\ \A i \in 1 .. Len(events) - 1 : Tail(events)[i] = events[i + 1]
  BY <1>1, HeadTailProperties
<1> DEFINE m == IF r = <<>> THEN 0 ELSE 1
<1>4. r \in Seq(Events) /\ Len(r) = m /\ m \in {0, 1} /\ (m = 1 => r[1] = Release)
  <2>1. Release \in Events
    BY DEF Release, Events, Simple
  <2>2. CASE r = <<>>
    BY <2>2, EmptySeq
  <2>3. CASE r # <<>>
    <3>1. r = <<Release>>
      BY <2>3
    <3>2. r \in Seq(Events) /\ Len(r) = 1 /\ r[1] = Release
      BY <2>1, <3>1
    <3> QED
      BY <2>3, <3>2
  <2> QED
    BY <2>2, <2>3
<1>5. m = 1 <=> r # <<>>
  OBVIOUS
<1> HIDE DEF m
<1>6. /\ events' \in Seq(Events) /\ Len(events') = Len(events) - 1 + m
      /\ \A i \in 1 .. Len(events) - 1 + m :
           events'[i] = IF i <= Len(events) - 1 THEN Tail(events)[i] ELSE r[i - (Len(events) - 1)]
  BY <1>3, <1>4, ConcatProperties
<1>7. DOMAIN events' = 1 .. Len(events) - 1 + m
  BY <1>6, LenProperties
<1>8. \A i \in 1 .. Len(events) - 1 : i \in DOMAIN events' /\ i + 1 \in DOMAIN events /\ events'[i] = events[i + 1]
  BY <1>1, <1>3, <1>4, <1>6, <1>7
<1>9. \A i \in DOMAIN events' :
        i \in 1 .. Len(events) - 1 \/ (m = 1 /\ i = Len(events) /\ events'[i] = Release)
  BY <1>1, <1>4, <1>6, <1>7
<1>10. m = 1 => Len(events) \in DOMAIN events' /\ events'[Len(events)] = Release
  BY <1>1, <1>4, <1>6, <1>7
<1>11. ASSUME NEW i \in DOMAIN events', NEW j \in DOMAIN events', i < j
       PROVE  MayPrecede(events'[i][1], events'[j][1])
  <2>1. i \in 1 .. Len(events) - 1
    BY <1>7, <1>9, <1>11, <1>1, <1>4
  <2>2. i + 1 \in DOMAIN events /\ events'[i] = events[i + 1] /\ i + 1 > 1
    BY <1>8, <2>1
  <2>3. CASE j \in 1 .. Len(events) - 1
    <3>1. j + 1 \in DOMAIN events /\ events'[j] = events[j + 1] /\ i + 1 < j + 1
      BY <1>8, <1>11, <2>1, <2>3
    <3> QED
      BY <2>2, <3>1 DEF OrderInv
  <2>4. CASE m = 1 /\ j = Len(events) /\ events'[j] = Release
    BY <1>5, <2>2, <2>4 DEF Release
  <2> QED
    BY <1>9, <2>3, <2>4
<1>12. \A i \in DOMAIN events' :
         \/ r # <<>> /\ events'[i] = Release
         \/ \E j \in DOMAIN events : j > 1 /\ events'[i] = events[j]
  <2> TAKE i \in DOMAIN events'
  <2>1. CASE i \in 1 .. Len(events) - 1
    <3>1. i + 1 \in DOMAIN events /\ i + 1 > 1 /\ events'[i] = events[i + 1]
      BY <1>8, <2>1
    <3> QED
      BY <3>1
  <2> QED
    BY <1>5, <1>9, <2>1
<1>13. \A j \in DOMAIN events : j > 1 => j - 1 \in DOMAIN events' /\ events'[j - 1] = events[j]
  <2> SUFFICES ASSUME NEW j \in DOMAIN events, j > 1
               PROVE  j - 1 \in DOMAIN events' /\ events'[j - 1] = events[j]
    OBVIOUS
  <2>1. j - 1 \in 1 .. Len(events) - 1 /\ (j - 1) + 1 = j
    BY <1>1
  <2> QED
    BY <1>8, <2>1
<1>14. ASSUME NEW n
       PROVE  Queued(n)' <=> \/ r # <<>> /\ n = "mem_release"
                             \/ \E j \in DOMAIN events : j > 1 /\ events[j][1] = n
  <2>1. Queued(n)' <=> \E i \in DOMAIN events' : events'[i][1] = n
    BY DEF Queued
  <2>2. r # <<>> => \E i \in DOMAIN events' : events'[i][1] = "mem_release"
    BY <1>5, <1>10 DEF Release
  <2>3. ASSUME NEW i \in DOMAIN events', events'[i][1] = n
        PROVE  \/ r # <<>> /\ n = "mem_release"
               \/ \E j \in DOMAIN events : j > 1 /\ events[j][1] = n
    BY <1>12, <2>3 DEF Release
  <2>4. ASSUME NEW j \in DOMAIN events, j > 1, events[j][1] = n
        PROVE  \E i \in DOMAIN events' : events'[i][1] = n
    BY <1>13, <2>4
  <2> QED
    BY <2>1, <2>2, <2>3, <2>4
<1>15. ASSUME NEW n
       PROVE  Queued(n) <=> \/ n = events[1][1]
                            \/ \E j \in DOMAIN events : j > 1 /\ events[j][1] = n
  <2>1. \A j \in DOMAIN events : j = 1 \/ j > 1
    BY <1>1
  <2> QED
    BY <1>1, <2>1 DEF Queued
<1>16. OrderInv'
  BY <1>11 DEF OrderInv, MayPrecede
<1> QED
  BY <1>1, <1>2, <1>6, <1>12, <1>14, <1>15, <1>16 DEF m

\* What an event waiting fits does not change.
LEMMA FitsKept ==
  ASSUME NEW e, Fits(e), up' => up, told' = told, onAir = Off => onAir' = Off,
         authorizing # "none" => authorizing' # "none", secured => secured',
         peer'.mtu = peer.mtu, prepared' = prepared,
         up \/ Queued("disconnected") => up' \/ Queued("disconnected")'
  PROVE  Fits(e)'
BY DEF Fits, Events, Off

\* What is queued, in the words of the order.
LEMMA WhatWaits ==
  ASSUME WaitingInv, NEW i \in DOMAIN events
  PROVE  /\ events \in Seq(Events) /\ events[i] \in Events /\ Fits(events[i]) /\ Queued(events[i][1])
         /\ up => events[i][1] # "disconnected"
         /\ authorizing = "none" => events[i][1] \notin Authorized
         /\ onAir # Off => events[i][1] # "terminated"
         /\ ~up /\ ~Queued("disconnected") => events[i][1] = "terminated"
BY DEF WaitingInv, QueueInv, Fits, Queued

\* An event of the link in progress is raised.
LEMMA LinkRaises ==
  ASSUME WaitingInv, up, up', NEW e \in Events, events' = Append(events, e), Len(events) < MaxQueue,
         e[1] \notin {"connected", "disconnected", "terminated", "mem_release"},
         e[1] \in Authorized => authorizing = "none" /\ authorizing' # "none",
         e[1] \in Exchanged => e[2] = peer.mtu,
         e[1] = "security" => secured',
         UNCHANGED <<told, onAir, prepared>>, peer'.mtu = peer.mtu,
         authorizing # "none" => authorizing' # "none", secured => secured'
  PROVE  /\ WaitingInv'
         /\ \A n : Queued(n)' <=> Queued(n) \/ n = e[1]
<1>1. events \in Seq(Events) /\ QueueInv /\ OrderInv /\ LengthInv
  BY DEF WaitingInv, QueueInv
<1>2. /\ events' \in Seq(Events) /\ Len(events') = Len(events) + 1 /\ Len(events) \in Nat
      /\ \A i \in DOMAIN events' : (i \in DOMAIN events /\ events'[i] = events[i]) \/ events'[i] = e
      /\ \A n : Queued(n)' <=> Queued(n) \/ n = e[1]
  BY <1>1, Raised
<1>3. OrderInv'
  <2>1. ASSUME NEW i \in DOMAIN events PROVE MayPrecede(events[i][1], e[1])
    BY WhatWaits DEF MayPrecede, Authorized
  <2> QED
    BY <1>1, <2>1, RaisedInOrder
<1>4. Queued("disconnected")' <=> Queued("disconnected")
  BY <1>2
<1>5. ASSUME NEW i \in DOMAIN events' PROVE Fits(events[i])'
  <2>1. CASE i \in DOMAIN events /\ events'[i] = events[i]
    <3>1. Fits(events[i])
      BY <2>1, <1>1 DEF QueueInv
    <3>2. PICK x : x = events[i] /\ x = events'[i]
      BY <2>1
    <3>3. Fits(x)'
      BY <1>4, <3>1, <3>2, FitsKept
    <3> QED
      BY <3>2, <3>3 DEF Fits
  <2>2. CASE events'[i] = e
    <3>1. Fits(e)'
      BY DEF Fits, Events
    <3> QED
      BY <2>2, <3>1 DEF Fits
  <2> QED
    BY <1>2, <2>1, <2>2
<1>6. LengthInv'
  <2>1. Extra("disconnected")' = Extra("disconnected") /\ Extra("terminated")' = Extra("terminated")
    BY <1>2 DEF Extra
  <2>2. Extra("disconnected") \in {0, 1} /\ Extra("terminated") \in {0, 1}
    BY DEF Extra
  <2> QED
    BY <1>2, <2>1, <2>2, BleLinkAssumption DEF LengthInv
<1> QED
  BY <1>2, <1>3, <1>5, <1>6 DEF WaitingInv, QueueInv

\* The link is gone, and the modules are not yet told.
LEMMA LinkDrops ==
  ASSUME WaitingInv, up, ~up', events' = Append(events, <<"disconnected", 0>>),
         UNCHANGED <<told, onAir, authorizing, secured, prepared, peer>>
  PROVE  /\ WaitingInv'
         /\ \A n : Queued(n)' <=> Queued(n) \/ n = "disconnected"
<1> DEFINE e == <<"disconnected", 0>>
<1>1. e \in Events /\ e[1] = "disconnected" /\ events' = Append(events, e)
  BY DEF Events, Simple
<1> HIDE DEF e
<1>2. events \in Seq(Events) /\ QueueInv /\ OrderInv /\ LengthInv
  BY DEF WaitingInv, QueueInv
<1>3. /\ events' \in Seq(Events) /\ Len(events') = Len(events) + 1 /\ Len(events) \in Nat
      /\ \A i \in DOMAIN events' : (i \in DOMAIN events /\ events'[i] = events[i]) \/ events'[i] = e
      /\ \A n : Queued(n)' <=> Queued(n) \/ n = e[1]
  BY <1>1, <1>2, Raised
<1>4. OrderInv'
  <2>1. ASSUME NEW i \in DOMAIN events PROVE MayPrecede(events[i][1], e[1])
    BY <1>1, WhatWaits DEF MayPrecede, Authorized
  <2> QED
    BY <1>1, <1>2, <2>1, RaisedInOrder
<1>5. Queued("disconnected")'
  BY <1>1, <1>3
<1>6. ASSUME NEW i \in DOMAIN events' PROVE Fits(events[i])'
  <2>1. CASE i \in DOMAIN events /\ events'[i] = events[i]
    <3>1. Fits(events[i])
      BY <2>1, <1>2 DEF QueueInv
    <3>2. PICK x : x = events[i] /\ x = events'[i]
      BY <2>1
    <3>3. Fits(x)'
      BY <1>5, <3>1, <3>2, FitsKept
    <3> QED
      BY <3>2, <3>3 DEF Fits
  <2>2. CASE events'[i] = e
    <3>1. Fits(e)'
      BY <1>1, <1>5 DEF Fits, Authorized, Exchanged
    <3> QED
      BY <2>2, <3>1 DEF Fits
  <2> QED
    BY <1>3, <2>1, <2>2
<1>7. ~Queued("disconnected")
  BY WhatWaits DEF Queued
<1>8. LengthInv'
  <2>1. Extra("disconnected")' = 1 /\ Extra("disconnected") = 0 /\ Extra("terminated")' = Extra("terminated")
    BY <1>1, <1>3, <1>7 DEF Extra
  <2>2. Extra("terminated") \in {0, 1}
    BY DEF Extra
  <2> QED
    BY <1>2, <1>3, <2>1, <2>2, BleLinkAssumption DEF LengthInv
<1> QED
  BY <1>1, <1>3, <1>4, <1>6, <1>8 DEF WaitingInv, QueueInv

\* Nothing is raised, and what the events fit stays.
LEMMA WaitingKept ==
  ASSUME WaitingInv, UNCHANGED <<up, events, told, authorizing, secured, prepared, peer>>,
         onAir = Off /\ events # <<>> => onAir' = Off
  PROVE  WaitingInv' /\ \A n : Queued(n)' <=> Queued(n)
<1>1. QueueInv /\ OrderInv /\ LengthInv
  BY DEF WaitingInv
<1>2. \A n : Queued(n)' <=> Queued(n)
  BY DEF Queued
<1>3. ASSUME NEW i \in DOMAIN events' PROVE Fits(events[i])'
  <2>1. Fits(events[i]) /\ events # <<>>
    BY <1>1, <1>3, EmptySeq DEF QueueInv
  <2>2. PICK x : x = events[i] /\ x = events'[i]
    OBVIOUS
  <2>3. Fits(x)'
    BY <1>2, <2>1, <2>2, FitsKept
  <2> QED
    BY <2>2, <2>3 DEF Fits
<1>4. OrderInv' /\ LengthInv'
  BY <1>1, <1>2 DEF OrderInv, MayPrecede, LengthInv, Extra
<1> QED
  BY <1>1, <1>2, <1>3, <1>4 DEF WaitingInv, QueueInv


-----------------------------------------------------------------------------
(* What a step that does not touch a module keeps of it.                   *)

LEMMA LinkKept ==
  ASSUME LinkInv, UNCHANGED <<inst.used, qwr.assigned, conn.connected>>,
         up' \/ Queued("disconnected")' <=> up \/ Queued("disconnected"),
         Queued("connected")' <=> Queued("connected")
  PROVE  LinkInv'
BY DEF LinkInv

LEMMA ParamsKept ==
  ASSUME ParamsTypeOK, ParamsInv, UNCHANGED paramVars, up' => up, Queued("updated") => Queued("updated")'
  PROVE  ParamsTypeOK' /\ ParamsInv'
BY DEF ParamsTypeOK, ParamsInv, NegotiationGoesOn, paramVars

LEMMA GattKept ==
  ASSUME GattTypeOK, GattInv, UNCHANGED gattVars, up' => up
  PROVE  GattTypeOK' /\ GattInv'
BY DEF GattTypeOK, GattInv, gattVars, Smaller, Larger

LEMMA QwrKept ==
  ASSUME QwrTypeOK, QwrInv, UNCHANGED <<qwr, prepared, exact>>, up' => up,
         memory' \in {"none", "asked", "given"}, authorizing' \in {"none", "prepare", "execute", "cancel"}
  PROVE  QwrTypeOK' /\ QwrInv'
BY DEF QwrTypeOK, QwrInv, Written

LEMMA AdvKept ==
  ASSUME AdvTypeOK, AdvertisesAsTold, UNCHANGED advVars
  PROVE  AdvTypeOK' /\ AdvertisesAsTold'
BY DEF AdvTypeOK, AdvertisesAsTold, advVars

LEMMA SecureKept ==
  ASSUME SecureInv, UNCHANGED conn, up' => up, secured => secured'
  PROVE  SecureInv'
BY DEF SecureInv

\* The parts of the invariant, one by one.
LEMMA Parts ==
  ASSUME LinksInv
  PROVE  /\ TypeInv /\ WaitingInv /\ LinkInv /\ ModulesInv
         /\ ParamsTypeOK /\ GattTypeOK /\ QwrTypeOK /\ AdvTypeOK
         /\ ParamsInv /\ GattInv /\ QwrInv /\ SecureInv /\ AdvertisesAsTold
         /\ events \in Seq(Events) /\ up \in BOOLEAN
         /\ authorizing \in {"none", "prepare", "execute", "cancel"} /\ memory \in {"none", "asked", "given"}
         /\ up => ~Queued("disconnected")
BY WhatWaits DEF LinksInv, TypeInv, ModulesInv, WaitingInv, QueueInv, QwrTypeOK, Queued

\* And back, when the application's and the peer's shares are in bounds.
LEMMA Together ==
  ASSUME up' \in BOOLEAN, WaitingInv', LinkInv',
         ParamsTypeOK' /\ ParamsInv', GattTypeOK' /\ GattInv', QwrTypeOK' /\ QwrInv',
         AdvTypeOK' /\ AdvertisesAsTold', SecureInv',
         conn' \in [valid : BOOLEAN, connected : BOOLEAN, encrypted : BOOLEAN], secured' \in BOOLEAN,
         theme' \in Themes /\ links' \in 0 .. MaxLinks /\ acts' \in 0 .. MaxPeer /\ starts' \in 0 .. MaxStarts
  PROVE  LinksInv'
BY DEF LinksInv, TypeInv, ModulesInv

-----------------------------------------------------------------------------
(* The link, the timer and the central's parameters.                       *)

LEMMA LinkLostStep ==
  ASSUME LinksInv, LinkLost
  PROVE  LinksInv'
<1>1. /\ up /\ ~up' /\ up' \in BOOLEAN /\ events' = Append(events, <<"disconnected", 0>>)
      /\ UNCHANGED <<paramVars, gattVars, qwrVars, advVars, conn, secured, bounds>>
  BY DEF LinkLost, Drop
<1>2. WaitingInv' /\ \A n : Queued(n)' <=> Queued(n) \/ n = "disconnected"
  BY <1>1, Parts, LinkDrops DEF gattVars, qwrVars, advVars
<1>3. LinkInv'
  BY <1>1, <1>2, Parts, LinkKept DEF paramVars, qwrVars
<1>4. /\ ParamsTypeOK' /\ ParamsInv' /\ GattTypeOK' /\ GattInv' /\ QwrTypeOK' /\ QwrInv'
      /\ AdvTypeOK' /\ AdvertisesAsTold' /\ SecureInv'
  BY <1>1, <1>2, Parts, ParamsKept, GattKept, QwrKept, AdvKept, SecureKept DEF qwrVars
<1> QED
  BY <1>1, <1>2, <1>3, <1>4, Parts, Together DEF TypeInv, bounds

Instances == [used : BOOLEAN, ok : BOOLEAN, count : 0 .. MaxUpdates, preferred : Preferences]

LEMMA CountSet ==
  ASSUME NEW p \in Instances, NEW c \in 0 .. MaxUpdates
  PROVE  LET q == [p EXCEPT !.count = c] IN
         q \in Instances /\ q.count = c /\ q.used = p.used /\ q.ok = p.ok /\ q.preferred = p.preferred
BY DEF Instances

\* update_timeout_handler: a failure is announced after all the requests only.
LEMMA TimerFinds ==
  ASSUME ParamsTypeOK, ParamsInv, ParamsTimeout
  PROVE  /\ timer /\ ~timer' /\ inst.used /\ inst \in Instances
         /\ MaxUpdates \in Nat \ {0} /\ inst.count = sent
         /\ (MayAsk(inst) /\ SendRequest) \/ (~MayAsk(inst) /\ ~inst.ok /\ sent >= MaxUpdates /\ GiveUp)
         /\ UNCHANGED <<onNotify, preferred>>
<1>1. MaxUpdates \in Nat \ {0} /\ inst \in Instances
  BY BleConnParamsAssumption DEF ParamsTypeOK, Instances
<1> QED
  BY <1>1 DEF Instances, ParamsTimeout, ParamsInv, MayAsk

LEMMA TimerExpiresStep ==
  ASSUME LinksInv, TimerExpires
  PROVE  LinksInv'
<1>1. /\ ParamsTimeout /\ UNCHANGED <<gattVars, qwrVars, advVars, conn, secured, bounds>>
  BY DEF TimerExpires
<1>2. /\ timer /\ ~timer' /\ timer' = FALSE /\ inst.used
      /\ inst \in Instances
      /\ MaxUpdates \in Nat \ {0} /\ inst.count = sent
      /\ (MayAsk(inst) /\ SendRequest) \/ (~MayAsk(inst) /\ ~inst.ok /\ sent >= MaxUpdates /\ GiveUp)
      /\ UNCHANGED <<onNotify, preferred>>
  BY <1>1, Parts, TimerFinds DEF ParamsTimeout
<1>3. CASE MayAsk(inst) /\ SendRequest
  <2>1. PICK answer \in UpdateAnswers :
          /\ updating' = (updating \/ answer = "success")
          /\ inst' = [inst EXCEPT !.count = IF answer = "success" THEN @ + 1 ELSE @]
          /\ sent' = IF answer = "success" THEN sent + 1 ELSE sent
          /\ held' = (held \/ answer = "error")
          /\ UNCHANGED <<verdict, stack>>
    BY <1>3 DEF SendRequest
  <2>2. WaitingInv' /\ \A n : Queued(n)' <=> Queued(n)
    BY <1>1, <2>1, Parts, WaitingKept DEF gattVars, qwrVars, advVars, stack
  <2>3. /\ inst' \in Instances
        /\ inst'.used = inst.used /\ inst'.count = sent' /\ inst'.ok = inst.ok
        /\ sent' \in 0 .. MaxUpdates
    <3> DEFINE c == IF answer = "success" THEN inst.count + 1 ELSE inst.count
    <3>1. c \in 0 .. MaxUpdates /\ sent' = c
      BY <1>2, <1>3, <2>1 DEF MayAsk, Instances
    <3>2. inst' = [inst EXCEPT !.count = c]
      BY <2>1
    <3> HIDE DEF c
    <3> QED
      BY <1>2, <3>1, <3>2, CountSet
  <2>4. ParamsTypeOK'
    BY <1>2, <2>1, <2>3, Parts DEF ParamsTypeOK, Instances
  <2>5. up => updating' \/ held'
    BY <2>1 DEF UpdateAnswers
  <2>6. ParamsInv'
    BY <1>2, <2>1, <2>3, <2>5 DEF ParamsInv, NegotiationGoesOn, stack
  <2>7. LinkInv'
    BY <1>1, <2>1, <2>2, <2>3, Parts, LinkKept DEF qwrVars, stack
  <2>8. GattTypeOK' /\ GattInv' /\ QwrTypeOK' /\ QwrInv' /\ AdvTypeOK' /\ AdvertisesAsTold' /\ SecureInv'
    BY <1>1, <2>1, Parts, GattKept, QwrKept, AdvKept, SecureKept DEF stack, qwrVars
  <2> QED
    BY <1>1, <2>1, <2>2, <2>4, <2>6, <2>7, <2>8, Parts, Together DEF TypeInv, bounds, stack
<1>4. CASE ~inst.ok /\ GiveUp
  <2>1. /\ inst' = [inst EXCEPT !.count = 0] /\ verdict' = "failed" /\ sent' = 0
        /\ UNCHANGED <<updating, held>>
        /\ (up /\ Drop) \/ (UNCHANGED stack) \/ (~up /\ up' = FALSE /\ events' = events)
    BY <1>4 DEF GiveUp, Drop
  <2>2. /\ WaitingInv' /\ up' \in BOOLEAN /\ (up' => up)
        /\ up' \/ Queued("disconnected")' <=> up \/ Queued("disconnected")
        /\ Queued("connected")' <=> Queued("connected")
    <3>1. CASE up /\ Drop
      BY <1>1, <3>1, Parts, LinkDrops DEF Drop, gattVars, qwrVars, advVars
    <3>2. CASE UNCHANGED stack \/ (~up /\ up' = FALSE /\ events' = events)
      <4>1. up' = up /\ events' = events
        BY <3>2, Parts DEF stack
      <4> QED
        BY <1>1, <4>1, Parts, WaitingKept DEF gattVars, qwrVars, advVars
    <3> QED
      BY <2>1, <3>1, <3>2
  <2>3. /\ inst' \in Instances
        /\ inst'.used = inst.used /\ inst'.count = 0
    <3>1. 0 \in 0 .. MaxUpdates
      BY <1>2
    <3> QED
      BY <1>2, <2>1, <3>1, CountSet
  <2>4. ParamsTypeOK'
    BY <1>2, <2>1, <2>3, Parts DEF ParamsTypeOK, Instances
  <2>5. ParamsInv'
    BY <1>2, <2>1, <2>3 DEF ParamsInv, NegotiationGoesOn
  <2>6. LinkInv'
    BY <1>1, <2>2, <2>3, Parts, LinkKept DEF qwrVars
  <2>7. GattTypeOK' /\ GattInv' /\ QwrTypeOK' /\ QwrInv' /\ AdvTypeOK' /\ AdvertisesAsTold' /\ SecureInv'
    BY <1>1, <2>2, Parts, GattKept, QwrKept, AdvKept, SecureKept DEF qwrVars
  <2> QED
    BY <1>1, <2>2, <2>4, <2>5, <2>6, <2>7, Parts, Together DEF TypeInv, bounds
<1> QED
  BY <1>2, <1>3, <1>4


-----------------------------------------------------------------------------
(* What the peer, the application and the SoftDevice do on the link.       *)

LEMMA CentralStep ==
  ASSUME LinksInv, CentralSetsParams, Len(events) < MaxQueue
  PROVE  LinksInv'
<1>1. PICK o \in Offers : Raise("updated", o)
  BY DEF CentralSetsParams
<1>2. /\ up /\ up' /\ UNCHANGED <<up, inst, onNotify, preferred, timer, verdict, sent, held>>
      /\ updating' = FALSE /\ events' = Append(events, <<"updated", o>>)
      /\ UNCHANGED <<gattVars, qwrVars, advVars, conn, secured, theme, links, starts>>
  BY <1>1 DEF CentralSetsParams, Raise
<1>3. acts' \in 0 .. MaxPeer
  BY BleLinkAssumption, Parts DEF CentralSetsParams, TypeInv, ParamsTypeOK
<1>4. WaitingInv' /\ \A n : Queued(n)' <=> Queued(n) \/ n = "updated"
  <2> DEFINE e == <<"updated", o>>
  <2>1. e \in Events /\ e[1] = "updated" /\ events' = Append(events, e)
    BY <1>2 DEF Events
  <2> HIDE DEF e
  <2> QED
    BY <1>2, <2>1, Parts, LinkRaises DEF gattVars, qwrVars, advVars, Authorized, Exchanged
<1>5. ParamsTypeOK'
  BY <1>2, Parts DEF ParamsTypeOK
<1>6. ParamsInv'
  BY <1>2, <1>4, Parts DEF ParamsInv, NegotiationGoesOn
<1>7. LinkInv'
  BY <1>2, <1>4, Parts, LinkKept DEF qwrVars
<1>8. GattTypeOK' /\ GattInv' /\ QwrTypeOK' /\ QwrInv' /\ AdvTypeOK' /\ AdvertisesAsTold' /\ SecureInv'
  BY <1>2, Parts, GattKept, QwrKept, AdvKept, SecureKept DEF qwrVars
<1> QED
  BY <1>2, <1>3, <1>4, <1>5, <1>6, <1>7, <1>8, Parts, Together DEF TypeInv

\* Of what the peer or the application does on the link, here is what is left
\* to show: the module it concerns.
LEMMA OnTheLink ==
  ASSUME LinksInv, WaitingInv', up' = up, UNCHANGED <<conn, theme, links, starts>>,
         inst'.used = inst.used, qwr'.assigned = qwr.assigned,
         acts' \in 0 .. MaxPeer, secured' \in BOOLEAN, secured => secured',
         \A n \in {"disconnected", "connected"} : Queued(n)' <=> Queued(n),
         Queued("updated") => Queued("updated")',
         UNCHANGED paramVars \/ (ParamsTypeOK' /\ ParamsInv'),
         UNCHANGED gattVars \/ (GattTypeOK' /\ GattInv'),
         UNCHANGED <<qwr, prepared, exact>>,
         memory' \in {"none", "asked", "given"}, authorizing' \in {"none", "prepare", "execute", "cancel"},
         UNCHANGED advVars
  PROVE  LinksInv'
<1>1. LinkInv'
  BY Parts, LinkKept
<1>2. /\ ParamsTypeOK' /\ ParamsInv' /\ GattTypeOK' /\ GattInv' /\ QwrTypeOK' /\ QwrInv'
      /\ AdvTypeOK' /\ AdvertisesAsTold' /\ SecureInv'
  BY Parts, ParamsKept, GattKept, QwrKept, AdvKept, SecureKept
<1> QED
  BY <1>1, <1>2, Parts, Together DEF TypeInv

LEMMA PeerNotifiesStep ==
  ASSUME LinksInv, PeerNotifies, Len(events) < MaxQueue, acts' \in 0 .. MaxPeer, UNCHANGED <<theme, links, starts>>
  PROVE  LinksInv'
<1>1. PICK b \in BOOLEAN : Raise("notify", b)
  BY DEF PeerNotifies
<1>2. /\ up /\ up' /\ up' = up /\ events' = Append(events, <<"notify", b>>)
      /\ UNCHANGED <<paramVars, gattVars, qwrVars, advVars, conn, secured>>
  BY <1>1 DEF PeerNotifies, Raise
<1>3. WaitingInv' /\ \A n : Queued(n)' <=> Queued(n) \/ n = "notify"
  <2> DEFINE e == <<"notify", b>>
  <2>1. e \in Events /\ e[1] = "notify" /\ events' = Append(events, e)
    BY <1>2 DEF Events
  <2> HIDE DEF e
  <2> QED
    BY <1>2, <2>1, Parts, LinkRaises DEF gattVars, qwrVars, advVars, Authorized, Exchanged
<1> QED
  BY <1>2, <1>3, Parts, OnTheLink DEF qwrVars, paramVars, TypeInv

LEMMA PeerSecuresStep ==
  ASSUME LinksInv, PeerSecures, Len(events) < MaxQueue, acts' \in 0 .. MaxPeer, UNCHANGED <<theme, links, starts>>
  PROVE  LinksInv'
<1>1. /\ up /\ up' /\ up' = up /\ secured' = TRUE /\ events' = Append(events, <<"security", TRUE>>)
      /\ UNCHANGED <<paramVars, gattVars, qwrVars, advVars, conn>>
  BY DEF PeerSecures, Raise
<1>2. WaitingInv' /\ \A n : Queued(n)' <=> Queued(n) \/ n = "security"
  <2> DEFINE e == <<"security", TRUE>>
  <2>1. e \in Events /\ e[1] = "security" /\ events' = Append(events, e)
    BY <1>1 DEF Events
  <2> HIDE DEF e
  <2> QED
    BY <1>1, <2>1, Parts, LinkRaises DEF gattVars, qwrVars, advVars, Authorized, Exchanged
<1> QED
  BY <1>1, <1>2, Parts, OnTheLink DEF qwrVars, paramVars, TypeInv

\* ble_conn_params_stop, ble_conn_params_change_conn_params
LEMMA ParamsActsStep ==
  ASSUME LinksInv, ParamsStop \/ ParamsChange, UNCHANGED <<gattVars, qwrVars, advVars, conn, secured>>,
         acts' \in 0 .. MaxPeer, UNCHANGED <<theme, links, starts>>
  PROVE  LinksInv'
<1>1. UNCHANGED stack /\ up' = up
  BY DEF ParamsStop, ParamsChange, stack
<1>2. WaitingInv' /\ \A n : Queued(n)' <=> Queued(n)
  BY <1>1, Parts, WaitingKept DEF stack, gattVars, qwrVars, advVars
<1>3. inst'.used = inst.used /\ ParamsTypeOK' /\ ParamsInv'
  <2>1. CASE ParamsStop
    <3>1. inst'.used = inst.used /\ ParamsTypeOK'
      BY <2>1, Parts DEF ParamsStop, ParamsTypeOK
    <3> QED
      BY <2>1, <3>1, Parts DEF ParamsStop, ParamsInv, NegotiationGoesOn
  <2>2. CASE ParamsChange
    <3>1. PICK p \in Preferences : inst' = [inst EXCEPT !.ok = FALSE, !.count = 1, !.preferred = p]
      BY <2>2 DEF ParamsChange
    <3>2. inst \in Instances /\ 1 \in 0 .. MaxUpdates
      BY BleConnParamsAssumption, Parts DEF ParamsTypeOK, Instances
    <3>3. inst' \in Instances /\ inst'.used = inst.used /\ ~inst'.ok /\ inst'.count = 1
      BY <3>1, <3>2 DEF Instances
    <3>4. ParamsTypeOK'
      BY <2>2, <3>2, <3>3, Parts DEF ParamsChange, ParamsTypeOK, Instances
    <3> QED
      BY <2>2, <3>3, <3>4, Parts DEF ParamsChange, ParamsInv, NegotiationGoesOn
  <2> QED
    BY <2>1, <2>2
<1> QED
  BY <1>1, <1>2, <1>3, Parts, OnTheLink DEF qwrVars, TypeInv

LEMMA GattStep ==
  ASSUME LinksInv, GattActs \/ GattAnswers, Len(events) < MaxQueue,
         UNCHANGED <<paramVars, qwrVars, advVars, conn, secured>>,
         acts' \in 0 .. MaxPeer, UNCHANGED <<theme, links, starts>>
  PROVE  LinksInv'
<1>1. /\ up' = up /\ gatt' = gatt /\ told' = told /\ peer'.mtu = peer.mtu
      /\ peer' \in [mtu : PeerMtus, asked : BOOLEAN] /\ desired' \in Mtus
      /\ mtuAsk' \in {"no", "asked", "done"} /\ procedure' \in BOOLEAN
      /\ peer.mtu \in PeerMtus
  BY Parts DEF GattActs, GattAnswers, PeerAsksMtu, ProcedureStarts, SetDesiredMtu, PeerAnswersMtu,
               ProcedureEnds, stack, GattTypeOK
<1>2. GattTypeOK' /\ GattInv'
  BY <1>1, Parts DEF GattTypeOK, GattInv, Larger, Smaller
<1>3. \/ events' = events /\ peer' = peer
      \/ up /\ \E e \in {<<"mtu_request", peer.mtu>>, <<"mtu_response", peer.mtu>>, <<"procedure", 0>>} :
           events' = Append(events, e)
  BY DEF GattActs, GattAnswers, PeerAsksMtu, ProcedureStarts, SetDesiredMtu, PeerAnswersMtu,
         ProcedureEnds, stack, Raise
<1>4. /\ WaitingInv' /\ \A n \in {"disconnected", "connected"} : Queued(n)' <=> Queued(n)
      /\ Queued("updated") => Queued("updated")'
  <2>1. CASE events' = events /\ peer' = peer
    BY <1>1, <2>1, Parts, WaitingKept DEF qwrVars, advVars
  <2>2. CASE up /\ \E e \in {<<"mtu_request", peer.mtu>>, <<"mtu_response", peer.mtu>>, <<"procedure", 0>>} :
              events' = Append(events, e)
    <3>1. PICK e \in {<<"mtu_request", peer.mtu>>, <<"mtu_response", peer.mtu>>, <<"procedure", 0>>} :
            events' = Append(events, e)
      BY <2>2
    <3>2. /\ e \in Events /\ e[1] \in {"mtu_request", "mtu_response", "procedure"}
          /\ e[1] \in Exchanged => e[2] = peer.mtu
      <4>1. CASE e = <<"mtu_request", peer.mtu>> \/ e = <<"mtu_response", peer.mtu>>
        BY <1>1, <4>1, EventsOf DEF Exchanged
      <4>2. CASE e = <<"procedure", 0>>
        BY <4>2, EventsOf DEF Simple, Exchanged
      <4> QED
        BY <3>1, <4>1, <4>2
    <3>3. e[1] \notin Authorized
      BY <3>2 DEF Authorized
    <3>4. /\ WaitingInv' /\ \A n : Queued(n)' <=> Queued(n) \/ n = e[1]
      BY <1>1, <2>2, <3>1, <3>2, <3>3, Parts, LinkRaises DEF qwrVars, advVars
    <3> QED
      BY <3>2, <3>4
  <2> QED
    BY <1>3, <2>1, <2>2
<1> QED
  BY <1>1, <1>2, <1>4, Parts, OnTheLink DEF qwrVars, paramVars, TypeInv

LEMMA QwrStep ==
  ASSUME LinksInv, QwrActs \/ PeerNeedsMemory, Len(events) < MaxQueue,
         UNCHANGED <<paramVars, gattVars, advVars, conn, secured>>,
         acts' \in 0 .. MaxPeer, UNCHANGED <<theme, links, starts>>
  PROVE  LinksInv'
<1>1. /\ up /\ up' = up /\ up' /\ authorizing = "none" /\ UNCHANGED <<qwr, prepared, exact>>
      /\ memory' \in {"none", "asked", "given"} /\ authorizing' \in {"none", "prepare", "execute", "cancel"}
  BY Parts DEF QwrActs, PeerPrepares, PeerEnds, PeerNeedsMemory
<1>2. PICK a \in Attributes \cup {0} :
        \E e \in {<<"prepare", a>>, <<"execute", 0>>, <<"cancel", 0>>, <<"mem_request", 0>>} :
          /\ events' = Append(events, e)
          /\ e[1] = "prepare" => a \in Attributes
          /\ e[1] \in Authorized => authorizing' # "none"
  <2>1. CASE \E a \in Attributes : PeerPrepares(a)
    <3>1. PICK a \in Attributes : PeerPrepares(a)
      BY <2>1
    <3> QED
      BY <3>1 DEF PeerPrepares, Raise
  <2>2. CASE \E op \in {"execute", "cancel"} : PeerEnds(op)
    <3>1. PICK op \in {"execute", "cancel"} : PeerEnds(op)
      BY <2>2
    <3> WITNESS 0 \in Attributes \cup {0}
    <3> QED
      BY <3>1 DEF PeerEnds, Raise
  <2>3. CASE PeerNeedsMemory
    <3> WITNESS 0 \in Attributes \cup {0}
    <3> QED
      BY <2>3 DEF PeerNeedsMemory, Raise, Authorized
  <2> QED
    BY <2>1, <2>2, <2>3 DEF QwrActs
<1>3. PICK e \in {<<"prepare", a>>, <<"execute", 0>>, <<"cancel", 0>>, <<"mem_request", 0>>} :
        /\ events' = Append(events, e)
        /\ e[1] = "prepare" => a \in Attributes
        /\ e[1] \in Authorized => authorizing' # "none"
  BY <1>2
<1>4. e \in Events /\ e[1] \in {"prepare", "execute", "cancel", "mem_request"} /\ e[1] \notin Exchanged
  <2>1. CASE e = <<"prepare", a>>
    BY <1>3, <2>1, EventsOf DEF Exchanged
  <2>2. CASE e \in {<<"execute", 0>>, <<"cancel", 0>>, <<"mem_request", 0>>}
    BY <2>2, EventsOf DEF Simple, Exchanged
  <2> QED
    BY <1>3, <2>1, <2>2
<1>5. /\ WaitingInv' /\ \A n : Queued(n)' <=> Queued(n) \/ n = e[1]
  BY <1>1, <1>3, <1>4, Parts, LinkRaises DEF gattVars, advVars
<1> QED
  BY <1>1, <1>4, <1>5, Parts, OnTheLink DEF paramVars, TypeInv


-----------------------------------------------------------------------------
(* Advertising.                                                            *)

Instance == [config : Configs, mode : Modes, inUse : BOOLEAN, withoutList : BOOLEAN, flags : Flags]

LEMMA LeastMode ==
  ASSUME NEW U \in SUBSET (0 .. 4), U # {}
  PROVE  Min(U) \in U
<1>1. \E x \in U : \A y \in U : x =< y
  <2>1. \A y \in U : y \in 0 .. 4
    OBVIOUS
  <2>2. CASE 0 \in U
    BY <2>1, <2>2
  <2>3. CASE 0 \notin U /\ 1 \in U
    BY <2>1, <2>3
  <2>4. CASE 0 \notin U /\ 1 \notin U /\ 2 \in U
    BY <2>1, <2>4
  <2>5. CASE 0 \notin U /\ 1 \notin U /\ 2 \notin U /\ 3 \in U
    BY <2>1, <2>5
  <2>6. CASE 0 \notin U /\ 1 \notin U /\ 2 \notin U /\ 3 \notin U
    <3>1. \A y \in U : y = 4
      BY <2>1, <2>6
    <3>2. PICK x \in U : x = 4
      BY <3>1
    <3> QED
      BY <3>1, <3>2
  <2> QED
    BY <2>2, <2>3, <2>4, <2>5, <2>6
<1> QED
  BY <1>1 DEF Min

LEMMA AvailableMode ==
  ASSUME NEW c, NEW mode \in Modes, NEW hasPeer
  PROVE  Available(c, mode, hasPeer) \in Modes
<1> DEFINE U == {m \in mode .. SLOW : m \in c.enabled /\ (m <= DIRECTED => hasPeer)}
<1>1. U \subseteq 0 .. 4
  BY DEF Modes, IDLE, SLOW
<1>2. Available(c, mode, hasPeer) = IF mode = IDLE \/ U = {} THEN IDLE ELSE Min(U)
  BY DEF Available
<1> HIDE DEF U
<1>3. U # {} => Min(U) \in 0 .. 4
  BY <1>1, LeastMode
<1> QED
  BY <1>2, <1>3 DEF Modes, IDLE, SLOW

LEMMA StartedType ==
  ASSUME NEW a \in Instance, NEW mode \in Modes, NEW hasPeer \in BOOLEAN, NEW hasList \in BOOLEAN
  PROVE  Started(a, mode, hasPeer, hasList) \in Instance
<1> DEFINE chosen == Available(a.config, mode, hasPeer /\ AsksForPeer(a.config, mode))
           asksList == chosen \in {FAST, SLOW} /\ a.config.whitelist /\ ~a.withoutList
           b == [a EXCEPT !.mode = chosen, !.inUse = IF asksList THEN hasList ELSE @]
<1>1. chosen \in Modes
  BY AvailableMode
<1>2. Started(a, mode, hasPeer, hasList) =
        [b EXCEPT !.flags = IF Filters(b) THEN "undiscoverable" ELSE @]
  BY DEF Started
<1> HIDE DEF chosen, asksList
<1>3. b \in Instance
  BY <1>1 DEF Instance
<1> HIDE DEF b
<1>4. "undiscoverable" \in Flags
  BY DEF Flags
<1> QED
  BY <1>2, <1>3, <1>4 DEF Instance

\* What is told is what is sent, when nothing else is on the air.
LEMMA Announced ==
  ASSUME AdvTypeOK, NEW a \in Instance, Announce(a, Off)
  PROVE  AdvTypeOK' /\ AdvertisesAsTold' /\ adv' \in Instance
<1>1. a.mode \in Modes /\ a.flags \in Flags /\ Filters(a) \in BOOLEAN /\ a.inUse \in BOOLEAN
  BY DEF Instance, Filters
<1>2. Off \in [mode : Modes, filtered : BOOLEAN, flags : Flags] /\ IDLE \in Modes
  BY DEF Off, Modes, Flags, IDLE, SLOW
<1>3. CASE a.mode = IDLE \/ up
  <2>1. /\ adv' = a /\ onAir' = Off
        /\ announced' = announced \/ announced' = [mode |-> IDLE, filtered |-> FALSE]
    BY <1>3 DEF Announce
  <2>2. announced' \in [mode : Modes, filtered : BOOLEAN]
    <3>1. announced \in [mode : Modes, filtered : BOOLEAN]
      BY DEF AdvTypeOK
    <3>2. [mode |-> IDLE, filtered |-> FALSE] \in [mode : Modes, filtered : BOOLEAN]
      BY <1>2
    <3> QED
      BY ONLY <2>1, <3>1, <3>2
  <2>3. AdvTypeOK'
    BY <1>2, <2>1, <2>2 DEF AdvTypeOK, Instance
  <2> QED
    BY <2>1, <2>3 DEF AdvertisesAsTold, Off
<1>4. CASE a.mode # IDLE /\ ~up
  <2>1. /\ onAir' = [mode |-> a.mode, filtered |-> Filters(a), flags |-> a.flags]
        /\ announced' = [mode |-> a.mode, filtered |-> Filters(a)] /\ adv' = a
    BY <1>4 DEF Announce
  <2>2. AdvTypeOK'
    BY <1>1, <2>1 DEF AdvTypeOK, Instance
  <2> QED
    BY <2>1, <2>2 DEF AdvertisesAsTold
<1> QED
  BY <1>3, <1>4

LEMMA StartedAnnounced ==
  ASSUME AdvTypeOK, onAir = Off, NEW mode \in Modes, StartAdvertising(mode)
  PROVE  AdvTypeOK' /\ AdvertisesAsTold'
<1>1. PICK hasPeer \in BOOLEAN, hasList \in BOOLEAN : Announce(Started(adv, mode, hasPeer, hasList), onAir)
  BY DEF StartAdvertising
<1>2. Started(adv, mode, hasPeer, hasList) \in Instance
  BY StartedType DEF AdvTypeOK, Instance
<1> QED
  BY <1>1, <1>2, Announced

LEMMA ApplicationAdvertisesStep ==
  ASSUME LinksInv, Careful = TRUE, ApplicationAdvertises
  PROVE  LinksInv'
<1>1. /\ starts > 0 /\ starts' = starts - 1
      /\ UNCHANGED <<paramVars, gattVars, qwrVars, conn, secured, theme, links, acts>>
  BY DEF ApplicationAdvertises, Advertising
<1>2. starts' \in 0 .. MaxStarts
  BY <1>1, BleLinkAssumption, Parts DEF TypeInv
<1>3. /\ UNCHANGED stack /\ AdvTypeOK' /\ AdvertisesAsTold'
      /\ events # <<>> => onAir' = onAir
  <2>1. CASE onAir = Off /\ events = <<>> /\ (\E m \in Modes \ {IDLE} : StartAdvertising(m)) /\ UNCHANGED stack
    BY <2>1, StartedAnnounced, Parts
  <2>2. CASE events = <<>> /\ RestartWithoutWhitelist
    <3>1. PICK hasPeer \in BOOLEAN : Announce(Started(WithoutWhitelist, adv.mode, hasPeer, FALSE), Off)
      BY <2>2 DEF RestartWithoutWhitelist
    <3>2. WithoutWhitelist \in Instance /\ adv.mode \in Modes
      BY Parts DEF AdvTypeOK, WithoutWhitelist, Instance, Flags
    <3>3. Started(WithoutWhitelist, adv.mode, hasPeer, FALSE) \in Instance
      BY <3>2, StartedType
    <3> QED
      BY <2>2, <3>1, <3>3, Announced, Parts DEF RestartWithoutWhitelist
  <2>3. CASE \E c \in Configs : SetModes(c)
    <3>1. PICK c \in Configs : adv' = [adv EXCEPT !.config = c] /\ UNCHANGED <<stack, onAir, announced>>
      BY <2>3 DEF SetModes
    <3>2. adv' \in Instance /\ adv'.mode = adv.mode
      BY <3>1, Parts DEF AdvTypeOK, Instance
    <3> QED
      BY <3>1, <3>2, Parts DEF AdvTypeOK, AdvertisesAsTold, Instance
  <2> QED
    BY <2>1, <2>2, <2>3 DEF ApplicationAdvertises
<1>4. WaitingInv' /\ \A n : Queued(n)' <=> Queued(n)
  BY <1>1, <1>3, Parts, WaitingKept DEF stack, gattVars, qwrVars
<1>5. LinkInv'
  BY <1>1, <1>3, <1>4, Parts, LinkKept DEF stack, qwrVars, paramVars
<1>6. ParamsTypeOK' /\ ParamsInv' /\ GattTypeOK' /\ GattInv' /\ QwrTypeOK' /\ QwrInv' /\ SecureInv'
  BY <1>1, <1>3, <1>4, Parts, ParamsKept, GattKept, QwrKept, SecureKept DEF stack, qwrVars
<1> QED
  BY <1>1, <1>2, <1>3, <1>4, <1>5, <1>6, Parts, Together DEF TypeInv, stack

LEMMA AdvertisingEndsStep ==
  ASSUME LinksInv, AdvertisingEndsAlone
  PROVE  LinksInv'
<1> DEFINE e == <<"terminated", 0>>
<1>1. /\ onAir # Off /\ onAir' = Off /\ events' = Append(events, e) /\ up' = up /\ UNCHANGED <<adv, announced>>
      /\ UNCHANGED <<paramVars, gattVars, qwrVars, conn, secured, theme, links, acts, starts>>
  BY DEF AdvertisingEndsAlone, AdvTimesOut, Advertising, Raise
<1>2. e \in Events /\ e[1] = "terminated"
  BY EventsOf DEF Simple
<1> HIDE DEF e
<1>3. events \in Seq(Events) /\ QueueInv /\ OrderInv /\ LengthInv
  BY Parts DEF WaitingInv
<1>4. /\ events' \in Seq(Events) /\ Len(events') = Len(events) + 1 /\ Len(events) \in Nat
      /\ \A i \in DOMAIN events' : (i \in DOMAIN events /\ events'[i] = events[i]) \/ events'[i] = e
      /\ \A n : Queued(n)' <=> Queued(n) \/ n = e[1]
  BY <1>1, <1>2, <1>3, Raised
<1>5. OrderInv'
  <2>1. ASSUME NEW i \in DOMAIN events PROVE MayPrecede(events[i][1], e[1])
    BY <1>1, <1>2, Parts, WhatWaits DEF MayPrecede, Authorized
  <2> QED
    BY <1>1, <1>2, <1>3, <2>1, RaisedInOrder
<1>6. ASSUME NEW i \in DOMAIN events' PROVE Fits(events[i])'
  <2>1. CASE i \in DOMAIN events /\ events'[i] = events[i]
    <3>1. Fits(events[i])
      BY <2>1, <1>3 DEF QueueInv
    <3>2. PICK x : x = events[i] /\ x = events'[i]
      BY <2>1
    <3>3. Fits(x)'
      BY <1>1, <1>2, <1>4, <3>1, <3>2, FitsKept DEF gattVars, qwrVars
    <3> QED
      BY <3>2, <3>3 DEF Fits
  <2>2. CASE events'[i] = e
    <3>1. Fits(e)'
      BY <1>1, <1>2 DEF Fits, Authorized, Exchanged, Off
    <3> QED
      BY <2>2, <3>1 DEF Fits
  <2> QED
    BY <1>4, <2>1, <2>2
<1>7. ~Queued("terminated")
  BY <1>1, Parts, WhatWaits DEF Queued
<1>8. LengthInv'
  <2>1. Extra("terminated")' = 1 /\ Extra("terminated") = 0 /\ Extra("disconnected")' = Extra("disconnected")
    BY <1>2, <1>4, <1>7 DEF Extra
  <2>2. Extra("disconnected") \in {0, 1}
    BY DEF Extra
  <2> QED
    BY <1>3, <1>4, <2>1, <2>2, BleLinkAssumption DEF LengthInv
<1>9. WaitingInv'
  BY <1>4, <1>5, <1>6, <1>8 DEF WaitingInv, QueueInv
<1>10. LinkInv'
  BY <1>1, <1>2, <1>4, Parts, LinkKept DEF qwrVars, paramVars
<1>11. ParamsTypeOK' /\ ParamsInv' /\ GattTypeOK' /\ GattInv' /\ QwrTypeOK' /\ QwrInv' /\ SecureInv'
  BY <1>1, <1>4, Parts, ParamsKept, GattKept, QwrKept, SecureKept DEF qwrVars
<1>12. AdvTypeOK' /\ AdvertisesAsTold'
  BY <1>1, Parts DEF AdvTypeOK, AdvertisesAsTold, Off, Modes, IDLE, SLOW, Flags
<1> QED
  BY <1>1, <1>9, <1>10, <1>11, <1>12, Parts, Together DEF TypeInv

\* Nothing waits when a link is made: it is of no link but this one.
LEMMA PeerConnectsStep ==
  ASSUME LinksInv, PeerConnects, Len(events) < MaxQueue
  PROVE  LinksInv'
<1>1. PICK o \in Offers : events' = Append(events, <<"connected", o>>)
  BY DEF PeerConnects, Raise
<1>2. /\ links > 0 /\ ~up /\ ~Queued("disconnected") /\ onAir # Off /\ onAir' = Off /\ UNCHANGED <<adv, announced>>
      /\ up' = TRUE /\ told' = 0 /\ mtuAsk' = "no" /\ procedure' = FALSE /\ peer' \in [mtu : PeerMtus, asked : {FALSE}]
      /\ UNCHANGED <<gatt, desired>>
      /\ memory' = "none" /\ authorizing' = "none" /\ prepared' = {} /\ UNCHANGED <<qwr, exact>>
      /\ updating' = FALSE /\ UNCHANGED <<inst, onNotify, preferred, timer, verdict, sent, held>>
      /\ secured' = FALSE /\ links' = links - 1
      /\ UNCHANGED <<conn, theme, acts, starts>>
  BY DEF PeerConnects, AdvLinkUp, GattLinkUp, QwrLinkUp
<1> DEFINE e == <<"connected", o>>
<1>3. e \in Events /\ e[1] = "connected" /\ events' = Append(events, e)
  BY <1>1 DEF Events
<1> HIDE DEF e
<1>4. events \in Seq(Events) /\ DOMAIN events = {}
  <2>1. ASSUME NEW i \in DOMAIN events PROVE FALSE
    BY <1>2, Parts, WhatWaits
  <2> QED
    BY <2>1, Parts
<1>5. ~conn.connected /\ ~inst.used /\ ~qwr.assigned /\ Written = {}
  BY <1>2, Parts DEF LinkInv, QwrInv
<1>6. /\ events' \in Seq(Events) /\ Len(events') = Len(events) + 1
      /\ \A i \in DOMAIN events' : events'[i] = e
      /\ \A i, j \in DOMAIN events' : ~(i < j)
      /\ \A n : Queued(n)' <=> n = e[1]
  <2>1. /\ events' \in Seq(Events) /\ Len(events') = Len(events) + 1 /\ Len(events) \in Nat
        /\ DOMAIN events' = 1 .. Len(events) + 1 /\ DOMAIN events = 1 .. Len(events)
        /\ \A i \in DOMAIN events' : i \in DOMAIN events \/ (i = Len(events) + 1 /\ events'[i] = e)
        /\ \A n : Queued(n)' <=> Queued(n) \/ n = e[1]
    BY <1>3, <1>4, Raised
  <2>2. \A n : ~Queued(n)
    BY <1>4 DEF Queued
  <2> QED
    BY <1>4, <2>1, <2>2
<1>7. Fits(e)'
  BY <1>2, <1>3 DEF Fits, Authorized, Exchanged
<1>8. WaitingInv'
  <2>1. QueueInv'
    BY <1>6, <1>7 DEF QueueInv, Fits
  <2>2. OrderInv'
    BY <1>6 DEF OrderInv
  <2>3. LengthInv'
    <3>1. Extra("disconnected")' = 0 /\ Extra("terminated")' = 0 /\ Len(events) \in Nat
      BY <1>3, <1>4, <1>6, LenProperties DEF Extra
    <3> QED
      BY <1>6, <3>1, BleLinkAssumption DEF LengthInv
  <2> QED
    BY <2>1, <2>2, <2>3 DEF WaitingInv
<1>9. LinkInv'
  BY <1>2, <1>3, <1>5, <1>6 DEF LinkInv
<1>10. ParamsTypeOK' /\ ParamsInv'
  BY <1>2, <1>5, Parts DEF ParamsTypeOK, ParamsInv, NegotiationGoesOn
<1>11. GattTypeOK' /\ GattInv'
  BY <1>2, Parts DEF GattTypeOK, GattInv
<1>12. QwrTypeOK' /\ QwrInv'
  BY <1>2, <1>5, Parts DEF QwrTypeOK, QwrInv, Written
<1>13. AdvTypeOK' /\ AdvertisesAsTold' /\ SecureInv'
  BY <1>2, <1>5, Parts DEF AdvTypeOK, AdvertisesAsTold, SecureInv, Off, Modes, IDLE, SLOW, Flags
<1>14. links' \in 0 .. MaxLinks
  BY <1>2, Parts, BleLinkAssumption DEF TypeInv
<1> QED
  BY <1>2, <1>8, <1>9, <1>10, <1>11, <1>12, <1>13, <1>14, Parts, Together DEF TypeInv


-----------------------------------------------------------------------------
(* What each module makes of an event.                                     *)

LEMMA EventType ==
  ASSUME NEW e \in Events
  PROVE  /\ e[1] \in {"connected", "updated", "notify", "security", "mtu_request", "mtu_response",
                      "prepare"} \cup Simple
         /\ e[1] \in {"connected", "updated"} => e[2] \in Offers
         /\ e[1] = "notify" => e[2] \in BOOLEAN
         /\ e[1] = "security" => e[2] = TRUE
         /\ e[1] \in Exchanged => e[2] \in PeerMtus
         /\ e[1] = "prepare" => e[2] \in Attributes
<1>1. CASE e \in {"connected", "updated"} \X Offers
  BY <1>1 DEF Exchanged
<1>2. CASE e \in {"notify"} \X BOOLEAN
  BY <1>2 DEF Exchanged
<1>3. CASE e \in {"security"} \X {TRUE}
  <2>1. e[1] = "security"
    BY <1>3
  <2>2. e[2] = TRUE
    BY <1>3
  <2> QED
    BY <2>1, <2>2 DEF Exchanged
<1>4. CASE e \in Exchanged \X PeerMtus
  BY <1>4 DEF Exchanged
<1>5. CASE e \in {"prepare"} \X Attributes
  BY <1>5 DEF Exchanged
<1>6. CASE e \in Simple \X {0}
  BY <1>6 DEF Simple, Exchanged
<1> QED
  BY <1>1, <1>2, <1>3, <1>4, <1>5, <1>6 DEF Events

LEMMA Negotiated ==
  ASSUME ParamsTypeOK, NEW p \in Instances, NEW requests \in 0 .. MaxUpdates, p.used, p.count = requests,
         Negotiate(p, requests), timer /\ p.ok => inst.used
  PROVE  /\ inst' \in Instances /\ inst'.used = TRUE /\ sent' = inst'.count /\ sent' \in 0 .. MaxUpdates
         /\ timer' \in BOOLEAN /\ held' \in BOOLEAN /\ verdict' \in {"none", "succeeded", "failed"}
         /\ inst'.ok \/ timer'
         /\ inst'.ok = p.ok
         /\ timer' /\ inst'.ok => inst'.count = 0
<1> DEFINE c == IF p.ok THEN 0 ELSE p.count
<1>1. c \in 0 .. MaxUpdates /\ (p.ok => c = 0) /\ (~p.ok => c = requests) /\ p.ok \in BOOLEAN /\ p.used \in BOOLEAN
  BY BleConnParamsAssumption DEF Instances
<1>2. inst' = [p EXCEPT !.count = c]
  BY DEF Negotiate
<1> HIDE DEF c
<1>3. inst' \in Instances /\ inst'.count = c /\ inst'.used = p.used /\ inst'.ok = p.ok
  BY <1>1, <1>2, CountSet
<1>4. timer \in BOOLEAN /\ held \in BOOLEAN /\ 0 \in 0 .. MaxUpdates
  BY BleConnParamsAssumption DEF ParamsTypeOK
<1>5. \/ p.ok /\ verdict' = "succeeded" /\ sent' = 0 /\ UNCHANGED <<timer, held>>
      \/ ~p.ok /\ verdict' = "none" /\ sent' = requests /\ timer' = TRUE /\ held' = FALSE
  BY DEF Negotiate
<1> QED
  BY <1>1, <1>3, <1>4, <1>5

LEMMA ParamsGiven ==
  ASSUME ParamsTypeOK, ParamsInv, NEW e \in Events, ParamsHandle(e), up' = up,
         e[1] = "connected" => ~inst.used,
         Queued("updated") /\ e[1] # "updated" => Queued("updated")'
  PROVE  /\ ParamsTypeOK' /\ ParamsInv'
         /\ inst'.used <=> e[1] = "connected" \/ (inst.used /\ e[1] # "disconnected")
<1>1. UNCHANGED <<onNotify, preferred, updating>>
  BY DEF ParamsHandle
<1>2. /\ inst \in Instances /\ preferred \in Preferences /\ sent \in 0 .. MaxUpdates /\ sent = inst.count
      /\ timer \in BOOLEAN /\ held \in BOOLEAN /\ verdict \in {"none", "succeeded", "failed"}
      /\ 0 \in 0 .. MaxUpdates /\ inst.used \in BOOLEAN
  BY BleConnParamsAssumption DEF ParamsTypeOK, ParamsInv, Instances
<1>3. ASSUME /\ inst' \in Instances /\ inst'.used = TRUE /\ sent' = inst'.count /\ sent' \in 0 .. MaxUpdates
             /\ timer' \in BOOLEAN /\ held' \in BOOLEAN /\ verdict' \in {"none", "succeeded", "failed"}
             /\ inst'.ok \/ timer' \/ held'
             /\ timer' /\ inst'.ok => inst'.count = 0
      PROVE  ParamsTypeOK' /\ ParamsInv'
  BY <1>1, <1>2, <1>3 DEF ParamsTypeOK, ParamsInv, NegotiationGoesOn, Instances
<1>4. ASSUME UNCHANGED <<inst, timer, verdict, sent, held>>, e[1] # "updated" \/ ~inst.used
      PROVE  ParamsTypeOK' /\ ParamsInv' /\ inst'.used = inst.used
  BY <1>1, <1>2, <1>4 DEF ParamsTypeOK, ParamsInv, NegotiationGoesOn
<1>5. CASE e[1] = "connected"
  <2> DEFINE p == [used |-> TRUE, ok |-> ParamsOk(preferred, e[2]), count |-> 0, preferred |-> preferred]
  <2>1. p \in Instances /\ p.used /\ p.count = 0
    BY <1>2 DEF Instances, ParamsOk
  <2>2. \/ Negotiate(p, 0)
        \/ inst' = p /\ verdict' = "none" /\ sent' = 0 /\ held' = TRUE /\ UNCHANGED timer
    BY <1>5 DEF ParamsHandle, ParamsConnected
  <2>3. ~timer
    BY <1>2, <1>5 DEF ParamsInv
  <2>4. p.used = TRUE
    OBVIOUS
  <2> HIDE DEF p
  <2>5. CASE Negotiate(p, 0)
    BY <1>2, <1>3, <1>5, <2>1, <2>3, <2>5, Negotiated
  <2>6. CASE inst' = p /\ verdict' = "none" /\ sent' = 0 /\ held' = TRUE /\ UNCHANGED timer
    BY <1>2, <1>3, <1>5, <2>1, <2>3, <2>4, <2>6
  <2> QED
    BY <2>2, <2>5, <2>6
<1>6. CASE e[1] = "disconnected"
  <2>1. inst' = [inst EXCEPT !.used = FALSE] /\ timer' = (timer /\ ~inst.used) /\ UNCHANGED <<verdict, sent, held>>
    BY <1>6 DEF ParamsHandle, ParamsDisconnected
  <2>2. inst' \in Instances /\ ~inst'.used /\ inst'.count = inst.count /\ ~timer' /\ timer' \in BOOLEAN
    BY <1>2, <2>1 DEF Instances, ParamsInv
  <2> QED
    BY <1>1, <1>2, <1>6, <2>1, <2>2 DEF ParamsTypeOK, ParamsInv, NegotiationGoesOn, Instances
<1>7. CASE e[1] = "notify"
  <2>1. ParamsNotify(e[2])
    BY <1>7 DEF ParamsHandle
  <2>2. CASE inst.used /\ Negotiate(inst, sent)
    BY <1>2, <1>3, <1>7, <2>2, Negotiated
  <2>3. CASE inst.used /\ timer' = FALSE /\ held' = TRUE /\ UNCHANGED <<inst, verdict, sent>>
    BY <1>2, <1>3, <1>7, <2>3
  <2>4. CASE ~inst.used /\ UNCHANGED <<inst, timer, verdict, sent, held>>
    BY <1>4, <1>7, <2>4
  <2> QED
    BY <2>1, <2>2, <2>3, <2>4 DEF ParamsNotify
<1>8. CASE e[1] = "updated"
  <2>1. ParamsUpdated(e[2])
    BY <1>8 DEF ParamsHandle
  <2>2. CASE inst.used /\ Negotiate([inst EXCEPT !.ok = ParamsOk(inst.preferred, e[2])], sent)
    <3> DEFINE p == [inst EXCEPT !.ok = ParamsOk(inst.preferred, e[2])]
    <3>1. p \in Instances /\ p.used = inst.used /\ p.count = inst.count
      BY <1>2 DEF Instances, ParamsOk
    <3> HIDE DEF p
    <3>2. Negotiate(p, sent)
      BY <2>2 DEF p
    <3> QED
      BY <1>2, <1>3, <1>8, <2>2, <3>1, <3>2, Negotiated
  <2>3. CASE ~inst.used /\ UNCHANGED <<inst, timer, verdict, sent, held>>
    BY <1>4, <1>8, <2>3
  <2> QED
    BY <2>1, <2>2, <2>3 DEF ParamsUpdated
<1>9. CASE e[1] \notin {"connected", "disconnected", "notify", "updated"}
  <2>1. UNCHANGED <<inst, timer, verdict, sent, held>>
    BY <1>9 DEF ParamsHandle
  <2> QED
    BY <1>4, <1>9, <2>1
<1> QED
  BY <1>5, <1>6, <1>7, <1>8, <1>9

LinksOfGatt == [desired : Mtus, effective : Mtus, pending : BOOLEAN, requested : BOOLEAN]

LEMMA Asked ==
  ASSUME NEW g \in LinksOfGatt
  PROVE  AskMtu(g) \in LinksOfGatt /\ AskMtu(g).desired = g.desired /\ AskMtu(g).effective = g.effective
BY DEF AskMtu, LinksOfGatt

\* Both handlers come to the same result of the exchange.
LEMMA Exchange ==
  ASSUME GattTypeOK, NEW m \in PeerMtus
  PROVE  /\ GattAnswered(m) \in LinksOfGatt /\ GattAsked(m) \in LinksOfGatt
         /\ GattAnswered(m).desired = gatt.desired /\ GattAsked(m).desired = gatt.desired
         /\ GattAnswered(m).effective = Larger(DefaultMtu, Smaller(gatt.desired, m))
         /\ GattAsked(m).effective = Larger(DefaultMtu, Smaller(gatt.desired, m))
<1>1. /\ m \in Nat /\ DefaultMtu \in Nat /\ MaxMtu \in Nat /\ DefaultMtu <= MaxMtu
      /\ gatt \in LinksOfGatt /\ gatt.desired \in Mtus
  BY BleGattAssumption DEF GattTypeOK, LinksOfGatt
<1> DEFINE f == Larger(DefaultMtu, Smaller(gatt.desired, m))
<1>2. f \in Mtus /\ Larger(Smaller(m, gatt.desired), DefaultMtu) = f /\ Smaller(Larger(m, DefaultMtu), gatt.desired) = f
  BY <1>1 DEF Larger, Smaller, Mtus
<1> HIDE DEF f
<1>3. GattAnswered(m) = [gatt EXCEPT !.effective = f, !.requested = FALSE, !.pending = FALSE]
  BY <1>2 DEF GattAnswered
<1>4. GattAsked(m) = [gatt EXCEPT !.effective = f, !.pending = FALSE]
  BY <1>2 DEF GattAsked
<1> QED
  BY <1>1, <1>2, <1>3, <1>4 DEF LinksOfGatt, f

LEMMA GattGiven ==
  ASSUME GattTypeOK, GattInv, NEW e \in Events, GattHandle(e), up' = up, up \in BOOLEAN,
         e[1] = "connected" => told = 0, e[1] = "disconnected" => ~up,
         e[1] \in Exchanged /\ up => e[2] = peer.mtu
  PROVE  /\ GattTypeOK' /\ GattInv' /\ peer' = peer
         /\ e[1] \notin Exchanged => told' = told
<1>1. /\ gatt \in LinksOfGatt /\ desired \in Mtus /\ told \in Mtus \cup {0} /\ DefaultMtu \in Mtus /\ MaxMtu \in Mtus
  BY BleGattAssumption DEF GattTypeOK, LinksOfGatt, Mtus
<1>2. PICK g : g = GattCase(e)
  OBVIOUS
<1>3. gatt' = IF g.pending /\ e[1] # "terminated" THEN AskMtu(g) ELSE g
  BY <1>2 DEF GattHandle
<1>4. /\ mtuAsk' = IF gatt'.requested /\ MtuAnswer = "success" /\ ~gatt.requested THEN "asked" ELSE mtuAsk
      /\ told' = IF \/ e[1] = "mtu_response" /\ gatt.requested
                    \/ e[1] = "mtu_request" /\ ToldByRequest(gatt)
                 THEN gatt'.effective ELSE told
      /\ UNCHANGED <<desired, procedure, peer>>
  BY DEF GattHandle
<1>5. /\ g \in LinksOfGatt
      /\ e[1] \in Exchanged => /\ e[2] \in PeerMtus /\ g.desired = gatt.desired
                               /\ g.effective = Larger(DefaultMtu, Smaller(gatt.desired, e[2]))
      /\ e[1] \notin Exchanged \cup {"connected", "disconnected"} => g = gatt
  <2>1. CASE e[1] = "connected"
    <3> DEFINE h == [gatt EXCEPT !.desired = desired]
    <3>1. h \in LinksOfGatt
      BY <1>1 DEF LinksOfGatt
    <3>2. g = IF h.desired > h.effective THEN AskMtu(h) ELSE h
      BY <1>2, <2>1 DEF GattCase, GattConnected
    <3> HIDE DEF h
    <3> QED
      BY <2>1, <3>1, <3>2, Asked DEF Exchanged
  <2>2. CASE e[1] = "disconnected"
    BY <1>1, <1>2, <2>2 DEF GattCase, FreshLink, LinksOfGatt, Exchanged
  <2>3. CASE e[1] = "mtu_response"
    <3>1. g = GattAnswered(e[2]) /\ e[2] \in PeerMtus
      BY <1>2, <2>3, EventType DEF GattCase, Exchanged
    <3> QED
      BY <2>3, <3>1, Exchange DEF Exchanged
  <2>4. CASE e[1] = "mtu_request"
    <3>1. g = GattAsked(e[2]) /\ e[2] \in PeerMtus
      BY <1>2, <2>4, EventType DEF GattCase, Exchanged
    <3> QED
      BY <2>4, <3>1, Exchange DEF Exchanged
  <2>5. CASE e[1] \notin Exchanged \cup {"connected", "disconnected"}
    BY <1>1, <1>2, <2>5 DEF GattCase, Exchanged
  <2> QED
    BY <2>1, <2>2, <2>3, <2>4, <2>5 DEF Exchanged
<1>6. gatt' \in LinksOfGatt /\ gatt'.desired = g.desired /\ gatt'.effective = g.effective
  BY <1>3, <1>5, Asked
<1>7. e[1] \notin Exchanged => told' = told
  BY <1>4 DEF Exchanged
<1>8. GattTypeOK'
  <2>1. told' \in Mtus \cup {0}
    BY <1>1, <1>4, <1>6 DEF LinksOfGatt
  <2>2. mtuAsk' \in {"no", "asked", "done"}
    BY <1>4 DEF GattTypeOK
  <2> QED
    BY <1>4, <1>6, <2>1, <2>2 DEF GattTypeOK, LinksOfGatt
<1>9. GattInv'
  <2> SUFFICES ASSUME up, told' # 0
               PROVE  told' = gatt'.effective /\ told' = Larger(DefaultMtu, Smaller(gatt'.desired, peer.mtu))
    BY <1>4 DEF GattInv, Larger, Smaller
  <2>1. CASE e[1] \in Exchanged
    <3>1. gatt'.effective = Larger(DefaultMtu, Smaller(gatt'.desired, peer.mtu)) /\ gatt'.desired = gatt.desired
      BY <1>5, <1>6, <2>1
    <3>2. told' = gatt'.effective \/ told' = told
      BY <1>4
    <3>3. told' = told => told' = Larger(DefaultMtu, Smaller(gatt.desired, peer.mtu))
      BY DEF GattInv
    <3> QED
      BY <3>1, <3>2, <3>3
  <2>2. CASE e[1] \notin Exchanged
    <3>1. told' = told /\ e[1] # "connected" /\ e[1] # "disconnected"
      BY <1>7, <2>2
    <3>2. g = gatt
      BY <1>5, <2>2, <3>1
    <3> QED
      BY <1>6, <3>1, <3>2 DEF GattInv
  <2> QED
    BY <2>1, <2>2
<1> QED
  BY <1>4, <1>7, <1>8, <1>9


Qwrs == [assigned : BOOLEAN, pending : BOOLEAN, written : Seq(Registered)]
Among(w) == {w[i] : i \in DOMAIN w}

\* An attribute is kept once.
LEMMA AttributeKept ==
  ASSUME NEW w \in Seq(Registered), NEW a \in Registered \ Among(w), Cardinality(Among(w)) = Len(w)
  PROVE  /\ Append(w, a) \in Seq(Registered) /\ Among(Append(w, a)) = Among(w) \cup {a}
         /\ Cardinality(Among(Append(w, a))) = Len(Append(w, a))
<1>1. /\ Append(w, a) \in Seq(Registered) /\ Len(Append(w, a)) = Len(w) + 1 /\ Len(w) \in Nat
      /\ DOMAIN w = 1 .. Len(w)
      /\ \A i \in 1 .. Len(w) : Append(w, a)[i] = w[i]
      /\ Append(w, a)[Len(w) + 1] = a
  BY AppendProperties, LenProperties
<1>2. DOMAIN Append(w, a) = 1 .. Len(w) + 1
  BY <1>1, LenProperties
<1>3. Among(Append(w, a)) = Among(w) \cup {a}
  <2>1. ASSUME NEW x \in Among(Append(w, a)) PROVE x \in Among(w) \cup {a}
    <3>1. PICK i \in 1 .. Len(w) + 1 : x = Append(w, a)[i]
      BY <1>2 DEF Among
    <3>2. i \in 1 .. Len(w) \/ i = Len(w) + 1
      BY <1>1
    <3> QED
      BY <1>1, <3>1, <3>2 DEF Among
  <2>2. ASSUME NEW x \in Among(w) \cup {a} PROVE x \in Among(Append(w, a))
    <3>1. CASE x = a
      <4>1. Len(w) + 1 \in DOMAIN Append(w, a)
        BY <1>1, <1>2
      <4> QED
        BY <1>1, <3>1, <4>1 DEF Among
    <3>2. CASE x \in Among(w)
      <4>1. PICK i \in 1 .. Len(w) : x = w[i]
        BY <1>1, <3>2 DEF Among
      <4>2. i \in DOMAIN Append(w, a) /\ x = Append(w, a)[i]
        BY <1>1, <1>2, <4>1
      <4> QED
        BY <4>2 DEF Among
    <3> QED
      BY <2>2, <3>1, <3>2
  <2> QED
    BY <2>1, <2>2
<1>4. IsFiniteSet(Among(w))
  <2>1. Among(w) \subseteq Registered
    BY DEF Among
  <2> QED
    BY <2>1, FS_Subset, BleQwrAssumption
<1>5. Cardinality(Among(w) \cup {a}) = Cardinality(Among(w)) + 1
  BY <1>4, FS_AddElement
<1> QED
  BY <1>1, <1>3, <1>5

\* What the module keeps is never more than there is.
LEMMA WrittenFits ==
  ASSUME NEW w \in Seq(Registered), Cardinality(Among(w)) = Len(w)
  PROVE  Len(w) <= Cardinality(Registered)
<1>1. Among(w) \subseteq Registered
  BY DEF Among
<1> QED
  BY <1>1, FS_Subset, BleQwrAssumption

\* on_prepare_write
LEMMA Prepares ==
  ASSUME QwrTypeOK, QwrInv, up \in BOOLEAN, up' = up, NEW q \in Qwrs, q.written = qwr.written, q.assigned,
         NEW a \in Attributes, OnPrepare(q, a)
  PROVE  /\ qwr' \in Qwrs /\ qwr'.assigned /\ Cardinality(Written') = Len(qwr'.written)
         /\ Written' = {} \/ Written' = prepared'
         /\ up' => Written' = prepared'
         /\ prepared' \subseteq Attributes /\ exact' = exact
<1>1. qwr' = WithPrepared(q, a) /\ exact' = exact
      /\ prepared' = IF up /\ a \in Registered THEN prepared \cup {a} ELSE prepared
  BY DEF OnPrepare
<1>2. /\ qwr.written \in Seq(Registered) /\ Written = Among(qwr.written) /\ Written' = Among(qwr'.written)
      /\ Cardinality(Written) = Len(qwr.written) /\ prepared \subseteq Attributes
  BY DEF Written, Among, QwrTypeOK, QwrInv
<1>3. prepared' \subseteq Attributes
  BY <1>1, <1>2
<1>4. CASE ~up
  <2>1. qwr' = [q EXCEPT !.written = <<>>]
    BY <1>1, <1>4 DEF WithPrepared
  <2>2. qwr' \in Qwrs /\ qwr'.assigned /\ qwr'.written = <<>>
    <3>1. <<>> \in Seq(Registered)
      BY EmptySeq
    <3> QED
      BY <2>1, <3>1 DEF Qwrs
  <2>3. Among(<<>>) = {} /\ Len(<<>>) = 0
    BY DEF Among
  <2> QED
    BY <1>1, <1>2, <1>3, <1>4, <2>2, <2>3, FS_EmptySet
<1>5. CASE up /\ a \in Registered \ Written
  <2>1. qwr' = [q EXCEPT !.written = Append(qwr.written, a)]
    BY <1>1, <1>5 DEF WithPrepared
  <2>2. /\ Append(qwr.written, a) \in Seq(Registered)
        /\ Among(Append(qwr.written, a)) = Written \cup {a}
        /\ Cardinality(Among(Append(qwr.written, a))) = Len(Append(qwr.written, a))
    BY <1>2, <1>5, AttributeKept
  <2>3. qwr' \in Qwrs /\ qwr'.assigned /\ qwr'.written = Append(qwr.written, a)
    BY <2>1, <2>2 DEF Qwrs
  <2>4. Written = prepared /\ prepared' = prepared \cup {a}
    BY <1>1, <1>5 DEF QwrInv
  <2> QED
    BY <1>1, <1>2, <1>3, <2>2, <2>3, <2>4
<1>6. CASE up /\ a \notin Registered \ Written
  <2>1. qwr' = [q EXCEPT !.written = qwr.written]
    BY <1>1, <1>6 DEF WithPrepared
  <2>2. qwr' \in Qwrs /\ qwr'.assigned /\ qwr'.written = qwr.written
    BY <1>2, <2>1 DEF Qwrs
  <2>3. Written = prepared /\ prepared' = prepared
    BY <1>1, <1>6 DEF QwrInv
  <2> QED
    BY <1>1, <1>2, <1>3, <2>2, <2>3
<1> QED
  BY <1>4, <1>5, <1>6

\* What is given to the instance besides leaves the writes or forgets them.
LEMMA Forgets ==
  ASSUME NEW q \in Qwrs, NEW s \in BOOLEAN
  PROVE  LET f == [[q EXCEPT !.assigned = s] EXCEPT !.written = <<>>]
             g == [q EXCEPT !.written = <<>>]
             h == [q EXCEPT !.assigned = s] IN
         /\ f \in Qwrs /\ f.assigned = s /\ f.written = <<>>
         /\ g \in Qwrs /\ g.assigned = q.assigned /\ g.written = <<>>
         /\ h \in Qwrs /\ h.assigned = s /\ h.written = q.written
<1>1. <<>> \in Seq(Registered)
  BY EmptySeq
<1> QED
  BY <1>1 DEF Qwrs

LEMMA QwrGiven ==
  ASSUME QwrTypeOK, QwrInv, NEW e \in Events, QwrHandle(e), up' = up, up \in BOOLEAN,
         e[1] \notin {"connected", "terminated"} => qwr.assigned,
         e[1] = "disconnected" => ~up,
         e[1] = "mem_release" /\ up => prepared = {}
  PROVE  /\ QwrTypeOK' /\ QwrInv'
         /\ qwr'.assigned <=> e[1] = "connected" \/ (qwr.assigned /\ e[1] # "disconnected")
         /\ e[1] \notin Authorized => authorizing' = authorizing /\ prepared' = prepared
         /\ e[1] \in {"execute", "cancel"} => prepared' = {}
<1>1. PICK r \in IF qwr.pending /\ IsForInstance(e) THEN Replies(memory)
                 ELSE {[pending |-> qwr.pending, memory |-> memory]} :
        \E s \in IF e[1] = "mem_request" /\ qwr.assigned THEN Replies(r.memory) ELSE {r} :
          /\ memory' = IF e[1] \in {"execute", "cancel"} THEN "none" ELSE s.memory
          /\ QwrCase(e, [qwr EXCEPT !.pending = s.pending])
  BY DEF QwrHandle
<1>2. PICK s \in IF e[1] = "mem_request" /\ qwr.assigned THEN Replies(r.memory) ELSE {r} :
          /\ memory' = IF e[1] \in {"execute", "cancel"} THEN "none" ELSE s.memory
          /\ QwrCase(e, [qwr EXCEPT !.pending = s.pending])
  BY <1>1
<1>3. /\ qwr \in Qwrs /\ memory \in {"none", "asked", "given"} /\ Written = Among(qwr.written)
      /\ Written' = Among(qwr'.written) /\ Cardinality(Written) = Len(qwr.written)
      /\ prepared \subseteq Attributes /\ authorizing \in {"none", "prepare", "execute", "cancel"}
  BY DEF QwrTypeOK, QwrInv, Qwrs, Written, Among
<1>4. /\ r.pending \in BOOLEAN /\ r.memory \in {"none", "asked", "given"}
      /\ s.pending \in BOOLEAN /\ s.memory \in {"none", "asked", "given"}
  <2>1. ASSUME NEW m \in {"none", "asked", "given"}, NEW x \in Replies(m)
        PROVE  x.pending \in BOOLEAN /\ x.memory \in {"none", "asked", "given"}
    <3>1. PICK answer \in ReplyAnswers(m) :
            x = [pending |-> StillPending(answer), memory |-> IF answer = "success" THEN "given" ELSE m]
      BY <2>1 DEF Replies
    <3>2. StillPending(answer) \in BOOLEAN
      BY DEF StillPending
    <3>3. x.pending = StillPending(answer) /\ x.memory \in {"given", m}
      BY <3>1
    <3> QED
      BY <3>2, <3>3
  <2>2. qwr.pending \in BOOLEAN
    BY <1>3 DEF Qwrs
  <2>3. r.pending \in BOOLEAN /\ r.memory \in {"none", "asked", "given"}
    BY <1>1, <1>3, <2>1, <2>2
  <2> QED
    BY <1>2, <2>1, <2>3
<1>5. memory' \in {"none", "asked", "given"}
  BY <1>2, <1>4
<1> DEFINE q == [qwr EXCEPT !.pending = s.pending]
<1>6. q \in Qwrs /\ q.assigned = qwr.assigned /\ q.written = qwr.written /\ QwrCase(e, q)
  BY <1>2, <1>3, <1>4 DEF Qwrs
<1> HIDE DEF q
<1>7. /\ Written = {} \/ Written = prepared
      /\ up => Written = prepared
      /\ ~qwr.assigned => Written = {}
      /\ exact = TRUE /\ qwr.assigned \in BOOLEAN
  BY <1>3 DEF QwrInv, QwrTypeOK, Qwrs
<1>8. ASSUME qwr' \in Qwrs, Cardinality(Written') = Len(qwr'.written),
             Written' = {} \/ Written' = prepared', up' => Written' = prepared', ~qwr'.assigned => Written' = {},
             prepared' \subseteq Attributes, exact' = TRUE, authorizing' \in {"none", authorizing}
      PROVE  QwrTypeOK' /\ QwrInv'
  <2>1. Len(qwr'.written) <= Cardinality(Registered)
    <3>1. qwr'.written \in Seq(Registered) /\ Written' = Among(qwr'.written)
      BY <1>3, <1>8 DEF Qwrs
    <3> QED
      BY <1>8, <3>1, WrittenFits
  <2>2. QwrTypeOK'
    BY <1>3, <1>5, <1>8, <2>1 DEF QwrTypeOK, Qwrs
  <2>3. QwrInv'
    BY <1>8 DEF QwrInv
  <2> QED
    BY <2>2, <2>3
<1>9. Among(<<>>) = {} /\ Len(<<>>) = 0 /\ Cardinality({}) = 0
  BY FS_EmptySet DEF Among
<1>10. CASE e[1] = "prepare"
  <2>1. e[2] \in Attributes /\ q.assigned
    BY <1>6, <1>10, EventType
  <2>2. OnPrepare(q, e[2])
    BY <1>6, <1>10, <2>1 DEF QwrCase
  <2>3. authorizing' = "none"
    BY <2>2 DEF OnPrepare
  <2>4. /\ qwr' \in Qwrs /\ qwr'.assigned /\ Cardinality(Written') = Len(qwr'.written)
        /\ Written' = {} \/ Written' = prepared'
        /\ up' => Written' = prepared'
        /\ prepared' \subseteq Attributes /\ exact' = exact
    BY <1>6, <2>1, <2>2, Prepares
  <2> QED
    BY <1>6, <1>7, <1>8, <1>10, <2>1, <2>3, <2>4 DEF Authorized
<1>11. CASE e[1] \in {"execute", "cancel"}
  <2>1. /\ qwr' = [q EXCEPT !.written = <<>>] /\ authorizing' = "none" /\ prepared' = {}
    BY <1>6, <1>11 DEF QwrCase, OnExecute, OnCancel
  <2>2. exact' = TRUE
    <3>1. CASE e[1] = "execute"
      <4>1. PICK accepted \in BOOLEAN :
              exact' = (exact /\ (IF accepted THEN Written ELSE {}) =
                                   IF accepted /\ Written # {} THEN prepared ELSE {})
        BY <1>6, <3>1, <1>11 DEF QwrCase, OnExecute
      <4> QED
        BY <1>7, <4>1
    <3>2. CASE e[1] = "cancel"
      BY <1>6, <1>7, <3>2, <1>11 DEF QwrCase, OnCancel
    <3> QED
      BY <1>11, <3>1, <3>2
  <2>3. qwr' \in Qwrs /\ qwr'.assigned = qwr.assigned /\ qwr'.written = <<>>
    BY <1>6, <2>1, Forgets
  <2> QED
    BY <1>3, <1>6, <1>8, <1>9, <1>11, <2>1, <2>2, <2>3 DEF Authorized
<1>12. CASE e[1] \notin {"prepare", "execute", "cancel"}
  <2>1. /\ qwr' = CASE e[1] = "connected" -> [q EXCEPT !.assigned = TRUE]
                    [] e[1] = "disconnected" /\ q.assigned -> Forget(q)
                    [] e[1] = "mem_release" /\ q.assigned -> [q EXCEPT !.written = <<>>]
                    [] OTHER -> q
        /\ UNCHANGED <<authorizing, prepared, exact>>
    BY <1>6, <1>12 DEF QwrCase
  <2>2. CASE e[1] = "connected"
    <3>1. qwr' \in Qwrs /\ qwr'.assigned = TRUE /\ qwr'.written = qwr.written
      BY <1>6, <2>1, <2>2, Forgets
    <3> QED
      BY <1>3, <1>7, <1>8, <2>1, <2>2, <3>1
  <2>3. CASE e[1] = "disconnected"
    <3>1. qwr' = [[q EXCEPT !.assigned = FALSE] EXCEPT !.written = <<>>]
      BY <1>6, <2>1, <2>3 DEF Forget
    <3>2. qwr' \in Qwrs /\ qwr'.assigned = FALSE /\ qwr'.written = <<>>
      BY <1>6, <3>1, Forgets
    <3> QED
      BY <1>3, <1>7, <1>8, <1>9, <2>1, <2>3, <3>2
  <2>4. CASE e[1] = "mem_release"
    <3>1. qwr' \in Qwrs /\ qwr'.assigned = qwr.assigned /\ qwr'.written = <<>>
      BY <1>6, <2>1, <2>4, Forgets
    <3> QED
      BY <1>3, <1>7, <1>8, <1>9, <2>1, <2>4, <3>1
  <2>5. CASE e[1] \notin {"connected", "disconnected", "mem_release"}
    <3>1. qwr' = q
      BY <2>1, <2>5
    <3>2. qwr' \in Qwrs /\ qwr'.assigned = qwr.assigned /\ qwr'.written = qwr.written /\ Written' = Written
      BY <1>3, <1>6, <3>1
    <3>3. QwrTypeOK' /\ QwrInv'
      BY <1>3, <1>7, <1>8, <2>1, <3>2
    <3> QED
      BY <1>12, <2>1, <2>5, <3>2, <3>3
  <2> QED
    BY <2>2, <2>3, <2>4, <2>5
<1> QED
  BY <1>10, <1>11, <1>12


LEMMA AdvGiven ==
  ASSUME AdvTypeOK, AdvertisesAsTold, NEW e \in Events, AdvHandle(e), e[1] = "terminated" => onAir = Off
  PROVE  /\ AdvTypeOK' /\ AdvertisesAsTold'
         /\ e[1] # "terminated" => onAir' = onAir
<1>1. adv \in Instance /\ adv.mode \in Modes
  BY DEF AdvTypeOK, Instance
<1>2. CASE e[1] = "terminated"
  <2>1. ModeAfter(adv.mode) \in Modes
    BY <1>1 DEF ModeAfter, Modes, IDLE, SLOW
  <2>2. StartAdvertising(ModeAfter(adv.mode))
    BY <1>2 DEF AdvHandle
  <2> QED
    BY <1>2, <2>1, <2>2, StartedAnnounced
<1>3. CASE e[1] = "disconnected"
  <2>1. adv' = [adv EXCEPT !.withoutList = FALSE] /\ UNCHANGED <<onAir, announced>>
    BY <1>3 DEF AdvHandle, WhitelistBack
  <2>2. adv' \in Instance /\ adv'.mode = adv.mode
    BY <1>1, <2>1 DEF Instance
  <2> QED
    BY <2>1, <2>2 DEF AdvTypeOK, AdvertisesAsTold, Instance
<1>4. CASE e[1] \notin {"terminated", "disconnected"}
  <2>1. UNCHANGED advVars
    BY <1>4 DEF AdvHandle
  <2> QED
    BY <2>1, AdvKept DEF advVars
<1> QED
  BY <1>2, <1>3, <1>4

ConnFlags == [valid : BOOLEAN, connected : BOOLEAN, encrypted : BOOLEAN]

\* record_purge_disconnected forgets that the last link was encrypted.
LEMMA ConnGiven ==
  ASSUME conn \in ConnFlags, SecureInv, NEW e \in Events, ConnHandle(e), up' = up, secured' = secured,
         e[1] = "connected" => ~conn.connected,
         e[1] = "security" /\ up => secured
  PROVE  /\ conn' \in ConnFlags /\ SecureInv'
         /\ conn'.connected <=> e[1] = "connected" \/ (conn.connected /\ e[1] # "disconnected")
<1>1. CASE e[1] = "connected"
  <2>1. conn' = [NoFlags EXCEPT !.valid = TRUE, !.connected = TRUE]
    BY <1>1 DEF ConnHandle, Activated
  <2>2. conn' \in ConnFlags /\ conn'.connected /\ ~conn'.encrypted
    BY <2>1 DEF NoFlags, ConnFlags
  <2> QED
    BY <1>1, <2>2 DEF SecureInv
<1>2. CASE e[1] = "disconnected"
  <2>1. conn' = [conn EXCEPT !.connected = FALSE]
    BY <1>2 DEF ConnHandle
  <2>2. conn' \in ConnFlags /\ ~conn'.connected
    BY <2>1 DEF ConnFlags
  <2> QED
    BY <1>2, <2>2 DEF SecureInv
<1>3. CASE e[1] = "security"
  <2>1. conn' = [conn EXCEPT !.encrypted = e[2]] /\ e[2] = TRUE
    BY <1>3, EventType DEF ConnHandle
  <2>2. conn' = [conn EXCEPT !.encrypted = TRUE]
    BY <2>1
  <2>3. conn' \in ConnFlags /\ conn'.connected = conn.connected
    BY <2>2 DEF ConnFlags
  <2> QED
    BY <1>3, <2>3 DEF SecureInv
<1>4. CASE e[1] \notin {"connected", "disconnected", "security"}
  <2>1. conn' = conn
    BY <1>4 DEF ConnHandle
  <2> QED
    BY <1>4, <2>1 DEF SecureInv
<1> QED
  BY <1>1, <1>2, <1>3, <1>4

-----------------------------------------------------------------------------
(* SD_EVT_IRQHandler gives one event to all the modules.                   *)

LEMMA DispatchStep ==
  ASSUME LinksInv, Dispatch
  PROVE  LinksInv'
<1> DEFINE e == Head(events)
           r == QwrRaises(e)
<1>1. /\ events # <<>> /\ events' = Tail(events) \o r
      /\ ConnHandle(e) /\ ParamsHandle(e) /\ GattHandle(e) /\ QwrHandle(e) /\ AdvHandle(e)
      /\ UNCHANGED <<up, secured, bounds>>
  BY DEF Dispatch
<1>2. QueueInv /\ OrderInv /\ LengthInv /\ events \in Seq(Events) /\ up' = up /\ up \in BOOLEAN
  BY <1>1, Parts DEF WaitingInv
<1>3. r \in {<<>>, <<Release>>} /\ (r # <<>> => up /\ e[1] \in {"execute", "cancel"})
  BY DEF QwrRaises, Release
<1>4. /\ events \in Seq(Events) /\ Len(events) \in Nat /\ DOMAIN events = 1 .. Len(events)
      /\ 1 \in DOMAIN events /\ e = events[1]
  BY <1>1, <1>2, LenProperties, EmptySeq
<1> HIDE DEF e, r
<1>5. /\ e \in Events /\ Fits(e) /\ Queued(e[1])
      /\ \A i \in DOMAIN events : i > 1 => MayPrecede(e[1], events[i][1])
  BY <1>2, <1>4 DEF QueueInv, OrderInv, Fits, Queued
<1>6. r # <<>> => \A i \in DOMAIN events : i > 1 => MayPrecede(events[i][1], "mem_release")
  BY <1>3, <1>5, Parts, WhatWaits DEF MayPrecede, Authorized
<1>7. /\ events' \in Seq(Events) /\ OrderInv'
      /\ Len(events') = Len(events) - 1 + (IF r = <<>> THEN 0 ELSE 1)
      /\ \A i \in DOMAIN events' :
           \/ r # <<>> /\ events'[i] = Release
           \/ \E j \in DOMAIN events : j > 1 /\ events'[i] = events[j]
      /\ \A n : Queued(n)' <=> \/ r # <<>> /\ n = "mem_release"
                               \/ \E j \in DOMAIN events : j > 1 /\ events[j][1] = n
      /\ \A n : Queued(n) <=> \/ n = e[1]
                              \/ \E j \in DOMAIN events : j > 1 /\ events[j][1] = n
  BY <1>1, <1>2, <1>3, <1>4, <1>6, Given
<1>8. \A n : n \notin {e[1], "mem_release"} => (Queued(n)' <=> Queued(n))
  BY <1>7
<1>9. \A n \in {"connected", "disconnected", "terminated"} : n = e[1] => ~Queued(n)'
  <2> SUFFICES ASSUME NEW n \in {"connected", "disconnected", "terminated"}, n = e[1], Queued(n)'
               PROVE  FALSE
    OBVIOUS
  <2>1. PICK j \in DOMAIN events : j > 1 /\ events[j][1] = n
    BY <1>7
  <2> QED
    BY <1>5, <2>1 DEF MayPrecede
<1>10. e[1] = "connected" => /\ ~conn.connected /\ ~inst.used /\ ~qwr.assigned /\ told = 0
  BY <1>5, Parts DEF LinkInv, Fits
<1>11. e[1] \notin {"connected", "terminated"} => conn.connected /\ inst.used /\ qwr.assigned
  <2>1. ASSUME e[1] \notin {"connected", "terminated"}, Queued("connected") PROVE FALSE
    <3>1. PICK j \in DOMAIN events : j > 1 /\ events[j][1] = "connected"
      BY <1>7, <2>1
    <3> QED
      BY <1>5, <2>1, <3>1 DEF MayPrecede
  <2> QED
    BY <1>5, <2>1, Parts DEF Fits, LinkInv
<1>12. /\ ParamsTypeOK' /\ ParamsInv'
       /\ inst'.used <=> e[1] = "connected" \/ (inst.used /\ e[1] # "disconnected")
  BY <1>1, <1>2, <1>5, <1>8, <1>10, Parts, ParamsGiven
<1>13. /\ GattTypeOK' /\ GattInv' /\ peer' = peer
       /\ e[1] \notin Exchanged => told' = told
  BY <1>1, <1>2, <1>5, <1>10, Parts, GattGiven DEF Fits
<1>14. /\ QwrTypeOK' /\ QwrInv'
       /\ qwr'.assigned <=> e[1] = "connected" \/ (qwr.assigned /\ e[1] # "disconnected")
       /\ e[1] \notin Authorized => authorizing' = authorizing /\ prepared' = prepared
       /\ e[1] \in {"execute", "cancel"} => prepared' = {}
  BY <1>1, <1>2, <1>5, <1>10, <1>11, Parts, QwrGiven DEF Fits
<1>15. /\ AdvTypeOK' /\ AdvertisesAsTold'
       /\ e[1] # "terminated" => onAir' = onAir
  BY <1>1, <1>5, Parts, AdvGiven DEF Fits
<1>16. /\ conn' \in ConnFlags /\ SecureInv'
       /\ conn'.connected <=> e[1] = "connected" \/ (conn.connected /\ e[1] # "disconnected")
  BY <1>1, <1>5, <1>10, Parts, ConnGiven DEF Fits, TypeInv, ConnFlags
<1>17. LinkInv'
  <2>1. CASE e[1] = "connected"
    <3>1. ~Queued("connected")' /\ (up \/ Queued("disconnected"))
      BY <1>5, <1>9, <2>1 DEF Fits
    <3>2. up' \/ Queued("disconnected")'
      BY <1>2, <1>8, <2>1, <3>1
    <3> QED
      BY <1>12, <1>14, <1>16, <2>1, <3>1, <3>2 DEF LinkInv
  <2>2. CASE e[1] = "disconnected"
    <3>1. ~Queued("disconnected")' /\ ~up'
      BY <1>2, <1>5, <1>9, <2>2 DEF Fits
    <3> QED
      BY <1>12, <1>14, <1>16, <2>2, <3>1 DEF LinkInv
  <2>3. CASE e[1] \notin {"connected", "disconnected"}
    <3>1. (Queued("disconnected")' <=> Queued("disconnected")) /\ (Queued("connected")' <=> Queued("connected"))
      BY <1>8, <2>3
    <3>2. (inst'.used <=> inst.used) /\ (qwr'.assigned <=> qwr.assigned) /\ (conn'.connected <=> conn.connected)
      BY <1>12, <1>14, <1>16, <2>3
    <3> QED
      BY <1>2, <3>1, <3>2, Parts DEF LinkInv
  <2> QED
    BY <2>1, <2>2, <2>3
<1>18. ASSUME NEW i \in DOMAIN events' PROVE Fits(events[i])'
  <2>1. CASE r # <<>> /\ events'[i] = Release
    <3>1. up' /\ prepared' = {}
      BY <1>2, <1>3, <1>14, <2>1
    <3>2. Release \in Events
      BY EventsOf DEF Release, Simple
    <3> QED
      BY <2>1, <3>1, <3>2 DEF Fits, Release, Authorized, Exchanged
  <2>2. CASE \E j \in DOMAIN events : j > 1 /\ events'[i] = events[j]
    <3>1. PICK j \in DOMAIN events : j > 1 /\ events'[i] = events[j]
      BY <2>2
    <3>2. PICK x : x = events[j] /\ x = events'[i]
      BY <3>1
    <3>3. Fits(x) /\ MayPrecede(e[1], x[1])
      BY <1>2, <1>5, <3>1, <3>2 DEF QueueInv
    <3>4. x \in Events /\ (x[1] = "disconnected" => ~up')
      BY <1>2, <3>3 DEF Fits
    <3>5. x[1] # "connected" \/ told' = 0
      BY <1>13, <3>3 DEF Fits, MayPrecede, Exchanged
    <3>6. x[1] # "terminated" \/ onAir' = Off
      BY <1>15, <3>3 DEF Fits, MayPrecede
    <3>7. x[1] \notin Authorized \/ authorizing' # "none"
      BY <1>14, <3>3 DEF Fits, MayPrecede
    <3>8. (x[1] = "security" /\ up' => secured') /\ (x[1] \in Exchanged /\ up' => x[2] = peer'.mtu)
      BY <1>1, <1>2, <1>13, <3>3 DEF Fits
    <3>9. x[1] = "mem_release" /\ up' => prepared' = {}
      BY <1>2, <1>14, <3>3 DEF Fits, MayPrecede, Authorized
    <3>10. x[1] = "terminated" \/ up' \/ Queued("disconnected")'
      BY <1>2, <1>8, <3>3 DEF Fits, MayPrecede
    <3>11. Fits(x)'
      BY <3>4, <3>5, <3>6, <3>7, <3>8, <3>9, <3>10 DEF Fits
    <3> QED
      BY <3>2, <3>11 DEF Fits
  <2> QED
    BY <1>7, <2>1, <2>2
<1>19. LengthInv'
  <2>1. Len(events') <= Len(events) /\ Len(events') \in Nat
    BY <1>4, <1>7, LenProperties
  <2>2. CASE e[1] \notin {"disconnected", "terminated"}
    <3>1. Extra("disconnected")' = Extra("disconnected") /\ Extra("terminated")' = Extra("terminated")
      BY <1>8, <2>2 DEF Extra
    <3>2. Extra("disconnected") \in {0, 1} /\ Extra("terminated") \in {0, 1}
      BY DEF Extra
    <3> QED
      BY <1>2, <1>4, <2>1, <3>1, <3>2, BleLinkAssumption DEF LengthInv
  <2>3. CASE e[1] \in {"disconnected", "terminated"}
    <3>1. r = <<>>
      BY <1>3, <2>3
    <3>2. Len(events') = Len(events) - 1
      BY <1>7, <3>1
    <3>3. /\ Extra("disconnected") \in {0, 1} /\ Extra("terminated") \in {0, 1}
          /\ Extra("disconnected")' \in {0, 1} /\ Extra("terminated")' \in {0, 1}
      BY DEF Extra
    <3>4. \/ e[1] = "disconnected" /\ Extra("terminated")' = Extra("terminated")
          \/ e[1] = "terminated" /\ Extra("disconnected")' = Extra("disconnected")
      BY <1>8, <2>3 DEF Extra
    <3> QED
      BY <1>2, <1>4, <3>2, <3>3, <3>4, BleLinkAssumption DEF LengthInv
  <2> QED
    BY <2>2, <2>3
<1>20. WaitingInv'
  BY <1>7, <1>18, <1>19 DEF WaitingInv, QueueInv
<1> QED
  BY <1>1, <1>2, <1>12, <1>13, <1>14, <1>15, <1>16, <1>17, <1>20, Parts, Together DEF TypeInv, bounds, ConnFlags


-----------------------------------------------------------------------------
(* All steps together.                                                     *)

LEMMA LinksInit ==
  ASSUME Init
  PROVE  LinksInv
<1>1. events = <<>> /\ up = FALSE /\ DOMAIN events = {} /\ events \in Seq(Events) /\ Len(events) = 0
  BY EmptySeq DEF Init
<1>2. \A n : ~Queued(n)
  BY <1>1 DEF Queued
<1>3. WaitingInv
  <2>1. QueueInv /\ OrderInv
    BY <1>1 DEF QueueInv, OrderInv
  <2>2. LengthInv
    BY <1>1, <1>2, BleLinkAssumption DEF LengthInv, Extra
  <2> QED
    BY <2>1, <2>2 DEF WaitingInv
<1>4. ParamsTypeOK /\ ParamsInv /\ ~inst.used
  <2>1. /\ inst = [used |-> FALSE, ok |-> FALSE, count |-> 0, preferred |-> preferred]
        /\ onNotify \in BOOLEAN /\ preferred \in Preferences
        /\ timer = FALSE /\ updating = FALSE /\ verdict = "none" /\ sent = 0 /\ held = FALSE
    BY DEF Init, ParamsInit
  <2>2. 0 \in 0 .. MaxUpdates
    BY BleConnParamsAssumption
  <2>3. ParamsTypeOK
    BY <2>1, <2>2 DEF ParamsTypeOK
  <2> QED
    BY <2>1, <2>3 DEF ParamsInv, NegotiationGoesOn
<1>5. GattTypeOK /\ GattInv
  <2>1. MaxMtu \in Mtus /\ DefaultMtu \in Mtus
    BY BleGattAssumption DEF Mtus
  <2>2. /\ gatt = FreshLink /\ desired = MaxMtu /\ mtuAsk = "no" /\ procedure = FALSE /\ told = 0
        /\ peer \in [mtu : PeerMtus, asked : {FALSE}]
    BY DEF Init, GattInit
  <2>3. gatt \in LinksOfGatt
    BY <2>1, <2>2 DEF FreshLink, LinksOfGatt
  <2>4. GattTypeOK
    BY <2>1, <2>2, <2>3 DEF GattTypeOK, LinksOfGatt
  <2> QED
    BY <2>2, <2>4 DEF GattInv
<1>6. QwrTypeOK /\ QwrInv /\ ~qwr.assigned
  <2>1. qwr = [assigned |-> FALSE, pending |-> FALSE, written |-> <<>>]
        /\ memory = "none" /\ authorizing = "none" /\ prepared = {} /\ exact = TRUE
    BY DEF Init, QwrInit
  <2>2. qwr.written = <<>> /\ <<>> \in Seq(Registered) /\ Written = {} /\ Len(<<>>) = 0 /\ Cardinality({}) = 0
    BY <2>1, EmptySeq, FS_EmptySet DEF Written
  <2>3. 0 <= Cardinality(Registered)
    BY FS_CardinalityType, BleQwrAssumption
  <2>4. qwr \in [assigned : BOOLEAN, pending : BOOLEAN, written : Seq(Registered)]
    BY <2>1, <2>2
  <2>5. QwrTypeOK
    BY <2>1, <2>2, <2>3, <2>4 DEF QwrTypeOK
  <2> QED
    BY <2>1, <2>2, <2>5 DEF QwrInv
<1>7. AdvTypeOK /\ AdvertisesAsTold
  <2>1. PICK c \in Configs : adv = [config |-> c, mode |-> IDLE, inUse |-> FALSE,
                                    withoutList |-> FALSE, flags |-> "general"]
    BY DEF Init, AdvInit
  <2>2. IDLE \in Modes /\ onAir = Off /\ announced = [mode |-> IDLE, filtered |-> FALSE]
    BY DEF Init, AdvInit, Modes, IDLE, SLOW
  <2>3. AdvTypeOK
    BY <2>1, <2>2 DEF AdvTypeOK, Off, Flags
  <2> QED
    BY <2>2, <2>3 DEF AdvertisesAsTold
<1>8. /\ conn \in [valid : BOOLEAN, connected : BOOLEAN, encrypted : BOOLEAN] /\ ~conn.connected
      /\ secured \in BOOLEAN /\ theme \in Themes
  BY DEF Init, NoFlags
<1>9. links \in 0 .. MaxLinks /\ acts \in 0 .. MaxPeer /\ starts \in 0 .. MaxStarts
  BY BleLinkAssumption DEF Init
<1>10. LinkInv
  BY <1>1, <1>2, <1>4, <1>6, <1>8 DEF LinkInv
<1> QED
  BY <1>1, <1>3, <1>4, <1>5, <1>6, <1>7, <1>8, <1>9, <1>10 DEF LinksInv, TypeInv, ModulesInv, SecureInv

LEMMA PeerActsStep ==
  ASSUME LinksInv, PeerActs
  PROVE  LinksInv'
<1>1. acts' \in 0 .. MaxPeer /\ Len(events) < MaxQueue /\ UNCHANGED <<theme, links, starts>>
  BY Parts, BleLinkAssumption DEF PeerActs, TypeInv
<1> QED
  BY <1>1, PeerNotifiesStep, PeerSecuresStep, GattStep, QwrStep, ParamsActsStep DEF PeerActs

LEMMA LinksStep ==
  ASSUME LinksInv, Careful = TRUE, [Next]_vars
  PROVE  LinksInv'
<1>1. CASE PeerAnswers
  <2>1. acts' \in 0 .. MaxPeer
    BY <1>1, Parts DEF PeerAnswers, bounds, TypeInv
  <2> QED
    BY <1>1, <2>1, GattStep DEF PeerAnswers, bounds
<1>2. CASE MemoryNeeded
  <2>1. acts' \in 0 .. MaxPeer
    BY <1>2, Parts DEF MemoryNeeded, bounds, TypeInv
  <2> QED
    BY <1>2, <2>1, QwrStep DEF MemoryNeeded, bounds
<1>3. CASE UNCHANGED vars
  <2>1. UNCHANGED <<up, events, paramVars, gattVars, qwrVars, advVars, conn, secured, bounds>>
    BY <1>3 DEF vars, stack
  <2>2. WaitingInv' /\ \A n : Queued(n)' <=> Queued(n)
    BY <2>1, Parts, WaitingKept DEF gattVars, qwrVars, advVars
  <2>3. LinkInv'
    BY <2>1, <2>2, Parts, LinkKept DEF paramVars, qwrVars
  <2>4. /\ ParamsTypeOK' /\ ParamsInv' /\ GattTypeOK' /\ GattInv' /\ QwrTypeOK' /\ QwrInv'
        /\ AdvTypeOK' /\ AdvertisesAsTold' /\ SecureInv'
    BY <2>1, <2>2, Parts, ParamsKept, GattKept, QwrKept, AdvKept, SecureKept DEF qwrVars
  <2> QED
    BY <2>1, <2>2, <2>3, <2>4, Parts, Together DEF TypeInv, bounds
<1> QED
  BY <1>1, <1>2, <1>3, DispatchStep, TimerExpiresStep, PeerConnectsStep, CentralStep, LinkLostStep,
     PeerActsStep, AdvertisingEndsStep, ApplicationAdvertisesStep DEF Next

\* What the invariant says between the events.
LEMMA LinksSay ==
  ASSUME LinksInv
  PROVE  BleLinkInv /\ ExecutedAsPrepared
<1>1. Len(events) <= MaxQueue + 3
  <2>1. LengthInv /\ Len(events) \in Nat
    BY Parts, LenProperties DEF WaitingInv
  <2>2. Extra("disconnected") \in {0, 1} /\ Extra("terminated") \in {0, 1}
    BY DEF Extra
  <2> QED
    BY <2>1, <2>2, BleLinkAssumption DEF LengthInv
<1>2. BleTypeOK
  BY <1>1, Parts DEF BleTypeOK, TypeInv
<1>3. NegotiationGoesOn /\ AdvertisesAsTold
  BY Parts DEF ParamsInv
<1>4. MtuAgreed
  BY Parts DEF MtuAgreed, GattInv
<1>5. EncryptedIsOfThisLink
  BY Parts DEF EncryptedIsOfThisLink, SecureInv
<1> QED
  BY <1>2, <1>3, <1>4, <1>5, Parts DEF BleLinkInv, ExecutedAsPrepared, QwrInv

\* The application is told of failure by update_timeout_handler alone.
LEMMA FailureStep ==
  ASSUME LinksInv, [Next]_vars
  PROVE  [verdict' = "failed" /\ verdict # "failed" => ~inst.ok /\ sent >= MaxUpdates]_vars
<1> SUFFICES ASSUME Next, verdict' = "failed", verdict # "failed"
             PROVE  ~inst.ok /\ sent >= MaxUpdates
  OBVIOUS
<1>1. CASE TimerExpires
  BY <1>1, Parts, TimerFinds DEF TimerExpires, SendRequest
<1>2. CASE Dispatch
  <2>1. ParamsHandle(Head(events))
    BY <1>2 DEF Dispatch
  <2>2. verdict' \in {verdict, "none", "succeeded"}
    BY <2>1 DEF ParamsHandle, ParamsConnected, ParamsDisconnected, ParamsNotify, ParamsUpdated, Negotiate
  <2> QED
    BY <2>2
<1>3. CASE PeerActs
  BY <1>3 DEF PeerActs, PeerNotifies, PeerSecures, ParamsStop, ParamsChange, paramVars
<1>4. CASE PeerConnects \/ CentralSetsParams \/ LinkLost \/ PeerAnswers \/ MemoryNeeded
           \/ AdvertisingEndsAlone \/ ApplicationAdvertises
  <2>1. verdict' = verdict
    BY <1>4 DEF PeerConnects, CentralSetsParams, LinkLost, PeerAnswers, MemoryNeeded, AdvertisingEndsAlone,
                ApplicationAdvertises, Advertising, paramVars
  <2> QED
    BY <2>1
<1> QED
  BY <1>1, <1>2, <1>3, <1>4 DEF Next

\* The events waiting always fit the modules they will be given to, and the
\* modules agree with the link: what SD_EVT_IRQHandler's one event after the other
\* is worth, with an application that starts advertising between events only.
THEOREM EventsFitModules == ASSUME Careful = TRUE PROVE Spec => []LinksInv
<1>1. Init => LinksInv
  BY LinksInit
<1>2. LinksInv /\ [Next]_vars => LinksInv'
  BY LinksStep
<1> QED
  BY <1>1, <1>2, PTL DEF Spec

\* Between the events the modules agree with the link, with the peer and with what
\* the application was told: a negotiation goes on or its end was announced, the
\* MTU is the one both sides can take, a link that counts as encrypted is, and what
\* is on the air is what the module says.  Code: the event handlers of
\* ble_conn_params.c, nrf_ble_gatt.c, ble_conn_state.c and ble_advertising.c.
THEOREM ModulesAgree == ASSUME Careful = TRUE PROVE Spec => []BleLinkInv
<1>1. LinksInv => BleLinkInv
  BY LinksSay
<1> QED
  BY <1>1, EventsFitModules, PTL

\* Every execution applies all that the peer prepared since the last one, or
\* nothing, and nothing of an earlier link.  Code: on_prepare_write,
\* on_execute_write, on_cancel_write and the reset on disconnection.
THEOREM WritesAreExact == ASSUME Careful = TRUE PROVE Spec => []ExecutedAsPrepared
<1>1. LinksInv => ExecutedAsPrepared
  BY LinksSay
<1> QED
  BY <1>1, EventsFitModules, PTL

\* The application is told of failure only after all the requests of the
\* negotiation, and only while the parameters are not acceptable: a link is never
\* dropped for parameters that have become acceptable.
\* Code: update_timeout_handler, conn_params_negotiation.
THEOREM FailuresAreHonest == ASSUME Careful = TRUE PROVE Spec => FailedIsHonest
<1>1. LinksInv /\ [Next]_vars
        => [verdict' = "failed" /\ verdict # "failed" => ~inst.ok /\ sent >= MaxUpdates]_vars
  BY FailureStep
<1> QED
  BY <1>1, EventsFitModules, PTL DEF Spec, FailedIsHonest


=============================================================================
