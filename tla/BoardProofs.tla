----------------------------- MODULE BoardProofs -----------------------------
(***************************************************************************)
(* Proofs about the two modules of the board that MCBoard checks together, *)
(* PwrMgmt and Buttons.                                                    *)
(*                                                                         *)
(* PwrMgmt, for every number of handlers, every timeout and every length   *)
(* of the scheduler's queue: the device goes down only as every module     *)
(* agreed, and turns itself off only after the time without activity.      *)
(*                                                                         *)
(* Buttons, for every number of buttons, of changes of their pins and of   *)
(* links: what the application is told is what a push was meant for,       *)
(* although all buttons share the timer of long pushes and the events      *)
(* bound to them change with the links.                                    *)
(***************************************************************************)
EXTENDS PwrMgmt, Buttons, SequenceTheorems, TLAPS

-----------------------------------------------------------------------------
(* PwrMgmt: the agreement and the standby time.                            *)

Frame == [level : Levels, step : Steps, type : Types \cup {CONTINUE, "none"}, value : 0 .. Timeout]

\* A call is counting when it is one of pwr_mgmt_standby_timeout_check.
Counting(f) == f.step \in {"retry", "load", "store"}

\* The calls in progress, without their order.
CallsOf(s) == {s[i] : i \in DOMAIN s}

TypeInv == PwrTypeOK /\ calls \in Seq(Frame)

\* A call that goes on with a shutdown does so after its kind was decided.
Right(f, going) ==
  /\ f.step \in {"put", "run"} \/ f.type = CONTINUE => going
  /\ f.step \in {"lock", "decide"} => f.type \in Types \cup {CONTINUE}

\* A kind of shutdown is decided once, before any module is asked.
AgreedInv ==
  /\ started => evt \in Types
  /\ next > 1 \/ queue > 0 \/ refused # {} => started
  /\ \A f \in CallsOf(calls) : Right(f, started)
  /\ \A h \in 1 .. next - 1 : agreed[h] = evt
  /\ done \in Types => done = evt /\ next = Handlers + 1 /\ calls = <<>> /\ queue = 0

\* What runs preempted what is below it, and the timer counts once at a time.
Ordered(s) == \A i, j \in DOMAIN s : i < j => s[i].level >= s[j].level
CountsOnce(s) == \A i, j \in DOMAIN s : Counting(s[i]) /\ Counting(s[j]) => i = j

\* A call that counts has seen the second that it counts.
Counted(f, count, seconds) ==
  /\ Counting(f) => f.level = Timer
  /\ f.step \in {"retry", "load"} => count < seconds
  /\ f.step = "store" => f.value <= seconds

\* No more seconds are counted than have passed.
StandbyInv ==
  /\ counter <= idle
  /\ Ordered(calls) /\ CountsOnce(calls)
  /\ \A f \in CallsOf(calls) : Counted(f, counter, idle)

-----------------------------------------------------------------------------
(* The stack of calls.                                                     *)

\* What a call that begins does to the stack.
LEMMA CallPushed ==
  ASSUME NEW f \in Frame, NEW s \in Seq(Frame)
  PROVE  /\ <<f>> \o s \in Seq(Frame)
         /\ Len(<<f>> \o s) = Len(s) + 1
         /\ Head(<<f>> \o s) = f
         /\ (<<f>> \o s)[1] = f
         /\ \A i \in 2 .. Len(s) + 1 : (<<f>> \o s)[i] = s[i - 1]
<1>1. <<f>> \in Seq(Frame) /\ Len(<<f>>) = 1 /\ <<f>>[1] = f
  OBVIOUS
<1>2. Len(s) \in Nat
  BY LenProperties
<1>3. /\ <<f>> \o s \in Seq(Frame)
      /\ Len(<<f>> \o s) = 1 + Len(s)
      /\ \A i \in 1 .. 1 + Len(s) : (<<f>> \o s)[i] = IF i <= 1 THEN <<f>>[i] ELSE s[i - 1]
  BY <1>1, ConcatProperties, Zenon
<1> QED
  BY <1>1, <1>2, <1>3

\* What a call that returns, or goes on to its next step, does to the stack.
LEMMA Replaced ==
  ASSUME NEW f \in Frame, NEW s \in Seq(Frame), s # <<>>
  PROVE  /\ Tail(s) \in Seq(Frame)
         /\ Len(Tail(s)) = Len(s) - 1
         /\ Len(s) \in Nat \ {0}
         /\ \A i \in 1 .. Len(s) - 1 : Tail(s)[i] = s[i + 1]
         /\ Head(s) = s[1] /\ s[1] \in Frame
         /\ <<f>> \o Tail(s) \in Seq(Frame)
         /\ Len(<<f>> \o Tail(s)) = Len(s)
         /\ (<<f>> \o Tail(s))[1] = f
         /\ \A i \in 2 .. Len(s) : (<<f>> \o Tail(s))[i] = s[i]
<1>1. /\ Tail(s) \in Seq(Frame) /\ Len(Tail(s)) = Len(s) - 1
      /\ \A i \in 1 .. Len(Tail(s)) : Tail(s)[i] = s[i + 1]
      /\ Len(s) \in Nat \ {0} /\ Head(s) = s[1] /\ s[1] \in Frame
  BY HeadTailProperties, LenProperties, EmptySeq, ElementOfSeq
<1>2. /\ <<f>> \o Tail(s) \in Seq(Frame)
      /\ Len(<<f>> \o Tail(s)) = Len(s)
      /\ (<<f>> \o Tail(s))[1] = f
      /\ \A i \in 2 .. Len(s) : (<<f>> \o Tail(s))[i] = Tail(s)[i - 1]
  BY <1>1, CallPushed
<1> QED
  BY <1>1, <1>2

LEMMA CallsOfPushed ==
  ASSUME NEW f \in Frame, NEW s \in Seq(Frame)
  PROVE  CallsOf(<<f>> \o s) = {f} \cup CallsOf(s)
<1>1. DOMAIN s = 1 .. Len(s) /\ Len(s) \in Nat
  BY LenProperties
<1>2. DOMAIN (<<f>> \o s) = 1 .. Len(s) + 1
  BY CallPushed, LenProperties
<1>3. ASSUME NEW i \in 1 .. Len(s) PROVE (<<f>> \o s)[i + 1] = s[i]
  BY <1>1, CallPushed
<1>4. ASSUME NEW i \in 1 .. Len(s) + 1, i # 1
      PROVE  i - 1 \in 1 .. Len(s) /\ (<<f>> \o s)[i] = s[i - 1]
  BY <1>1, <1>4, CallPushed
<1>5. (<<f>> \o s)[1] = f
  BY CallPushed
<1>6. ASSUME NEW x \in CallsOf(s) PROVE x \in CallsOf(<<f>> \o s)
  <2>1. PICK i \in 1 .. Len(s) : x = s[i]
    BY <1>1 DEF CallsOf
  <2>2. i + 1 \in DOMAIN (<<f>> \o s) /\ x = (<<f>> \o s)[i + 1]
    BY <1>1, <1>2, <1>3, <2>1
  <2> QED
    BY <2>2 DEF CallsOf
<1>7. ASSUME NEW x \in CallsOf(<<f>> \o s), x # f PROVE x \in CallsOf(s)
  <2>1. PICK i \in 1 .. Len(s) + 1 : x = (<<f>> \o s)[i]
    BY <1>2 DEF CallsOf
  <2>2. i - 1 \in DOMAIN s /\ x = s[i - 1]
    BY <1>1, <1>4, <1>5, <1>7, <2>1
  <2> QED
    BY <2>2 DEF CallsOf
<1>8. f \in CallsOf(<<f>> \o s)
  <2>1. 1 \in DOMAIN (<<f>> \o s)
    BY <1>1, <1>2
  <2> QED
    BY <1>5, <2>1 DEF CallsOf
<1> QED
  BY <1>6, <1>7, <1>8

LEMMA CallsOfTail ==
  ASSUME NEW s \in Seq(Frame), s # <<>>
  PROVE  /\ CallsOf(Tail(s)) \subseteq CallsOf(s)
         /\ Head(s) \in CallsOf(s)
         /\ CallsOf(s) \subseteq Frame
<1>1. /\ DOMAIN s = 1 .. Len(s) /\ Len(s) \in Nat \ {0}
      /\ DOMAIN Tail(s) = 1 .. Len(s) - 1
      /\ \A i \in 1 .. Len(s) - 1 : Tail(s)[i] = s[i + 1]
      /\ Head(s) = s[1]
      /\ \A i \in 1 .. Len(s) : s[i] \in Frame
  BY HeadTailProperties, LenProperties, EmptySeq, ElementOfSeq
<1> QED
  BY <1>1 DEF CallsOf


\* What the steps of one call do to the stack: a call begins, the running call
\* goes on, it begins another one, it returns, or the device stops.
CallsStep ==
  \/ UNCHANGED calls
  \/ \E f \in Frame : calls' = <<f>> \o calls
  \/ calls # <<>> /\ \E f \in Frame : calls' = <<f>> \o Tail(calls)
  \/ calls # <<>> /\ \E f, g \in Frame : calls' = <<g>> \o (<<f>> \o Tail(calls))
  \/ calls # <<>> /\ calls' = Tail(calls)
  \/ calls' = <<>>

\* The timer's call goes on, under one that it may have begun (Retry).
LEMMA Retried ==
  ASSUME TypeInv, Retry, NEW f, NEW g, f \in Frame, g \in Frame,
         f = [Top EXCEPT !.step = "load"], g = Call(Timer, "lock", CONTINUE)
  PROVE  calls' = IF autoRetry /\ started THEN <<g>> \o (<<f>> \o Tail(calls)) ELSE <<f>> \o Tail(calls)
<1>1. calls # <<>> /\ Tail(calls) \in Seq(Frame) /\ <<f>> \in Seq(Frame) /\ <<g>> \in Seq(Frame)
  BY Replaced DEF Retry, At, TypeInv
<1>2. calls' = (IF autoRetry /\ started THEN <<g>> ELSE <<>>) \o <<f>> \o Tail(calls)
  BY Zenon DEF Retry
<1>3. (<<g>> \o <<f>>) \o Tail(calls) = <<g>> \o (<<f>> \o Tail(calls))
  BY <1>1, ConcatAssociative
<1>4. <<>> \o <<f>> = <<f>>
  BY <1>1, ConcatEmptySeq
<1> QED
  BY <1>2, <1>3, <1>4

LEMMA CallFrame ==
  ASSUME NEW level \in Levels, NEW step \in Steps, NEW type \in Types \cup {CONTINUE, "none"}
  PROVE  Call(level, step, type) \in Frame
BY PwrMgmtAssumption DEF Call, Frame

\* The running call, and its form in its next step.
LEMMA TopFrame ==
  ASSUME TypeInv, calls # <<>>
  PROVE  /\ Top \in Frame /\ Top \in CallsOf(calls)
         /\ \A step \in Steps : [Top EXCEPT !.step = step] \in Frame
<1>1. Top \in Frame /\ Top \in CallsOf(calls)
  BY CallsOfTail DEF TypeInv, Top
<1> QED
  BY <1>1 DEF Frame

LEMMA InitTypeInv == PwrInit => TypeInv
<1> SUFFICES ASSUME PwrInit PROVE TypeInv
  OBVIOUS
<1>1. calls = <<>> /\ calls \in Seq(Frame) /\ DOMAIN calls = {}
  BY DEF PwrInit
<1>2. agreed \in [1 .. Handlers -> Types \cup {"none"}]
  BY DEF PwrInit
<1>3. /\ autoRetry \in BOOLEAN /\ useScheduler \in BOOLEAN /\ locked \in BOOLEAN /\ started \in BOOLEAN
      /\ ready \subseteq 1 .. Handlers /\ refused \subseteq 1 .. Handlers
      /\ evt \in Types \cup {"none"} /\ done \in Types \cup {"no", "error"}
  BY DEF PwrInit
<1>4. /\ continuesAt \in Levels /\ next \in 1 .. Handlers + 1 /\ counter \in 0 .. Timeout
      /\ queue \in 0 .. QueueSize /\ idle \in 0 .. Timeout + 1 /\ requests \in 0 .. MaxRequests
  BY PwrMgmtAssumption DEF PwrInit, Levels, Main, Above
<1> QED
  BY <1>1, <1>2, <1>3, <1>4 DEF TypeInv, PwrTypeOK

\* Every step keeps the types, and changes the stack in one of the ways above.
LEMMA NextTypeInv ==
  ASSUME TypeInv, AgreedInv, [PwrNext]_pwrVars
  PROVE  TypeInv' /\ CallsStep
<1> USE PwrMgmtAssumption DEF TypeInv
<1> DEFINE Rest ==
             /\ autoRetry \in BOOLEAN /\ useScheduler \in BOOLEAN /\ continuesAt \in Levels
             /\ evt \in Types \cup {"none"} /\ done \in Types \cup {"no", "error"}
             /\ locked \in BOOLEAN /\ started \in BOOLEAN
             /\ next \in 1 .. Handlers + 1 /\ counter \in 0 .. Timeout
             /\ queue \in 0 .. QueueSize
             /\ ready \subseteq 1 .. Handlers /\ refused \subseteq 1 .. Handlers
             /\ agreed \in [1 .. Handlers -> Types \cup {"none"}]
             /\ idle \in 0 .. Timeout + 1 /\ requests \in 0 .. MaxRequests
<1>1. ASSUME CallsStep PROVE calls' \in Seq(Frame)
  <2>1. ASSUME calls # <<>>, NEW f \in Frame
        PROVE  <<f>> \o Tail(calls) \in Seq(Frame) /\ Tail(calls) \in Seq(Frame)
    BY <2>1, Replaced
  <2>2. CASE \E f, g \in Frame : calls # <<>> /\ calls' = <<g>> \o (<<f>> \o Tail(calls))
    BY <2>1, <2>2, CallPushed
  <2>3. CASE calls # <<>> /\ calls' = Tail(calls)
    BY <2>3, HeadTailProperties
  <2>4. CASE calls' = <<>>
    BY <2>4
  <2> QED
    <3>1. CASE UNCHANGED calls
      BY <3>1
    <3>2. CASE \E f \in Frame : calls' = <<f>> \o calls
      BY <3>2, CallPushed
    <3>3. CASE calls # <<>> /\ \E f \in Frame : calls' = <<f>> \o Tail(calls)
      BY <2>1, <3>3
    <3> QED
      BY <1>1, <2>2, <2>3, <2>4, <3>1, <3>2, <3>3 DEF CallsStep
<1>2. ASSUME calls' \in Seq(Frame), Rest' PROVE TypeInv'
  <2>1. \A i \in DOMAIN calls' : calls'[i] \in Frame
    BY <1>2, LenProperties
  <2> QED
    BY <1>2, <2>1 DEF PwrTypeOK, Frame
<1>3. Rest
  BY DEF PwrTypeOK
<1> SUFFICES Rest' /\ CallsStep
  BY <1>1, <1>2
<1>4. ASSUME calls # <<>>
      PROVE  Top \in Frame /\ \A step \in Steps : [Top EXCEPT !.step = step] \in Frame
  BY <1>4, TopFrame
<1>5. {"retry", "load", "store", "lock", "decide", "put", "run", "unlock"} \subseteq Steps
  BY DEF Steps
<1>21. ASSUME calls # <<>>, NEW step \in Steps, GoTo(step) PROVE CallsStep
  BY <1>4, <1>21 DEF GoTo, CallsStep
<1>22. ASSUME calls # <<>>, Return PROVE CallsStep
  BY <1>22 DEF Return, CallsStep
<1>6. CASE UNCHANGED pwrVars
  BY <1>3, <1>6 DEF pwrVars, built, CallsStep
<1>7. ASSUME NEW level \in Levels, NEW type \in Types, Request(level, type)
      PROVE  Rest' /\ CallsStep
  <2>1. Call(level, "lock", type) \in Frame
    BY <1>5, CallFrame
  <2>2. Rest'
    BY <1>3, <1>7 DEF Request, built
  <2> QED
    BY <1>7, <2>1, <2>2 DEF Request, CallsStep
<1>8. ASSUME NEW h \in 1 .. Handlers, BecomesReady(h)
      PROVE  Rest' /\ CallsStep
  <2>1. Rest'
    BY <1>3, <1>8 DEF BecomesReady, built
  <2>2. Call(continuesAt, "lock", CONTINUE) \in Frame
    BY <1>3, <1>5, CallFrame
  <2> QED
    BY <1>8, <2>1, <2>2 DEF BecomesReady, CallsStep
<1>9. ASSUME NEW level \in Levels, Feed(level)
      PROVE  Rest' /\ CallsStep
  BY <1>3, <1>9 DEF Feed, built, CallsStep
<1>10. CASE Tick
  <2>1. Timer \in Levels
    BY DEF Timer, Levels, Main, Above
  <2>2. Call(Timer, "retry", "none") \in Frame
    BY <1>5, <2>1, CallFrame
  <2>3. Rest'
    BY <1>3, <1>10 DEF Tick, built
  <2> QED
    BY <1>10, <2>2, <2>3 DEF Tick, CallsStep
<1>11. CASE Scheduled
  <2>1. Main \in Levels
    BY DEF Levels, Main, Above
  <2>2. Call(Main, "run", "none") \in Frame
    BY <1>5, <2>1, CallFrame
  <2>3. Rest'
    BY <1>3, <1>11 DEF Scheduled, built
  <2> QED
    BY <1>11, <2>2, <2>3 DEF Scheduled, CallsStep
<1>12. CASE Lock
  <2>1. CallsStep
    BY <1>5, <1>12, <1>21, <1>22 DEF Lock, At
  <2>2. Rest'
    BY <1>3, <1>12 DEF Lock, built
  <2> QED
    BY <2>1, <2>2
<1>13. CASE Decide
  <2>1. Work \in Steps
    BY <1>5 DEF Work
  <2>2. Top.type \in Types \cup {CONTINUE, "none"}
    BY <1>4, <1>13 DEF Decide, At, Frame
  <2>3. CallsStep
    BY <1>5, <1>13, <1>21, <2>1 DEF Decide, At, Abandon
  <2>4. Rest'
    BY <1>3, <1>13, <2>2 DEF Decide, IsTaken, built
  <2> QED
    BY <2>3, <2>4
<1>14. CASE Put
  <2>1. CallsStep
    BY <1>5, <1>14, <1>21 DEF Put, At, CallsStep
  <2>2. Rest'
    BY <1>3, <1>14 DEF Put, built
  <2> QED
    BY <2>1, <2>2
<1>15. CASE Ask
  <2>1. CallsStep
    BY <1>5, <1>15, <1>21, <1>22 DEF Ask, At, CallsStep
  <2>2. Rest'
    <3>1. agreed' \in [1 .. Handlers -> Types \cup {"none"}]
      BY <1>3, <1>15 DEF Ask
    <3>2. next \in 1 .. Handlers /\ next + 1 \in 1 .. Handlers + 1
      BY <1>3, <1>15 DEF Ask
    <3>3. refused' \in {refused, refused \cup {next}} /\ next' \in {next, next + 1}
      BY <1>15 DEF Ask
    <3>4. next' \in 1 .. Handlers + 1 /\ refused' \subseteq 1 .. Handlers
      BY <1>3, <3>2, <3>3
    <3> QED
      BY <1>3, <1>15, <3>1, <3>4 DEF Ask, built
  <2> QED
    BY <2>1, <2>2
<1>16. CASE GoDown
  <2>1. evt \in Types
    BY <1>16, TopFrame DEF GoDown, At, AgreedInv, Right
  <2> QED
    BY <1>3, <1>16, <2>1 DEF GoDown, built, CallsStep
<1>17. CASE Unlock
  <2>1. CallsStep
    BY <1>17, <1>22 DEF Unlock, At
  <2>2. Rest'
    BY <1>3, <1>17 DEF Unlock, built
  <2> QED
    BY <2>1, <2>2
<1>18. CASE Retry
  <2>1. Call(Timer, "lock", CONTINUE) \in Frame
    BY <1>5, CallFrame DEF Levels, Main, Timer, Above
  <2>2. calls # <<>> /\ [Top EXCEPT !.step = "load"] \in Frame
    BY <1>4, <1>5, <1>18 DEF Retry, At
  <2> DEFINE rest == <<[Top EXCEPT !.step = "load"]>> \o Tail(calls)
  <2>3. rest \in Seq(Frame)
    BY <2>2, Replaced
  <2>4. Rest'
    BY <1>3, <1>18 DEF Retry, built
  <2>5. calls' = <<Call(Timer, "lock", CONTINUE)>> \o rest \/ calls' = rest
    BY <1>18, <2>1, <2>2, Retried
  <2> QED
    BY <2>1, <2>2, <2>4, <2>5 DEF CallsStep
<1>19. CASE Check
  <2>1. [Top EXCEPT !.step = "store", !.value = counter + 1] \in Frame \/ IsIdle(counter)
    <3>1. Top \in Frame
      BY <1>4, <1>19 DEF Check, At
    <3>2. counter + 1 \in 0 .. Timeout \/ IsIdle(counter)
      BY <1>3 DEF IsIdle
    <3> QED
      BY <1>5, <3>1, <3>2 DEF Frame
  <2>2. Call(Timer, "lock", GOTO_SYSOFF) \in Frame
    BY <1>5, CallFrame DEF Levels, Main, Timer, Above
  <2>3. CallsStep
    BY <1>19, <1>22, <2>1, <2>2 DEF Check, At, CallsStep
  <2>4. Rest'
    BY <1>3, <1>19 DEF Check, built
  <2> QED
    BY <2>3, <2>4
<1>20. CASE Count
  <2>1. Top.value \in 0 .. Timeout
    BY <1>4, <1>20 DEF Count, At, Frame
  <2>2. CallsStep
    BY <1>20, <1>22 DEF Count, At
  <2>3. Rest'
    BY <1>3, <1>20, <2>1 DEF Count, built
  <2> QED
    BY <2>2, <2>3
<1>23. CASE PwrStep
  BY <1>12, <1>13, <1>14, <1>15, <1>16, <1>17, <1>18, <1>19, <1>20, <1>23 DEF PwrStep
<1>24. CASE Feed(Main)
  BY <1>9, <1>24, SMTT(30) DEF Levels, Main, Above
<1> QED
  BY <1>6, <1>7, <1>8, <1>10, <1>11, <1>23, <1>24 DEF PwrNext


\* The calls after each kind of change, without their order.
LEMMA CallsOfChanged ==
  ASSUME TypeInv
  PROVE  /\ \A f \in Frame : CallsOf(<<f>> \o calls) = {f} \cup CallsOf(calls)
         /\ calls # <<>> =>
              /\ CallsOf(Tail(calls)) \subseteq CallsOf(calls)
              /\ \A f \in Frame : CallsOf(<<f>> \o Tail(calls)) \subseteq {f} \cup CallsOf(calls)
              /\ \A f, g \in Frame : CallsOf(<<g>> \o (<<f>> \o Tail(calls)))
                                        \subseteq {f, g} \cup CallsOf(calls)
         /\ CallsOf(<<>>) = {}
<1>1. ASSUME NEW f \in Frame PROVE CallsOf(<<f>> \o calls) = {f} \cup CallsOf(calls)
  BY CallsOfPushed DEF TypeInv
<1>2. CallsOf(<<>>) = {}
  BY DEF CallsOf
<1>3. ASSUME calls # <<>>
      PROVE  Tail(calls) \in Seq(Frame) /\ CallsOf(Tail(calls)) \subseteq CallsOf(calls)
  BY <1>3, CallsOfTail, HeadTailProperties DEF TypeInv
<1>4. ASSUME calls # <<>>, NEW f \in Frame
      PROVE  /\ CallsOf(<<f>> \o Tail(calls)) \subseteq {f} \cup CallsOf(calls)
             /\ <<f>> \o Tail(calls) \in Seq(Frame)
  BY <1>3, <1>4, CallsOfPushed, CallPushed
<1>5. ASSUME calls # <<>>, NEW f \in Frame, NEW g \in Frame
      PROVE  CallsOf(<<g>> \o (<<f>> \o Tail(calls))) \subseteq {f, g} \cup CallsOf(calls)
  <2> DEFINE rest == <<f>> \o Tail(calls)
  <2>1. rest \in Seq(Frame) /\ CallsOf(rest) \subseteq {f} \cup CallsOf(calls)
    BY <1>4, <1>5
  <2> HIDE DEF rest
  <2>2. CallsOf(<<g>> \o rest) = {g} \cup CallsOf(rest)
    BY <2>1, CallsOfPushed
  <2>3. CallsOf(<<g>> \o rest) \subseteq {f, g} \cup CallsOf(calls)
    BY <2>1, <2>2
  <2> QED
    BY <2>3 DEF rest
<1> QED
  BY <1>1, <1>2, <1>3, <1>4, <1>5

LEMMA NextAgreedInv ==
  ASSUME TypeInv, AgreedInv, [PwrNext]_pwrVars
  PROVE  AgreedInv'
<1> USE PwrMgmtAssumption
<1>1. /\ Handlers \in Nat /\ next \in 1 .. Handlers + 1 /\ queue \in 0 .. QueueSize /\ QueueSize \in Nat
      /\ agreed \in [1 .. Handlers -> Types \cup {"none"}]
      /\ "no" \notin Types /\ "error" \notin Types /\ "none" \notin Types /\ CONTINUE \notin Types
  BY DEF TypeInv, PwrTypeOK
<1>2. {"retry", "load", "store", "lock", "decide", "put", "run", "unlock"} \subseteq Steps
  BY DEF Steps
<1>3. ASSUME UNCHANGED <<started, evt, next, agreed, done>>, done = "no",
             queue' > 0 \/ refused' # {} => started,
             \A f \in CallsOf(calls') \ CallsOf(calls) : Right(f, started')
      PROVE  AgreedInv'
  <2>1. ASSUME NEW f \in CallsOf(calls') PROVE Right(f, started')
    <3>1. CASE f \notin CallsOf(calls)
      BY <1>3, <2>1, <3>1
    <3>2. CASE f \in CallsOf(calls)
      BY <1>3, <3>2 DEF AgreedInv, Right
    <3> QED
      BY <3>1, <3>2
  <2>2. /\ started' => evt' \in Types
        /\ next' > 1 => started'
        /\ \A h \in 1 .. next' - 1 : agreed'[h] = evt'
    BY <1>3 DEF AgreedInv
  <2> QED
    BY <1>1, <1>3, <2>1, <2>2 DEF AgreedInv
<1>4. ASSUME NEW step \in Steps, calls # <<>>, GoTo(step)
      PROVE  CallsOf(calls') \subseteq {[Top EXCEPT !.step = step]} \cup CallsOf(calls)
  BY <1>4, TopFrame, CallsOfChanged DEF GoTo
<1>5. ASSUME calls # <<>>, Return
      PROVE  CallsOf(calls') \subseteq CallsOf(calls)
  BY <1>5, CallsOfChanged DEF Return
<1>6. CASE UNCHANGED pwrVars
  BY <1>6 DEF pwrVars, built, AgreedInv, Right
<1>7. ASSUME NEW level \in Levels, NEW type \in Types, Request(level, type)
      PROVE  AgreedInv'
  <2>1. Call(level, "lock", type) \in Frame /\ Right(Call(level, "lock", type), started')
    BY <1>1, <1>2, CallFrame DEF Right, Call
  <2>2. CallsOf(calls') \subseteq {Call(level, "lock", type)} \cup CallsOf(calls)
    BY <1>7, <2>1, CallsOfChanged DEF Request
  <2> QED
    BY <1>3, <1>7, <2>1, <2>2 DEF Request, MayPreempt, AgreedInv
<1>8. ASSUME NEW h \in 1 .. Handlers, BecomesReady(h)
      PROVE  AgreedInv'
  <2> DEFINE f == Call(continuesAt, "lock", CONTINUE)
  <2>1. f \in Frame /\ continuesAt \in Levels
    BY <1>2, CallFrame DEF TypeInv, PwrTypeOK
  <2>2. CASE h \in refused
    <3>1. started
      BY <2>2 DEF AgreedInv
    <3>2. Right(f, started')
      BY <1>8, <3>1 DEF Right, Call, BecomesReady
    <3>3. CallsOf(calls') \subseteq {f} \cup CallsOf(calls)
      BY <1>8, <2>1, <2>2, CallsOfChanged DEF BecomesReady
    <3> QED
      BY <1>3, <1>8, <3>1, <3>2, <3>3 DEF BecomesReady, MayPreempt
  <2>3. CASE h \notin refused
    <3>1. CallsOf(calls') \subseteq CallsOf(calls)
      BY <1>8, <2>3 DEF BecomesReady
    <3> QED
      BY <1>3, <1>8, <3>1 DEF BecomesReady, MayPreempt, AgreedInv
  <2> QED
    BY <2>2, <2>3
<1>9. CASE Feed(Main)
  <2>1. CallsOf(calls') \subseteq CallsOf(calls)
    BY <1>9 DEF Feed
  <2> QED
    BY <1>3, <1>9, <2>1 DEF Feed, MayPreempt, AgreedInv
<1>10. CASE Tick
  <2> DEFINE f == Call(Timer, "retry", "none")
  <2>1. f \in Frame /\ Right(f, started')
    BY <1>1, <1>2, CallFrame DEF Right, Call, Levels, Main, Timer, Above, CONTINUE
  <2>2. CallsOf(calls') \subseteq {f} \cup CallsOf(calls)
    BY <1>10, <2>1, CallsOfChanged DEF Tick
  <2> QED
    BY <1>3, <1>10, <2>1, <2>2 DEF Tick, MayPreempt, AgreedInv
<1>11. CASE Scheduled
  <2> DEFINE f == Call(Main, "run", "none")
  <2>1. started
    BY <1>1, <1>11 DEF Scheduled, AgreedInv
  <2>2. f \in Frame /\ Right(f, started')
    BY <1>2, <1>11, <2>1, CallFrame DEF Scheduled, Right, Call, Levels, Main, Above
  <2>3. CallsOf(calls') \subseteq {f} \cup CallsOf(calls)
    BY <1>11, <2>2, CallsOfChanged DEF Scheduled
  <2> QED
    BY <1>3, <1>11, <2>1, <2>2, <2>3 DEF Scheduled, MayPreempt
<1>12. ASSUME calls # <<>>, NEW step \in Steps
       PROVE  /\ Top \in CallsOf(calls) /\ Top \in Frame /\ Right(Top, started)
              /\ [Top EXCEPT !.step = step].step = step
              /\ [Top EXCEPT !.step = step].type = Top.type
  BY <1>12, TopFrame DEF AgreedInv, Frame
<1>13. CASE Lock
  <2> DEFINE f == [Top EXCEPT !.step = "decide"]
  <2>1. f.step = "decide" /\ f.type = Top.type /\ Right(Top, started) /\ Top.step = "lock"
    BY <1>2, <1>12, <1>13 DEF Lock, At
  <2>2. CallsOf(calls') \subseteq {f} \cup CallsOf(calls)
    BY <1>2, <1>4, <1>5, <1>13 DEF Lock, At
  <2> HIDE DEF f
  <2>3. Right(f, started')
    BY <1>13, <2>1 DEF Lock, Right
  <2> QED
    BY <1>3, <1>13, <2>2, <2>3 DEF Lock, At, AgreedInv
<1>14. CASE Unlock
  <2>1. CallsOf(calls') \subseteq CallsOf(calls)
    BY <1>5, <1>14 DEF Unlock, At
  <2> QED
    BY <1>3, <1>14, <2>1 DEF Unlock, At, AgreedInv
<1>15. CASE Count
  <2>1. CallsOf(calls') \subseteq CallsOf(calls)
    BY <1>5, <1>15 DEF Count, At
  <2> QED
    BY <1>3, <1>15, <2>1 DEF Count, At, AgreedInv
<1>16. CASE GoDown
  <2>1. Right(Top, started) /\ Top.step = "run"
    BY <1>2, <1>12, <1>16 DEF GoDown, At
  <2>2. started /\ evt \in Types /\ next = Handlers + 1
    BY <1>1, <1>16, <2>1 DEF GoDown, AgreedInv, Right
  <2>3. \A f \in CallsOf(calls') : Right(f, started')
    BY <1>16, CallsOfChanged DEF GoDown
  <2> QED
    BY <1>16, <2>2, <2>3 DEF GoDown, AgreedInv
<1>17. CASE Decide
  <2>1. Right(Top, started) /\ Top.step = "decide" /\ Top.type \in Types \cup {CONTINUE}
    BY <1>2, <1>12, <1>17 DEF Decide, At, Right
  <2>2. CASE IsTaken(Top.type)
    <3> DEFINE f == [Top EXCEPT !.step = Work]
    <3>1. Work \in {"put", "run"} /\ Work \in Steps
      BY <1>2 DEF Work
    <3>2. f.step = Work /\ f.type = Top.type /\ f.type \in Types
      BY <1>1, <1>12, <1>17, <2>1, <2>2, <3>1 DEF Decide, At, IsTaken
    <3>3. ~started /\ started' /\ evt' = Top.type /\ GoTo(Work)
      BY <1>17, <2>2 DEF Decide, IsTaken
    <3>4. CallsOf(calls') \subseteq {f} \cup CallsOf(calls)
      BY <1>4, <1>17, <3>1, <3>3 DEF Decide, At
    <3> HIDE DEF f
    <3>5. \A g \in CallsOf(calls') : Right(g, started')
      BY <1>1, <3>1, <3>2, <3>3, <3>4 DEF AgreedInv, Right
    <3>6. next' = 1 /\ queue' = 0 /\ refused' = {} /\ done' = "no"
      BY <1>1, <1>17, <3>3 DEF Decide, At, AgreedInv
    <3>7. 1 .. next' - 1 = {} /\ evt' \in Types /\ done' \notin Types
      BY <1>1, <3>2, <3>3, <3>6
    <3> QED
      BY <3>3, <3>5, <3>7 DEF AgreedInv
  <2>3. CASE Top.type # CONTINUE /\ ~IsTaken(Top.type)
    <3> DEFINE f == [Top EXCEPT !.step = "unlock"]
    <3>1. f.step = "unlock" /\ f.type = Top.type /\ GoTo("unlock")
      BY <1>2, <1>12, <1>17, <2>3 DEF Decide, At, Abandon
    <3>2. CallsOf(calls') \subseteq {f} \cup CallsOf(calls)
      BY <1>2, <1>4, <1>17, <3>1 DEF Decide, At
    <3> HIDE DEF f
    <3>3. UNCHANGED <<started, evt, next, agreed, done, queue, refused>> /\ done = "no"
      BY <1>17, <2>3 DEF Decide, At, IsTaken
    <3>4. Right(f, started')
      BY <2>3, <3>1 DEF Right
    <3> QED
      BY <1>3, <3>2, <3>3, <3>4 DEF AgreedInv
  <2>4. CASE Top.type = CONTINUE
    <3> DEFINE f == [Top EXCEPT !.step = Work]
    <3>1. Work \in {"put", "run"} /\ Work \in Steps
      BY <1>2 DEF Work
    <3>2. f.step = Work /\ f.type = Top.type /\ GoTo(Work)
      BY <1>12, <1>17, <2>4, <3>1 DEF Decide, At, IsTaken
    <3>3. CallsOf(calls') \subseteq {f} \cup CallsOf(calls)
      BY <1>4, <1>17, <3>1, <3>2 DEF Decide, At
    <3> HIDE DEF f
    <3>4. UNCHANGED <<started, evt, next, agreed, done, queue, refused>> /\ done = "no"
      BY <1>17, <2>4 DEF Decide, At, IsTaken
    <3>5. started /\ Right(f, started')
      BY <2>1, <2>4, <3>1, <3>2, <3>4 DEF Right
    <3> QED
      BY <1>3, <3>3, <3>4, <3>5 DEF AgreedInv
  <2> QED
    BY <2>2, <2>3, <2>4
<1>18. CASE Put
  <2>1. Right(Top, started) /\ Top.step = "put"
    BY <1>2, <1>12, <1>18 DEF Put, At
  <2>2. started
    BY <2>1 DEF Right
  <2>3. CASE queue < QueueSize
    <3> DEFINE f == [Top EXCEPT !.step = "unlock"]
    <3>1. f.step = "unlock" /\ GoTo("unlock")
      BY <1>2, <1>12, <1>18, <2>3 DEF Put, At
    <3>2. CallsOf(calls') \subseteq {f} \cup CallsOf(calls)
      BY <1>2, <1>4, <1>18, <3>1 DEF Put, At
    <3> HIDE DEF f
    <3>3. UNCHANGED <<started, evt, next, agreed, done>> /\ done = "no"
      BY <1>1, <1>18, <2>3 DEF Put, At
    <3>4. Right(f, started')
      BY <2>2, <3>1, <3>3 DEF Right
    <3> QED
      BY <1>3, <2>2, <3>2, <3>3, <3>4
  <2>4. CASE queue = QueueSize
    <3>1. UNCHANGED <<started, evt, next, agreed, refused>> /\ done' = "error" /\ calls' = <<>>
      BY <1>1, <1>18, <2>4 DEF Put
    <3>2. CallsOf(calls') = {}
      BY <3>1, CallsOfChanged
    <3> QED
      BY <1>1, <2>2, <3>1, <3>2 DEF AgreedInv
  <2> QED
    BY <1>18, <2>3, <2>4 DEF Put
<1>19. CASE Ask
  <2>1. Right(Top, started) /\ Top.step = "run" /\ next \in 1 .. Handlers
    BY <1>1, <1>2, <1>12, <1>19 DEF Ask, At
  <2>2. started
    BY <2>1 DEF Right
  <2>3. CASE next \in ready
    <3>1. /\ UNCHANGED <<started, evt, calls, queue, refused, done>> /\ done = "no"
          /\ next' = next + 1 /\ agreed' = [agreed EXCEPT ![next] = evt]
      BY <1>19, <2>3 DEF Ask, At
    <3>2. ASSUME NEW h \in 1 .. next' - 1 PROVE agreed'[h] = evt'
      <4>1. CASE h = next
        BY <1>1, <2>1, <3>1, <4>1
      <4>2. CASE h # next
        <5>1. h \in 1 .. next - 1 /\ h \in 1 .. Handlers
          BY <1>1, <2>1, <3>1, <3>2, <4>2
        <5> QED
          BY <1>1, <2>1, <3>1, <4>2, <5>1 DEF AgreedInv
      <4> QED
        BY <4>1, <4>2
    <3> QED
      BY <1>1, <2>2, <3>1, <3>2 DEF AgreedInv
  <2>4. CASE next \notin ready
    <3> DEFINE f == [Top EXCEPT !.step = "unlock"]
    <3>1. f.step = "unlock" /\ (Return \/ GoTo("unlock"))
      BY <1>2, <1>12, <1>19, <2>4 DEF Ask, At
    <3>2. CallsOf(calls') \subseteq {f} \cup CallsOf(calls)
      BY <1>2, <1>4, <1>5, <1>19, <3>1 DEF Ask, At
    <3> HIDE DEF f
    <3>3. UNCHANGED <<started, evt, next, agreed, done>> /\ done = "no"
      BY <1>1, <1>19, <2>4 DEF Ask, At
    <3>4. Right(f, started')
      BY <2>2, <3>1, <3>3 DEF Right
    <3> QED
      BY <1>3, <2>2, <3>2, <3>3, <3>4
  <2> QED
    BY <2>3, <2>4
<1>21. CASE Retry
  <2> DEFINE f == [Top EXCEPT !.step = "load"]
             g == Call(Timer, "lock", CONTINUE)
             rest == <<f>> \o Tail(calls)
  <2>1. Right(Top, started) /\ f.step = "load" /\ f.type = Top.type /\ calls # <<>> /\ f \in Frame
    BY <1>2, <1>12, <1>21, TopFrame DEF Retry, At
  <2>2. g \in Frame /\ g.step = "lock" /\ g.type = CONTINUE
    BY <1>2, CallFrame DEF Levels, Main, Timer, Above, Call
  <2>3. rest \in Seq(Frame)
    BY <2>1, Replaced DEF TypeInv
  <2>4. calls' = IF autoRetry /\ started THEN <<g>> \o rest ELSE rest
    BY <1>21, <2>1, <2>2, Retried
  <2>5. autoRetry /\ started => calls' = <<g>> \o rest
    BY <2>4
  <2>6. ~(autoRetry /\ started) => calls' = rest
    BY <2>4
  <2>7. CallsOf(<<g>> \o rest) \subseteq {f, g} \cup CallsOf(calls)
    BY <2>1, <2>2, CallsOfChanged
  <2>8. CallsOf(rest) \subseteq {f} \cup CallsOf(calls)
    BY <2>1, CallsOfChanged
  <2>9. UNCHANGED <<started, evt, next, agreed, done, queue, refused>> /\ done = "no"
    BY <1>21 DEF Retry, At
  <2>10. Right(f, started') /\ (started => Right(g, started'))
    BY <2>1, <2>2, <2>9 DEF Right
  <2> HIDE DEF f, g, rest
  <2> QED
    BY <1>3, <2>5, <2>6, <2>7, <2>8, <2>9, <2>10 DEF AgreedInv
<1>22. CASE Check
  <2> DEFINE f == [Top EXCEPT !.step = "store", !.value = counter + 1]
             g == Call(Timer, "lock", GOTO_SYSOFF)
  <2>1. Right(Top, started) /\ calls # <<>> /\ Top.step = "load" /\ Top \in Frame
    BY <1>2, <1>12, <1>22, TopFrame DEF Check, At
  <2>2. f.step = "store" /\ f.type = Top.type
    BY <2>1 DEF Frame
  <2>3. g \in Frame /\ g.step = "lock" /\ g.type \in Types
    BY <1>2, CallFrame DEF Levels, Main, Timer, Above, Call
  <2>4. UNCHANGED <<started, evt, next, agreed, done, queue, refused>> /\ done = "no"
    BY <1>22 DEF Check, At
  <2>5. Right(f, started') /\ Right(g, started')
    BY <1>1, <2>1, <2>2, <2>3, <2>4 DEF Right
  <2>6. ~IsIdle(counter) => f \in Frame
    <3>1. ~IsIdle(counter) => counter + 1 \in 0 .. Timeout
      BY DEF IsIdle, TypeInv, PwrTypeOK
    <3> QED
      BY <1>2, <2>1, <3>1 DEF Frame
  <2>7. \/ ~IsIdle(counter) /\ calls' = <<f>> \o Tail(calls)
        \/ calls' = <<g>> \o Tail(calls)
        \/ Return
    BY <1>22 DEF Check
  <2> HIDE DEF f, g
  <2>8. CallsOf(calls') \subseteq {f, g} \cup CallsOf(calls)
    BY <1>5, <2>1, <2>3, <2>6, <2>7, CallsOfChanged
  <2> QED
    BY <1>3, <2>4, <2>5, <2>8 DEF AgreedInv
<1>23. CASE PwrStep
  BY <1>13, <1>14, <1>15, <1>16, <1>17, <1>18, <1>19, <1>21, <1>22, <1>23 DEF PwrStep
<1> QED
  BY <1>6, <1>7, <1>8, <1>9, <1>10, <1>11, <1>23 DEF PwrNext

-----------------------------------------------------------------------------
(* The time without activity.                                              *)

LEMMA OrderedPushed ==
  ASSUME NEW f \in Frame, NEW s \in Seq(Frame), Ordered(s), CountsOnce(s),
         s # <<>> => f.level >= Head(s).level,
         Counting(f) => \A i \in DOMAIN s : ~Counting(s[i])
  PROVE  Ordered(<<f>> \o s) /\ CountsOnce(<<f>> \o s)
<1> DEFINE t == <<f>> \o s
<1>1. /\ Len(s) \in Nat /\ DOMAIN s = 1 .. Len(s)
      /\ \A i \in 1 .. Len(s) : s[i] \in Frame
      /\ DOMAIN t = 1 .. Len(s) + 1
      /\ t[1] = f /\ \A i \in 2 .. Len(s) + 1 : t[i] = s[i - 1]
  BY CallPushed, LenProperties, ElementOfSeq
<1> HIDE DEF t
<1>2. ASSUME NEW i \in DOMAIN t, i # 1 PROVE i - 1 \in DOMAIN s /\ t[i] = s[i - 1]
  BY <1>1, <1>2
<1>3. \A g \in Frame : g.level \in Int
  BY DEF Frame, Levels, Main, Above
<1>4. ASSUME NEW j \in DOMAIN s PROVE f.level >= s[j].level
  <2>1. s # <<>> /\ Head(s) = s[1] /\ 1 \in DOMAIN s
    BY <1>1, <1>4, EmptySeq, HeadTailProperties
  <2>2. s[1].level >= s[j].level
    BY <1>1, <1>3, <1>4, <2>1, SMTT(30) DEF Ordered
  <2> QED
    BY <1>1, <1>3, <1>4, <2>1, <2>2
<1>5. ASSUME NEW i \in DOMAIN t, NEW j \in DOMAIN t, i < j PROVE t[i].level >= t[j].level
  <2>1. j # 1 /\ j - 1 \in DOMAIN s /\ t[j] = s[j - 1]
    BY <1>1, <1>2, <1>5
  <2>2. CASE i = 1
    BY <1>1, <1>4, <2>1, <2>2
  <2>3. CASE i # 1
    <3>1. i - 1 \in DOMAIN s /\ t[i] = s[i - 1] /\ i - 1 < j - 1
      BY <1>1, <1>2, <1>5, <2>3
    <3> QED
      BY <2>1, <3>1 DEF Ordered
  <2> QED
    BY <2>2, <2>3
<1>6. ASSUME NEW i \in DOMAIN t, NEW j \in DOMAIN t, Counting(t[i]), Counting(t[j]) PROVE i = j
  <2>1. CASE i = 1
    BY <1>1, <1>2, <1>6, <2>1
  <2>2. CASE j = 1
    BY <1>1, <1>2, <1>6, <2>2
  <2>3. CASE i # 1 /\ j # 1
    <3>1. i - 1 = j - 1
      BY <1>2, <1>6, <2>3 DEF CountsOnce
    <3> QED
      BY <1>1, <3>1
  <2> QED
    BY <2>1, <2>2, <2>3
<1> QED
  BY <1>5, <1>6 DEF t, Ordered, CountsOnce

LEMMA OrderedTail ==
  ASSUME NEW s \in Seq(Frame), s # <<>>, Ordered(s), CountsOnce(s)
  PROVE  /\ Ordered(Tail(s)) /\ CountsOnce(Tail(s))
         /\ Tail(s) # <<>> => Head(s).level >= Head(Tail(s)).level
         /\ Counting(Head(s)) => \A i \in DOMAIN Tail(s) : ~Counting(Tail(s)[i])
<1>1. /\ Len(s) \in Nat \ {0} /\ DOMAIN s = 1 .. Len(s)
      /\ Tail(s) \in Seq(Frame) /\ DOMAIN Tail(s) = 1 .. Len(s) - 1
      /\ \A i \in 1 .. Len(s) - 1 : Tail(s)[i] = s[i + 1]
      /\ Head(s) = s[1]
  BY HeadTailProperties, LenProperties, EmptySeq
<1>2. ASSUME NEW i \in DOMAIN Tail(s) PROVE i \in Nat /\ i + 1 \in DOMAIN s /\ i + 1 # 1 /\ Tail(s)[i] = s[i + 1]
  BY <1>1
<1>3. Ordered(Tail(s))
  <2>1. ASSUME NEW i \in DOMAIN Tail(s), NEW j \in DOMAIN Tail(s), i < j
        PROVE  Tail(s)[i].level >= Tail(s)[j].level
    <3>1. i + 1 < j + 1
      BY <1>2, <2>1
    <3> QED
      BY <1>2, <3>1 DEF Ordered
  <2> QED
    BY <2>1 DEF Ordered
<1>4. CountsOnce(Tail(s))
  <2>1. ASSUME NEW i \in DOMAIN Tail(s), NEW j \in DOMAIN Tail(s),
               Counting(Tail(s)[i]), Counting(Tail(s)[j])
        PROVE  i = j
    <3>1. i + 1 = j + 1
      BY <1>2, <2>1 DEF CountsOnce
    <3> QED
      BY <1>2, <3>1
  <2> QED
    BY <2>1 DEF CountsOnce
<1>5. ASSUME Counting(Head(s)), NEW i \in DOMAIN Tail(s) PROVE ~Counting(Tail(s)[i])
  <2>1. 1 \in DOMAIN s
    BY <1>1
  <2> QED
    BY <1>1, <1>2, <1>5, <2>1 DEF CountsOnce
<1>6. ASSUME Tail(s) # <<>> PROVE Head(s).level >= Head(Tail(s)).level
  <2>1. 1 \in DOMAIN Tail(s) /\ Head(Tail(s)) = Tail(s)[1]
    BY <1>1, <1>6, HeadTailProperties, LenProperties, EmptySeq
  <2>2. Head(Tail(s)) = s[2] /\ 1 \in DOMAIN s /\ 2 \in DOMAIN s
    BY <1>1, <2>1
  <2> QED
    BY <1>1, <2>2 DEF Ordered
<1> QED
  BY <1>3, <1>4, <1>5, <1>6

\* A call that goes on stays where it is.
LEMMA OrderedReplaced ==
  ASSUME NEW f \in Frame, NEW s \in Seq(Frame), s # <<>>, Ordered(s), CountsOnce(s),
         f.level = Head(s).level, Counting(f) => Counting(Head(s))
  PROVE  Ordered(<<f>> \o Tail(s)) /\ CountsOnce(<<f>> \o Tail(s))
<1>1. Tail(s) \in Seq(Frame)
  BY HeadTailProperties
<1>2. Tail(s) # <<>> => f.level >= Head(Tail(s)).level
  BY OrderedTail
<1>3. Counting(f) => \A i \in DOMAIN Tail(s) : ~Counting(Tail(s)[i])
  BY OrderedTail
<1>4. Ordered(Tail(s)) /\ CountsOnce(Tail(s))
  BY OrderedTail
<1> QED
  BY <1>1, <1>2, <1>3, <1>4, OrderedPushed

LEMMA InitInvs == PwrInit => AgreedInv /\ StandbyInv
<1> SUFFICES ASSUME PwrInit PROVE AgreedInv /\ StandbyInv
  OBVIOUS
<1>1. calls = <<>> /\ DOMAIN calls = {} /\ CallsOf(calls) = {}
  BY DEF PwrInit, CallsOf
<1>2. counter <= idle
  BY DEF PwrInit
<1>3. StandbyInv
  BY <1>1, <1>2 DEF StandbyInv, Ordered, CountsOnce
<1>4. ~started /\ next = 1 /\ queue = 0 /\ refused = {} /\ done \notin Types
  BY PwrMgmtAssumption DEF PwrInit
<1>5. 1 .. next - 1 = {} /\ ~(next > 1) /\ ~(queue > 0)
  BY <1>4
<1> QED
  BY <1>1, <1>3, <1>4, <1>5 DEF AgreedInv

LEMMA NextStandbyInv ==
  ASSUME TypeInv, StandbyInv, [PwrNext]_pwrVars
  PROVE  StandbyInv'
<1>1. /\ Timeout \in Nat /\ counter \in 0 .. Timeout /\ idle \in 0 .. Timeout + 1 /\ calls \in Seq(Frame)
      /\ counter <= idle /\ Ordered(calls) /\ CountsOnce(calls)
  BY PwrMgmtAssumption DEF TypeInv, PwrTypeOK, StandbyInv
<1>2. {"retry", "load", "store", "lock", "decide", "put", "run", "unlock"} \subseteq Steps
  BY DEF Steps
<1>3. /\ Levels = {0, 1, 2} /\ Main = 0 /\ Timer = 1 /\ Above = 2
      /\ \A f \in Frame : f.level \in Levels
  BY DEF Levels, Main, Timer, Above, Frame
<1>4. ASSUME NEW level \in Levels, NEW type \in Types \cup {CONTINUE, "none"}, NEW step \in Steps,
             ~Counting(Call(level, step, type)), calls' = <<Call(level, step, type)>> \o calls,
             MayPreempt(level), UNCHANGED <<counter, idle>>
      PROVE  StandbyInv'
  <2> DEFINE f == Call(level, step, type)
  <2>1. f \in Frame /\ f.level = level
    BY CallFrame DEF Call
  <2>2. calls # <<>> => Head(calls) \in Frame /\ Head(calls).level < level
    BY <1>4, TopFrame DEF MayPreempt, Top
  <2> HIDE DEF f
  <2>3. calls # <<>> => f.level >= Head(calls).level
    BY <1>3, <2>1, <2>2
  <2>4. Ordered(calls') /\ CountsOnce(calls') /\ CallsOf(calls') = {f} \cup CallsOf(calls)
    BY <1>1, <1>4, <2>1, <2>3, OrderedPushed, CallsOfPushed DEF f
  <2>5. \A g \in CallsOf(calls') : Counted(g, counter, idle)
    BY <1>4, <2>4 DEF f, StandbyInv, Counted, Counting
  <2> QED
    BY <1>1, <1>4, <2>4, <2>5 DEF StandbyInv
<1>5. ASSUME NEW f \in Frame, calls # <<>>, calls' = <<f>> \o Tail(calls), f.level = Top.level,
             Counting(f) => Counting(Top), Counted(f, counter, idle),
             UNCHANGED <<counter, idle>>
      PROVE  StandbyInv'
  <2>1. Ordered(calls') /\ CountsOnce(calls')
    BY <1>1, <1>5, OrderedReplaced DEF Top
  <2>2. CallsOf(calls') \subseteq {f} \cup CallsOf(calls)
    BY <1>5, CallsOfChanged
  <2> QED
    BY <1>1, <1>5, <2>1, <2>2 DEF StandbyInv
<1>6. ASSUME NEW step \in Steps \ {"retry", "load", "store"}, calls # <<>>, GoTo(step),
             UNCHANGED <<counter, idle>>
      PROVE  StandbyInv'
  <2> DEFINE f == [Top EXCEPT !.step = step]
  <2>1. f \in Frame /\ f.step = step /\ f.level = Top.level
    BY <1>6, TopFrame DEF Frame
  <2>2. calls' = <<f>> \o Tail(calls)
    BY <1>6 DEF GoTo
  <2> HIDE DEF f
  <2>3. ~Counting(f) /\ Counted(f, counter, idle)
    BY <2>1 DEF Counting, Counted
  <2> QED
    BY <1>5, <1>6, <2>1, <2>2, <2>3
<1>7. ASSUME calls # <<>>, Return, UNCHANGED <<counter, idle>> PROVE StandbyInv'
  <2>1. Ordered(calls') /\ CountsOnce(calls') /\ CallsOf(calls') \subseteq CallsOf(calls)
    BY <1>1, <1>7, OrderedTail, CallsOfTail DEF Return
  <2> QED
    BY <1>1, <1>7, <2>1 DEF StandbyInv
<1>8. ASSUME calls' = <<>>, counter' <= idle' PROVE StandbyInv'
  <2>1. DOMAIN calls' = {} /\ CallsOf(calls') = {}
    BY <1>8 DEF CallsOf
  <2> QED
    BY <1>8, <2>1 DEF StandbyInv, Ordered, CountsOnce
<1>9. CASE UNCHANGED pwrVars
  BY <1>9 DEF pwrVars, StandbyInv
<1>10. ASSUME NEW level \in Levels, NEW type \in Types, Request(level, type) PROVE StandbyInv'
  BY <1>2, <1>4, <1>10 DEF Request, Call, Counting
<1>11. ASSUME NEW h \in 1 .. Handlers, BecomesReady(h) PROVE StandbyInv'
  <2>1. CASE h \in refused
    <3>1. continuesAt \in Levels /\ CONTINUE \in Types \cup {CONTINUE, "none"}
      BY DEF TypeInv, PwrTypeOK
    <3>2. ~Counting(Call(continuesAt, "lock", CONTINUE))
      BY DEF Call, Counting
    <3>3. /\ calls' = <<Call(continuesAt, "lock", CONTINUE)>> \o calls /\ MayPreempt(continuesAt)
          /\ UNCHANGED <<counter, idle>>
      BY <1>11, <2>1 DEF BecomesReady
    <3> QED
      BY <1>2, <1>4, <3>1, <3>2, <3>3
  <2>2. CASE h \notin refused
    BY <1>11, <2>2 DEF BecomesReady, StandbyInv
  <2> QED
    BY <2>1, <2>2
<1>12. CASE Feed(Main)
  <2>1. calls # <<>> => Head(calls).level \in Levels /\ Head(calls).level < 0
    BY <1>3, <1>12, TopFrame DEF Feed, MayPreempt, Top
  <2>2. calls = <<>>
    BY <1>3, <2>1
  <2> QED
    BY <1>8, <1>12, <2>2 DEF Feed
<1>13. CASE Scheduled
  BY <1>2, <1>3, <1>4, <1>13 DEF Scheduled, Call, Counting
<1>14. CASE Tick
  <2> DEFINE f == Call(Timer, "retry", "none")
  <2>1. f \in Frame /\ f.level = Timer /\ f.step = "retry"
    BY <1>2, <1>3, CallFrame DEF Call
  <2>2. ASSUME NEW i \in DOMAIN calls PROVE ~Counting(calls[i])
    <3>1. calls # <<>> /\ Head(calls) = calls[1] /\ 1 \in DOMAIN calls /\ i \in Nat /\ i >= 1
      BY <1>1, <2>2, EmptySeq, LenProperties, HeadTailProperties
    <3>2. calls[1].level < Timer /\ calls[1].level \in Levels /\ calls[i].level \in Levels
      BY <1>1, <1>3, <1>14, <3>1, LenProperties, ElementOfSeq DEF Tick, MayPreempt
    <3>3. calls[1].level >= calls[i].level
      BY <1>1, <1>3, <3>1, <3>2 DEF Ordered
    <3>4. calls[i].level # Timer
      BY <1>3, <3>2, <3>3
    <3> QED
      BY <3>4 DEF StandbyInv, Counted, CallsOf
  <2>3. calls # <<>> => f.level >= Head(calls).level
    <3>1. calls # <<>> => Head(calls).level \in Levels /\ Head(calls).level < Timer
      BY <1>3, <1>14, TopFrame DEF Tick, MayPreempt, Top
    <3> HIDE DEF f
    <3> QED
      BY <1>3, <2>1, <3>1
  <2>4. calls' = <<f>> \o calls /\ counter' = counter
    BY <1>14 DEF Tick
  <2>5. counter < idle' /\ counter <= idle'
    BY <1>1, <1>14 DEF Tick
  <2> HIDE DEF f
  <2>6. Ordered(calls') /\ CountsOnce(calls') /\ CallsOf(calls') = {f} \cup CallsOf(calls)
    BY <1>1, <2>1, <2>2, <2>3, <2>4, OrderedPushed, CallsOfPushed
  <2>7. ASSUME NEW g \in CallsOf(calls') PROVE Counted(g, counter', idle')
    <3>1. CASE g = f
      BY <2>1, <2>4, <2>5, <3>1 DEF Counted
    <3>2. CASE g # f
      BY <2>2, <2>6, <2>7, <3>2 DEF CallsOf, Counted, Counting
    <3> QED
      BY <3>1, <3>2
  <2> QED
    BY <2>4, <2>5, <2>6, <2>7 DEF StandbyInv
<1>15. CASE Lock
  BY <1>2, <1>6, <1>7, <1>15 DEF Lock, At
<1>16. CASE Decide
  <2>1. Work \in Steps \ {"retry", "load", "store"}
    BY <1>2 DEF Work
  <2> QED
    BY <1>2, <1>6, <1>16, <2>1 DEF Decide, At, Abandon
<1>17. CASE Put
  BY <1>1, <1>2, <1>6, <1>8, <1>17 DEF Put, At
<1>18. CASE Ask
  <2>1. CASE next \in ready
    BY <1>18, <2>1 DEF Ask, StandbyInv
  <2>2. CASE next \notin ready
    BY <1>2, <1>6, <1>7, <1>18, <2>2 DEF Ask, At
  <2> QED
    BY <2>1, <2>2
<1>19. CASE GoDown
  BY <1>1, <1>8, <1>19 DEF GoDown
<1>20. CASE Unlock
  BY <1>7, <1>20 DEF Unlock, At
<1>21. CASE Retry
  <2> DEFINE f == [Top EXCEPT !.step = "load"]
             g == Call(Timer, "lock", CONTINUE)
             rest == <<f>> \o Tail(calls)
  <2>1. /\ calls # <<>> /\ Top.step = "retry" /\ Top \in Frame /\ Counted(Top, counter, idle)
        /\ UNCHANGED <<counter, idle>>
    BY <1>21, TopFrame DEF Retry, At, StandbyInv
  <2>2. f \in Frame /\ f.step = "load" /\ f.level = Top.level /\ Top.level = Timer
    BY <1>2, <2>1, TopFrame DEF Frame, Counted, Counting
  <2>3. g \in Frame /\ g.step = "lock" /\ g.level = Timer
    BY <1>2, <1>3, CallFrame DEF Call
  <2>4. calls' = IF autoRetry /\ started THEN <<g>> \o rest ELSE rest
    BY <1>21, <2>2, <2>3, Retried
  <2>5. /\ rest \in Seq(Frame) /\ Head(rest) = f
        /\ CallsOf(rest) \subseteq {f} \cup CallsOf(calls)
        /\ CallsOf(<<g>> \o rest) \subseteq {f, g} \cup CallsOf(calls)
    <3>1. Tail(calls) \in Seq(Frame)
      BY <1>1, <2>1, Replaced
    <3> QED
      BY <2>1, <2>2, <2>3, <3>1, CallPushed, CallsOfChanged
  <2> HIDE DEF f, g
  <2>6. Counting(Top) /\ ~Counting(g) /\ Counted(f, counter, idle) /\ Counted(g, counter, idle)
    BY <2>1, <2>2, <2>3 DEF Counting, Counted
  <2>7. Ordered(rest) /\ CountsOnce(rest)
    BY <1>1, <2>1, <2>2, <2>6, OrderedReplaced DEF Top
  <2> HIDE DEF rest
  <2>8. g.level >= f.level
    BY <1>3, <2>2, <2>3
  <2>9. Ordered(<<g>> \o rest) /\ CountsOnce(<<g>> \o rest)
    BY <2>3, <2>5, <2>6, <2>7, <2>8, OrderedPushed
  <2>10. Ordered(calls') /\ CountsOnce(calls') /\ CallsOf(calls') \subseteq {f, g} \cup CallsOf(calls)
    BY <2>4, <2>5, <2>7, <2>9
  <2> QED
    BY <1>1, <2>1, <2>6, <2>10 DEF StandbyInv
<1>22. CASE Check
  <2>1. /\ calls # <<>> /\ Top.step = "load" /\ Top \in Frame /\ Counted(Top, counter, idle)
        /\ Counting(Top) /\ Top.level = Timer /\ counter < idle /\ UNCHANGED <<counter, idle>>
    BY <1>22, TopFrame DEF Check, At, StandbyInv, Counted, Counting
  <2>2. CASE ~IsIdle(counter)
    <3> DEFINE f == [Top EXCEPT !.step = "store", !.value = counter + 1]
    <3>1. counter + 1 \in 0 .. Timeout /\ counter + 1 <= idle
      BY <1>1, <2>1, <2>2 DEF IsIdle
    <3>2. f \in Frame /\ f.level = Top.level /\ f.step = "store" /\ f.value = counter + 1
      BY <1>2, <2>1, <3>1 DEF Frame
    <3>3. calls' = <<f>> \o Tail(calls)
      BY <1>22, <2>2 DEF Check
    <3> HIDE DEF f
    <3>4. Counted(f, counter, idle)
      BY <2>1, <3>1, <3>2 DEF Counted
    <3> QED
      BY <1>5, <2>1, <3>2, <3>3, <3>4
  <2>3. CASE IsIdle(counter) /\ started
    BY <1>7, <1>22, <2>1, <2>3 DEF Check
  <2>4. CASE IsIdle(counter) /\ ~started
    <3> DEFINE f == Call(Timer, "lock", GOTO_SYSOFF)
    <3>1. f \in Frame /\ f.level = Timer /\ f.step = "lock"
      BY <1>2, <1>3, PwrMgmtAssumption, CallFrame DEF Call
    <3>2. calls' = <<f>> \o Tail(calls)
      BY <1>22, <2>4 DEF Check
    <3> HIDE DEF f
    <3>3. ~Counting(f) /\ Counted(f, counter, idle)
      BY <3>1 DEF Counted, Counting
    <3> QED
      BY <1>5, <2>1, <3>1, <3>2, <3>3
  <2> QED
    BY <2>2, <2>3, <2>4
<1>23. CASE Count
  <2>1. /\ calls # <<>> /\ Top.step = "store" /\ Top.value <= idle /\ Counting(Head(calls))
        /\ counter' = Top.value /\ idle' = idle /\ calls' = Tail(calls)
    BY <1>23, TopFrame DEF Count, At, Return, StandbyInv, Counted, Counting, Top
  <2>2. /\ Ordered(calls') /\ CountsOnce(calls') /\ calls' \in Seq(Frame)
        /\ \A i \in DOMAIN calls' : ~Counting(calls'[i])
    BY <1>1, <2>1, OrderedTail, HeadTailProperties
  <2>3. \A f \in CallsOf(calls') : Counted(f, counter', idle')
    BY <2>2 DEF CallsOf, Counted, Counting
  <2> QED
    BY <2>1, <2>2, <2>3 DEF StandbyInv
<1>24. CASE PwrStep
  BY <1>15, <1>16, <1>17, <1>18, <1>19, <1>20, <1>21, <1>22, <1>23, <1>24 DEF PwrStep
<1> QED
  BY <1>9, <1>10, <1>11, <1>12, <1>13, <1>14, <1>24 DEF PwrNext

\* The timer asks for System OFF only when the seconds are more than Timeout.
LEMMA CheckIsEarned ==
  ASSUME TypeInv, StandbyInv, Check, Len(calls') = Len(calls), calls'[1].step = "lock"
  PROVE  idle > Timeout
<1>1. /\ calls # <<>> /\ Top.step = "load" /\ Top \in Frame /\ counter < idle
      /\ Timeout \in Nat /\ counter \in 0 .. Timeout /\ idle \in 0 .. Timeout + 1 /\ calls \in Seq(Frame)
  BY PwrMgmtAssumption, TopFrame DEF Check, At, TypeInv, PwrTypeOK, StandbyInv, Counted
<1>2. CASE IsIdle(counter)
  BY <1>1, <1>2 DEF IsIdle
<1>3. CASE ~IsIdle(counter)
  <2> DEFINE f == [Top EXCEPT !.step = "store", !.value = counter + 1]
  <2>1. counter + 1 \in 0 .. Timeout
    BY <1>1, <1>3 DEF IsIdle
  <2>2. f \in Frame /\ f.step = "store"
    BY <1>1, <2>1 DEF Frame, Steps
  <2>3. calls' = <<f>> \o Tail(calls)
    BY <1>3 DEF Check
  <2> HIDE DEF f
  <2>4. calls'[1] = f
    BY <1>1, <2>2, <2>3, Replaced
  <2> QED
    BY <2>2, <2>4
<1> QED
  BY <1>2, <1>3

-----------------------------------------------------------------------------
\* The invariant on which the theorems below rest: the calls in progress, who
\* has been asked for what, and the seconds that have been counted.
THEOREM PwrInvariant == PwrSpec => [](TypeInv /\ AgreedInv /\ StandbyInv)
<1> DEFINE Inv == TypeInv /\ AgreedInv /\ StandbyInv
<1>1. PwrInit => Inv
  BY InitTypeInv, InitInvs
<1>2. Inv /\ [PwrNext]_pwrVars => Inv'
  BY NextTypeInv, NextAgreedInv, NextStandbyInv
<1> QED
  BY <1>1, <1>2, PTL DEF PwrSpec

\* The device goes down only in a way to which every module has agreed, however
\* many shutdowns are requested, continued and retried meanwhile, and turns
\* itself off only when more than Timeout seconds have passed without activity
\* (shutdown_process, pwr_mgmt_standby_timeout_check).
THEOREM GoesDownWhenAgreed == PwrSpec => DownWhenAgreed
<1> DEFINE Inv == TypeInv /\ AgreedInv /\ StandbyInv
           Earned == (Check /\ Len(calls') = Len(calls) /\ calls'[1].step = "lock") => idle > Timeout
<1>1. Inv => PwrTypeOK /\ AgreedByAll
  <2> SUFFICES ASSUME Inv, done \in Types, NEW h \in 1 .. Handlers
               PROVE  agreed[h] = done
    BY DEF TypeInv, AgreedByAll
  <2>1. 1 .. next - 1 = 1 .. Handlers
    BY PwrMgmtAssumption DEF AgreedInv
  <2> QED
    BY <2>1 DEF AgreedInv
<1>2. Inv /\ [PwrNext]_pwrVars => [Earned]_pwrVars
  BY CheckIsEarned
<1> QED
  BY <1>1, <1>2, PwrInvariant, PTL DEF PwrSpec, DownWhenAgreed, StandbyIsEarned

-----------------------------------------------------------------------------
(* Buttons: what the events mean.                                          *)

\* Every link that is up was counted against the bound.
LinksInv == links + budget.other <= MaxOther

\* While the timer of long pushes runs, the button it was started for has not
\* been reported as released, unless the timer could not be stopped.
HeldInv == longTimer /\ ~missed => reported[longPin] = "pushed"

\* What a release means was kept when the push was reported.
MeantInv == \A b \in Ids : releaseAt[b] = "sleep" => linksAt[b] = 0

ButtonsInv == ButtonsTypeOK /\ LinksInv /\ HeldInv /\ MeantInv /\ SleepIsMeant

-----------------------------------------------------------------------------
Budgets == [edges : 0 .. MaxEdges, full : 0 .. MaxFull, other : 0 .. MaxOther]
IrqTypes == [at : {"idle", "port", "timer"}, input : [Ids -> BOOLEAN], next : 0 .. ButtonCount, repeat : BOOLEAN]

LEMMA FirstButton == 0 \in Ids /\ 0 \in 0 .. ButtonCount
BY ButtonsAssumption DEF Ids

LEMMA LevelsAreTwo == \A h \in BOOLEAN : LevelOf(h) \in {"high", "low", "none"} /\ Opposite(h) \in {"high", "low", "none"}
BY DEF LevelOf, Opposite

LEMMA EventsOfButtons ==
  \A b \in Ids : {PushEvent(b), LongEvent(b), ReleaseEvent(b), ReleaseGives(b)} \subseteq Events
BY DEF PushEvent, LongEvent, ReleaseEvent, ReleaseGives, Events

\* No step gives back what is left of the bounds.
LEMMA Spent ==
  ASSUME ButtonsTypeOK, NEW what \in {"edges", "full", "other"}, Spend(what)
  PROVE  /\ budget' \in Budgets
         /\ what # "other" => budget'.other = budget.other
         /\ what = "other" => budget'.other = budget.other - 1
BY ButtonsAssumption DEF ButtonsTypeOK, Spend, Budgets

\* The bounds after a call of the timer.
LEMMA TimerCalled ==
  ASSUME ButtonsTypeOK, TimerAccepts \/ TimerFull
  PROVE  /\ budget' \in Budgets
         /\ budget'.other = budget.other
         /\ missed' \in BOOLEAN /\ (missed => missed')
<1>1. CASE TimerAccepts
  BY <1>1 DEF TimerAccepts, ButtonsTypeOK, Budgets
<1>2. CASE TimerFull
  BY <1>2, Spent DEF TimerFull, ButtonsTypeOK
<1> QED
  BY <1>1, <1>2

\* IrqTypes that do not reach the application, and the pins.
LEMMA Unreported ==
  ASSUME ButtonsInv, UNCHANGED <<bsp, links>>,
         high' \in [Ids -> BOOLEAN], sense' \in [Ids -> {"high", "low", "none"}], port' \in BOOLEAN,
         irq' \in IrqTypes, state' \in [Ids -> BOOLEAN], transition' \subseteq Ids, detection' \in BOOLEAN,
         missed' \in BOOLEAN, missed => missed', budget' \in Budgets, budget'.other <= budget.other
  PROVE  ButtonsInv'
<1>1. ButtonsTypeOK'
  BY DEF ButtonsInv, ButtonsTypeOK, bsp, IrqTypes, Budgets
<1>2. budget.other \in Nat /\ budget'.other \in Nat /\ links \in Nat /\ links' = links
  BY ButtonsAssumption DEF ButtonsInv, ButtonsTypeOK, Budgets
<1>3. LinksInv'
  BY <1>2, ButtonsAssumption DEF ButtonsInv, LinksInv
<1>4. HeldInv' /\ MeantInv' /\ SleepIsMeant'
  BY DEF ButtonsInv, HeldInv, MeantInv, SleepIsMeant, bsp
<1> QED
  BY <1>1, <1>3, <1>4 DEF ButtonsInv

\* What the steps below leave alone has its type.
LEMMA Typed ==
  ASSUME ButtonsInv
  PROVE  /\ high \in [Ids -> BOOLEAN] /\ sense \in [Ids -> {"high", "low", "none"}] /\ port \in BOOLEAN
         /\ irq \in IrqTypes /\ state \in [Ids -> BOOLEAN] /\ transition \subseteq Ids /\ detection \in BOOLEAN
         /\ missed \in BOOLEAN /\ budget \in Budgets /\ budget.other <= budget.other
BY ButtonsAssumption DEF ButtonsInv, ButtonsTypeOK, IrqTypes, Budgets

LEMMA EdgeKeeps ==
  ASSUME ButtonsInv, NEW b \in Ids, Edge(b)
  PROVE  ButtonsInv'
<1>1. ButtonsTypeOK /\ Spend("edges") /\ UNCHANGED <<sense, irq, state, transition, detection, bsp, links, missed>>
  BY DEF Edge, ButtonsInv, waits
<1>2. high' \in [Ids -> BOOLEAN] /\ port' \in BOOLEAN
  BY <1>1, Typed DEF Edge, Latch
<1>3. budget' \in Budgets /\ budget'.other <= budget.other
  BY <1>1, Spent, Typed
<1> QED
  BY <1>1, <1>2, <1>3, Typed, Unreported

\* The pins' interrupt begins, ends, or looks again.
LEMMA PortEventKeeps ==
  ASSUME ButtonsInv, PortEvent \/ PortDone
  PROVE  ButtonsInv'
<1>1. /\ UNCHANGED <<high, sense, state, transition, detection, bsp, links, missed, budget>>
      /\ port' \in BOOLEAN
  BY Typed DEF PortEvent, PortDone, pins, waits
<1>2. Idle \in IrqTypes /\ [Idle EXCEPT !.at = "port", !.input = high] \in IrqTypes
  BY Typed, FirstButton DEF Idle, IrqTypes
<1>3. irq' \in IrqTypes
  BY <1>2 DEF PortEvent, PortDone
<1> QED
  BY <1>1, <1>3, Typed, Unreported

LEMMA PinKeeps ==
  ASSUME ButtonsInv, Pin
  PROVE  ButtonsInv'
<1> DEFINE b == irq.next
<1>1. b \in Ids /\ b + 1 \in 0 .. ButtonCount /\ irq.input[b] \in BOOLEAN /\ high[b] \in BOOLEAN
  BY Typed, ButtonsAssumption DEF Pin, Ids, IrqTypes
<1>2. /\ UNCHANGED <<high, bsp, links>>
      /\ port' \in BOOLEAN
  BY Typed DEF Pin, Latch
<1>3. CASE gpiote_event_handler(b) /\ sense' = [sense EXCEPT ![b] = Opposite(irq.input[b])]
           /\ irq' = [irq EXCEPT !.next = b + 1, !.repeat = TRUE]
  <2>1. TimerFull \/ TimerAccepts
    BY <1>3 DEF gpiote_event_handler
  <2>2. budget' \in Budgets /\ budget'.other <= budget.other /\ missed' \in BOOLEAN /\ (missed => missed')
    BY <2>1, TimerCalled, Typed DEF ButtonsInv
  <2>3. state' \in [Ids -> BOOLEAN] /\ transition' \subseteq Ids /\ detection' \in BOOLEAN
    BY <1>1, <1>3, Typed DEF gpiote_event_handler, waits
  <2>4. sense' \in [Ids -> {"high", "low", "none"}]
    BY <1>1, <1>3, Typed, LevelsAreTwo
  <2>5. irq' \in IrqTypes
    BY <1>1, <1>3, Typed DEF IrqTypes
  <2> QED
    BY <1>2, <2>2, <2>3, <2>4, <2>5, Typed, Unreported
<1>4. CASE irq' = [irq EXCEPT !.next = b + 1] /\ UNCHANGED <<sense, waits, missed, budget>>
  <2>1. irq' \in IrqTypes
    BY <1>1, <1>4, Typed DEF IrqTypes
  <2> QED
    BY <1>2, <1>4, <2>1, Typed, Unreported DEF waits
<1> QED
  BY <1>3, <1>4 DEF Pin

\* The end of the delay is dealt with, from the first button to the last.
LEMMA DetectionKeeps ==
  ASSUME ButtonsInv, DetectionEnds \/ ButtonsDone
  PROVE  ButtonsInv'
<1>1. /\ UNCHANGED <<high, sense, port, state, transition, bsp, links, missed, budget>>
      /\ detection' \in BOOLEAN
  BY Typed DEF DetectionEnds, ButtonsDone, pins, waits
<1>2. Idle \in IrqTypes /\ [Idle EXCEPT !.at = "timer"] \in IrqTypes
  BY FirstButton DEF Idle, IrqTypes
<1>3. irq' \in IrqTypes
  BY <1>2 DEF DetectionEnds, ButtonsDone
<1> QED
  BY <1>1, <1>3, Typed, Unreported

\* What a step of the application's handlers does not touch has its type, so
\* only what they report remains to be shown.
LEMMA Reported ==
  ASSUME ButtonsInv, UNCHANGED <<high, sense, port, state, links>>,
         irq' \in IrqTypes, transition' \subseteq Ids, detection' \in BOOLEAN,
         missed' \in BOOLEAN, budget' \in Budgets, budget'.other = budget.other,
         longTimer' \in BOOLEAN, longPin' \in Ids, releaseAt' \in [Ids -> Events],
         reported' \in [Ids -> {"pushed", "released"}], linksAt' \in [Ids -> -1 .. MaxOther],
         given' \in [event : Events, of : Ids],
         HeldInv', MeantInv', SleepIsMeant'
  PROVE  ButtonsInv'
<1>1. ButtonsTypeOK'
  BY Typed DEF ButtonsInv, ButtonsTypeOK, IrqTypes, Budgets
<1>2. LinksInv'
  BY DEF ButtonsInv, LinksInv
<1> QED
  BY <1>1, <1>2 DEF ButtonsInv

LEMMA PushKeeps ==
  ASSUME ButtonsInv, NEW b \in Ids, Push(b), UNCHANGED <<high, sense, port, state, detection, links>>,
         irq' \in IrqTypes, transition' \subseteq Ids
  PROVE  ButtonsInv'
<1>1. /\ reported' = [reported EXCEPT ![b] = "pushed"]
      /\ linksAt' = [linksAt EXCEPT ![b] = links]
      /\ releaseAt' = [releaseAt EXCEPT ![b] = ReleaseEvent(b)]
      /\ given' = [event |-> "key", of |-> b]
      /\ UNCHANGED <<longTimer, longPin>> \/ (longTimer' = TRUE /\ longPin' = b)
  BY DEF Push, Give, PushEvent
<1>2. TimerAccepts \/ TimerFull
  BY DEF Push
<1>3. /\ budget' \in Budgets /\ budget'.other = budget.other
      /\ missed' \in BOOLEAN /\ (missed => missed')
  BY <1>2, TimerCalled DEF ButtonsInv
<1>4. /\ reported \in [Ids -> {"pushed", "released"}] /\ linksAt \in [Ids -> -1 .. MaxOther]
      /\ releaseAt \in [Ids -> Events] /\ links \in -1 .. MaxOther /\ ReleaseEvent(b) \in Events
      /\ longTimer \in BOOLEAN /\ longPin \in Ids
  BY EventsOfButtons, ButtonsAssumption DEF ButtonsInv, ButtonsTypeOK
<1>5. longTimer' \in BOOLEAN /\ longPin' \in Ids
  BY <1>1, <1>4
<1>6. /\ reported' \in [Ids -> {"pushed", "released"}] /\ linksAt' \in [Ids -> -1 .. MaxOther]
      /\ releaseAt' \in [Ids -> Events]
  BY <1>1, <1>4
<1>7. given' \in [event : Events, of : Ids]
  BY <1>1 DEF Events
<1>8. HeldInv'
  BY <1>1, <1>3, <1>4 DEF ButtonsInv, HeldInv
<1>9. MeantInv'
  <2>1. ReleaseEvent(b) = "sleep" => links = 0
    BY DEF ReleaseEvent
  <2> QED
    BY <1>1, <1>4, <2>1 DEF ButtonsInv, MeantInv
<1>10. SleepIsMeant'
  BY <1>1 DEF SleepIsMeant
<1> QED
  BY <1>3, <1>5, <1>6, <1>7, <1>8, <1>9, <1>10, Typed, Reported

LEMMA ReleaseKeeps ==
  ASSUME ButtonsInv, NEW b \in Ids, Release(b), UNCHANGED <<high, sense, port, state, detection, links>>,
         irq' \in IrqTypes, transition' \subseteq Ids
  PROVE  ButtonsInv'
<1>1. /\ reported' = [reported EXCEPT ![b] = "released"]
      /\ given' = [event |-> ReleaseGives(b), of |-> b]
      /\ UNCHANGED <<longPin, releaseAt, linksAt>>
      /\ (TimerAccepts /\ longTimer' = FALSE) \/ (TimerFull /\ UNCHANGED longTimer)
  BY DEF Release, Give, StopLong
<1>2. /\ budget' \in Budgets /\ budget'.other = budget.other
      /\ missed' \in BOOLEAN
  BY <1>1, TimerCalled DEF ButtonsInv
<1>3. /\ reported \in [Ids -> {"pushed", "released"}] /\ linksAt \in [Ids -> -1 .. MaxOther]
      /\ releaseAt \in [Ids -> Events] /\ longTimer \in BOOLEAN /\ longPin \in Ids
  BY DEF ButtonsInv, ButtonsTypeOK
<1>4. longTimer' \in BOOLEAN
  BY <1>1, <1>3
<1>5. reported' \in [Ids -> {"pushed", "released"}]
  BY <1>1, <1>3
<1>6. given' \in [event : Events, of : Ids]
  BY <1>1, EventsOfButtons
<1>7. longTimer' => missed'
  BY <1>1 DEF TimerFull
<1>8. SleepIsMeant'
  <2>1. ReleaseGives(b) = "sleep" => releaseAt[b] = "sleep"
    BY DEF ReleaseGives
  <2> QED
    BY <1>1, <2>1 DEF ButtonsInv, MeantInv, SleepIsMeant
<1>9. HeldInv' /\ MeantInv'
  BY <1>1, <1>7 DEF ButtonsInv, HeldInv, MeantInv
<1> QED
  BY <1>1, <1>2, <1>3, <1>4, <1>5, <1>6, <1>8, <1>9, Typed, Reported

LEMMA ButtonKeeps ==
  ASSUME ButtonsInv, Button
  PROVE  ButtonsInv'
<1> DEFINE b == irq.next
<1>1. b \in Ids /\ b + 1 \in 0 .. ButtonCount
  BY Typed, ButtonsAssumption DEF Button, ButtonsLeft, Ids, IrqTypes
<1>2. UNCHANGED <<high, sense, port, state, detection, links>>
  BY DEF Button, pins
<1>3. irq' \in IrqTypes
  BY <1>1, Typed DEF Button, IrqTypes
<1>4. transition' \subseteq Ids
  BY Typed DEF Button
<1>5. CASE Push(b)
  BY <1>1, <1>2, <1>3, <1>4, <1>5, PushKeeps
<1>6. CASE Release(b)
  BY <1>1, <1>2, <1>3, <1>4, <1>6, ReleaseKeeps
<1>7. CASE TimerAccepts /\ UNCHANGED bsp
  BY <1>2, <1>3, <1>4, <1>7, Typed, Unreported DEF TimerAccepts
<1> QED
  BY <1>5, <1>6, <1>7 DEF Button

LEMMA LongPushKeeps ==
  ASSUME ButtonsInv, LongPush
  PROVE  ButtonsInv'
<1>1. /\ UNCHANGED <<high, sense, port, irq, state, transition, detection, longPin, releaseAt, links, reported,
                     linksAt, missed, budget>>
      /\ longTimer' = FALSE /\ given' = [event |-> LongEvent(longPin), of |-> longPin]
  BY DEF LongPush, Give, pins, waits
<1>2. longPin \in Ids /\ LongEvent(longPin) \in Events /\ LongEvent(longPin) # "sleep"
  BY EventsOfButtons DEF ButtonsInv, ButtonsTypeOK, LongEvent
<1>3. given' \in [event : Events, of : Ids]
  BY <1>1, <1>2
<1>4. HeldInv' /\ MeantInv' /\ SleepIsMeant'
  BY <1>1, <1>2 DEF ButtonsInv, HeldInv, MeantInv, SleepIsMeant
<1>5. /\ longTimer' \in BOOLEAN /\ longPin' \in Ids /\ releaseAt' \in [Ids -> Events]
      /\ reported' \in [Ids -> {"pushed", "released"}] /\ linksAt' \in [Ids -> -1 .. MaxOther]
  BY <1>1 DEF ButtonsInv, ButtonsTypeOK
<1> QED
  BY <1>1, <1>3, <1>4, <1>5, Typed, Reported

\* A link comes or goes: what was kept of a push stays as it was.
LEMMA LinkKeeps ==
  ASSUME ButtonsInv, Connected \/ Disconnected
  PROVE  ButtonsInv'
<1>1. UNCHANGED <<high, sense, port, irq, state, transition, detection, bsp, missed>>
  BY DEF Connected, Disconnected, pins, waits
<1>2. budget \in Budgets /\ budget.other \in 0 .. MaxOther /\ links \in 0 .. MaxOther
      /\ links + budget.other <= MaxOther
  BY Typed DEF ButtonsInv, ButtonsTypeOK, LinksInv, Budgets
<1>3. budget' \in Budgets /\ links' \in 0 .. MaxOther /\ links' + budget'.other <= MaxOther
  <2>1. CASE Connected
    <3>1. budget' \in Budgets /\ budget'.other = budget.other - 1 /\ links' = links + 1
      BY <2>1, Spent DEF Connected, ButtonsInv
    <3>2. budget'.other \in 0 .. MaxOther
      BY <3>1 DEF Budgets
    <3> QED
      BY <1>2, <3>1, <3>2, ButtonsAssumption
  <2>2. CASE Disconnected
    <3>1. budget' = budget /\ links > 0 /\ links' = links - 1
      BY <2>2 DEF Disconnected
    <3> QED
      BY <1>2, <3>1, ButtonsAssumption
  <2> QED
    BY <2>1, <2>2
<1>4. ButtonsTypeOK'
  BY <1>1, <1>3 DEF ButtonsInv, ButtonsTypeOK, bsp, Budgets
<1>5. HeldInv' /\ MeantInv' /\ SleepIsMeant'
  BY <1>1 DEF ButtonsInv, HeldInv, MeantInv, SleepIsMeant, bsp
<1> QED
  BY <1>3, <1>4, <1>5 DEF ButtonsInv, LinksInv

LEMMA EnableKeeps ==
  ASSUME ButtonsInv, app_button_disable \/ app_button_enable
  PROVE  ButtonsInv'
<1>1. UNCHANGED <<high, port, irq, state, transition, bsp, links>>
  BY DEF app_button_disable, app_button_enable, waits
<1>2. sense' \in [Ids -> {"high", "low", "none"}]
  BY Typed, LevelsAreTwo DEF app_button_disable, app_button_enable
<1>3. CASE app_button_disable
  <2>1. detection' = FALSE /\ missed' = TRUE
    BY <1>3 DEF app_button_disable
  <2>2. budget' \in Budgets /\ budget'.other = budget.other - 1
    BY <1>3, Spent DEF app_button_disable, ButtonsInv
  <2>3. budget'.other <= budget.other
    BY <2>2, Typed DEF Budgets
  <2> QED
    BY <1>1, <1>2, <2>1, <2>2, <2>3, Typed, Unreported
<1>4. CASE app_button_enable
  <2>1. UNCHANGED <<detection, missed, budget>>
    BY <1>4 DEF app_button_enable, waits
  <2> QED
    BY <1>1, <1>2, <2>1, Typed, Unreported
<1> QED
  BY <1>3, <1>4

LEMMA ButtonsStart == ButtonsInit => ButtonsInv
<1> SUFFICES ASSUME ButtonsInit PROVE ButtonsInv
  OBVIOUS
<1>1. ButtonsTypeOK
  <2>1. irq \in IrqTypes
    BY FirstButton DEF ButtonsInit, Idle, IrqTypes
  <2>2. high \in [Ids -> BOOLEAN] /\ sense \in [Ids -> {"high", "low", "none"}] /\ port \in BOOLEAN
    BY LevelsAreTwo DEF ButtonsInit
  <2>3. reported \in [Ids -> {"pushed", "released"}]
    BY DEF ButtonsInit, Steady
  <2>4. /\ state \in [Ids -> BOOLEAN] /\ transition \subseteq Ids /\ detection \in BOOLEAN
        /\ longTimer \in BOOLEAN /\ longPin \in Ids /\ missed \in BOOLEAN
    BY FirstButton DEF ButtonsInit
  <2>5. releaseAt \in [Ids -> Events] /\ given \in [event : Events, of : Ids]
    BY FirstButton DEF ButtonsInit, Events
  <2>6. links \in 0 .. MaxOther /\ linksAt \in [Ids -> -1 .. MaxOther] /\ budget \in Budgets
    BY ButtonsAssumption DEF ButtonsInit, Budgets
  <2> QED
    BY <2>1, <2>2, <2>3, <2>4, <2>5, <2>6 DEF ButtonsTypeOK, IrqTypes, Budgets
<1>2. LinksInv
  BY ButtonsAssumption DEF ButtonsInit, LinksInv
<1>3. HeldInv /\ MeantInv /\ SleepIsMeant
  BY DEF ButtonsInit, HeldInv, MeantInv, SleepIsMeant
<1> QED
  BY <1>1, <1>2, <1>3 DEF ButtonsInv

LEMMA ButtonsStep ==
  ASSUME ButtonsInv, [ButtonsNext]_buttonVars
  PROVE  ButtonsInv'
<1>1. CASE UNCHANGED buttonVars
  BY <1>1, Typed, Unreported DEF buttonVars, pins, waits
<1>2. CASE Interrupts
  BY <1>2, PortEventKeeps, PinKeeps, DetectionKeeps, ButtonKeeps DEF Interrupts
<1> QED
  BY <1>1, <1>2, EdgeKeeps, LongPushKeeps, LinkKeeps, EnableKeeps DEF ButtonsNext
-----------------------------------------------------------------------------
(* The theorems.                                                           *)

\* Between a push and its release the release keeps the meaning it had at the
\* push, and the timer of long pushes runs only for a button that is held.
THEOREM PushIsRemembered == ButtonsSpec => []ButtonsInv
BY ButtonsStart, ButtonsStep, PTL DEF ButtonsSpec

\* The device is told to sleep only by a button pushed and released without a
\* link, and a long push is of a button that is held (bsp.c, bsp_btn_ble.c).
THEOREM NoEventUnmeant == ButtonsSpec => PushesAreMeant
<1>1. ButtonsInv => ButtonsTypeOK /\ SleepIsMeant
  BY DEF ButtonsInv
<1>2. ButtonsInv => [(LongPush /\ ~missed) => reported[longPin] = "pushed"]_buttonVars
  BY DEF ButtonsInv, HeldInv, LongPush
<1> QED
  BY <1>1, <1>2, PushIsRemembered, PTL DEF PushesAreMeant, LongPushIsHeld

=============================================================================
