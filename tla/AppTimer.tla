------------------------------ MODULE AppTimer ------------------------------
(***************************************************************************)
(* app_timer: software timers on the counter of RTC1, which wraps.         *)
(*                                                                         *)
(* app_timer_start and app_timer_stop only put an operation in a queue and *)
(* pend SWI0.  Its handler, and RTC1's, run at level 2 and do not preempt  *)
(* each other; the thread (level 1) and interrupts above (level 3) call    *)
(* in between, and so do timeout handlers and other interrupts of level 2. *)
(* The handler of SWI0 takes the expired timers from the list, applies the *)
(* operations one by one and sets the compare register.                    *)
(*                                                                         *)
(* Wrap stands for the 2^24 values of the counter.  The ghost left[t]     *)
(* counts the real ticks until timer t is due.                             *)
(***************************************************************************)
EXTENDS Integers, SequencesExt

CONSTANTS
  Timers,
  Repeated,      \* the timers of mode APP_TIMER_MODE_REPEATED
  Intervals,     \* the timeouts that timers are started with
  Wrap,         \* MAX_RTC_COUNTER_VAL + 1
  CompareOffset, \* RTC_COMPARE_OFFSET_MIN
  QueueSize,     \* APP_TIMER_CONFIG_OP_QUEUE_SIZE
  MaxCalls,      \* bound: calls of start, stop and stop_all; the last is one
                 \* that falls into a gap
  MaxBusy,       \* bound: ticks from an interrupt or call to the end of level 2
  Uses,          \* who uses which timer: a set of <<level, timer>>
  AllStoppers,   \* the levels that call app_timer_stop_all
  Careful        \* the callers keep to MayStop and MayStart below

None == "none"

ASSUME AppTimerAssumption ==
  /\ Wrap \in Nat \ {0, 1}
  /\ None \notin Timers /\ Repeated \subseteq Timers
  /\ Intervals \subseteq Nat \ {0}
  /\ CompareOffset \in Nat /\ QueueSize \in Nat /\ MaxBusy \in Nat /\ MaxCalls \in Nat
  /\ Uses \subseteq (1 .. 3) \X Timers
  /\ AllStoppers \subseteq 1 .. 3
  /\ Careful \in BOOLEAN

NoTicks == -1

VARIABLES
  counter, rtcOn, \* RTC1; m_rtc1_running and the interrupt enabled
  cc, skip,       \* CC[0]; it was written too late to match the next tick
  event, forced,  \* EVENTS_COMPARE[0]; RTC1_IRQn pended by software
  swi,            \* SWI0 is pending
  list, tte,      \* mp_timer_id_head and the nodes after it; ticks_to_expire
  isRunning, period,  \* is_running, ticks_periodic_interval
  latest, elapsed,    \* m_ticks_latest; the value in m_ticks_elapsed
  rtcReset,       \* m_rtc1_reset
  ops,            \* m_op_queue
  job,            \* what level 2 is doing, with its local variables
  stopping,       \* of levels 1 and 2: the timer app_timer_stop is working on
  left, stopped,  \* history: ticks until due; "yes" or "failed" since the last
                  \* app_timer_stop, "no" since the last app_timer_start
  busy,           \* history: ticks since level 2 had something to do
  calls,          \* history: calls made so far
  disturbed       \* history: a start fell into one of the gaps named below

rtc == <<counter, rtcOn, cc, skip, event, forced>>
nodes == <<list, tte, isRunning, period>>
ghosts == <<left, stopped, busy, calls, disturbed>>
vars == <<rtc, swi, nodes, latest, elapsed, rtcReset, ops, job, stopping, ghosts>>

Idle == [at |-> "idle"]
At(p) == job.at = p
Prompt == 3 * MaxBusy + CompareOffset + 1    \* bound of left from below when disturbed

AppTimerTypeOK ==
  /\ counter \in 0 .. Wrap - 1 /\ cc \in 0 .. Wrap - 1 /\ latest \in 0 .. Wrap - 1
  /\ {rtcOn, skip, event, forced, swi, rtcReset, disturbed} \subseteq BOOLEAN
  /\ list \in Seq(Timers)
  /\ tte \in [Timers -> Nat]
  /\ isRunning \in [Timers -> BOOLEAN]
  /\ period \in [Timers -> Intervals \cup {0}]
  /\ elapsed \in Nat \cup {NoTicks}
  /\ Len(ops) <= QueueSize
  /\ stopping \in [{1, 2} -> Timers \cup {None}]
  /\ left \in [Timers -> Int] /\ stopped \in [Timers -> {"no", "yes", "failed"}]
  /\ busy \in 0 .. MaxBusy /\ calls \in 0 .. MaxCalls

\* After app_timer_init and app_timer_create.
Init ==
  /\ counter = 0 /\ rtcOn = FALSE /\ cc = 0 /\ skip = FALSE
  /\ event = FALSE /\ forced = FALSE /\ swi = FALSE
  /\ list = <<>> /\ tte = [t \in Timers |-> 0]
  /\ isRunning = [t \in Timers |-> FALSE] /\ period = [t \in Timers |-> 0]
  /\ latest = 0 /\ elapsed = NoTicks /\ rtcReset = FALSE
  /\ ops = <<>> /\ job = Idle
  /\ stopping = [l \in {1, 2} |-> None]
  /\ left = [t \in Timers |-> 0] /\ stopped = [t \in Timers |-> "no"]
  /\ busy = 0 /\ calls = 0 /\ disturbed = FALSE
-----------------------------------------------------------------------------
(* The counter, and who may run.                                           *)

Diff(now, old) == (now - old) % Wrap   \* ticks_diff_get

RtcPending == rtcOn /\ (event \/ forced)
Quiet == At("idle") /\ ~swi /\ ~RtcPending /\ ops = <<>>

\* The timer is in the list, or on its way back into it.
Counting(t) == Contains(list, t) \/ (At("insert") /\ Contains(job.restart, t))

\* Time passes.  Level 2 finishes within MaxBusy ticks.
Tick ==
  /\ ~Quiet => busy < MaxBusy
  /\ busy' = IF Quiet THEN 0 ELSE busy + 1
  /\ IF rtcOn
     THEN /\ counter' = (counter + 1) % Wrap
          /\ event' = (event \/ (counter' = cc /\ ~skip))
          /\ skip' = (skip /\ counter' # cc)
     ELSE UNCHANGED <<counter, event, skip>>
  /\ left' = [t \in Timers |->
       IF Counting(t) /\ (disturbed => left[t] > -Prompt) THEN left[t] - 1 ELSE left[t]]
  /\ ops' = [i \in DOMAIN ops |-> [ops[i] EXCEPT !.age = @ + 1]]
  /\ UNCHANGED <<rtcOn, cc, forced, swi, nodes, latest, elapsed, rtcReset, job,
                 stopping, stopped, calls, disturbed>>

\* A handler of the application, or the thread, is running at this level.
Calling(level) ==
  \/ level = 1 /\ At("idle") /\ ~swi /\ ~RtcPending
  \/ level = 2 /\ job.at \in {"handler", "other"}
  \/ level = 3

\* Another interrupt of level 2 begins: it calls as timeout handlers do.
OtherEnter ==
  /\ At("idle")
  /\ \E t \in Timers : <<2, t>> \in Uses
  /\ job' = [at |-> "other"]
  /\ UNCHANGED <<rtc, swi, nodes, latest, elapsed, rtcReset, ops, stopping, ghosts>>

HandlerReturn ==
  /\ stopping[2] = None
  /\ \/ At("other") /\ job' = Idle
     \/ At("handler") /\ job' = [job EXCEPT !.at = "expire"]
  /\ UNCHANGED <<rtc, swi, nodes, latest, elapsed, rtcReset, ops, stopping, ghosts>>
-----------------------------------------------------------------------------
(* The calls.                                                              *)

Count == calls < MaxCalls /\ ~disturbed /\ calls' = calls + 1

\* With the queue full the caller is told NRF_ERROR_NO_MEM.
Enqueue(op) ==
  /\ Len(ops) < QueueSize
  /\ ops' = Append(ops, op)
  /\ swi' = TRUE

FromHandler(t) == At("handler") /\ job.timer = t

\* Gap 1: the handler of SWI0 has found no timer and is about to clear the
\* counter that this start has read, or has cleared it and takes zero for the
\* counter of every start.
GapClear == (job.at \in {"insert", "compare", "clear"} /\ list = <<>>) \/ rtcReset

\* Gap 2: app_timer_stop_all is not applied yet; a timer that takes the same
\* place at the head of the list again leaves the compare register as it was.
GapStopAll == \E i \in DOMAIN ops : ops[i].type = "stopall"

\* Gap 3: every timer was stopped in time and another one started, so that no
\* interrupt of RTC1 has moved m_ticks_latest for half the counter's range.
GapStale == Diff(counter, latest) >= (Wrap - 1) \div 2

\* What a caller must avoid, for the node of a timer that is not running but in
\* the list would be inserted again: to stop a running timer with a start of it
\* still in the queue, to start one that could not be stopped, and to start one
\* in the middle of app_timer_stop of another level.
MayStop(t) ==
  Careful => ~(isRunning[t] /\ \E i \in DOMAIN ops : ops[i].type = "start" /\ ops[i].timer = t)
MayStart(t) ==
  Careful => ~(stopped[t] = "failed" /\ Contains(list, t)) /\ t \notin {stopping[1], stopping[2]}

Start(level, t, ticks) ==
  /\ MayStart(t)
  /\ <<level, t>> \in Uses \/ (level = 2 /\ FromHandler(t))
  /\ Calling(level)
  /\ level < 3 => stopping[level] = None
  /\ Count
  /\ Enqueue([type |-> "start", timer |-> t, at |-> counter, ticks |-> ticks, age |-> 0])
  /\ stopped' = [stopped EXCEPT ![t] = "no"]
  /\ disturbed' = (disturbed \/ GapClear \/ GapStopAll \/ GapStale)
  /\ UNCHANGED <<rtc, nodes, latest, elapsed, rtcReset, job, stopping, left, busy>>

StopOp(t) == [type |-> "stop", timer |-> t, at |-> 0, ticks |-> 0, age |-> 0]

\* app_timer_stop marks the timer before it queues the operation.
StopBegin(level, t) ==
  /\ MayStop(t)
  /\ <<level, t>> \in Uses \/ (level = 2 /\ FromHandler(t))
  /\ level < 3 /\ Calling(level)
  /\ stopping[level] = None
  /\ Count
  /\ stopping' = [stopping EXCEPT ![level] = t]
  /\ isRunning' = [isRunning EXCEPT ![t] = FALSE]
  /\ UNCHANGED <<rtc, swi, list, tte, period, latest, elapsed, rtcReset, ops, job, left,
                 stopped, busy, disturbed>>

\* For the thread app_timer_stop returns when level 2 has applied the operation.
StopEnd(level) ==
  /\ Calling(level) /\ stopping[level] # None
  /\ stopping' = [stopping EXCEPT ![level] = None]
  /\ \/ /\ Enqueue(StopOp(stopping[level]))
        /\ stopped' = [stopped EXCEPT ![stopping[level]] = IF level = 1 THEN "no" ELSE "yes"]
     \/ /\ Len(ops) = QueueSize
        /\ stopped' = [stopped EXCEPT ![stopping[level]] = "failed"]
        /\ UNCHANGED <<ops, swi>>
  /\ UNCHANGED <<rtc, nodes, latest, elapsed, rtcReset, job, left, busy, calls,
                 disturbed>>

\* Nothing that uses the timers comes between the steps of level 3.
StopAbove(t) ==
  /\ MayStop(t)
  /\ <<3, t>> \in Uses
  /\ Count
  /\ isRunning' = [isRunning EXCEPT ![t] = FALSE]
  /\ \/ /\ Enqueue(StopOp(t))
        /\ stopped' = [stopped EXCEPT ![t] = "yes"]
     \/ /\ Len(ops) = QueueSize
        /\ stopped' = [stopped EXCEPT ![t] = "failed"]
        /\ UNCHANGED <<ops, swi>>
  /\ UNCHANGED <<rtc, list, tte, period, latest, elapsed, rtcReset, job, stopping, left,
                 busy, disturbed>>

StopAll(level) ==
  /\ level \in AllStoppers
  /\ Calling(level)
  /\ level < 3 => stopping[level] = None
  /\ Count
  /\ Enqueue([type |-> "stopall", timer |-> None, at |-> 0, ticks |-> 0, age |-> 0])
  /\ UNCHANGED <<rtc, nodes, latest, elapsed, rtcReset, job, stopping, left,
                 stopped, busy, disturbed>>
-----------------------------------------------------------------------------
(* The list, sorted by expiry: each node counts from the one before it.    *)

\* Ticks from m_ticks_latest to the expiry of the n-th timer of s.
Due(s, ticks, n) ==
  LET sum[i \in 0 .. Len(s)] == IF i = 0 THEN 0 ELSE sum[i - 1] + ticks[s[i]]
  IN sum[n]

\* timer_list_insert
Insert(t, ticks) ==
  LET Before == {i \in DOMAIN list : ticks > Due(list, tte, i)}
      n == IF Before = {} THEN 0 ELSE Max(Before)
      own == ticks - Due(list, tte, n) IN
  /\ list' = InsertAt(list, n + 1, t)
  /\ tte' = [u \in Timers |->
       CASE u = t -> own
         [] n < Len(list) /\ u # t /\ u = list[n + 1] -> tte[u] - own
         [] OTHER -> tte[u]]

\* timer_list_remove: the next node takes over the ticks.  (Those of a node that
\* is not in the list mean nothing and are zero here.)
Unlink(t) ==
  LET n == CHOOSE i \in DOMAIN list : list[i] = t IN
  /\ list' = RemoveAt(list, n)
  /\ tte' = [u \in Timers |->
       CASE u = t -> 0
         [] n < Len(list) /\ u # t /\ u = list[n + 1] -> tte[u] + tte[t]
         [] OTHER -> tte[u]]

\* ticks_to_expire of a timer started when the counter was at.
ToExpire(at, ticks) ==
  IF Diff(at, latest) < (Wrap - 1) \div 2
  THEN Diff(at, latest) + ticks
  ELSE LET late == Diff(latest, at) IN IF ticks > late THEN ticks - late ELSE 0
-----------------------------------------------------------------------------
(* RTC1_IRQHandler: timer_timeouts_check.                                  *)

RtcEnter ==
  /\ At("idle") /\ RtcPending
  /\ event' = FALSE /\ forced' = FALSE
  /\ job' = IF list = <<>> THEN Idle
            ELSE [at |-> "expire", walk |-> list, ticks |-> Diff(counter, latest),
                  expired |-> 0, timer |-> None]
  /\ UNCHANGED <<counter, rtcOn, cc, skip, swi, nodes, latest, elapsed, rtcReset, ops,
                 stopping, ghosts>>

\* Changed on purpose: a timer expires one tick early.
ExpiredEarly(t) == job.ticks + 1 >= tte[t]
Expired(t) == job.ticks >= tte[t]
MoreExpired == job.walk # <<>> /\ Expired(Head(job.walk))

\* Changed on purpose: a timer that was stopped is not passed over.
CallsStopped(t) == TRUE

\* A timer that was stopped is passed over.
CallsHandler(t) == isRunning[t]

Expire ==
  /\ At("expire")
  /\ MoreExpired
  /\ LET t == Head(job.walk) IN
     /\ job' = [job EXCEPT !.at = IF CallsHandler(t) THEN "handler" ELSE "expire",
                           !.walk = Tail(@), !.timer = t,
                           !.ticks = @ - tte[t], !.expired = @ + tte[t]]
     /\ isRunning' = [isRunning EXCEPT ![t] = FALSE]
  /\ UNCHANGED <<rtc, swi, list, tte, period, latest, elapsed, rtcReset, ops, stopping,
                 ghosts>>

\* A value not yet taken from m_ticks_elapsed is overwritten.
RtcLeave ==
  /\ At("expire")
  /\ ~MoreExpired
  /\ elapsed' = job.expired
  /\ swi' = TRUE
  /\ job' = Idle
  /\ UNCHANGED <<rtc, nodes, latest, rtcReset, ops, stopping, ghosts>>
-----------------------------------------------------------------------------
(* SWI_IRQHandler: timer_list_handler.                                     *)

\* Those of the first n timers of s that are repeated, the last one first.
Repeating(s, n) ==
  LET chosen[i \in 0 .. Len(s)] ==
        IF i = 0 THEN <<>>
        ELSE IF period[s[i]] # 0 THEN <<s[i]>> \o chosen[i - 1] ELSE chosen[i - 1]
  IN chosen[n]

\* elapsed_ticks_acquire and expired_timers_handler.
SwiEnter ==
  LET ticks == IF elapsed = NoTicks THEN 0 ELSE elapsed
      gone == {i \in DOMAIN list : elapsed # NoTicks /\ Due(list, tte, i) <= ticks}
      n == IF gone = {} THEN 0 ELSE Max(gone)
      rest == SubSeq(list, n + 1, Len(list))
      again == Repeating(list, n)
      at(t) == (latest + Due(list, tte, CHOOSE i \in gone : list[i] = t)) % Wrap
  IN
  /\ At("idle") /\ swi /\ ~RtcPending
  /\ swi' = FALSE
  /\ elapsed' = NoTicks
  /\ latest' = (latest + ticks) % Wrap
  /\ list' = rest
  /\ tte' = [t \in Timers |->
       CASE \E i \in gone : list[i] = t -> 0
         [] rest # <<>> /\ t = Head(rest) /\ elapsed # NoTicks ->
              tte[t] - (ticks - Due(list, tte, n))
         [] OTHER -> tte[t]]
  /\ left' = [t \in Timers |->
       IF Contains(again, t) THEN left[t] + period[t] ELSE IF Contains(rest, t) THEN left[t] ELSE 0]
  /\ job' = [at |-> "insert", restart |-> again, since |-> [t \in ToSet(again) |-> at(t)],
             update |-> elapsed # NoTicks, head |-> IF rest = <<>> THEN None ELSE Head(rest)]
  /\ UNCHANGED <<rtc, isRunning, period, rtcReset, ops, stopping, stopped, busy, calls,
                 disturbed>>

Restart ==
  /\ At("insert") /\ job.restart # <<>>
  /\ LET t == Head(job.restart) IN
     /\ Insert(t, ToExpire(job.since[t], period[t]))
     /\ isRunning' = [isRunning EXCEPT ![t] = TRUE]
  /\ job' = [job EXCEPT !.restart = Tail(@)]
  /\ UNCHANGED <<rtc, swi, period, latest, elapsed, rtcReset, ops, stopping, ghosts>>

Applying(type) ==
  /\ At("insert") /\ job.restart = <<>>
  /\ ops # <<>> /\ Head(ops).type = type
  /\ ops' = Tail(ops)

MayInsert(t) == ~isRunning[t]

ApplyStart ==
  /\ Applying("start")
  /\ LET o == Head(ops)
         t == o.timer IN
     IF MayInsert(t)
     THEN /\ Insert(t, ToExpire(IF rtcReset THEN 0 ELSE o.at, o.ticks))
          /\ isRunning' = [isRunning EXCEPT ![t] = TRUE]
          /\ period' = [period EXCEPT ![t] = IF t \in Repeated THEN o.ticks ELSE 0]
          /\ left' = [left EXCEPT ![t] = o.ticks - o.age]
     ELSE UNCHANGED <<nodes, left>>
  /\ UNCHANGED <<rtc, swi, latest, elapsed, rtcReset, job, stopping, stopped, busy,
                 calls, disturbed>>

\* The counter starts from zero again with the last timer taken out.
ClearWithLast ==
  IF list' = <<>>
  THEN counter' = 0 /\ latest' = 0 /\ rtcReset' = TRUE
  ELSE UNCHANGED <<counter, latest, rtcReset>>

ApplyStop ==
  /\ Applying("stop")
  /\ LET t == Head(ops).timer IN
     /\ IF Contains(list, t)
        THEN /\ Unlink(t)
             /\ ClearWithLast
             /\ job' = [job EXCEPT !.update = @ \/ Head(list) = t]
        ELSE UNCHANGED <<list, tte, counter, latest, rtcReset, job>>
     /\ isRunning' = [isRunning EXCEPT ![t] = FALSE]
     /\ left' = [left EXCEPT ![t] = 0]
     /\ stopped' = IF \E i \in 2 .. Len(ops) : ops[i].type = "start" /\ ops[i].timer = t
                   THEN stopped ELSE [stopped EXCEPT ![t] = "yes"]
  /\ UNCHANGED <<rtcOn, cc, skip, event, forced, swi, period, elapsed, stopping, busy, calls,
                 disturbed>>

ApplyStopAll ==
  /\ Applying("stopall")
  /\ isRunning' = [t \in Timers |-> isRunning[t] /\ ~Contains(list, t)]
  /\ list' = <<>>
  /\ tte' = [t \in Timers |-> 0]
  /\ left' = [t \in Timers |-> 0]
  /\ UNCHANGED <<rtc, swi, period, latest, elapsed, rtcReset, job, stopping, stopped,
                 busy, calls, disturbed>>

UpdateNeeded == job.update \/ job.head # (IF list = <<>> THEN None ELSE Head(list))

InsertLeave ==
  /\ At("insert") /\ job.restart = <<>> /\ ops = <<>>
  /\ IF UpdateNeeded
     THEN job' = [at |-> "compare"] /\ UNCHANGED rtcReset
     ELSE job' = Idle /\ rtcReset' = FALSE
  /\ UNCHANGED <<rtc, swi, nodes, latest, elapsed, ops, stopping, ghosts>>
-----------------------------------------------------------------------------
(* compare_reg_update, rtc1_start and rtc1_stop.                           *)

CompareBegin ==
  LET passed == Diff(counter, latest) + CompareOffset
      ticks == tte[Head(list)] IN
  /\ At("compare") /\ list # <<>>
  /\ job' = [at |-> "set", pre |-> counter,
             cc |-> (latest + IF passed < ticks THEN ticks ELSE passed) % Wrap]
  /\ rtcOn' = TRUE
  /\ forced' = (forced /\ rtcOn)
  /\ UNCHANGED <<counter, cc, skip, event, swi, nodes, latest, elapsed, rtcReset, ops,
                 stopping, ghosts>>

\* A value of N or N + 1, with the counter at N, may not match.
WriteCC(value) ==
  /\ cc' = value
  /\ event' \in {event, event \/ value = counter}
  /\ skip' \in {FALSE, Diff(value, counter) = 1}

CompareSet ==
  /\ At("set")
  /\ WriteCC(job.cc)
  /\ job' = [job EXCEPT !.at = "check"]
  /\ UNCHANGED <<counter, rtcOn, forced, swi, nodes, latest, elapsed, rtcReset, ops,
                 stopping, ghosts>>

\* Changed on purpose: a value set too late is not noticed.
TooCloseNever == FALSE
TooClose == Diff(counter, job.pre) + CompareOffset > Diff(cc, job.pre)

CompareCheck ==
  /\ At("check")
  /\ IF TooClose
     THEN WriteCC(counter) /\ forced' = TRUE
     ELSE UNCHANGED <<cc, skip, event, forced>>
  /\ rtcReset' = FALSE
  /\ job' = Idle
  /\ UNCHANGED <<counter, rtcOn, swi, nodes, latest, elapsed, ops, stopping, ghosts>>

RtcStop ==
  /\ At("compare") /\ list = <<>>
  /\ rtcOn' = FALSE
  /\ job' = [at |-> "clear"]
  /\ UNCHANGED <<counter, cc, skip, event, forced, swi, nodes, latest, elapsed, rtcReset,
                 ops, stopping, ghosts>>

RtcClear ==
  /\ At("clear")
  /\ counter' = 0 /\ latest' = 0
  /\ rtcReset' = FALSE
  /\ job' = Idle
  /\ UNCHANGED <<rtcOn, cc, skip, event, forced, swi, nodes, elapsed, ops, stopping, ghosts>>
-----------------------------------------------------------------------------
\* What level 2 does by itself.
Level2 ==
  \/ RtcEnter \/ Expire \/ RtcLeave
  \/ SwiEnter \/ Restart \/ ApplyStart \/ ApplyStop \/ ApplyStopAll \/ InsertLeave
  \/ CompareBegin \/ CompareSet \/ CompareCheck \/ RtcStop \/ RtcClear

Next ==
  \/ Level2 \/ Tick \/ OtherEnter \/ HandlerReturn
  \/ \E level \in 1 .. 3, t \in Timers, ticks \in Intervals : Start(level, t, ticks)
  \/ \E level \in 1 .. 2, t \in Timers : StopBegin(level, t)
  \/ \E level \in 1 .. 2 : StopEnd(level)
  \/ \E t \in Timers : StopAbove(t)
  \/ \E level \in 1 .. 3 : StopAll(level)

Spec == Init /\ [][Next]_vars
-----------------------------------------------------------------------------
(* What must hold.                                                         *)

Listed(t) == Contains(list, t)

\* No timer is in the list twice: its node has one "next".
InsertedOnce == \A i, j \in DOMAIN list : list[i] = list[j] => i = j

\* A timeout handler is never called early.
NeverEarly == At("handler") /\ ~disturbed => left[job.timer] <= 0

\* It is late only by what the compare register needs and level 2 takes: at most
\* three times when intervals are longer than this and there are few timers and
\* calls, as in the run.  (Every stop of a first timer that is due lets the
\* compare register be set once more.)
NotLate ==
  At("handler") /\ ~disturbed => left[job.timer] >= -(3 * MaxBusy + CompareOffset)

\* With level 2 done, the list gives every timer that is not due yet exactly
\* the ticks it has left, and no more than those that passed before the counter
\* was running.
OnTime ==
  Quiet /\ ~disturbed =>
    \A i \in DOMAIN list :
      left[list[i]] > 0 =>
        Due(list, tte, i) - Diff(counter, latest) - left[list[i]] \in 0 .. MaxBusy

\* With level 2 done and timers in the list, RTC1 is going to interrupt: no later
\* than NotLate allows for the first of them, and none is overdue.
Armed ==
  Quiet /\ ~disturbed =>
    \A t \in ToSet(list) :
      /\ left[t] >= -(MaxBusy + CompareOffset)
      /\ rtcOn /\ Diff(cc, counter) > (IF skip THEN 1 ELSE 0)
      /\ Diff(cc, counter) <= Max({left[t], 0}) + MaxBusy + CompareOffset

\* With level 2 done, the counter runs if and only if there is a timer.
RunsForTimers == Quiet => (rtcOn <=> list # <<>>)

\* A start that fell into a gap has not been applied yet.
Intact == disturbed => \E i \in DOMAIN ops : ops[i].type = "start"

\* The counter has not gone round since the interrupt of RTC1 that found the
\* ticks which are to be taken from the list.
NotWrapped == elapsed # NoTicks /\ Intact => elapsed <= Diff(counter, latest)

\* Once app_timer_stop has returned NRF_SUCCESS the timeout handler is not
\* called any more, whatever was pending, until the timer is started again.
StoppedIsSilent ==
  [][At("expire") /\ job'.at = "handler" => stopped[job'.timer] # "yes"]_vars

\* The list, what it says of the time left, and the counter's compare register
\* agree whenever level 2 is done, and no handler is late.
AppTimerInv ==
  /\ AppTimerTypeOK /\ InsertedOnce /\ OnTime /\ Armed /\ NotLate
  /\ RunsForTimers /\ NotWrapped
=============================================================================
