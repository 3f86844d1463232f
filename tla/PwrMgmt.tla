------------------------------- MODULE PwrMgmt -------------------------------
(***************************************************************************)
(* nrf_pwr_mgmt.c: shutting the device down.  Each module may register a   *)
(* handler, which is asked in turn and may refuse; a module that refused   *)
(* continues the shutdown when it is ready.  Shutdowns are requested,      *)
(* continued and retried from the main loop, the timer's interrupt and     *)
(* interrupts above it, which preempt each other; a flag, taken without    *)
(* waiting, keeps them apart.  What is on the stack is the list of the     *)
(* calls in progress, the preempting one first.                            *)
(***************************************************************************)
EXTENDS Integers, Sequences

CONSTANTS
  Handlers,      \* the number of registered handlers
  Types,         \* the kinds of shutdown that are requested
  Timeout,       \* NRF_PWR_MGMT_CONFIG_STANDBY_TIMEOUT_S, here in ticks
  QueueSize,     \* the scheduler's queue
  MaxRequests    \* bound: shutdowns requested and activity indicated

GOTO_SYSOFF == "sysoff"
CONTINUE == "continue"

ASSUME PwrMgmtAssumption ==
  /\ Handlers \in Nat /\ Timeout \in Nat /\ QueueSize \in Nat \ {0} /\ MaxRequests \in Nat
  /\ GOTO_SYSOFF \in Types /\ Types \cap {CONTINUE, "none", "no", "error"} = {}

Main == 0
Timer == 1
Above == 2
Levels == Main .. Above

VARIABLES
  autoRetry,     \* NRF_PWR_MGMT_CONFIG_AUTO_SHUTDOWN_RETRY: how the firmware is built
  useScheduler,  \* NRF_PWR_MGMT_CONFIG_USE_SCHEDULER
  continuesAt, \* the level at which a module that refused continues the shutdown
  evt,         \* m_pwr_mgmt_evt
  locked,      \* m_sysoff_mtx
  started,     \* m_shutdown_started
  next,        \* m_handlers_iter: the handler to ask next
  counter,     \* m_standby_counter
  calls,       \* the calls in progress
  queue,       \* shutdown_process waits in the scheduler, so many times
  ready,       \* the modules that would not refuse
  refused,     \* those that refused and have not yet continued the shutdown
  agreed,      \* history: what each module that agreed was asked
  done,        \* how the device went down, or "no", or "error"
  idle,        \* history: seconds that passed since activity was last indicated
  requests     \* what is left of the bound

built == <<autoRetry, useScheduler, continuesAt>>
pwrVars == <<built, evt, locked, started, next, counter, calls, queue, ready, refused, agreed, done, idle, requests>>

Steps == {"retry", "load", "store", "lock", "decide", "put", "run", "unlock"}

PwrTypeOK ==
  /\ autoRetry \in BOOLEAN /\ useScheduler \in BOOLEAN /\ continuesAt \in Levels
  /\ evt \in Types \cup {"none"} /\ done \in Types \cup {"no", "error"}
  /\ locked \in BOOLEAN /\ started \in BOOLEAN
  /\ next \in 1 .. Handlers + 1 /\ counter \in 0 .. Timeout
  /\ \A i \in DOMAIN calls :
       /\ calls[i].level \in Levels /\ calls[i].step \in Steps
       /\ calls[i].type \in Types \cup {CONTINUE, "none"} /\ calls[i].value \in 0 .. Timeout
  /\ queue \in 0 .. QueueSize
  /\ ready \subseteq 1 .. Handlers /\ refused \subseteq 1 .. Handlers
  /\ agreed \in [1 .. Handlers -> Types \cup {"none"}]
  /\ idle \in 0 .. Timeout + 1 /\ requests \in 0 .. MaxRequests

PwrInit ==
  /\ autoRetry \in BOOLEAN /\ useScheduler \in BOOLEAN /\ continuesAt \in {Main, Above}
  /\ evt = "none" /\ done = "no" /\ locked = FALSE /\ started = FALSE
  /\ next = 1 /\ counter = 0 /\ calls = <<>> /\ queue = 0
  /\ ready \in SUBSET (1 .. Handlers) /\ refused = {}
  /\ agreed = [h \in 1 .. Handlers |-> "none"]
  /\ idle = 0 /\ requests = MaxRequests
-----------------------------------------------------------------------------
Call(level, step, type) == [level |-> level, step |-> step, type |-> type, value |-> 0]

\* A level runs when nothing at it or above it does.
MayPreempt(level) == done = "no" /\ (calls # <<>> => Head(calls).level < level)

Top == Head(calls)
At(step) == done = "no" /\ calls # <<>> /\ Top.step = step
GoTo(step) == calls' = <<[Top EXCEPT !.step = step]>> \o Tail(calls)
Return == calls' = Tail(calls)

\* nrf_pwr_mgmt_shutdown, from where a call at the level may begin.
Request(level, type) ==
  /\ MayPreempt(level) /\ requests > 0
  /\ requests' = requests - 1
  /\ calls' = <<Call(level, "lock", type)>> \o calls
  /\ UNCHANGED <<built, evt, locked, started, next, counter, queue, ready, refused, agreed, done, idle>>

\* nrf_mtx_trylock: a call that finds it taken gives up.
Lock ==
  /\ At("lock")
  /\ locked' = TRUE
  /\ IF locked THEN Return ELSE GoTo("decide")
  /\ UNCHANGED <<built, evt, started, next, counter, queue, ready, refused, agreed, done, idle, requests>>

Work == IF useScheduler THEN "put" ELSE "run"

\* Changed on purpose: a shutdown in progress is changed into another.
IsTakenAlways(type) == type # CONTINUE

\* The first request decides the kind.
IsTaken(type) == type # CONTINUE /\ ~started

\* Changed on purpose: the flag stays taken.
AbandonLocked == Return

Abandon == GoTo("unlock")

Decide ==
  /\ At("decide")
  /\ \/ /\ IsTaken(Top.type)
        /\ evt' = Top.type /\ started' = TRUE /\ GoTo(Work)
     \/ /\ ~IsTaken(Top.type) /\ Top.type # CONTINUE
        /\ Abandon /\ UNCHANGED <<built, evt, started>>
     \/ /\ Top.type = CONTINUE
        /\ GoTo(Work) /\ UNCHANGED <<built, evt, started>>
  /\ UNCHANGED <<built, locked, next, counter, queue, ready, refused, agreed, done, idle, requests>>

\* app_sched_event_put; a full queue is a fatal error.
Put ==
  /\ At("put")
  /\ \/ /\ queue < QueueSize
        /\ queue' = queue + 1 /\ GoTo("unlock") /\ UNCHANGED done
     \/ /\ queue = QueueSize
        /\ done' = "error" /\ calls' = <<>> /\ UNCHANGED queue
  /\ UNCHANGED <<built, evt, locked, started, next, counter, ready, refused, agreed, idle, requests>>

\* The main loop takes scheduler_shutdown_handler from the queue.
Scheduled ==
  /\ MayPreempt(Main) /\ queue > 0
  /\ queue' = queue - 1
  /\ calls' = <<Call(Main, "run", "none")>> \o calls
  /\ UNCHANGED <<built, evt, locked, started, next, counter, ready, refused, agreed, done, idle, requests>>

\* shutdown_process asks one handler.
Ask ==
  /\ At("run") /\ next <= Handlers
  /\ \/ /\ next \in ready
        /\ next' = next + 1
        /\ agreed' = [agreed EXCEPT ![next] = evt]
        /\ UNCHANGED <<refused, calls>>
     \/ /\ next \notin ready
        /\ refused' = refused \cup {next}
        /\ IF useScheduler THEN Return ELSE GoTo("unlock")
        /\ UNCHANGED <<next, agreed>>
  /\ UNCHANGED <<built, evt, locked, started, counter, queue, ready, done, idle, requests>>

\* All agreed: System OFF or reset, either of which ends the program.
GoDown ==
  /\ At("run") /\ next > Handlers
  /\ done' = evt /\ calls' = <<>> /\ queue' = 0
  /\ UNCHANGED <<built, evt, locked, started, next, counter, ready, refused, agreed, idle, requests>>

Unlock ==
  /\ At("unlock")
  /\ locked' = FALSE /\ Return
  /\ UNCHANGED <<built, evt, started, next, counter, queue, ready, refused, agreed, done, idle, requests>>

\* A module becomes ready; if it refused, it continues the shutdown.
BecomesReady(h) ==
  /\ MayPreempt(continuesAt) /\ h \notin ready
  /\ ready' = ready \cup {h} /\ refused' = refused \ {h}
  /\ calls' = IF h \in refused THEN <<Call(continuesAt, "lock", CONTINUE)>> \o calls ELSE calls
  /\ UNCHANGED <<built, evt, locked, started, next, counter, queue, agreed, done, idle, requests>>
-----------------------------------------------------------------------------
\* nrf_pwr_mgmt_timeout_handler, every second.
Tick ==
  /\ MayPreempt(Timer)
  /\ calls' = <<Call(Timer, "retry", "none")>> \o calls
  /\ idle' = IF idle > Timeout THEN idle ELSE idle + 1
  /\ UNCHANGED <<built, evt, locked, started, next, counter, queue, ready, refused, agreed, done, requests>>

\* pwr_mgmt_auto_shutdown_retry
Retry ==
  /\ At("retry")
  /\ calls' = (IF autoRetry /\ started THEN <<Call(Timer, "lock", CONTINUE)>> ELSE <<>>)
                \o <<[Top EXCEPT !.step = "load"]>> \o Tail(calls)
  /\ UNCHANGED <<built, evt, locked, started, next, counter, queue, ready, refused, agreed, done, idle, requests>>

IsIdle(seconds) == seconds >= Timeout

\* pwr_mgmt_standby_timeout_check: the counter is read, then written.
Check ==
  /\ At("load")
  /\ \/ /\ ~IsIdle(counter)
        /\ calls' = <<[Top EXCEPT !.step = "store", !.value = counter + 1]>> \o Tail(calls)
     \/ /\ IsIdle(counter) /\ started
        /\ Return
     \/ /\ IsIdle(counter) /\ ~started
        /\ calls' = <<Call(Timer, "lock", GOTO_SYSOFF)>> \o Tail(calls)
  /\ UNCHANGED <<built, evt, locked, started, next, counter, queue, ready, refused, agreed, done, idle, requests>>

Count ==
  /\ At("store")
  /\ counter' = Top.value /\ Return
  /\ UNCHANGED <<built, evt, locked, started, next, queue, ready, refused, agreed, done, idle, requests>>

\* nrf_pwr_mgmt_feed
Feed(level) ==
  /\ MayPreempt(level) /\ requests > 0
  /\ requests' = requests - 1
  /\ counter' = 0 /\ idle' = 0
  /\ UNCHANGED <<built, evt, locked, started, next, calls, queue, ready, refused, agreed, done>>

PwrStep == Lock \/ Decide \/ Put \/ Ask \/ GoDown \/ Unlock \/ Retry \/ Check \/ Count

MainStep == PwrStep /\ Top.level = Main

PwrNext ==
  \/ \E level \in Levels, type \in Types : Request(level, type)
  \/ \E h \in 1 .. Handlers : BecomesReady(h)
  \/ Feed(Main) \/ Tick \/ Scheduled \/ PwrStep

\* What runs is not preempted for ever, the timer is never stopped, the main
\* loop takes what is in the scheduler's queue, and no module stays unready.
PwrFairness ==
  /\ WF_pwrVars(PwrStep) /\ SF_pwrVars(MainStep)
  /\ WF_pwrVars(Tick) /\ SF_pwrVars(Scheduled)
  /\ SF_pwrVars(\E h \in 1 .. Handlers : BecomesReady(h))

PwrSpec == PwrInit /\ [][PwrNext]_pwrVars /\ PwrFairness
-----------------------------------------------------------------------------
\* The device goes down only in a way to which each module has agreed, although
\* others may be asked for in between (shutdown_process).
AgreedByAll ==
  done \in Types => \A h \in 1 .. Handlers : agreed[h] = done

\* The device turns itself off only after Timeout seconds without activity
\* (pwr_mgmt_standby_timeout_check).
StandbyIsEarned ==
  [][(Check /\ Len(calls') = Len(calls) /\ calls'[1].step = "lock") => idle > Timeout]_pwrVars

\* A device that was asked to shut down, or that nobody uses any more, goes
\* down, whichever module refuses at first and whoever interrupts whom, if the
\* shutdown is retried or the modules continue it from the main loop.  (If the
\* main loop is behind for as many seconds as the scheduler's queue has places,
\* the retries end in a fatal error, which resets the device.)
GoesDown ==
  autoRetry \/ continuesAt = Main => <>(done # "no")

\* The device goes down only when it may.
DownWhenAgreed == [](PwrTypeOK /\ AgreedByAll) /\ StandbyIsEarned
=============================================================================
