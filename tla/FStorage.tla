------------------------------ MODULE FStorage ------------------------------
(***************************************************************************)
(* nrf_fstorage_sd: a queue of flash operations, executed one after the    *)
(* other by the SoftDevice, in chunks.  It runs in the thread, in the      *)
(* interrupt that delivers SoftDevice events, in interrupts above that     *)
(* one, and again inside the event handler it calls: the calls in progress *)
(* form a stack, and only the newest one runs.  Its reads and writes of    *)
(* m_flags are separate steps, so an interrupt may come between them.      *)
(*                                                                         *)
(* queue_process and the event handlers call each other last, so each call *)
(* takes the place of its caller on the stack.  The queue is the one of    *)
(* FifoSpec, which AtFifo implements; nrf_sdh is the one of SdHandler.     *)
(***************************************************************************)
EXTENDS FifoSpec, SdHandler, FiniteSets

CONSTANTS
  MaxSize,     \* bound: chunks (pages) of one operation
  MaxRetries,  \* NRF_FSTORAGE_SD_MAX_RETRIES
  MaxDepth,    \* bound: nested calls
  MaxChanges,  \* bound: calls of nrf_sdh_*_request and nrf_sdh_suspend
  MaxResets,   \* bound: calls of nrf_fstorage_uninit
  MaxOthers,   \* bound: flash operations of other users of the SoftDevice
  MaxRejects,  \* bound: operations that sd_flash_* refuses with an error
  MaxFailures, \* bound: times that enabling the SoftDevice fails
  Callers,     \* the levels from which operations are requested
  Kinds,       \* the operations requested: "write", "erase"
  Environment  \* what else happens: "timeout" (flash operations fail),
               \* "handler" (the event handler requests SoftDevice changes),
               \* "uninit" (uninit is called while an operation executes)

ASSUME ItemsAssumption == Items \subseteq Nat \ {0}
ASSUME KindsAssumption == Kinds \subseteq {"write", "erase"}
ASSUME BoundsAssumption ==
  /\ MaxSize \in Nat /\ MaxRetries \in Nat /\ MaxChanges \in Nat /\ MaxResets \in Nat
  /\ MaxOthers \in Nat /\ MaxRejects \in Nat /\ MaxFailures \in Nat

Thread == 1
SdEvent == 2
Above == 3
None == 0

VARIABLES
  stack,       \* the calls in progress, the running one last
  initialized, state, running, retries, sdOn, paused,  \* m_flags
  cur,         \* m_p_cur_op
  ctxOuter,    \* m_iget_ctx: the item was got when no other was held
  kind, size,  \* of each operation: op_code, len or pages_to_erase
  progress,    \* of each operation: write.offset or erase.progress
  flash,       \* the SoftDevice's flash operation: Free, Other or a chunk
  accepted,    \* history: operations accepted so far; they are numbered
  written,     \* history: the chunks of each operation done by the SoftDevice
  reports,     \* history: the events sent
  budget       \* how often the bounded environment actions may still happen

flags == <<initialized, state, running, retries, sdOn, paused>>
opVars == <<kind, size, progress>>
history == <<accepted, written, reports, budget>>
vars == <<fifoVars, sdVars, stack, flags, cur, ctxOuter, opVars, flash, history>>

Chunks == 0 .. MaxSize
Chunk(o, c) == [op |-> o, chunk |-> c]
Free == Chunk(None, 0)
Other == Chunk(None, 1)
Ours(f) == f.op # None
Budget == [changes |-> MaxChanges, resets |-> MaxResets, others |-> MaxOthers,
           rejects |-> MaxRejects, failures |-> MaxFailures]
Points == {"put", "start", "begin", "process", "stop", "execute", "issue", "accepted",
           "busy", "failed", "reset", "freeFailed", "event", "done", "free",
           "continue", "request", "ask", "change", "changed"}

FStorageTypeOK ==
  /\ FifoTypeOK
  /\ SdTypeOK
  /\ stack \in Seq([level : 1 .. 3, at : Points, flag : BOOLEAN])
  /\ initialized \in BOOLEAN /\ running \in BOOLEAN /\ sdOn \in BOOLEAN
  /\ paused \in BOOLEAN /\ ctxOuter \in BOOLEAN
  /\ state \in {"idle", "pending", "executing"}
  /\ retries \in 0 .. MaxRetries
  /\ cur \in Items \cup {None}
  /\ kind \in [Items -> {"write", "erase"}]
  /\ size \in [Items -> Chunks]
  /\ progress \in [Items -> Nat]
  /\ flash \in [op : Items \cup {None}, chunk : Nat]
  /\ accepted \in Nat
  /\ written \in [Items -> SUBSET Nat]
  /\ reports \in Seq([op : Items, ok : BOOLEAN])

\* After nrf_fstorage_init.
Init ==
  /\ FifoInit /\ SdInit
  /\ stack = <<>>
  /\ initialized = TRUE /\ sdOn = sdEnabled
  /\ state = "idle" /\ running = FALSE /\ retries = 0 /\ paused = FALSE
  /\ cur = None /\ ctxOuter = FALSE
  /\ kind = [o \in Items |-> "write"]
  /\ size = [o \in Items |-> 0]
  /\ progress = [o \in Items |-> 0]
  /\ flash = Free
  /\ accepted = 0
  /\ written = [o \in Items |-> {}]
  /\ reports = <<>>
  /\ budget = Budget
-----------------------------------------------------------------------------
(* The stack of calls.                                                     *)

Top == stack[Len(stack)]
Now(at) == stack # <<>> /\ Top.at = at
Level == IF stack = <<>> THEN Thread ELSE Top.level

Call(level, at, flag) ==
  /\ Len(stack) < MaxDepth
  /\ stack' = Append(stack, [level |-> level, at |-> at, flag |-> flag])

Become(at, flag) == stack' = [stack EXCEPT ![Len(stack)].at = at, ![Len(stack)].flag = flag]
Goto(at) == Become(at, Top.flag)
Return == stack' = SubSeq(stack, 1, Len(stack) - 1)

\* The event handler of the application runs.
InHandler == Now("done") \/ Now("failed")

\* Application code runs at this level, or preempts what runs below it.
AppAt(level) ==
  \/ level \in Callers /\ (stack = <<>> \/ Level < level)
  \/ level = Level /\ InHandler

Spend(what) == budget[what] > 0 /\ budget' = [budget EXCEPT ![what] = @ - 1]
-----------------------------------------------------------------------------
(* write and erase, and queue_start.  With the queue full they return      *)
(* NRF_ERROR_NO_MEM and change nothing.                                    *)

Write(level) ==
  LET o == accepted + 1 IN
  /\ initialized
  /\ AppAt(level)
  /\ o \in Items
  /\ Reserve(o)
  /\ Call(level, "put", pending = <<>>)
  /\ accepted' = o
  /\ \E k \in Kinds, n \in 1 .. MaxSize :
       kind' = [kind EXCEPT ![o] = k] /\ size' = [size EXCEPT ![o] = n]
  /\ progress' = [progress EXCEPT ![o] = 0]
  /\ UNCHANGED <<sdVars, flags, cur, ctxOuter, flash, written, reports, budget>>

Put ==
  /\ Now("put")
  /\ IF Top.flag THEN Publish ELSE UNCHANGED fifoVars
  /\ Goto("start")
  /\ UNCHANGED <<sdVars, flags, cur, ctxOuter, opVars, flash, history>>

Start ==
  /\ Now("start")
  /\ running' = TRUE
  /\ IF running THEN Return ELSE Goto("begin")
  /\ UNCHANGED <<fifoVars, sdVars, initialized, state, retries, sdOn, paused, cur,
                 ctxOuter, opVars, flash, history>>

Begin ==
  /\ Now("begin")
  /\ IF paused THEN Return ELSE Goto("process")
  /\ UNCHANGED <<fifoVars, sdVars, flags, cur, ctxOuter, opVars, flash, history>>
-----------------------------------------------------------------------------
(* queue_process.                                                          *)

\* With no operation current, the next one is fetched.  The context of
\* nrf_atfifo_item_get is written even when there is none.
Process ==
  /\ Now("process")
  /\ \/ /\ state # "idle"
        /\ Goto("execute")
        /\ UNCHANGED <<fifoVars, cur, ctxOuter>>
     \/ /\ state = "idle" /\ ready # <<>>
        /\ Take
        /\ cur' = Head(ready)
        /\ ctxOuter' = (open = <<>>)
        /\ Goto("execute")
     \/ /\ state = "idle" /\ ready = <<>>
        /\ cur' = None
        /\ ctxOuter' = (open = <<>>)
        /\ Goto("stop")
        /\ UNCHANGED fifoVars
  /\ UNCHANGED <<sdVars, flags, opVars, flash, history>>

\* Changed on purpose: the empty queue stays marked as running.
StopKeepsRunning ==
  /\ Now("stop")
  /\ Return
  /\ UNCHANGED <<fifoVars, sdVars, flags, cur, ctxOuter, opVars, flash, history>>

Stop ==
  /\ Now("stop")
  /\ running' = FALSE
  /\ Return
  /\ UNCHANGED <<fifoVars, sdVars, initialized, state, retries, sdOn, paused, cur,
                 ctxOuter, opVars, flash, history>>

SetState(s) ==
  /\ state' = s
  /\ UNCHANGED <<initialized, running, retries, sdOn, paused>>

Execute ==
  /\ Now("execute")
  /\ SetState("executing")
  /\ Goto("issue")
  /\ UNCHANGED <<fifoVars, sdVars, cur, ctxOuter, opVars, flash, history>>

Done(f) == IF Ours(f) THEN [written EXCEPT ![f.op] = @ \cup {f.chunk}] ELSE written
Report(ok) == reports' = Append(reports, [op |-> cur, ok |-> ok])

\* sd_flash_write or sd_flash_page_erase: asynchronous and one at a time
\* with the SoftDevice enabled, synchronous without it.
Issue ==
  /\ Now("issue")
  /\ cur # None
  /\ \/ /\ sdEnabled /\ flash = Free
        /\ flash' = Chunk(cur, progress[cur])
        /\ Goto("accepted")
        /\ UNCHANGED <<written, reports, budget>>
     \/ /\ sdEnabled /\ flash # Free
        /\ Goto("busy")
        /\ UNCHANGED <<flash, written, reports, budget>>
     \/ /\ ~sdEnabled
        /\ written' = Done(Chunk(cur, progress[cur]))
        /\ Goto("accepted")
        /\ UNCHANGED <<flash, reports, budget>>
     \/ /\ Spend("rejects")
        /\ Report(FALSE)
        /\ Goto("failed")
        /\ UNCHANGED <<flash, written>>
  /\ UNCHANGED <<fifoVars, sdVars, flags, cur, ctxOuter, opVars, accepted>>

\* Without the SoftDevice no event will come: it is simulated.
Accepted ==
  /\ Now("accepted")
  /\ IF sdOn THEN Return ELSE Become("event", TRUE)
  /\ UNCHANGED <<fifoVars, sdVars, flags, cur, ctxOuter, opVars, flash, history>>

Busy ==
  /\ Now("busy")
  /\ SetState("pending")
  /\ Return
  /\ UNCHANGED <<fifoVars, sdVars, cur, ctxOuter, opVars, flash, history>>

\* The event handler, called with NRF_ERROR_INTERNAL, returns.
FailedHandled ==
  /\ Now("failed")
  /\ Goto("reset")
  /\ UNCHANGED <<fifoVars, sdVars, flags, cur, ctxOuter, opVars, flash, history>>

Reset ==
  /\ Now("reset")
  /\ state' = "idle"
  /\ running' = FALSE
  /\ Goto("freeFailed")
  /\ UNCHANGED <<fifoVars, sdVars, initialized, retries, sdOn, paused, cur, ctxOuter,
                 opVars, flash, history>>

\* queue_free: the space comes back if the item was the outermost one held.
QueueFree == IF ctxOuter THEN Release ELSE UNCHANGED fifoVars

FreeFailed ==
  /\ Now("freeFailed")
  /\ QueueFree
  /\ Return
  /\ UNCHANGED <<sdVars, flags, cur, ctxOuter, opVars, flash, history>>
-----------------------------------------------------------------------------
(* nrf_fstorage_sys_evt_handler.                                           *)

\* A flash operation of the SoftDevice ends and its event is delivered.
FlashEvent(ok) ==
  /\ SdEventsFlow
  /\ flash # Free
  /\ stack = <<>> \/ Level < SdEvent
  /\ ok \/ "timeout" \in Environment
  /\ flash' = Free
  /\ written' = IF ok THEN Done(flash) ELSE written
  /\ Call(SdEvent, "event", ok)
  /\ UNCHANGED <<fifoVars, sdVars, flags, cur, ctxOuter, opVars, accepted, reports,
                 budget>>

\* Changed on purpose: the state is not reset before the event is sent.
FinishKeepsState(ok) ==
  /\ UNCHANGED state
  /\ Report(ok)
  /\ Goto("done")

\* The operation is over: the event handler is called.
Finish(ok) ==
  /\ state' = "idle"
  /\ Report(ok)
  /\ Goto("done")

EventIdle ==
  /\ Now("event") /\ state = "idle"
  /\ Return
  /\ UNCHANGED <<fifoVars, sdVars, flags, cur, ctxOuter, opVars, flash, history>>

EventPending ==
  /\ Now("event") /\ state = "pending"
  /\ Goto("continue")
  /\ UNCHANGED <<fifoVars, sdVars, flags, cur, ctxOuter, opVars, flash, history>>

\* Changed on purpose: done one chunk too early.
CompleteEarly(o, p) == p + 1 >= size[o]
Complete(o, p) == p = size[o]

LastRetry == retries = MaxRetries

\* A write never moves past its end; an erase counts pages for ever.
EventSuccess ==
  LET step == IF kind[cur] = "write" /\ Complete(cur, progress[cur]) THEN 0 ELSE 1 IN
  /\ Now("event") /\ state = "executing" /\ Top.flag
  /\ cur # None
  /\ retries' = 0
  /\ progress' = [progress EXCEPT ![cur] = @ + step]
  /\ IF Complete(cur, progress'[cur])
     THEN Finish(TRUE)
     ELSE Goto("continue") /\ UNCHANGED <<state, reports>>
  /\ UNCHANGED <<fifoVars, sdVars, initialized, running, sdOn, paused, cur, ctxOuter,
                 kind, size, flash, accepted, written, budget>>

EventError ==
  /\ Now("event") /\ state = "executing" /\ ~Top.flag
  /\ IF LastRetry
     THEN retries' = 0 /\ Finish(FALSE)
     ELSE retries' = retries + 1 /\ Goto("continue") /\ UNCHANGED <<state, reports>>
  /\ UNCHANGED <<fifoVars, sdVars, initialized, running, sdOn, paused, cur, ctxOuter,
                 opVars, flash, accepted, written, budget>>

DoneHandled ==
  /\ Now("done")
  /\ Goto("free")
  /\ UNCHANGED <<fifoVars, sdVars, flags, cur, ctxOuter, opVars, flash, history>>

FreeDone ==
  /\ Now("free")
  /\ QueueFree
  /\ Goto("continue")
  /\ UNCHANGED <<sdVars, flags, cur, ctxOuter, opVars, flash, history>>

\* Changed on purpose: an operation that is not over is not continued.
ContinueOnlyWhenIdle ==
  /\ Now("continue")
  /\ \/ ~paused /\ state = "idle" /\ Goto("process")
     \/ ~paused /\ state # "idle" /\ Return
     \/ paused /\ sdContinue /\ Goto("request")
     \/ paused /\ ~sdContinue /\ Return
  /\ UNCHANGED <<fifoVars, sdVars, flags, cur, ctxOuter, opVars, flash, history>>

\* Changed on purpose: the change asked for is not continued.
ContinueForgetsRequest ==
  /\ Now("continue")
  /\ IF paused THEN Return ELSE Goto("process")
  /\ UNCHANGED <<fifoVars, sdVars, flags, cur, ctxOuter, opVars, flash, history>>

\* The next chunk or operation, unless the SoftDevice is to change state.
Continue ==
  /\ Now("continue")
  /\ \/ ~paused /\ Goto("process")
     \/ paused /\ sdContinue /\ Goto("request")
     \/ paused /\ ~sdContinue /\ Return
  /\ UNCHANGED <<fifoVars, sdVars, flags, cur, ctxOuter, opVars, flash, history>>
-----------------------------------------------------------------------------
(* The SoftDevice is enabled or disabled.                                  *)

RequestChange ==
  /\ stack = <<>> \/ ("handler" \in Environment /\ InHandler)
  /\ Spend("changes")
  /\ Call(Level, "request", FALSE)
  /\ UNCHANGED <<fifoVars, sdVars, flags, cur, ctxOuter, opVars, flash, accepted, written,
                 reports>>

Request ==
  /\ Now("request")
  /\ SdRequest
  /\ Goto("ask")
  /\ UNCHANGED <<fifoVars, flags, cur, ctxOuter, opVars, flash, history>>

\* Changed on purpose: the SoftDevice may change under an operation.
MayChangeAlways == TRUE
MayChange == state = "idle"

\* nrf_fstorage_sdh_req_handler
Ask ==
  /\ Now("ask")
  /\ paused' = TRUE
  /\ IF MayChange THEN Goto("change") ELSE Return
  /\ UNCHANGED <<fifoVars, sdVars, initialized, state, running, retries, sdOn, cur,
                 ctxOuter, opVars, flash, history>>

\* Disabling the SoftDevice ends the flash operation it was executing.
Change ==
  /\ Now("change")
  /\ SdChange
  /\ flash' = IF sdEnabled THEN Free ELSE flash
  /\ Goto("changed")
  /\ UNCHANGED <<fifoVars, flags, cur, ctxOuter, opVars, history>>

ChangeFails ==
  /\ Now("change")
  /\ Spend("failures")
  /\ SdEnableFails
  /\ Return
  /\ UNCHANGED <<fifoVars, flags, cur, ctxOuter, opVars, flash, accepted, written,
                 reports>>

\* nrf_fstorage_sdh_state_handler
Changed ==
  /\ Now("changed")
  /\ paused' = FALSE
  /\ sdOn' = sdEnabled
  /\ Goto("process")
  /\ UNCHANGED <<fifoVars, sdVars, initialized, state, running, retries, cur, ctxOuter,
                 opVars, flash, history>>

Suspend ==
  /\ stack = <<>>
  /\ Spend("changes")
  /\ SdSuspend
  /\ UNCHANGED <<fifoVars, stack, flags, cur, ctxOuter, opVars, flash, accepted, written,
                 reports>>

Resume ==
  /\ stack = <<>>
  /\ SdResume
  /\ UNCHANGED <<fifoVars, stack, flags, cur, ctxOuter, opVars, flash, history>>
-----------------------------------------------------------------------------
(* Other users of the flash, and init and uninit.                          *)

OtherOperation ==
  /\ stack = <<>>
  /\ sdEnabled /\ flash = Free
  /\ Spend("others")
  /\ flash' = Other
  /\ UNCHANGED <<fifoVars, sdVars, stack, flags, cur, ctxOuter, opVars, accepted, written,
                 reports>>

\* All of m_flags is zeroed, whatever is in progress.
Uninit ==
  /\ stack = <<>>
  /\ initialized
  /\ state = "idle" \/ "uninit" \in Environment
  /\ Spend("resets")
  /\ initialized' = FALSE /\ state' = "idle" /\ running' = FALSE /\ retries' = 0
  /\ sdOn' = FALSE /\ paused' = FALSE
  /\ Drop
  /\ UNCHANGED <<sdVars, stack, cur, ctxOuter, opVars, flash, accepted, written, reports>>

Reinit ==
  /\ stack = <<>>
  /\ ~initialized
  /\ initialized' = TRUE
  /\ sdOn' = sdEnabled
  /\ pending' = <<>> /\ ready' = <<>> /\ open' = <<>>
  /\ UNCHANGED <<sdVars, stack, state, running, retries, paused, cur, ctxOuter, opVars,
                 flash, history>>
-----------------------------------------------------------------------------
\* What the code does by itself once it has been called.
Run ==
  \/ Put \/ Start \/ Begin
  \/ Process \/ Stop \/ Execute \/ Issue \/ Accepted \/ Busy
  \/ FailedHandled \/ Reset \/ FreeFailed
  \/ EventIdle \/ EventPending \/ EventSuccess \/ EventError
  \/ DoneHandled \/ FreeDone \/ Continue
  \/ Request \/ Ask \/ Change \/ ChangeFails \/ Changed

Next ==
  \/ \E level \in 1 .. 3 : Write(level)
  \/ Run
  \/ \E ok \in BOOLEAN : FlashEvent(ok)
  \/ RequestChange \/ Suspend \/ Resume
  \/ OtherOperation
  \/ Uninit \/ Reinit

\* A call runs to its end, the SoftDevice ends what it executes, and who
\* suspends the events or uninitializes the module undoes it.
Fairness ==
  /\ WF_vars(Run)
  /\ WF_vars(\E ok \in BOOLEAN : FlashEvent(ok))
  /\ WF_vars(Resume)
  /\ WF_vars(Reinit)

Spec == Init /\ [][Next]_vars
FairSpec == Spec /\ Fairness
-----------------------------------------------------------------------------
(* What must hold.                                                         *)

Quiet == stack = <<>>

\* The SoftDevice has refused an operation, somebody else has used the flash,
\* the SoftDevice could not be enabled.
Refused == budget.rejects # MaxRejects
FlashShared == budget.others # MaxOthers
EnableFailed == budget.failures # MaxFailures

\* The SoftDevice executes for fstorage exactly what m_p_cur_op says, and
\* then the module is waiting for that event and for no other.
InFlightIsCurrent ==
  Ours(flash) =>
    state = "executing" /\ flash = Chunk(cur, progress[cur])

\* A success is reported only of an operation all of whose chunks were done.
ReportedMeansDone ==
  \A i \in DOMAIN reports :
    reports[i].ok => written[reports[i].op] = 0 .. (size[reports[i].op] - 1)

\* Operations are reported at most once each, in the order they were accepted.
ReportedInOrder ==
  \A i, j \in DOMAIN reports : i < j => reports[i].op < reports[j].op

\* With no code running and no change of the SoftDevice asked for, an
\* operation in the queue is on its way: something will wake the queue up.
\* (After an operation that was refused the queue waits for the next call.)
NothingWaits ==
  Quiet /\ ~paused /\ initialized /\ ~Refused =>
    /\ state = "idle" => ready = <<>> /\ ~running
    /\ state = "pending" => flash # Free
    /\ state = "executing" => flash = Chunk(cur, progress[cur])

\* With no code running and no operation current, the queue holds no space.
SpaceReturned == Quiet /\ state = "idle" => pending = <<>> /\ open = <<>>

\* The SoftDevice never changes state under a flash operation of fstorage.
ChangeOnlyWhenIdle == [][sdEnabled' # sdEnabled => state = "idle" /\ ~Ours(flash)]_vars

\* While a change of the SoftDevice's state is pending, no operation is
\* taken from the queue.
PausedTakesNothing == [][paused => Len(open') <= Len(open)]_vars

Reported == {reports[i].op : i \in DOMAIN reports}

\* Every operation accepted is reported in the end, unless one was refused, or
\* somebody else's flash operation was under way when the SoftDevice was to
\* change, or the SoftDevice could not be enabled.
EveryOperationReported ==
  \A o \in Items :
    o <= accepted ~> o \in Reported \/ Refused \/ FlashShared \/ EnableFailed

\* A requested change of the SoftDevice's state is made, under the same terms.
ChangeCompletes == sdContinue ~> ~sdContinue \/ Refused \/ FlashShared \/ EnableFailed

\* What holds in every state: the SoftDevice executes the current operation of
\* fstorage or none, no operation is left behind in the queue, and no space.
FStorageInv == FStorageTypeOK /\ InFlightIsCurrent /\ NothingWaits /\ SpaceReturned

\* The SoftDevice changes only when flash storage is at rest, which it stays
\* until the change is made: the observer of nrf_fstorage_sd.c.
ChangesAreSafe == ChangeOnlyWhenIdle /\ PausedTakesNothing

\* Neither waits for the other: operations are reported and changes made.
BothGoOn == EveryOperationReported /\ ChangeCompletes
=============================================================================
