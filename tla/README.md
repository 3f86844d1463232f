# A TLA+ verification project for SecuXMCU

SecuXMCU is the firmware tree of the nRF52840 microcontroller in a hardware
wallet. The repository holds the SDK part of that firmware (Nordic nRF5 SDK 15,
with local changes), the USB HID transport, the display drivers, mnemonic and
address encoding, and `main.c`. The application proper (`start_system`,
`ble_init`, `init_fstorage`, `log_init`, `timers_init`) is called from
`src/src/main.c` but is not in the tree, nor is `sdk_config.h`; configuration
values are constants of the models.

There is one processor, no operating system and no task switch. Concurrency is
*nesting*: the main loop is preempted by interrupts, interrupts by higher
interrupts, and a preempted piece of code continues when all of what preempted
it has returned. Almost every hazard here is a value read on one side of such a
preemption and used on the other, or a callback that runs in the middle of its
caller. The models therefore have a stack of calls in progress, of which only
the newest one runs, rather than a set of processes that all run.

## 1. Inventory

| component | state it keeps | operations | who calls whom |
|---|---|---|---|
| **atomic FIFO** `nrf_atfifo.c`, `nrf_atfifo_internal.h` | two 32-bit tags of two positions each, a buffer | init, alloc, put, get, free, clear | lock-free; the queue of fstorage and the event queue of app_usbd |
| **flash storage** `nrf_fstorage_sd.c` | `m_flags` (state, running, retries, paused, SoftDevice enabled), `m_p_cur_op`, a queue of operations | write, erase, init, uninit, is_busy, handlers of SoftDevice events and state changes | called by applications; calls their event handlers, which call it again; event-driven by nrf_sdh |
| **SoftDevice handler** `nrf_sdh.c` | enabled, suspended, "a change is to be continued" | enable, disable, suspend, resume, request_continue, polling of events | asks its observers before it changes state, tells them after |
| **USB device** `app_usbd.c`, `nrf_drv_usbd.c` | event queue, suspend state machine of nine states, driver state, bus-suspend flag | init, start, stop, enable, disable, suspend, wake-up, event execution | interrupts fill the queue, the main loop executes it |
| **USB transfers** `nrf_drv_usbd.c` | per endpoint: handler, bytes left, status; waiting, ready and pending masks; one DMA channel | transfer, abort, stall, interrupt | app_usbd and its classes ask for transfers; the interrupt queues their ends |
| **USB application** `usb-hid.c` | table of 128 APDU reports, pending flag | `usb_init`, `usbd_user_ev_handler`, report handler | handles the events of app_usbd and starts, stops, enables and disables it |
| **USB core, HID classes** `app_usbd_core.c`, `app_usbd_hid*.c` | device state, SETUP transaction, report buffers, flags of the class | standard requests, class requests, reports | called by app_usbd's execution of events |
| **HF clock** `nrf_drv_clock.c`, `nrfx_clock.c` | request counter, `hfclk_on`, list of waiting users | request, release, started event | app_usbd is its only user in the tree |
| **USB power events** `nrf_drv_power.c`, `nrfx_power.c` | registered handlers | SoC events or the POWER interrupt | feeds app_usbd |
| **application timer** `app_timer.c` | queue of operations, delta list, RTC bookkeeping | create, start, stop, stop_all, RTC and SWI interrupts | buttons, power management, BLE connection parameters |
| **power management** `nrf_pwr_mgmt.c` | event, mutex, iterator over handlers, standby counter | shutdown, shutdown_process, feed, timer | section of handlers that may refuse; the scheduler |
| **buttons** `nrfx_gpiote.c`, `app_button.c`, `bsp.c`, `bsp_btn_ble.c` | pin states and transitions, one debounce timer, one long-push timer, bindings of events | pin interrupt, timer handlers, BLE events | app_timer; the application's event handler |
| **BLE modules** `src/src/nRF_BLE` | advertising mode; negotiation, link and queued-write state; flags of connections | event handlers, start, stop, replies | events of the SoftDevice, one after the other to every module |
| **mnemonic words** `bip39.c` | table of first letters, shown and entered words | init, generate, find word, check phrase | the application |
| **segwit addresses** `segwit_addr.c` | none | encode, decode | the application |
| **QR codes** `qr_encode.c`, `qr_consts.h` | none that outlives a call | encode | the application, for the display |
| **big numbers** `bignum.c`, `bn_mul.h` | none but the integers of the caller | copy, shift, compare, add, multiply, divide, reduce, power, inverse, bytes | the curves and RSA of mbedTLS |
| **allocators, queues** `nrf_balloc.c`, `nrf_queue.c`, `mem_manager.c`, ... | free lists, indices | alloc, free, push, pop | under critical regions |
| **log** `src/src/nRF_Log` | ring of entries | push, process | diagnostics |
| **drivers, crypto, display** | registers; none | - | vendored or pure |

What makes each correct, in short:

* atomic FIFO: item pointers are exclusive, order is kept, nothing half-written
  is seen, nothing is lost when everybody has returned, whatever interrupts what;
* flash storage: operations are executed in full, in order, reported once, and
  the queue never stops with an operation in it; the SoftDevice does not change
  under an operation and a change asked for is made;
* USB device: the driver is started and stopped in the right state only, the
  clock is held exactly when the state machine needs it, and plugging, resuming
  and waking up come to an end;
* HF clock: it runs while somebody holds it and everybody who waits is told;
* USB reports and requests: a report arrives once and in order, no endpoint is
  stalled by the device's own fault, a request gets its own answer and leaves
  nothing for the next;
* application timer: timers expire in time, not early, across the wrap of the
  counter, and not after they were stopped;
* power management: the device goes down in the way all modules agreed to, not
  while it is used, and it does go down;
* buttons: every button ends up reported as it is, although they share timers;
* BLE modules: every procedure ends, the application is told what the link uses,
  and nothing of one link is taken for another's;
* encodings: decode after encode is the identity, there is one encoding of
  each value, and what was mistyped is refused;
* big numbers: each call has the value the header names, whatever limbs its
  arguments had and whichever of them are the same integer.

`PROJECT.json` lists every component with its status, and every hazard at the
line where it bites, with the property that covers it or why none does.

## 2. The modules

| module | models | kind |
|---|---|---|
| `FifoSpec` | what `nrf_atfifo.h` promises: a bounded queue whose items go pending → ready → open | abstract specification |
| `AtFifo` | `nrf_atfifo.c` at the level of LDREX, STREX and branches | implements `FifoSpec` |
| `AtFifoProofs` | the invariants of `AtFifo`, and that it implements `FifoSpec` | proofs |
| `SdHandler` | the enable/disable/suspend part of `nrf_sdh.c` | composed into `FStorage` |
| `FStorage` | `nrf_fstorage_sd.c` over `FifoSpec` and `SdHandler` | component |
| `FStorageProofs` | the queue of `FStorage`, its reports, and the changes of the SoftDevice | proofs |
| `UsbDevice` | the state machine of `app_usbd.c`, the power states of `nrf_drv_usbd.c`, `usbd_user_ev_handler` | component |
| `UsbDeviceProofs` | the state machine of `UsbDevice`, its clock and its driver; the counter, the list and the clock of `HfClock` | proofs |
| `HfClock` | `nrf_drv_clock.c` and the started event of `nrfx_clock.c` | component |
| `UsbTransfers` | the transfers of `nrf_drv_usbd.c` | operators, used by `UsbHid` and `UsbControl` |
| `UsbHid` | the generic HID class, its endpoints over resets and suspends, the APDU table | component over `UsbTransfers` |
| `UsbHidProofs` | the reports of `UsbHid` | proofs |
| `UsbControl` | control requests: `app_usbd_core.c` and SET_REPORT | component over `UsbTransfers` |
| `UsbControlProofs` | the requests of `UsbControl` | proofs |
| `AppTimer` | `app_timer.c` | component |
| `AppTimerProofs` | the list of `AppTimer`, its counter, stopped timers, and that none is early | proofs |
| `PwrMgmt` | `nrf_pwr_mgmt.c` | component |
| `Buttons` | port event, debounce, long push, bindings | component |
| `BoardProofs` | the agreement and the standby time of `PwrMgmt`; what the events of `Buttons` mean | proofs |
| `BleStack` | the SoftDevice as the BLE modules see it | used by the next four |
| `BleConnParams`, `BleGatt`, `BleQwr`, `BleAdvertising` | one file of `nRF_BLE` each | components |
| `BleLink` | these four, `ble_conn_state.c` and the dispatch of `nrf_sdh_ble.c` | composition |
| `BleLinkProofs` | the modules on a link and the events between | proofs |
| `BitGroups` | regrouping of bits | reference definition |
| `Bip39`, `SegwitAddr` | `bip39.c`, `segwit_addr.c` | functions and a state machine that feeds them |
| `QrEncode` | `qr_encode.c` and the tables of `qr_consts.h` up to version 10 | functions and a state machine that feeds them |
| `QrReader` | a reader of QR codes, from ISO/IEC 18004 | reference definition |
| `MpiSpec` | what `bignum.h` promises, over the integers | abstract specification |
| `Mpi` | `bignum.c` over limbs | implements `MpiSpec` |
| `MCAppTimer`, `MCUsbControl`, `MCBleLink`, `MCMpi` | constants that a cfg cannot write | model checking |
| `MCUsbDevice`, `MCBoard`, `MCWallet` | independent components in one run: a behaviour is about one of them | model checking |

The composition follows the code. `AtFifo` is shown to implement `FifoSpec`;
`FStorage` uses `FifoSpec` for its queue, because a module that uses the FIFO
through alloc, put, get, free and clear sees exactly that. `FStorage` and
`SdHandler` are one state machine (`SdHandler` owns three variables and
`FStorage` conjoins its steps), since each calls the other. `UsbDevice` contains
the clock as its one user sees it; `HfClock` has the list, the counter and the
interrupt in full. `UsbHid` and `UsbControl` are the two users of the driver's
transfers; each has the suspend states or the requests that matter to it, not
both, and they do not share endpoints. `BleLink` gives each event to the four
modules in one step, as the dispatch loop does, and all share one link and one
queue of events.

The checked invariant of a component is a conjunction of named parts, each with
its own comment (`AppTimerInv`, `UsbDeviceInv`, ...); the parts are what the
text below names.

Definitions with the comment *Changed on purpose* are not used by any
specification. Each is a definition of the code with one plausible mistake in
it; putting it in the place of the original makes a property fail, which is how
we know that the property depends on that line.

### AtFifo

The tags are records `[wr, rd]`; positions count items, where the code counts
bytes in multiples of `item_size`. `alloc_put` and `get_free` are the same
steps one after the other.

* *Nesting.* `depth` frames are in progress and only frame `depth` moves.
  `Begin` pushes a frame, whether it is called by the running code or by an
  interrupt that preempts it.
* *The exclusive monitor.* Entering an exception clears it, so a STREX succeeds
  only if nothing ran since the LDREX of that frame: `Begin` disarms all older
  frames, `AllocStore`/`GetStore` need `excl`, `AllocRetry`/`GetRetry` load again.
  A call that does not preempt also disarms, which adds no behaviour: the older
  frame of such a call is not between LDREX and STREX.
* *Two steps per request.* `AllocBegin` is the load of the own tag;
  `AllocFull`, `AllocRetry` or `AllocStore` is the load of the other tag, the
  test and the STREX. Between the two anything may nest. `wspace_close`,
  `rspace_close` and `space_clear` have loops with no exit before the STREX, so
  only their last round changes anything: each is one step.
* *The copy* by the user of the pointer is a step of its own (`ItemWrite`,
  `ItemRead`), because it may be preempted.

`allocated` and `owner` are history: which item a slot was given to.

### FStorage

The variables are `m_flags`, `m_p_cur_op`, `m_iget_ctx`, the queue, and of each
operation its kind, its size in chunks and its progress. `stack` is the calls in
progress with their level (thread, SoftDevice event interrupt, above it) and the
point each stands at; reads and writes of `m_flags` that an interrupt can
separate are separate points.

* `queue_process` and the event handlers call each other as the last thing they
  do, so the callee takes the place of the caller on the stack.
* `Process` reads the state and fetches the next operation in one step; of the
  levels in use, nothing that changes the state can come between, since then
  `running` is set or the SoftDevice's event is not due.
* `Issue` is the call of `sd_flash_write` or `sd_flash_page_erase`: accepted and
  executed later, busy, refused (`MaxRejects`), or, without the SoftDevice,
  done at once. `flash` is what the SoftDevice executes; it is free again when
  the event is delivered, so there is one result at a time, as in `nrf_soc.h`.
* A queue element that was rejected, or whose retries are used up, is reported
  and freed in the code's order: state, event handler, `queue_free`.
* Users of the FIFO do not see the spurious NULL of a preempted request (below):
  with it `write` returns `NRF_ERROR_NO_MEM` once more, and changes nothing.

`Environment` switches on what only some runs contain: `timeout`, `handler`
(event handlers request changes of the SoftDevice), `uninit` (during an
operation). `MaxRejects`, `MaxFailures` and `MaxOthers` bound refusals, failures
of enabling the SoftDevice and the flash operations of other users.

### UsbDevice

One event is one step. That is justified by what interrupts do here: they set
driver flags and append to the event queue, and the main loop executes events
one at a time with no other writer of the state machine. The element being
executed stays in the queue until it is freed, so what its execution appends
must fit next to it (`Consume`).

* `ASSERT` does nothing unless `DEBUG_NRF` is defined, which nothing in the tree
  does, so a failed assertion is not a guard; two properties state those assertions instead.
* `core` keeps the device states up to Powered; `"default"` stands for Default,
  Addressed and Configured, which nothing modelled distinguishes.
* The peripheral is modelled as the driver uses it: event registers (`flags`)
  handled in the order of `USBD_IRQHandler` and `ev_usbevent_handler`; low power
  ends with activity on the bus; a reset of a suspended bus raises a resume too.
* The cable moves when the queue has been worked off, unless `fast` is given,
  and stays until the regulator is ready, unless `glitch` is given.
* The clock is the `HfClock` of one user; `ClockShared` adds another user that
  keeps it running. Transfers and requests are in `UsbHid` and `UsbControl`; SOF
  is left out.

### HfClock

`hfclk_request` tests `hfclk_on` before the critical region that acts on the
result, so it is two or three steps; `release` is one critical region. The
interrupt takes the list item by item and calls the users in between. Both ways
of learning of the start are there: the interrupt, which passes on the first of
repeated events only (anomaly 201), and the SoftDevice's event, which is not
taken back by a stop. The low-frequency clock, the calibration and a change of
the SoftDevice while the clock is held are left out.

### UsbTransfers, UsbHid, UsbControl

`UsbTransfers` has the driver's transfer state and the registers it works on as
one record, and each function of the driver as an operator from record to
record, in the code's order. That is the granularity the code has: an interrupt
handles all events that are set, starts at most one DMA transfer and spins until
it ends, and what the thread calls is one critical region. `UsbHid` and
`UsbControl` make those operators their steps.

* `UsbHid`: endpoint 1 in both directions. Executing an event of the queue is one
  step. The suspend states of `app_usbd.c` are kept as far as they allow
  transfers (four of nine), the clock as one flag. A report is one packet. `handed`
  is what the application got, `ghost` what a reset or a suspend may legitimately
  have cost: `NothingLost` counts everything else.
* `Patient` is the assumption on the host: it waits for the answer to a report
  before the next, and gives the device the time USB grants it around resets and
  suspends. The run `usb_hid_fast` shows what happens without it.
* `UsbControl`: endpoint 0. The main loop is split where an interrupt matters:
  `ReadSetup` reads the SETUP registers, `Serve` starts the transfer, `Answer`
  acknowledges or stalls. The host may abandon a request or reset the bus and go
  on with another request between any two of them.

### AppTimer

The thread (level 1) and interrupts above the timers (level 3) call start, stop
and stop_all; level 2 runs the two handlers, whose steps are separate where a
call or a tick in between can matter (`job`). `Wrap` is the number of values of
the counter, here small, in the code 2^24; all differences are modulo `Wrap`.
The compare register is missed when it is written too late (`skip`), which the
code avoids by `RTC_COMPARE_OFFSET_MIN`. `left` counts the real ticks to the moment each timer is due,
`busy` the ticks the level 2 handler was late, so that `NeverEarly` can say "not
before", and `NotLate` "not later than the processor was busy". The bound of `NotLate` belongs to the
instance that is checked: there are few timers and calls, and intervals are longer
than level 2 is late. Each stop of a first timer that is due lets the compare register
be set once more, so more calls can postpone the others further. `Careful` keeps callers to
`MayStart` and `MayStop` (section 5); the first start that falls into one of the
three named gaps sets `disturbed`, which ends what is promised. `KEEPS_RTC_ACTIVE` is
off, and intervals longer than half the counter are left out.

### PwrMgmt and Buttons

`PwrMgmt` has a list of calls in progress, newest first, at three levels (main,
timer interrupt, above). A call is `lock` (the mutex, taken without waiting),
`decide`, `put` (into the scheduler), `run` (ask handlers in turn) and `unlock`;
the standby counter is loaded and stored in two steps. Which module refuses,
when it becomes ready and at which level it continues is chosen. Whether the
firmware retries by itself, and whether it uses the scheduler, is chosen in
`PwrInit`, so one run is about all four builds.

`Buttons` is one pin's way through `nrfx_gpiote.c` (find the changed pins and
invert their sense, again while any changed), `app_button.c` (one timer delays
all) and `bsp.c` (one timer and one variable time long pushes, bindings changed
by links). The handlers have one priority, so a handler is a few steps between
which only the pins change. `Edge` leaves out a pin that changes in the moments
listed in section 5; failed timer operations are in the model and excuse a
missing report (`missed`).

### The BLE modules

`BleStack` is the link and the queue of events of the SoftDevice;
`nrf_sdh_ble.c` gives one event to all modules, in `Dispatch`. Connection handle
zero is reused by each link, so state that a module does not reset on connection
or disconnection meets the next link. Each module's handlers are an operator per
event; calls of the SoftDevice may answer busy or with an error where its
documentation says so. Expiry of the connection parameters' timer is its own
action: durations do not matter to the property. `theme` chooses, per behaviour,
which parts of the peer and the application are active; what is left out by a
theme is not left out by the modules, which receive every event. `Careful` is
about the start of advertising only (section 5).

### Bip39, SegwitAddr, QrEncode

The functions are functions; a small state machine feeds them inputs: generate a
phrase, let the user enter it with a wrong word, check; encode, mistype symbols,
decode. `BitGroups` defines what regrouping of bits means without the code's
accumulators. The word list is a constant with the order and first letters the
code relies on. SHA-256 is the constant `Digest`: a property that needed
more of it than that it is a function would be about SHA-256. The checksum's 30
bits are the set of bits that are one, which is what the code's exclusive ors do
and is fast enough for TLC.

`QrEncode` computes the symbol as the set of its dark modules: blocks, the five
rules by which they are joined, code words and their correction, the division
and interleaving into blocks, the patterns and the zigzag. `CountPenalty`, which
chooses the mask that looks best, is left open: a symbol with any mask is a
next state. `QrReader` goes the other way with the standard's definitions and
shares only the table of versions and the table of powers with the encoder; it
corrects nothing, so a module in the wrong place shows.

### Mpi

An integer is `[s, p]`, sign and limbs, least significant first, and `R` is the
memory: a record for each name, those of the caller (`Reg`) and those a function
declares (`"div.X"`, `"inv.G"`, ...). The functions take names and return the
memory, because a destination may be an operand and then what is read after the
first write matters: each function writes in the code's order. A limb has `biL`
bits (4 in the run, 32 in the code), with all that follows for carries, for the
guess of a limb of a quotient and for the half limbs of `mod_int`; loops over
limbs are folds with the carry the code keeps. A destination keeps the limbs it
had, so integers with leading zeros and with none at all are among the inputs.

`MpiSpec` has an integer in each register and says what a call makes of them;
`ImplementsIntegers` is the refinement under `value`. A behaviour is one call,
since `Start` holds whatever a caller may have. `Proper` names the calls whose
result is not what the header says (section 5); `Careful` leaves them out.

`MCBoard`, `MCWallet` and `MCUsbDevice` put components that share nothing into
one run; a behaviour is about one of them, so no state space is multiplied.

## 3. The runs

| run | what it asks | bounds |
|---|---|---|
| `atfifo` | the ring keeps its promises and implements `FifoSpec` | 2 slots, 3 nested operations, 4 items |
| `fstorage` | complete, ordered, reported once, nothing waits | 3 operations of up to 2 chunks, queue of 2, 1 retry, 1 reinitialization, 1 refusal, 4 nested calls |
| `fstorage_changes` | changes of the SoftDevice complete, never under an operation | 3 operations of 1 chunk, 3 changes or suspends (one may fail), 2 operations of other users |
| `usb_device` | clock, driver and state machine agree; attach, resume, wake-up and release end; the clock runs while held, and who waits is told | 2 cable moves, 4 host signals, 2 wake-ups, queue of 12; 3 users of the clock, 6 requests |
| `app_timer` | timers expire in time, not early, not after a stop | 2 timers (one repeated), 4 calls, counter of 14 values, queue of 2, level 2 up to 1 tick late |
| `usb_hid` | reports arrive once, in order; no stall; latest report arrives | 3 reports each way, table of 1, 2 resets or suspends |
| `usb_hid_fast` | OUT reports in order with a host that does not wait (fails) | as `usb_hid` |
| `usb_control` | a request gets its own answer and leaves nothing | packets of 2, reads shorter than, equal to, longer than and multiples of the length, 3 requests, 1 abandoned |
| `ble_link` | negotiation, MTU, queued writes, encryption flag, advertising, over two links | 2 links, 3 acts of the peer, 3 starts, 2 updates, 2 waiting events |
| `wallet` | phrases and addresses: identity, uniqueness, detection; QR codes read as what they encode | 2048 words, phrases of all five lengths, 1 wrong word; versions 0, 16 and 17, 1 or 2 mistyped characters; 5 texts of up to 42 characters, versions 1 to 10, all levels and masks |
| `mpi` | every call of `bignum.c` does what `bignum.h` says | limbs of 4 bits, integers of up to 3 significant limbs and 2 leading zeros, 22 values with both signs, arguments that are the same register |
| `board` | the shutdown is the one agreed to and comes; reports settle | 2 handlers, 2 kinds, 2 requests; 2 buttons, 4 edges, 1 failed timer operation, 1 link |

*Why the bounds are enough.* Two slots in the ring (three positions) wrap after
two items and fill with two; three nested operations allow a write or read
inside another inside a third, which is the first depth at which "outermost"
and "next to innermost" differ; four items wrap the ring with operations open.
Operations of two chunks are the shortest in which "next chunk" and "next
operation" differ; three operations with a queue of two make the queue full and
leave one behind the current one; one retry distinguishes first, last and
reset. Two cable moves, four host signals and two wake-ups reach all nine
states of the suspend state machine and execute every event in several of them,
with up to two suspend and resume rounds overlapping in the queue; the queue of
12 is long enough for all events these can make, so that nothing is lost in that
run. Three users of the clock are the fewest with one at the head, one in the
middle and one at the end of the list.

A counter of 14 values wraps several times within a behaviour of four calls, and
is more than twice the interval plus the compare offset, as in the code; two
timers give the list a head and a successor, and the queue of two fills. Three
reports each way are one in the endpoint, one in the buffer and one at the host,
and the table of one is full after the first. Control reads are one packet, a
whole number of packets and a packet and a part, with answers shorter than,
equal to and longer than asked; three requests are one finished, one abandoned
and one that meets what the others left. Two links are what it takes for one to
leave something for the next. The texts of the QR codes contain, as parts, blocks
of all three modes with the lengths at which joining them pays or does not; the
versions have one or two alignment coordinates, version numbers, one block or several
and blocks of two lengths, and both sizes of the count. Integers of three limbs are the shortest whose division
guesses a limb from three and corrects it twice; all windows of `exp_mod` are met
because their thresholds are scaled to exponents of 12 bits. Two handlers are one that has agreed while the
other refuses; two buttons share the timers; four edges are a push, a release
and a bounce.

*Deadlock.* The runs with budgets (`changes`, `cable`, `requests`, ...) stop
when the budget is used and everything is worked off: that is the device at
rest, so those runs do not check for deadlock, and liveness properties say that
it is not at rest too early. `atfifo` checks it: the FIFO can always be read.

*Fairness.* Of what the code or the hardware does by itself: the running call
goes on; the SoftDevice ends the operation it executes and its event is
delivered when its interrupt is not masked; who suspended the events resumes
them; the main loop executes its queue; an interrupt that is pending and enabled
is taken; the oscillator starts; the regulator gets ready; timers expire. Of
others only what the protocol obliges them to: the host carries out the
transfers of a request it has begun and polls the interrupt endpoint while the
device is configured and awake; a peer answers an MTU request (the SoftDevice
times out otherwise), a central answers a request for connection parameters. Weak
fairness, except in `PwrMgmt`: the main loop is preempted for ever only if
interrupts never pause, and a module that refuses becomes ready although it may
be asked in between, so `MainStep`, `Scheduled` and `BecomesReady` are strongly
fair. Of the application only that its main loop takes the commands it was given;
nothing is assumed of cables and users.

## 4. What is proved

Each theorem holds for every value of the constants that satisfies the named
assumptions of the module (`ASSUME` in `AtFifo`, `FStorage`, `UsbDevice`, ...):
bounds are natural numbers, capacities and queue lengths positive, switches
Boolean, sets of users finite and disjoint, the kinds of shutdown contain
`GOTO_SYSOFF`, preferences and MTUs are natural numbers. TLC evaluates all of
them in every run. The hypotheses a theorem has beyond these are named below;
each excludes something the code does not survive (section 5 says what), and
the runs make the same choice.

| module | theorem | states | hypotheses |
|---|---|---|---|
| `AtFifoProofs` | `TypeCorrect`, `InductiveInvariant`, `RingOrderHolds`, `SlotExclusionHolds`, `ReadableCompleteHolds`, `NothingStrandedHolds`, `NestedNullIsTrueHolds` | all safety of the ring | none |
| `AtFifoProofs` | `ImplementsFifoHolds` | `ImplementsFifo`: `AtFifo` implements `FifoSpec` | none |
| `FStorageProofs` | `QueueHasOneDriver`, `SuccessIsDone`, `ReportsAreInOrder`, `FlashIsCurrent` | `QueueInv`, `ReportedMeansDone`, `ReportedInOrder`, `InFlightIsCurrent` | `UsedAlone` |
| `FStorageProofs` | `NothingIsLeftBehind` | `FStorageInv` | `UsedFromThread` |
| `FStorageProofs` | `ChangesAreMadeAtRest` | `ChangesAreSafe` | `UsedWithChanges` |
| `UsbDeviceProofs` | `EventsFitTheCable`, `ClockFollowsTheState`, `DriverIsCalledRight` | `DeviceInv`, `UsbDeviceInv`, `DriverCalledRight` | no `fast`, no `glitch` |
| `UsbDeviceProofs` | `ClockAgrees` | `HfClockInv` | no users in interrupts, no `early` |
| `UsbHidProofs` | `StagesAgree`, `NoReportLost`, `NoReportTwice` | `HidInv`, `UsbHidInv`, `FetchedOnce` | `Patient` |
| `UsbControlProofs` | `PhasesAgree`, `RequestsAreRight`, `ReadsAreExact` | `ControlInv`, `UsbControlInv`, `ReadExact` | none |
| `AppTimerProofs` | `TimerList` | the parts `AppTimerTypeOK`, `InsertedOnce` and `RunsForTimers` of `AppTimerInv` | `Careful`, `NotWrapped` |
| `AppTimerProofs` | `StoppedTimersAreSilent` | `StoppedIsSilent` | `Careful`, `NotWrapped` |
| `AppTimerProofs` | `HandlersAreNeverEarly` | `NeverEarly` | `Careful`, `NotWrapped` |
| `BoardProofs` | `PwrInvariant`, `GoesDownWhenAgreed` | `DownWhenAgreed` | none |
| `BoardProofs` | `PushIsRemembered`, `NoEventUnmeant` | `ButtonsInv`, `PushesAreMeant` | none |
| `BleLinkProofs` | `EventsFitModules`, `ModulesAgree`, `WritesAreExact`, `FailuresAreHonest` | `LinksInv`, `BleLinkInv`, `ExecutedAsPrepared`, `FailedIsHonest` | `Careful` |

All have the same shape: an invariant that is inductive is named, one lemma per
action shows that the action keeps it, and the property follows from it. What
follows says for each component why its properties are not inductive and what
the invariant adds.

### The ring

None of the safety invariants of `AtFifo` is inductive: that two writes do not
share a slot depends on where the tags of *older* frames stand. `IInv` adds

* `FrameInv`: exactly the frames up to `depth` are in use, only the newest may
  be armed, and an armed frame has a fresh tag (so its STREX is right);
* `WriterInv`: open writes started with the present `tail.rd`, their slots lie
  in `[tail.rd, tail.wr)` in the order of nesting, and, if that zone is not
  empty, its first slot belongs to an open write - the outermost one;
* `ReaderInv`: the same of open reads and `[head.wr, head.rd)`;
* `DataInv`: a slot of the write zone is complete unless a write is filling it.

The last conjunct of `WriterInv` is what makes `ItemPut` right: when the
outermost write is put, its slot is the first of the zone and the order leaves
no other write open, so all of the zone is complete and may be shown. The
lemmas rest on a few facts about distances on a ring (`DistSucc`, `DistLast`,
`DistInjective`, `ZonesDisjoint`) that replace reasoning about wrap-around.
`RingOrder`, like `TypeOK`, is a conjunct of `IInv`.

`NestedNullIsTrue` is about the position a preempted request compares, which may
be out of date. Its proof adds `WaiterInv` to `IInv`: an open operation below the
request pins one end of the ring (an open write `tail.rd`, an open read
`head.wr`); seen from there the other end only moves away from the request's
position (`PinnedEnds`, one lemma per kind of step), and the ring order keeps it
from coming round to where the stale position would pass for a full or an empty
FIFO.

The second part of `AtFifoProofs` shows that the ring is the queue its header promises. Under
the refinement mapping `open`, `ready` and `pending` are what the slots of the
three zones between the four positions contain (`Contents`), so the work is to
show what moving a position, or filling a slot, does to the contents of a zone
(`ContentsOne`, `ContentsAppend`, `ContentsConcat`, `ContentsTail`). It needs `IInv` for the order of
the positions and `AllocatedInv` for what a slot that is allocated but not yet
written will contain. Every step of the ring is one of the queue or a stutter.

### Flash storage

`FStorage` is proved over `FifoSpec`, which the ring implements. The flag
`m_flags.queue_running` is a baton: the call that sets it passes it to the
flash operation it starts, that to the event that ends it, and whoever finds the
queue empty gives it up. `QueueInv` states that with the types (`FStorageTypeOK`),
what the hypothesis gives (`AloneInv`), the order of the operations
(`OrderInv`: those waiting ascend, none of them is reported or begun), and

* `OneDriver`: of the calls in progress at most one drives the queue;
* `DriversInv`: what a driver at each point of its code knows of the state, the
  current operation and how many of its chunks are written (`CurrentInv`);
* `FlashInv`: while the SoftDevice executes, no call drives, and what it
  executes is the next chunk of the current operation.

`UsedAlone` is: no changes of the SoftDevice, no other user of the flash,
`uninit` only when idle. Any level may request operations, refusals, timeouts
and retries happen, and operations have any size. Under it operations are
reported in order, once, and truthfully.

That nothing stays in the queue (`FStorageInv`) is true only when operations are
requested at one level (`UsedFromThread`; from an interrupt an operation can be
stranded, section 5). `RestInv` adds to `QueueInv` why each operation is where
it is: pending, because the call that puts it is in progress; ready, because the
queue runs or a call that will start it is in progress; open, because it executes
or is about to be freed. It also says who drives a queue that is marked as running
when the flash is free (`RunningInv`), and which calls can be preempted
(`PlacesInv`).

With changes of the SoftDevice and other users of the flash the baton breaks:
there may be two drivers, and an operation that is being issued may have been
ended by the event of somebody else's. Still no change is made under an
operation (`ChangesAreSafe`), and the invariant for it, `ChangesInv`, is about
the order of the calls on the stack instead:

* `StartingInv`: nothing pauses the queue above a call that is starting an operation;
* `ChangeInv`: once all agreed to a change, only an event runs before it is made;
* `EventInv`: an event is dealt with while the flash is free, by the newest call;
* `EnabledInv`: what the module knows of the SoftDevice (`sd_enabled`) is out of
  date only between the change and the call of the observer;
* `IssueInv`: what is being issued is in progress, or an event that ended it runs above.

`UsedWithChanges` is: operations are requested by the main loop and the event
handler, which does not request changes; none is refused, and `uninit` is not
called. Other users, timeouts, suspensions and failures to enable the SoftDevice happen.

### The USB device

The state machine follows the cable and the bus through a queue, so it is
always late; `ClockHeldWhenNeeded` holds only because the events that are still
queued fit the state they will find. `DeviceInv` says which can be:

* `ClockInv`: the clock is held in the states that need it, and the interrupts
  of the endpoints are on where it runs;
* `AttachInv`: before the start and after the stop there is nothing of a bus;
* `PulledInv`: with the cable out, only a removal or the stop that follows it,
  once, wake-ups and answers of the clock are queued;
* `PluggedInv`: with the cable in, no removal is queued, and until the device
  is attached it is at one of the points of its way from detection to start;
* `BusInv`: what the driver believes of the bus is true, or the reset or resume
  that corrects it is flagged or queued.

The length of the queue is arbitrary, so the theorems include devices that lose
events: such a device may stay stopped, or be stopped too late (which is why
`SuspendIsLeft` and `CableIsFollowed` need a long queue), but the driver is not
started or stopped in a state it asserts not to be in, and the clock is not forgotten.
The hypotheses say that the cable moves when the queue has been worked off and
is not pulled before the regulator has answered.

### The USB reports

`NothingLost` speaks of one report; whether it holds depends on what the driver,
the queue of events and the class believe of the same packet at different times. An
interrupt is one step of `UsbHid` but a chain of stages in the code (`Handled`), each
of which changes the driver and adds events that the next stage finds. So
the parts of `HidInv` are not stated of the variables but of a driver `u`, the
events `q` reported so far (in the queue or behind it), and the acknowledgements `a`
and causes `c` still to be handled. One lemma per stage (`ResetStage` ...
`SetupStage`) carries them to the next, and `InterruptStages` joins them. The steps of
the thread and of the host have one lemma each, which first says what the step does
to every field of the driver and then goes through the parts:

* `QueueInv` and `OrderInv`: which events wait, which of them can wait twice, and
  that a configuration is never behind another event;
* `ResetInv`, `SetupInv`, `SleepInv`, `ResumeInv`: how far the driver and the class
  are behind the host, for each of the four causes. They say when no transfer can be
  under way and when the interrupts of the endpoints are off;
* `OutInv`: the OUT report under way is in exactly one place - the endpoint, the DMA, the
  class's buffer with its event - and which event, flag or interrupt moves it on;
* `HandedInv`: every other report is handed over or refused, or a bus event may have cost it;
* `InInv` and `FetchInv`: the same of IN reports, whose numbers only grow on their way;
* `ServedInv`: no event of an endpoint waits at a configured device that cannot start the
  transfer the event asks for, which is why none is stalled.

Two facts that nothing in the code says were needed. While the device sleeps or
wakes, no event of an enabled endpoint waits; and if a RESUME still waits at a
device that is already active, a reset woke it, and its endpoints are disabled.
`Patient` is the only hypothesis: without it the second OUT report overwrites the
first (section 5).

### The USB requests

`ReadExact` and the parts of `UsbControlInv` say what a clean request, one that finds
the device with nothing left to do, ends in. Between its SETUP packet and that end
nothing in them says anything, and before it the host may have abandoned any number of
requests at any point, which leaves transfers and stale events about.
`ControlInv` therefore has

* `Typing` and `HostInv`, of every state: the types of all that the driver, the queue, the
  main loop and the host hold, and the host's account of its requests;
* `Scheduled`, of every state: a transfer whose endpoint is ready has an interrupt to come.
  This is what a clean request needs of the past: the device is settled, so
  no interrupt is to come, so the transfer an abandoned request left behind is not ready
  and the SETUP stage of the interrupt will abort it before a byte of it moves;
* `CleanInv`, of a clean request that is not abandoned: it is in one of fifteen phases, from
  `Arrived` (its interrupt is pending) over `Noted` and `Serving` to those of an answer
  (`SendAsked` ... `SendEnds`), of a report (`ReceiveAsked` ... `ReceiveOverflows`) and of the
  end (`Answering`, `Settling`). Each phase says all that driver, queue, main loop and host
  hold of the request. In those of an answer the bytes the host has, the bytes in
  the endpoint and the bytes left add up to the answer.

As for the reports, one lemma per stage of the interrupt says what it does to the driver
(`DmaEndStage`, `DataDoneStage`, `SchedulerIs`, `SetupStage`), and the lemmas `ArrivedGoesOn` ...
`ReceiveMovesGoesOn` lead each phase through them to the next one. In the phases that wait
for the main loop or the host there is no interrupt (`NoInterrupt`), and a step
of either fits one phase only (`Taken`, `WhenServing`, `EndPhase`). `MaxRequests` and
`MaxAbandoned` are any numbers, packets and answers of any size. A request that is not clean
is promised nothing (section 5).

### The HF clock

`hfclk_request` tests a flag before the critical region that acts on the result.
`ClockIInv` therefore has `StackInv` next to `CountInv`: a request that has read the flag
as set holds nothing yet and, since only it runs in the thread and an interrupt
never clears the flag, still has it set when it counts itself. `CountInv` is that the
counter is the number of holders, the oscillator is off exactly without one,
and who waits holds the clock and was not told. It is proved for any finite set of
users, with the SoftDevice and without.

### The timers

`app_timer_stop` clears `is_running` at once and leaves the list to SWI0; the interrupt of
RTC1 only adds up the ticks of the timers that expired, and SWI0 takes from the list
whatever is due by that sum. Between these moments a timer can be marked and
still in the list, found expired and still in the list, or out of it and about to be put
back, and calls of every level add operations. That a stopped timer is silent needs
to know where in this it is. `TimerInv` has

* `TypeInv` and `ListInv`: with `InsertedOnce`, that what is to be put back (`job.restart`) is
  repeated nowhere and not in the list;
* `WalkInv`: how far the interrupt of RTC1 has walked along the list, and that the ticks it
  has added up are those of the timers it has passed. So SWI0 takes out exactly the
  timers that were found expired (`Gone`), and `Waiting` names the others;
* `MarkInv`: a timer that waits in the list with `is_running` cleared has a stop under way,
  in the queue or in a call, or its stop found the queue full (`Held`), unless a start that fell
  into a gap was applied; and whenever a start of it is queued, a stop is queued before. This is what keeps `timer_list_insert` from a node that is already in the list;
* `SilenceInv`: of a timer that was stopped there is a stop in the queue with no start behind
  it, or it is out of the list, not put back, and no start is queued;
* `RunsInv`: RTC1 runs for the list, but for the change SWI0 is just making.

That no handler is called early (`HandlersAreNeverEarly`) is a matter of arithmetic
modulo `Wrap`: a timer's time is handed on as a difference of the counter, each time against
a `m_ticks_latest` that has moved. `EarlyInv` says of every place that it gives the timer no
fewer ticks than it has `left`:

* `DueInv`: a timer of the list is due no sooner than `left`, counted from the counter as it is now;
* `ServiceInv`: so it is counted from the ticks that the interrupt of RTC1 has read, also when
  the counter goes on meanwhile; a timer whose handler is running has none left;
* `BackInv`: a repeated timer that waits to be put back counts from the moment it expired;
* `StartInv` and `Counted`: the count that a queued start was given is after `m_ticks_latest` by less than half the
  counter's range, or was passed by it, or the counter was cleared since; in each case the ticks
  that have passed are at most those the start has waited;
* `GapInv`: with no start in a gap, none is in the queue when the counter is cleared.

The lemmas are those of the list (`InsertDue`, `UnlinkDue`, `TakeOffDue`: what happens to the
times of the other timers, by induction along the list) and of the counter (`DiffTick`, `DiffMoved`,
`DiffPassed`, `ToExpireIsLate`).

The times of a list are sums (`Due`, a recursive function along the list). `DueSteps` and
`DueGrows` are what the proof needs of them; they come by induction over the naturals,
stated of a set of numbers (`Induct`), which needs no operator as a parameter and
follows from the least element of a set (`Smallest`). So do the facts about the timers
that are put back (`RepeatingFacts`).

`Careful` is about the callers (section 5). `NotWrapped` is the other hypothesis, and is about time: the
counter does not go round from the interrupt of RTC1 to the moment SWI0 takes the
ticks, so that what expired was at most what passed. In the code that is 2^24 ticks at
the same interrupt priority; the run `app_timer` checks it as a part of `AppTimerInv`. With a start
in one of the three gaps (`disturbed`) it is not assumed any more. `TimerList` and `StoppedTimersAreSilent` still
hold: such a timer may expire at the wrong time, but is neither twice in the list nor called
after a stop. `NeverEarly` promises nothing then, for the start may be early in just these gaps (section 5).

### Shutdown

`DownWhenAgreed` is about the end, when the calls that led there are gone.
`TypeInv` and `AgreedInv` say of every call in progress and queued that a
shutdown's kind was decided before any handler was asked for it, and that the handlers
already passed agreed to that kind. `StandbyInv` says that the counter never
runs ahead of the seconds without activity, although the call that counts is
preempted between its load and its store: calls on the stack are ordered by
level (`Ordered`) and at most one of them counts (`CountsOnce`).

### Buttons

The event of a release was fixed by the push before it (`release_event_at_push`),
when there may have been more or fewer links, and one timer serves the long
pushes of all buttons.
`MeantInv` says that a release means sleep only if there was no link when the
button was pushed, `HeldInv` that the timer runs only for a button whose
release was not reported, unless it could not be stopped because the queue of
app_timer was full (`missed`); `LinksInv` bounds the links by the events that made
them. From these `NoEventUnmeant` follows for every number of buttons and polarity.

### The BLE link

Handle zero is reused, so all depends on events that are queued when a link
ends and another begins. `LinksInv` has `TypeInv` and

* `WaitingInv`: each event waiting fits the state of the modules it will be given to
  (`QueueInv`); no two wait in an order that mixes up links or requests (`OrderInv`,
  by `MayPrecede`); and the queue's length stays in its bound (`LengthInv`);
* `LinkInv`: the modules know of the link from its first event to its last;
* `ModulesInv`: for each module what it keeps of the link - the number of requests
  sent, the MTU in force, the writes queued, the encryption flag, the
  advertising mode - in the terms of what the peer did.

It is proved for every number of links and length of the queue, every
preference, offer, MTU, attribute and advertising configuration.

### What is only model-checked

* *Liveness*, in all modules: `EveryOperationReported`, `BothGoOn`,
  `SuspendIsLeft`, `CableIsFollowed`, `WaitingIsTold`, `RequestEnds`, `ReportsArrive`,
  `ProceduresEnd` and the like.
  The prover has neither fairness nor ENABLED.
* The order of reports while the SoftDevice changes or others use the flash
  (`fstorage_changes`), where the queue may have two drivers.
* Of `AppTimerInv` the parts `OnTime`, `Armed`, `NotLate` and `NotWrapped`: they say how late level 2
  can make the timers, `NotLate` with a bound that holds for the instance only. That none
  is early is proved.
* What the functions of `Bip39`, `SegwitAddr` and `QrEncode` compute for every
  input: that needs induction over sequences, which is out of the prover's reach.
  They are checked on the inputs the table names.
* `Mpi`: it has loops whose end no bound names (carries, guesses), written as
  RECURSIVE operators, which the prover does not take.

## 5. What the code does that its documentation does not say

One run fails, with its finding in `PROJECT.json`:

* **An OUT report overwrites one not yet handed over** when the host sends the next
  before the answer to the last (`usb_hid_fast`, `app_usbd_hid.c:429`): the class
  has one buffer and asks for the next transfer into it whenever an event of the
  endpoint is executed, also when that event is out of date. The application gets
  the first report once and the third twice.

Behaviours the passing runs exclude by an assumption or option, met while
modelling. The models contain them where an option is named.

*FIFO.* A preempted `item_alloc` or `item_get` that no open operation surrounds
may return NULL although there was space, or data, at every moment of the call:
operations that preempt it can move the ring past the position it holds. With a
write or read open below it this cannot happen, which is `NestedNullIsTrue`;
without `Nested(depth)` TLC violates both halves of it. The bounds reach the
interesting case: nested requests whose position has gone stale do occur, and
all of them go on to `AllocRetry` or `GetRetry`.

*Flash storage.* A change of the SoftDevice asked for in the middle of an
operation of several chunks is never made (`nrf_fstorage_sd.c:575`; set
`MaxSize` to 2 in `fstorage_changes`). The end of another user's flash operation
is counted as the end of fstorage's chunk when it arrives while the chunk is
about to be issued (`:256`; chunks and `MaxOthers`). An operation put between the
test for an empty queue and the clearing of `queue_running` stays (`:251`;
`Callers = {1, 3}`). An event handler that requests a change makes
`queue_free` work with the context of the next operation (`handler`); refusals
together with other users or changes can report an operation twice (`MaxRejects`
with `MaxOthers` or `MaxChanges`).

*USB device.* A cable pulled and plugged before the queue is worked off leaves a
dead device (`usb-hid.c:544`; `fast`); a resume goes active without the clock,
with the clock event of an earlier one (`app_usbd.c:1061`); a cable pulled before
the regulator is ready stops a device that was never started (`glitch`); after a
remote wake-up was asked for, a resume by the host can leave the state machine in
RESUMING (hence `NoWakeupAsked` in `ResumeEnds`), and low power may be entered on
an active bus (hence in `LowPowerOffTheBus`); with a short event queue the stop
of a pulled cable is lost (`QueueSize`).

*HF clock.* A user that releases before it is told leaves `hfclk_on` set with the
clock off (`"early"` in `ClockUse`); requests from above the clock's interrupt are counted late
(`InterruptUsers`); a second user may be missed by the notification
(`WaitingIsTold` is about those already waiting).

*USB reports.* A report queued when the device resumes is popped and lost while
still RESUMING; an event that was waiting when the bus was suspended is executed
afterwards and stalls OUT1; the abort of all transfers leaves the packet in the
IN endpoint, so the first report after the resume finds it busy and IN1 is
stalled (`ghost.leftover`). SET_REPORT and OUT1 share one report buffer.

*USB requests.* The SETUP registers are read when the event is executed, so of an
abandoned request and its successor the second is served twice: BUSY, then a
stall, or an answer of the first (`host.clean`, `foreign`). A SET_REPORT of 64
bytes does not fit the buffer of 63 and is stalled; afterwards OUT0 stays among
the ready endpoints and the report in its buffer, which `nrf_drv_usbd.h:216-217`
leaves to the driver's user to clear.

*Timers.* A node in the list whose `is_running` was cleared is inserted again by a
start: after a stop that found the queue full, in the middle of a stop of another
level, or when it was stopped with a start still queued (`app_timer.h:239-240`
says of a running timer that a second start is ignored). A start while the handler has just found the
list empty begins at the wrong tick; stop_all and start of the same head in one
batch leave a stale compare value; `m_ticks_latest` is stale when no interrupt of
the counter moved it for half the range, and a start then expires early. `Careful` and
`disturbed` keep these apart. A first timer that is stopped when it is due leaves its
ticks to the next, and the compare register is set anew from the present: several such
stops in a row delay the timers behind, each by as much as level 2 is late.

*Shutdown.* A module that continues the shutdown from an interrupt that finds the
mutex taken is not heard; without automatic retry the shutdown then never ends
(`nrf_pwr_mgmt.h:101-102` promises it continues); `GoesDown` is about the other
builds. A feed from an interrupt between load and store of the counter is lost,
so feeds are from the main loop. A full scheduler queue is a fatal error.

*Buttons.* A bounce stops the timer all pins share and does not start it again
(`app_button.c:108-138`); an edge while the end of the delay is handled clears
the pin's transition without a report; `app_button_disable` keeps transitions;
all long pushes share a timer; a pin that changes back within the interrupt's
latency is not seen. `Edge` and `missed` stand for these.

*BLE.* The return to advertising after a disconnection is commented out
(`ble_advertising.c:118-122`), though the header has the option to disable it, and so is the wait for the flash
(`:548-555`). `nrf_ble_qwr` keeps a pending memory reply across a disconnection.
`ble_conn_params_stop` does not prevent a later update from starting the timer,
success does not stop a running one, and errors other than BUSY are not retried.
The flags of the advertising data stay undiscoverable after a mode with a
whitelist. A start of advertising while on air fails but changes the mode kept
(hence `Careful`).

*Encodings.* A word that is not in the list counts as word zero (`bip39.c:304`);
generation repeats until the random number generator succeeds (`:177`);
`byte_to_11bit` reads one byte past its input; an upper-case first letter indexes
the table out of range (`:81`). `bech32_encode` writes what `bech32_decode`
refuses as longer than 90 characters.

*Big numbers* (`Proper`). `exp_mod` of a negative base with an even exponent is
N minus the power, because the sign put back at the end does not look at the
exponent, and N itself when the base is a negative zero; `gcd(A, 0)` is 0;
`inv_mod` modulo 1 does not end; `mod_int` is wrong for divisors that exceed half
a limb, as its steps do; `set_bit` gives a zero that has a negative sign a value
of that sign; a quotient written to an operand spoils the sign read after it, and
`mod_mpi` with the divisor as destination compares the remainder with itself;
`mod_int` by two and `exp_mod` read the first limb of an integer that has none.

## 6. What is not modelled

Reasons per component are in `PROJECT.json`. In short: the log and the display
hold no state another part depends on; the serial drivers, the crypto library
but for its big numbers, the fonts and images, register headers and the
SoftDevice's interface headers - nine tenths of the tree by lines - are vendored,
tables or declarations, and their users are outside the tree; main only fixes the
order of initialization, from which the models take their initial states. Of the
SoftDevice, the USB peripheral, the host, the oscillator and the regulator only
what the code relies on is modelled, marked external.

Within modelled files: isochronous endpoints and SOF, the data length of BLE
links, `KEEPS_RTC_ACTIVE`, the profiling of `nrf_pwr_mgmt.c`, the low-frequency
clock, the parameter tests of `nrf_fstorage.c` before its backend.

## 7. Plan

Done, in the order of importance: the atomic FIFO with its abstract queue and
its proofs; flash storage with the SoftDevice handler; the USB device; the HF
clock; USB transfers, reports and requests; timers; shutdown and buttons; the BLE
modules on a link; phrases, addresses and QR codes; big numbers.

Proofs, in the order in which they were done: the ring, the shutdown, the ring as a
queue, the HF clock, flash storage, the BLE link, the USB device, the buttons, the
changes of the SoftDevice, the reports of the HID class, the control requests, the timers.
Worth proving next: the order of reports while the SoftDevice changes, over `ChangesInv`;
the other half of `OnTime` of the timers (no later than `MaxBusy`), over `EarlyInv`, and from it
`NotWrapped` for intervals shorter than the counter's range.

Modelling that is left: `nrf_fstorage.c` (bounds and alignment in w-bit
arithmetic) with the NVMC backend, the curves of `ecp.c` over `Mpi`, the ring of
`nrf_log_frontend.c`.
