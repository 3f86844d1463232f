----------------------------- MODULE UsbTransfers -----------------------------
(***************************************************************************)
(* The transfers of nrf_drv_usbd.c: how an accepted transfer is moved      *)
(* packet by packet between RAM and the endpoint's buffer by the single    *)
(* EasyDMA channel, and how it is aborted and reported.                    *)
(*                                                                         *)
(* The driver's state and the part of the peripheral it works on are one   *)
(* record.  An interrupt handles every event that is set, starts at most   *)
(* one DMA transfer and waits for its end, whose event the next interrupt  *)
(* handles; nothing in the thread runs before that.  The functions the     *)
(* thread calls do their work in one critical region.  Both are therefore  *)
(* operators from record to record, and the modules that use this one make *)
(* them their steps.                                                       *)
(*                                                                         *)
(* Isochronous endpoints are left out, and so is a transfer without a      *)
(* buffer: the application uses neither.  Bytes are counted, not named.    *)
(***************************************************************************)
EXTENDS Integers, SequencesExt, FiniteSetsExt

CONSTANTS
  Endpoints,  \* the endpoints in use, some of "IN0", "IN1", "OUT0", "OUT1"
  EpSize      \* NRF_DRV_USBD_EPSIZE, the size of a full packet

ASSUME EndpointsAssumption == Endpoints \subseteq {"IN0", "IN1", "OUT0", "OUT1"}
ASSUME EpSizeAssumption == EpSize \in Nat \ {0}

VARIABLES
  usbd,  \* the driver and its peripheral
  queue  \* m_event_queue of app_usbd, where the driver's handler puts its events

Ins == Endpoints \cap {"IN0", "IN1"}
Outs == Endpoints \cap {"OUT0", "OUT1"}
Control == {"IN0", "OUT0"}

\* The contents of an endpoint's buffer: what the data is, and how much.
Packet(data, size) == [data |-> data, size |-> size]
NoPacket == Packet(0, 0)

Driver == [
  waiting : SUBSET Endpoints,   \* m_ep_dma_waiting
  ready : SUBSET Endpoints,     \* m_ep_ready
  handler : [Endpoints -> {"NULL", "feeder", "feeder_zlp", "consumer"}],
  left : [Endpoints -> Nat],    \* size in the feeder's or the consumer's state
  status : [Endpoints -> {"OK", "ABORTED", "OVERLOAD"}],
  dma : Endpoints \cup {"none"},\* m_dma_pending, and the END event set then
  setupDir : Control,           \* m_last_setup_dir
  suspended : BOOLEAN]          \* m_bus_suspend

Peripheral == [
  acked : SUBSET Endpoints,     \* EPDATASTATUS, or EP0DATADONE
  causes : SUBSET {"RESET", "SUSPEND", "RESUME", "SETUP"},
  raised : BOOLEAN,             \* the interrupt was made pending by software
  enabled : SUBSET Endpoints,   \* EPINEN and EPOUTEN
  stalled : SUBSET Endpoints,
  rcvOut : BOOLEAN,             \* the next data packet of EP0 is accepted
  irqs : BOOLEAN]               \* the interrupts disabled in suspend are enabled

IdleDriver == [
  waiting |-> {}, ready |-> Ins, handler |-> [ep \in Endpoints |-> "NULL"],
  left |-> [ep \in Endpoints |-> 0], status |-> [ep \in Endpoints |-> "OK"],
  dma |-> "none", setupDir |-> "OUT0", suspended |-> FALSE, enabled |-> Endpoints \cap Control,
  acked |-> {}, causes |-> {}, raised |-> FALSE, stalled |-> {},
  rcvOut |-> FALSE, irqs |-> TRUE,
  \* what the transfer sends, the packet in the endpoint, the data received
  data |-> [ep \in Endpoints |-> 0], buffer |-> [ep \in Endpoints |-> NoPacket],
  received |-> [ep \in Endpoints |-> NoPacket], evts |-> <<>>]

\* One step after another, each evaluated once.
Then(u, Step(_)) == CHOOSE w \in {Step(v) : v \in {u}} : TRUE

\* Op for each of the endpoints eps, in the order of their bits.
InTurn(u, eps, Op(_, _)) ==
  LET At(v, ep) == IF ep \in eps THEN Op(v, ep) ELSE v
      In1(v) == At(v, "IN1")
      Out0(v) == At(v, "OUT0")
      Out1(v) == At(v, "OUT1")
  IN Then(Then(Then(At(u, "IN0"), In1), Out0), Out1)

Report(u, ep, status) == [u EXCEPT !.evts = Append(@, <<ep, status>>)]
-----------------------------------------------------------------------------
(* nrf_drv_usbd_ep_transfer and its relatives.                             *)

Busy(u, ep) == ep \in u.waiting \cup (Ins \ u.ready)

Accepts(u, ep) == (ep \in Control => ep = u.setupDir) /\ ~Busy(u, ep)

Transfer(u, ep, handler, data, size) ==
  [u EXCEPT !.handler[ep] = handler, !.data[ep] = data, !.left[ep] = size,
            !.status[ep] = "OK", !.waiting = @ \cup {ep}, !.raised = TRUE]

\* The packet in the endpoint is dropped and the next one accepted.
TransferOutDrop(u, ep) ==
  [u EXCEPT !.ready = @ \ {ep}, !.buffer[ep] = NoPacket]

AbortOut(u, ep) ==
  LET v == [u EXCEPT !.status[ep] = "ABORTED"]
  IN IF ep \in u.waiting
     THEN [v EXCEPT !.handler[ep] = "NULL", !.waiting = @ \ {ep}, !.ready = @ \ {ep}]
     ELSE TransferOutDrop(v, ep)

AbortIn(u, ep) ==
  IF Busy(u, ep)
  THEN Report([u EXCEPT !.waiting = @ \ {ep}, !.ready = @ \cup {ep},
                        !.handler[ep] = "NULL", !.status[ep] = "ABORTED"], ep, "ABORTED")
  ELSE u

Abort(u, ep) == IF ep \in Ins THEN AbortIn(u, ep) ELSE AbortOut(u, ep)

\* usbd_ep_abort_all: an IN packet the host has not fetched is not reported.
AbortAll(u) == [InTurn(u, u.waiting \cup (u.ready \cap Outs), Abort) EXCEPT !.ready = Ins]

EpEnable(u, ep) ==
  LET v == [u EXCEPT !.enabled = @ \cup {ep}, !.stalled = @ \ {ep}]
  IN IF ep \in u.enabled \/ ep \in Ins \cup Control THEN v
     ELSE [TransferOutDrop(v, ep) EXCEPT !.waiting = @ \ {ep}]

\* A disabled endpoint forgets the packet it holds.
EpDisable(u, ep) == [Abort(u, ep) EXCEPT !.enabled = @ \ {ep}, !.buffer[ep] = NoPacket]

\* nrf_drv_usbd_suspend, which returns whether u.suspended held and no resume is pending.
MaySleep(u) == u.suspended /\ "RESUME" \notin u.causes
Sleep(u) == IF u.suspended THEN AbortAll(u) ELSE u
-----------------------------------------------------------------------------
(* usbd_dmareq_process.                                                    *)

\* usbd_dma_scheduler_algorithm: the lowest bit, IN endpoints before OUT endpoints.
Bit(ep) == CASE ep = "IN0" -> 0 [] ep = "IN1" -> 1 [] ep = "OUT0" -> 16 [] OTHER -> 17
Before(e, f) == Bit(e) < Bit(f)

Overloaded(u, ep) == ep \in Outs /\ u.left[ep] < u.buffer[ep].size

Overload(u, ep) ==
  Report([u EXCEPT !.status[ep] = "OVERLOAD", !.waiting = @ \ {ep}], ep, "OVERLOAD")

\* How much the feeder or the consumer moves now, and whether it wants to go on.
Chunk(u, ep) == IF ep \in Ins THEN Min({u.left[ep], EpSize}) ELSE u.buffer[ep].size
Continues(u, ep) ==
  LET size == Chunk(u, ep)
  IN CASE u.handler[ep] = "feeder" -> u.left[ep] # size
       [] u.handler[ep] = "feeder_zlp" -> size # 0
       [] OTHER -> size = EpSize /\ u.left[ep] # size

StartDma(u, ep) ==
  LET size == Chunk(u, ep)
      v == [u EXCEPT !.dma = ep, !.ready = @ \ {ep}, !.left[ep] = @ - size,
                     !.handler[ep] = IF Continues(u, ep) THEN @ ELSE "NULL"]
  IN IF ep \in Ins
     THEN [v EXCEPT !.buffer[ep] = Packet(u.data[ep], size)]
     ELSE [v EXCEPT !.received[ep] = u.buffer[ep], !.buffer[ep] = NoPacket]

DmaReqProcess(u) ==
  LET todo == u.waiting \cap u.ready
      fits == {ep \in todo : ~Overloaded(u, ep)}
      next == CHOOSE ep \in fits : \A f \in fits \ {ep} : Before(ep, f)
      skipped == {ep \in todo \ fits : fits # {} => Before(ep, next)}
      v == InTurn(u, skipped, Overload)
  IN IF u.dma # "none" THEN u
     ELSE IF fits = {} THEN v ELSE StartDma(v, next)
-----------------------------------------------------------------------------
(* USBD_IRQHandler: the events in the order of their bits.                 *)

UsbReset(u) ==
  IF "RESET" \in u.causes
  THEN Report([u EXCEPT !.suspended = FALSE, !.setupDir = "OUT0"], "RESET", "")
  ELSE u

\* The END event of the DMA transfer, for the endpoints of one direction.
DmaEnd(u, eps) ==
  LET ep == u.dma
      v == [u EXCEPT !.dma = "none"]
      finished == u.status[ep] = "ABORTED" \/ u.handler[ep] = "NULL"
      w == IF finished THEN [v EXCEPT !.waiting = @ \ {ep}]
           ELSE [v EXCEPT !.rcvOut = @ \/ ep = "OUT0"]
  IN IF ep \notin eps THEN u
     ELSE IF finished /\ u.status[ep] # "ABORTED" /\ ep \in Outs THEN Report(w, ep, "OK") ELSE w

\* Changed on purpose: an OUT packet is reported even if a transfer waits for it.
DataHandlerReportsAll(u, ep) ==
  LET v == [u EXCEPT !.ready = @ \cup {ep}]
  IN IF ep \in Ins \cap u.waiting THEN v
     ELSE Report(v, ep, IF ep \in Ins THEN "OK" ELSE "WAITING")

\* usbd_ep_data_handler
DataHandler(u, ep) ==
  LET v == [u EXCEPT !.ready = @ \cup {ep}]
  IN IF ep \in u.waiting THEN v ELSE Report(v, ep, IF ep \in Ins THEN "OK" ELSE "WAITING")

SetupDataDone(u) ==
  IF u.acked \cap Control # {} /\ u.irqs THEN DataHandler(u, u.setupDir) ELSE u

UsbEvent(u) ==
  LET v == IF "SUSPEND" \in u.causes
           THEN Report([u EXCEPT !.suspended = TRUE], "SUSPEND", "") ELSE u
  IN IF "RESUME" \in u.causes
     THEN Report([v EXCEPT !.suspended = FALSE], "RESUME", "") ELSE v

EpData(u) ==
  IF u.irqs THEN InTurn(u, u.acked \ Control, DataHandler) ELSE u

\* Changed on purpose: a transfer asked for before stays.
SetupKeepsTransfers(u, dir) ==
  IF "SETUP" \in u.causes /\ u.irqs THEN Report([u EXCEPT !.setupDir = dir], "SETUP", "") ELSE u

\* The direction is that of the request in the SETUP registers.
Setup(u, dir) ==
  LET v == IF Busy(u, u.setupDir) THEN Abort(u, u.setupDir) ELSE u
      w == [v EXCEPT !.setupDir = dir, !.waiting = @ \ Control,
                     !.ready = @ \cup (Control \cap Ins)]
  IN IF "SETUP" \in u.causes /\ u.irqs THEN Report(w, "SETUP", "") ELSE u

Handled(u) ==
  [u EXCEPT !.raised = FALSE,
            !.causes = IF u.irqs THEN {} ELSE @ \cap {"SETUP"},
            !.acked = IF u.irqs THEN {} ELSE @]

Interrupt(u, dir) ==
  LET InDone(v) == DmaEnd(v, Ins)
      OutDone(v) == DmaEnd(v, Outs)
      SetupOf(v) == Setup(v, dir)
      ended == Then(Then(Then(Then(u, UsbReset), InDone), SetupDataDone), OutDone)
      moved == Then(Then(Then(ended, UsbEvent), EpData), DmaReqProcess)
  IN Then(Then(moved, SetupOf), Handled)

InterruptPending(u) ==
  \/ u.raised \/ u.dma # "none"
  \/ u.causes \ {"SETUP"} # {}
  \/ u.irqs /\ (u.acked # {} \/ "SETUP" \in u.causes)

\* The thread goes on once the interrupts it or the DMA caused are handled.
ThreadRuns(u) == ~u.raised /\ u.dma = "none"
=============================================================================
