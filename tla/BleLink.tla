------------------------------- MODULE BleLink -------------------------------
(***************************************************************************)
(* The BLE modules of the firmware on the one link it supports:            *)
(* advertising, the connection state, the parameters of the connection,    *)
(* the exchange of the MTU and queued writes.  SD_EVT_IRQHandler takes one *)
(* event after the other and gives it to every module; the application     *)
(* and the expiry of a timer run between events.                           *)
(***************************************************************************)
EXTENDS BleConnParams, BleGatt, BleQwr, BleAdvertising

CONSTANTS
  Themes,       \* bound: the parts of the peer's and the application's doings of
                \* which one behaviour has some
  MaxLinks,     \* bound: links made
  MaxPeer,      \* bound: what the peer and the application do on links
  MaxStarts,    \* bound: advertising started or configured by the application
  MaxQueue,     \* bound: events waiting in the SoftDevice
  Careful       \* the application starts advertising only when nothing is on the
                \* air, and restarts it only when no event waits

ASSUME BleLinkAssumption ==
  MaxLinks \in Nat /\ MaxPeer \in Nat /\ MaxStarts \in Nat /\ MaxQueue \in Nat

VARIABLES
  conn,         \* the flags of ble_conn_state.c
  secured,      \* of the SoftDevice: the link is encrypted
  theme, links, acts, starts    \* what is left of the bounds

bounds == <<theme, links, acts, starts>>

vars == <<stack, paramVars, gattVars, qwrVars, advVars, conn, secured, bounds>>

BleTypeOK ==
  /\ up \in BOOLEAN /\ Len(events) <= MaxQueue + 3
  /\ ParamsTypeOK /\ GattTypeOK /\ QwrTypeOK /\ AdvTypeOK
  /\ conn \in [valid : BOOLEAN, connected : BOOLEAN, encrypted : BOOLEAN]
  /\ secured \in BOOLEAN
  /\ theme \in Themes /\ links \in 0 .. MaxLinks /\ acts \in 0 .. MaxPeer /\ starts \in 0 .. MaxStarts

NoFlags == [valid |-> FALSE, connected |-> FALSE, encrypted |-> FALSE]

Init ==
  /\ up = FALSE /\ events = <<>>
  /\ ParamsInit /\ GattInit /\ QwrInit /\ AdvInit
  /\ conn = NoFlags /\ secured = FALSE
  /\ theme \in Themes /\ (onNotify => "params" \in theme)
  /\ adv.config.whitelist => "advertising" \in theme
  /\ links = MaxLinks /\ acts = MaxPeer /\ starts = MaxStarts
-----------------------------------------------------------------------------
\* The connected event: record_purge_disconnected, then record_activate.
Activated(c) ==
  [IF c.connected THEN c ELSE NoFlags EXCEPT !.valid = TRUE, !.connected = TRUE]

\* ble_evt_handler of ble_conn_state.c
ConnHandle(e) ==
  conn' = CASE e[1] = "connected"    -> Activated(conn)
            [] e[1] = "disconnected" -> [conn EXCEPT !.connected = FALSE]
            [] e[1] = "security"     -> [conn EXCEPT !.encrypted = e[2]]
            [] OTHER                 -> conn

\* nrf_sdh_ble_evts_poll: one event, all observers.
Dispatch ==
  /\ events # <<>>
  /\ LET e == Head(events) IN
     /\ ConnHandle(e) /\ ParamsHandle(e) /\ GattHandle(e) /\ QwrHandle(e) /\ AdvHandle(e)
     /\ events' = Tail(events) \o QwrRaises(e)
  /\ UNCHANGED <<up, secured, bounds>>

\* The timer of the connection parameters; a failure may end the link.
TimerExpires ==
  /\ ParamsTimeout
  /\ UNCHANGED <<gattVars, qwrVars, advVars, conn, secured, bounds>>
-----------------------------------------------------------------------------
(* The peer, a central, and the SoftDevice's part of its procedures.       *)

PeerConnects ==
  /\ links > 0 /\ ~up /\ ~Queued("disconnected") /\ AdvLinkUp
  /\ up' = TRUE /\ \E o \in Offers : Raise("connected", o)
  /\ GattLinkUp /\ QwrLinkUp
  /\ updating' = FALSE /\ UNCHANGED <<inst, onNotify, preferred, timer, verdict, sent, held>>
  /\ secured' = FALSE /\ links' = links - 1
  /\ UNCHANGED <<conn, theme, acts, starts>>

LinkLost ==
  /\ up /\ Drop
  /\ UNCHANGED <<paramVars, gattVars, qwrVars, advVars, conn, secured, bounds>>

\* The answer to an update request; or the central changes the parameters.
CentralSetsParams ==
  /\ up /\ (updating \/ ("params" \in theme /\ acts > 0))
  /\ acts' = IF updating THEN acts ELSE acts - 1
  /\ updating' = FALSE /\ \E o \in Offers : Raise("updated", o)
  /\ UNCHANGED <<up, inst, onNotify, preferred, timer, verdict, sent, held, gattVars, qwrVars, advVars,
                 conn, secured, theme, links, starts>>

PeerNotifies ==
  /\ up /\ onNotify /\ \E b \in BOOLEAN : Raise("notify", b)
  /\ UNCHANGED <<up, paramVars, gattVars, qwrVars, advVars, conn, secured>>

PeerSecures ==
  /\ up /\ ~secured /\ secured' = TRUE /\ Raise("security", TRUE)
  /\ UNCHANGED <<up, paramVars, gattVars, qwrVars, advVars, conn>>

GattActs == PeerAsksMtu \/ ProcedureStarts \/ \E m \in Mtus : SetDesiredMtu(m)
GattAnswers == PeerAnswersMtu \/ ProcedureEnds
QwrActs == (\E a \in Attributes : PeerPrepares(a)) \/ \E op \in {"execute", "cancel"} : PeerEnds(op)

PeerActs ==
  /\ acts > 0 /\ acts' = acts - 1 /\ Len(events) < MaxQueue
  /\ \/ "params" \in theme /\ PeerNotifies
     \/ "security" \in theme /\ PeerSecures
     \/ "gatt" \in theme /\ GattActs /\ UNCHANGED <<paramVars, qwrVars, advVars, conn, secured>>
     \/ "writes" \in theme /\ QwrActs /\ UNCHANGED <<paramVars, gattVars, advVars, conn, secured>>
     \/ "params" \in theme /\ (ParamsStop \/ ParamsChange) /\ UNCHANGED <<gattVars, qwrVars, advVars, conn, secured>>
  /\ UNCHANGED <<theme, links, starts>>

PeerAnswers ==
  /\ GattAnswers /\ Len(events) < MaxQueue
  /\ UNCHANGED <<paramVars, qwrVars, advVars, conn, secured, bounds>>

\* Asked once, and again after each execution.
MemoryNeeded ==
  /\ "writes" \in theme /\ PeerNeedsMemory /\ Len(events) < MaxQueue
  /\ UNCHANGED <<paramVars, gattVars, advVars, conn, secured, bounds>>
-----------------------------------------------------------------------------
(* Advertising.                                                            *)

Advertising == /\ UNCHANGED <<paramVars, gattVars, qwrVars, conn, secured, theme, links, acts>>

AdvertisingEndsAlone == AdvTimesOut /\ Advertising /\ UNCHANGED starts

ApplicationAdvertises ==
  /\ starts > 0 /\ starts' = starts - 1 /\ Advertising
  /\ \/ /\ Careful => onAir = Off /\ ~up /\ events = <<>>
        /\ \E m \in Modes \ {IDLE} : StartAdvertising(m)
        /\ UNCHANGED stack
     \/ (Careful => events = <<>>) /\ "advertising" \in theme /\ RestartWithoutWhitelist
     \/ "advertising" \in theme /\ \E c \in Configs : SetModes(c)

Next ==
  \/ Dispatch \/ TimerExpires
  \/ Len(events) < MaxQueue /\ (PeerConnects \/ CentralSetsParams)
  \/ LinkLost \/ PeerActs \/ PeerAnswers \/ MemoryNeeded
  \/ AdvertisingEndsAlone \/ ApplicationAdvertises

Spec == Init /\ [][Next]_vars

\* The interrupt that hands out events and the timer are served; the SoftDevice
\* ends its procedures and its advertising, which both have timeouts.
Fairness ==
  /\ WF_vars(Dispatch) /\ WF_vars(TimerExpires)
  /\ WF_vars(updating /\ CentralSetsParams) /\ WF_vars(PeerAnswers)
  /\ WF_vars(AdvertisingEndsAlone)

FairSpec == Spec /\ Fairness
-----------------------------------------------------------------------------
\* While the parameters of the link are not acceptable, a timer runs, a request
\* is under way or its outcome waits, unless the application was told of failure
\* or stopped it, or a request was refused.  Code: the timer of the instance and
\* update_timeout_handler.
NegotiationGoesOn ==
  (inst.used /\ ~inst.ok /\ ~held /\ verdict # "failed" /\ up)
    => timer \/ updating \/ Queued("updated")

\* The application is told of failure only after the full number of requests of
\* this negotiation, and only while the parameters are not acceptable.
\* Code: update_timeout_handler and the resets of the count.
FailedIsHonest == [][verdict' = "failed" /\ verdict # "failed" => ~inst.ok /\ sent >= MaxUpdates]_vars

\* Once an exchange is over, what the application was told last is what the link
\* uses: the smaller of what both sides can take, never below the default.
\* Code: on_exchange_mtu_rsp_evt, on_exchange_mtu_request_evt.
MtuAgreed ==
  (told # 0 /\ up /\ mtuAsk # "asked" /\ ~Queued("mtu_response") /\ ~Queued("mtu_request"))
    => /\ told = gatt.effective
       /\ told = Larger(DefaultMtu, Smaller(gatt.desired, peer.mtu))

\* An execution applies what the peer prepared since the last one, all of it or
\* nothing, and nothing of an earlier link.  Code: on_prepare_write,
\* on_execute_write, on_cancel_write and the reset on disconnection.
ExecutedAsPrepared == exact

\* A link that counts as encrypted is encrypted, not only the one before it.
\* Code: record_activate and record_invalidate of ble_conn_state.c.
EncryptedIsOfThisLink == conn.encrypted /\ conn.connected /\ up /\ ~Queued("disconnected") => secured

\* While a set is on the air, the module's mode and what the application was told
\* last are what is sent.  Code: ble_advertising_start and on_terminated.
AdvertisesAsTold ==
  onAir # Off => /\ adv.mode = onAir.mode
                 /\ announced = [mode |-> onAir.mode, filtered |-> onAir.filtered]

\* A negotiation ends: the parameters are accepted, failure is announced, the
\* application holds it or the link is gone.  Code: ble_conn_params.c.
NegotiationEnds ==
  (inst.used /\ ~inst.ok) ~> (inst.ok \/ ~inst.used \/ verdict = "failed" \/ held)

\* The module's own exchange is made, whatever procedures were in its way: the
\* application is told, or the link is gone.  Code: the retry at the end of
\* nrf_ble_gatt_on_ble_evt.
MtuSettles == (up /\ conn.connected /\ gatt.desired > DefaultMtu) ~> (told # 0 \/ ~up)

\* A peer that needs memory to prepare writes gets it.  Code: user_mem_reply and
\* its retry at the start of nrf_ble_qwr_on_ble_evt.
MemoryArrives == (up /\ memory = "asked") ~> (memory # "asked" \/ ~up)

\* Advertising nobody answers goes through its modes and ends, and the
\* application is told.  Code: on_terminated and adv_mode_next_avail_get.
AdvertisingEnds == (onAir # Off) ~> (up \/ (onAir = Off /\ announced.mode = IDLE))

\* What holds between the events: the modules agree with the link, with the
\* peer and with what the application was told.
BleLinkInv ==
  BleTypeOK /\ NegotiationGoesOn /\ MtuAgreed /\ EncryptedIsOfThisLink /\ AdvertisesAsTold

\* No procedure of the modules is left hanging.
ProceduresEnd == NegotiationEnds /\ MtuSettles /\ MemoryArrives /\ AdvertisingEnds
=============================================================================
