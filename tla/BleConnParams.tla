---------------------------- MODULE BleConnParams ----------------------------
(***************************************************************************)
(* ble_conn_params.c: asks the central for other connection parameters     *)
(* until they are acceptable or it has asked often enough.  It acts on     *)
(* events of the SoftDevice and on the expiry of its timer; the delays     *)
(* themselves do not matter.  The modules support one link, so there is    *)
(* one instance.                                                           *)
(***************************************************************************)
EXTENDS BleStack

CONSTANTS
  Preferences,     \* the sets of parameters the application may prefer
  Offers,          \* the parameters a central may choose
  LatencyError,    \* NRF_BLE_CONN_PARAMS_MAX_SLAVE_LATENCY_DEVIATION
  TimeoutError,    \* NRF_BLE_CONN_PARAMS_MAX_SUPERVISION_TIMEOUT_DEVIATION
  MaxUpdates,      \* max_conn_params_update_count
  DisconnectOnFail

ASSUME BleConnParamsAssumption ==
  /\ \A p \in Preferences : {p.min, p.max, p.latency, p.timeout} \subseteq Nat
  /\ \A o \in Offers : {o.interval, o.latency, o.timeout} \subseteq Nat
  /\ LatencyError \in Nat /\ TimeoutError \in Nat /\ MaxUpdates \in Nat \ {0}
  /\ DisconnectOnFail \in BOOLEAN

VARIABLES
  inst,       \* m_conn_params_instances[0]
  onNotify,   \* start_on_notify_cccd_handle is set: the peer starts negotiations
  preferred,  \* m_preferred_conn_params
  timer,      \* its timer runs
  updating,   \* the SoftDevice asks the central, or waits to be told of the answer
  verdict,    \* history: what the application was told of this negotiation
  sent,       \* history: requests accepted since the negotiation began
  held        \* history: since the timer was last started, a request failed or
              \* the application ended the negotiation

paramVars == <<inst, onNotify, preferred, timer, updating, verdict, sent, held>>

ParamsTypeOK ==
  /\ inst \in [used : BOOLEAN, ok : BOOLEAN, count : 0 .. MaxUpdates, preferred : Preferences]
  /\ onNotify \in BOOLEAN /\ preferred \in Preferences
  /\ timer \in BOOLEAN /\ updating \in BOOLEAN /\ held \in BOOLEAN
  /\ verdict \in {"none", "succeeded", "failed"} /\ sent \in 0 .. MaxUpdates

ParamsInit ==
  /\ onNotify \in BOOLEAN /\ preferred \in Preferences
  /\ inst = [used |-> FALSE, ok |-> FALSE, count |-> 0, preferred |-> preferred]
  /\ timer = FALSE /\ updating = FALSE /\ verdict = "none" /\ sent = 0 /\ held = FALSE

\* Around a number, as far as below zero allows.
Around(value, error) == (IF error > value THEN 0 ELSE value - error) .. value + error

\* is_conn_params_ok
ParamsOk(p, o) ==
  /\ o.interval \in p.min .. p.max
  /\ o.latency \in Around(p.latency, LatencyError)
  /\ o.timeout \in Around(p.timeout, TimeoutError)

\* Changed on purpose: the attempts of the last negotiation still count.
NegotiateKeepsCount(p, requests) ==
  /\ inst' = p
  /\ \/ p.ok /\ verdict' = "succeeded" /\ sent' = 0 /\ UNCHANGED <<timer, held>>
     \/ ~p.ok /\ verdict' = "none" /\ sent' = requests /\ timer' = TRUE /\ held' = FALSE

\* conn_params_negotiation: it does not stop a timer that runs.
Negotiate(p, requests) ==
  /\ inst' = [p EXCEPT !.count = IF p.ok THEN 0 ELSE @]
  /\ \/ p.ok /\ verdict' = "succeeded" /\ sent' = 0 /\ UNCHANGED <<timer, held>>
     \/ ~p.ok /\ verdict' = "none" /\ sent' = requests /\ timer' = TRUE /\ held' = FALSE

\* on_connect: the instance is claimed; negotiation may wait for the peer.
ParamsConnected(offer) ==
  LET p == [used |-> TRUE, ok |-> ParamsOk(preferred, offer), count |-> 0,
            preferred |-> preferred] IN
  \/ inst.used /\ UNCHANGED <<inst, timer, verdict, sent, held>>
  \/ ~inst.used /\ ~onNotify /\ Negotiate(p, 0)
  \/ /\ ~inst.used /\ onNotify
     /\ inst' = p /\ verdict' = "none" /\ sent' = 0 /\ held' = TRUE
     /\ UNCHANGED timer

\* on_disconnect
ParamsDisconnected ==
  /\ inst' = [inst EXCEPT !.used = FALSE]
  /\ timer' = (timer /\ ~inst.used)
  /\ UNCHANGED <<verdict, sent, held>>

\* on_write, of the configured descriptor.
ParamsNotify(enabled) ==
  \/ inst.used /\ enabled /\ Negotiate(inst, sent)
  \/ /\ inst.used /\ ~enabled
     /\ timer' = FALSE /\ held' = TRUE
     /\ UNCHANGED <<inst, verdict, sent>>
  \/ ~inst.used /\ UNCHANGED <<inst, timer, verdict, sent, held>>

\* on_conn_params_update
ParamsUpdated(offer) ==
  \/ inst.used /\ Negotiate([inst EXCEPT !.ok = ParamsOk(inst.preferred, offer)], sent)
  \/ ~inst.used /\ UNCHANGED <<inst, timer, verdict, sent, held>>

\* ble_evt_handler.  Of a procedure the SoftDevice ran, "updated" is the end.
ParamsHandle(e) ==
  /\ UNCHANGED <<onNotify, preferred, updating>>
  /\ CASE e[1] = "connected"    -> ParamsConnected(e[2])
       [] e[1] = "disconnected" -> ParamsDisconnected
       [] e[1] = "notify"       -> onNotify /\ ParamsNotify(e[2])
       [] e[1] = "updated"      -> ParamsUpdated(e[2])
       [] OTHER                 -> UNCHANGED <<inst, timer, verdict, sent, held>>
-----------------------------------------------------------------------------
\* sd_ble_gap_conn_param_update: one procedure at a time; it may be refused.
UpdateAnswers == IF ~up THEN {"error"} ELSE IF updating THEN {"busy"} ELSE {"success", "error"}

\* send_update_request and what update_timeout_handler makes of the answer:
\* after BUSY it waits for the event of the procedure in progress.
SendRequest ==
  \E answer \in UpdateAnswers :
    /\ updating' = (updating \/ answer = "success")
    /\ inst' = [inst EXCEPT !.count = IF answer = "success" THEN @ + 1 ELSE @]
    /\ sent' = IF answer = "success" THEN sent + 1 ELSE sent
    /\ held' = (held \/ answer = "error")
    /\ UNCHANGED <<verdict, stack>>

GiveUp ==
  /\ inst' = [inst EXCEPT !.count = 0]
  /\ verdict' = "failed" /\ sent' = 0
  /\ IF DisconnectOnFail THEN Drop ELSE UNCHANGED stack
  /\ UNCHANGED <<updating, held>>

MayAsk(p) == p.count < MaxUpdates

\* update_timeout_handler
ParamsTimeout ==
  /\ timer
  /\ timer' = FALSE
  /\ UNCHANGED <<onNotify, preferred>>
  /\ \/ inst.used /\ MayAsk(inst) /\ SendRequest
     \/ inst.used /\ ~MayAsk(inst) /\ GiveUp
     \/ ~inst.used /\ UNCHANGED <<inst, updating, verdict, sent, held, stack>>

\* ble_conn_params_stop
ParamsStop ==
  /\ timer' = FALSE /\ held' = TRUE
  /\ UNCHANGED <<inst, onNotify, preferred, updating, verdict, sent, stack>>

\* ble_conn_params_change_conn_params
ParamsChange ==
  /\ inst.used /\ "success" \in UpdateAnswers
  /\ \E p \in Preferences :
       inst' = [inst EXCEPT !.ok = FALSE, !.count = 1, !.preferred = p]
  /\ updating' = TRUE /\ verdict' = "none" /\ sent' = 1 /\ held' = FALSE
  /\ UNCHANGED <<onNotify, preferred, timer, stack>>
=============================================================================
