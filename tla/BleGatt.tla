------------------------------- MODULE BleGatt -------------------------------
(***************************************************************************)
(* nrf_ble_gatt.c: the exchange of the largest ATT packet (MTU) of a link. *)
(* Either side may start it, each once per link; the module asks again     *)
(* after every event of the link while the SoftDevice is busy with another *)
(* procedure.  The data length, which follows the same pattern without the *)
(* retry, is left out.                                                     *)
(***************************************************************************)
EXTENDS BleStack

CONSTANTS
  DefaultMtu,   \* BLE_GATT_ATT_MTU_DEFAULT
  MaxMtu,       \* NRF_SDH_BLE_GATT_MAX_MTU_SIZE
  PeerMtus      \* what a peer may offer

ASSUME BleGattAssumption ==
  DefaultMtu \in Nat /\ MaxMtu \in Nat /\ DefaultMtu <= MaxMtu /\ PeerMtus \subseteq Nat

VARIABLES
  gatt,        \* p_gatt->links[0]
  desired,     \* p_gatt->att_mtu_desired_periph
  mtuAsk,      \* the exchange this side starts: "no", "asked" or "done"
  procedure,   \* another procedure of the GATT client is in progress
  peer,        \* the peer of the link: what it offers, whether it has asked
  told         \* history: the MTU the application was told of on this link, or 0

gattVars == <<gatt, desired, mtuAsk, procedure, peer, told>>

Mtus == DefaultMtu .. MaxMtu

GattTypeOK ==
  /\ gatt \in [desired : Mtus, effective : Mtus, pending : BOOLEAN, requested : BOOLEAN]
  /\ desired \in Mtus /\ told \in Mtus \cup {0}
  /\ mtuAsk \in {"no", "asked", "done"} /\ procedure \in BOOLEAN
  /\ peer \in [mtu : PeerMtus, asked : BOOLEAN]

Smaller(a, b) == IF a < b THEN a ELSE b
Larger(a, b) == IF a > b THEN a ELSE b

\* link_init
FreshLink == [desired |-> MaxMtu, effective |-> DefaultMtu, pending |-> FALSE, requested |-> FALSE]

GattInit ==
  /\ gatt = FreshLink /\ desired = MaxMtu
  /\ mtuAsk = "no" /\ procedure = FALSE /\ told = 0
  /\ peer \in [mtu : PeerMtus, asked : {FALSE}]

\* sd_ble_gattc_exchange_mtu_request
MtuAnswer == IF ~up \/ mtuAsk # "no" THEN "error" ELSE IF procedure THEN "busy" ELSE "success"

AskMtu(g) ==
  [g EXCEPT !.requested = @ \/ MtuAnswer = "success",
            !.pending = (@ \/ MtuAnswer = "busy") /\ MtuAnswer # "success"]

\* on_connected_evt, with the new link's desired value.
GattConnected ==
  LET g == [gatt EXCEPT !.desired = desired] IN
  IF g.desired > g.effective THEN AskMtu(g) ELSE g

\* on_exchange_mtu_rsp_evt
GattAnswered(mtu) ==
  [gatt EXCEPT !.effective = Larger(Smaller(mtu, gatt.desired), DefaultMtu),
               !.requested = FALSE, !.pending = FALSE]

\* on_exchange_mtu_request_evt tells the application unless an answer is due.
ToldByRequest(g) == ~g.requested

\* Changed on purpose: the own limit is forgotten.
GattAskedAlone(mtu) == [gatt EXCEPT !.effective = Larger(mtu, DefaultMtu), !.pending = FALSE]

GattAsked(mtu) ==
  [gatt EXCEPT !.effective = Smaller(Larger(mtu, DefaultMtu), gatt.desired), !.pending = FALSE]

\* The link's state after the case of the event in nrf_ble_gatt_on_ble_evt.
GattCase(e) ==
  CASE e[1] = "connected"    -> GattConnected
    [] e[1] = "disconnected" -> FreshLink
    [] e[1] = "mtu_response" -> GattAnswered(e[2])
    [] e[1] = "mtu_request"  -> GattAsked(e[2])
    [] OTHER                 -> gatt

\* nrf_ble_gatt_on_ble_evt: after every event of the link a pending request is
\* tried again.
GattHandle(e) ==
  /\ gatt' = IF GattCase(e).pending /\ e[1] # "terminated"
             THEN AskMtu(GattCase(e)) ELSE GattCase(e)
  /\ mtuAsk' = IF gatt'.requested /\ MtuAnswer = "success" /\ ~gatt.requested THEN "asked" ELSE mtuAsk
  /\ told' = IF \/ e[1] = "mtu_response" /\ gatt.requested
                \/ e[1] = "mtu_request" /\ ToldByRequest(gatt)
             THEN gatt'.effective ELSE told
  /\ UNCHANGED <<desired, procedure, peer>>
-----------------------------------------------------------------------------
(* The peer and the SoftDevice's GATT client.                              *)

GattLinkUp ==
  /\ mtuAsk' = "no" /\ procedure' = FALSE /\ told' = 0
  /\ peer' \in [mtu : PeerMtus, asked : {FALSE}]
  /\ UNCHANGED <<gatt, desired>>

\* The peer asks, once: the handler replies with the desired value.
PeerAsksMtu ==
  /\ up /\ ~peer.asked
  /\ peer' = [peer EXCEPT !.asked = TRUE]
  /\ Raise("mtu_request", peer.mtu)
  /\ UNCHANGED <<up, gatt, desired, mtuAsk, procedure, told>>

PeerAnswersMtu ==
  /\ up /\ mtuAsk = "asked"
  /\ mtuAsk' = "done"
  /\ Raise("mtu_response", peer.mtu)
  /\ UNCHANGED <<up, gatt, desired, procedure, peer, told>>

\* The application uses the GATT client.
ProcedureStarts ==
  /\ up /\ ~procedure /\ mtuAsk # "asked"
  /\ procedure' = TRUE
  /\ UNCHANGED <<stack, gatt, desired, mtuAsk, peer, told>>

ProcedureEnds ==
  /\ up /\ procedure
  /\ procedure' = FALSE
  /\ Raise("procedure", 0)
  /\ UNCHANGED <<up, gatt, desired, mtuAsk, peer, told>>

\* nrf_ble_gatt_att_mtu_periph_set
SetDesiredMtu(mtu) ==
  /\ desired' = mtu
  /\ UNCHANGED <<stack, gatt, mtuAsk, procedure, peer, told>>
=============================================================================
