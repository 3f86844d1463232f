--------------------------- MODULE BleAdvertising ---------------------------
(***************************************************************************)
(* ble_advertising.c: connectable advertising in modes that follow one     *)
(* another when they time out, filtered by a whitelist on request.  In     *)
(* this firmware the return to advertising after a disconnection and the   *)
(* wait for the flash are commented out.  Intervals, PHYs and the data are *)
(* left out, but for the flags byte of the data.                           *)
(***************************************************************************)
EXTENDS BleStack, FiniteSetsExt

CONSTANTS Configs    \* the modes and options the application may configure

\* ble_adv_mode_t
IDLE == 0
DIRECTED_HIGH_DUTY == 1
DIRECTED == 2
FAST == 3
SLOW == 4
Modes == IDLE .. SLOW

\* config_is_valid: high duty excludes extended advertising.
ASSUME BleAdvertisingAssumption ==
  \A c \in Configs : /\ c.enabled \subseteq Modes \ {IDLE}
                     /\ c.whitelist \in BOOLEAN /\ c.extended \in BOOLEAN
                     /\ ~(DIRECTED_HIGH_DUTY \in c.enabled /\ c.extended)

VARIABLES
  adv,         \* the instance
  onAir,       \* of the SoftDevice: the mode it advertises in, whether it filters
               \* connections, and the flags it sends
  announced    \* history: what the application was told last

advVars == <<adv, onAir, announced>>

Flags == {"general", "undiscoverable"}
Off == [mode |-> IDLE, filtered |-> FALSE, flags |-> "general"]

AdvTypeOK ==
  /\ adv \in [config : Configs, mode : Modes, inUse : BOOLEAN, withoutList : BOOLEAN, flags : Flags]
  /\ onAir \in [mode : Modes, filtered : BOOLEAN, flags : Flags]
  /\ announced \in [mode : Modes, filtered : BOOLEAN]

\* ble_advertising_init
AdvInit ==
  /\ \E c \in Configs : adv = [config |-> c, mode |-> IDLE, inUse |-> FALSE,
                               withoutList |-> FALSE, flags |-> "general"]
  /\ onAir = Off
  /\ announced = [mode |-> IDLE, filtered |-> FALSE]

\* adv_mode_next_get
ModeAfter(mode) == (mode + 1) % 5

\* adv_mode_next_avail_get: the first mode from this one on that can be used.
Available(c, mode, hasPeer) ==
  LET usable == {m \in mode .. SLOW : m \in c.enabled /\ (m <= DIRECTED => hasPeer)} IN
  IF mode = IDLE \/ usable = {} THEN IDLE ELSE Min(usable)

\* The application is asked for the address of a peer.
AsksForPeer(c, mode) ==
  \/ mode = DIRECTED_HIGH_DUTY /\ c.enabled \cap {DIRECTED_HIGH_DUTY, DIRECTED} # {}
  \/ mode = DIRECTED /\ DIRECTED \in c.enabled

\* use_whitelist
Filters(a) == a.mode \in {FAST, SLOW} /\ a.config.whitelist /\ ~a.withoutList /\ a.inUse

\* ble_advertising_start up to its calls of the SoftDevice: the event handler
\* answers a request at once, with the address or with a list that is not empty,
\* or not at all.  A later answer changes nothing: the next start asks again.
Started(a, mode, hasPeer, hasList) ==
  LET chosen   == Available(a.config, mode, hasPeer /\ AsksForPeer(a.config, mode))
      asksList == chosen \in {FAST, SLOW} /\ a.config.whitelist /\ ~a.withoutList
      b        == [a EXCEPT !.mode = chosen, !.inUse = IF asksList THEN hasList ELSE @] IN
  [b EXCEPT !.flags = IF Filters(b) THEN "undiscoverable" ELSE @]

\* The rest of ble_advertising_start.  The SoftDevice refuses a set that is on
\* the air, and any while there is a link.
Announce(a, air) ==
  /\ adv' = a
  /\ \/ /\ a.mode = IDLE
        /\ announced' = [mode |-> IDLE, filtered |-> FALSE] /\ onAir' = air
     \/ /\ a.mode # IDLE /\ air = Off /\ ~up
        /\ onAir' = [mode |-> a.mode, filtered |-> Filters(a), flags |-> a.flags]
        /\ announced' = [mode |-> a.mode, filtered |-> Filters(a)]
     \/ /\ a.mode # IDLE /\ (air # Off \/ up)
        /\ onAir' = air /\ UNCHANGED announced

\* ble_advertising_start
StartAdvertising(mode) ==
  \E hasPeer, hasList \in BOOLEAN : Announce(Started(adv, mode, hasPeer, hasList), onAir)

\* on_disconnected: nothing is started.
WhitelistBack(a) == [a EXCEPT !.withoutList = FALSE]

\* ble_advertising_on_ble_evt
AdvHandle(e) ==
  \/ e[1] = "terminated" /\ StartAdvertising(ModeAfter(adv.mode))
  \/ e[1] = "disconnected" /\ adv' = WhitelistBack(adv) /\ UNCHANGED <<onAir, announced>>
  \/ e[1] \notin {"terminated", "disconnected"} /\ UNCHANGED advVars

WithoutWhitelist == [adv EXCEPT !.withoutList = TRUE, !.inUse = FALSE, !.flags = "general"]

\* ble_advertising_restart_without_whitelist takes the set off the air first.
RestartWithoutWhitelist ==
  /\ \E hasPeer \in BOOLEAN :
       Announce(Started(WithoutWhitelist, adv.mode, hasPeer, FALSE), Off)
  /\ UNCHANGED stack

\* ble_advertising_modes_config_set
SetModes(c) == adv' = [adv EXCEPT !.config = c] /\ UNCHANGED <<stack, onAir, announced>>
-----------------------------------------------------------------------------
(* The SoftDevice.                                                         *)

AdvTimesOut ==
  /\ onAir # Off
  /\ onAir' = Off
  /\ Raise("terminated", 0)
  /\ UNCHANGED <<up, adv, announced>>

\* A link ends the advertising it was made from.
AdvLinkUp == onAir # Off /\ onAir' = Off /\ UNCHANGED <<adv, announced>>
=============================================================================
