------------------------------ MODULE BleStack ------------------------------
(***************************************************************************)
(* The SoftDevice as the BLE modules see it: at most one link, to a        *)
(* central, and the events it queues for SD_EVT_IRQHandler, which gives    *)
(* each to all modules before the next (nrf_sdh_ble.c).  Connection handle *)
(* zero is reused by every link, so what a module forgets to forget about  *)
(* one link is taken for the next.  What concerns one module only stands   *)
(* in that module.                                                         *)
(***************************************************************************)
EXTENDS Integers, Sequences, FiniteSets

VARIABLES
  up,       \* the link exists, though its first event may still be queued
  events    \* the events not yet given to the modules, as <<name, value>>

stack == <<up, events>>

Queued(name) == \E i \in DOMAIN events : events[i][1] = name

Raise(name, value) == events' = Append(events, <<name, value>>)

\* The link is gone: by the peer, a supervision timeout or sd_ble_gap_disconnect.
Drop == up' = FALSE /\ events' = IF up THEN Append(events, <<"disconnected", 0>>) ELSE events
=============================================================================
