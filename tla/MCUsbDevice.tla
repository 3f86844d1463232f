---------------------------- MODULE MCUsbDevice ----------------------------
(***************************************************************************)
(* The USB device, which is one user of the high-frequency clock, and the  *)
(* clock with three users: UsbDevice has of the clock what its one user    *)
(* sees, so a behaviour is about one of the two.                           *)
(***************************************************************************)
EXTENDS UsbDevice, HfClock

VARIABLE about

mcVars == <<vars, hfclkVars, about>>

MCInit ==
  /\ Init /\ ClockInit
  /\ \/ about = "usb"
     \/ about = "clock" /\ ~vbus

MCNext ==
  /\ UNCHANGED about
  /\ \/ about = "usb" /\ Next /\ UNCHANGED hfclkVars
     \/ about = "clock" /\ ClockNext /\ UNCHANGED vars

MCSpec == MCInit /\ [][MCNext]_mcVars /\ Fairness /\ ClockFairness
=============================================================================
