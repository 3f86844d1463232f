---------------------------- MODULE MCUsbControl ----------------------------
(* UsbControl with a full packet of two bytes: an answer that needs an empty *)
(* packet, one that ends short, one cut short and one of two full packets.   *)
EXTENDS UsbControl

MCReads == {<<4, 2>>, <<4, 3>>, <<1, 2>>, <<4, 4>>}
=============================================================================
