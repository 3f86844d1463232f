----------------------------- MODULE MCAppTimer -----------------------------
(* AppTimer with one timer that the thread and level 2 use, and one that an
   interrupt above uses; the handler of each may use its own. *)
EXTENDS AppTimer

MCUses == {<<1, "t1">>, <<2, "t1">>, <<3, "t2">>}
=============================================================================
