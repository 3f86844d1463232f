------------------------------ MODULE FifoSpec ------------------------------
(***************************************************************************)
(* What the atomic FIFO of nrf_atfifo.h promises its users, without ring   *)
(* indices: a bounded queue whose items pass, in reservation order, from   *)
(* "pending" (space reserved, item still being written) to "ready"         *)
(* (visible to readers) to "open" (being read, space not yet reusable).    *)
(* Writers and readers nest, so pending items become visible together,     *)
(* when the outermost write commits, and open items are released           *)
(* together, when the outermost read is freed.                             *)
(***************************************************************************)
EXTENDS Naturals, Sequences

CONSTANTS
  Capacity,  \* item_cnt of NRF_ATFIFO_DEF: the items the FIFO may hold
  Items      \* the values that may be queued

VARIABLES pending, ready, open

fifoVars == <<pending, ready, open>>

FifoTypeOK ==
  /\ pending \in Seq(Items)
  /\ ready \in Seq(Items)
  /\ open \in Seq(Items)

Held == Len(pending) + Len(ready) + Len(open)

FifoInit == pending = <<>> /\ ready = <<>> /\ open = <<>>

\* nrf_atfifo_item_alloc with space left: the item takes its place in the order.
Reserve(x) ==
  /\ Held < Capacity
  /\ pending' = Append(pending, x)
  /\ UNCHANGED <<ready, open>>

\* nrf_atfifo_item_put of the outermost write.
Publish ==
  /\ ready' = ready \o pending
  /\ pending' = <<>>
  /\ UNCHANGED open

\* nrf_atfifo_item_get with an item visible.
Take ==
  /\ ready # <<>>
  /\ open' = Append(open, Head(ready))
  /\ ready' = Tail(ready)
  /\ UNCHANGED pending

\* nrf_atfifo_item_free of the outermost read.
Release ==
  /\ open' = <<>>
  /\ UNCHANGED <<pending, ready>>

\* nrf_atfifo_clear: what is visible is dropped; the space is released at
\* once, or with the read that is open.
Drop ==
  /\ ready' = <<>>
  /\ open' = IF open = <<>> THEN <<>> ELSE open \o ready
  /\ UNCHANGED pending

FifoNext ==
  \/ \E x \in Items : Reserve(x)
  \/ Publish
  \/ Take
  \/ Release
  \/ Drop

FifoSpecification == FifoInit /\ [][FifoNext]_fifoVars
=============================================================================
