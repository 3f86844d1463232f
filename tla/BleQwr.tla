------------------------------- MODULE BleQwr -------------------------------
(***************************************************************************)
(* nrf_ble_qwr.c: queued writes.  The peer prepares writes, which the      *)
(* SoftDevice stores in memory it first has to ask for, and then executes  *)
(* or cancels all of them; the module authorizes each step.  The values    *)
(* stay in that memory; the module keeps the attributes that were written. *)
(***************************************************************************)
EXTENDS BleStack

CONSTANTS
  Attributes,   \* the attributes of the device
  Registered    \* those registered with nrf_ble_qwr_attr_register

ASSUME BleQwrAssumption == Registered \subseteq Attributes /\ IsFiniteSet(Registered)

VARIABLES
  qwr,          \* the instance: whether it has the link's handle, whether a
                \* reply is pending, written_attr_handles
  memory,       \* of the SoftDevice: "none", "asked" or "given"
  authorizing,  \* what the SoftDevice wants authorized, or "none"
  prepared,     \* history: the attributes the peer prepared with success
  exact         \* history: every execution applied what was prepared, or nothing
                \* when the peer was not told of success

qwrVars == <<qwr, memory, authorizing, prepared, exact>>

QwrTypeOK ==
  /\ qwr \in [assigned : BOOLEAN, pending : BOOLEAN, written : Seq(Registered)]
  /\ Len(qwr.written) <= Cardinality(Registered)
  /\ memory \in {"none", "asked", "given"}
  /\ authorizing \in {"none", "prepare", "execute", "cancel"}
  /\ prepared \subseteq Attributes
  /\ exact \in BOOLEAN

QwrInit ==
  /\ qwr = [assigned |-> FALSE, pending |-> FALSE, written |-> <<>>]
  /\ memory = "none" /\ authorizing = "none" /\ prepared = {}
  /\ exact = TRUE

Written == {qwr.written[i] : i \in DOMAIN qwr.written}

\* sd_ble_user_mem_reply: busy while it has events to give, an error without a
\* request.
ReplyAnswers(asked) ==
  IF ~up \/ asked # "asked" THEN {"error"}
  ELSE {"success"} \cup (IF Len(events) > 1 THEN {"busy"} ELSE {})

\* Changed on purpose: a busy SoftDevice is not answered again.
StillPendingNever(answer) == answer = "error"

StillPending(answer) == answer # "success"

\* user_mem_reply with a reply pending: what may come of it.
Replies(asked) ==
  {[pending |-> StillPending(answer), memory |-> IF answer = "success" THEN "given" ELSE asked] :
     answer \in ReplyAnswers(asked)}

\* on_prepare_write; without a link the reply fails and all is cancelled.
WithPrepared(q, attribute) ==
  [q EXCEPT !.written = IF ~up THEN <<>>
                        ELSE IF attribute \in Registered \ Written THEN Append(@, attribute) ELSE @]

OnPrepare(q, attribute) ==
  /\ qwr' = WithPrepared(q, attribute)
  /\ authorizing' = "none"
  /\ prepared' = IF up /\ attribute \in Registered THEN prepared \cup {attribute} ELSE prepared
  /\ UNCHANGED exact

\* on_execute_write: the application must accept every written attribute before
\* any is applied; the peer is told, if it is still there.
OnExecute(q) ==
  /\ \E accepted \in BOOLEAN :
       LET applied == IF accepted THEN Written ELSE {}
           success == accepted /\ Written # {} IN
       exact' = (exact /\ applied = IF success THEN prepared ELSE {})
  /\ qwr' = [q EXCEPT !.written = <<>>]
  /\ authorizing' = "none" /\ prepared' = {}

\* on_cancel_write
OnCancel(q) ==
  /\ qwr' = [q EXCEPT !.written = <<>>]
  /\ authorizing' = "none" /\ prepared' = {}
  /\ UNCHANGED exact

\* Changed on purpose: what the peer of the last link prepared is kept.
ForgetHandleOnly(q) == [q EXCEPT !.assigned = FALSE]

\* BLE_GAP_EVT_DISCONNECTED: is_user_mem_reply_pending stays as it is.
Forget(q) == [q EXCEPT !.assigned = FALSE, !.written = <<>>]

\* The case of the event in nrf_ble_qwr_on_ble_evt, and the application's handler
\* of the connected event, which comes later and assigns the handle.
QwrCase(e, q) ==
  CASE e[1] = "prepare" /\ q.assigned -> OnPrepare(q, e[2])
    [] e[1] = "execute" /\ q.assigned -> OnExecute(q)
    [] e[1] = "cancel" /\ q.assigned  -> OnCancel(q)
    [] OTHER ->
         /\ qwr' = CASE e[1] = "connected" -> [q EXCEPT !.assigned = TRUE]
                     [] e[1] = "disconnected" /\ q.assigned -> Forget(q)
                     [] e[1] = "mem_release" /\ q.assigned -> [q EXCEPT !.written = <<>>]
                     [] OTHER -> q
         /\ UNCHANGED <<authorizing, prepared, exact>>

\* The event has the handle the instance has; that of "terminated" is invalid,
\* and so is the handle of an instance without a link.
IsForInstance(e) == IF e[1] = "terminated" THEN ~qwr.assigned ELSE qwr.assigned

\* nrf_ble_qwr_on_ble_evt: a pending reply is tried before every event, and a
\* request is answered at once.
QwrHandle(e) ==
  \E r \in IF qwr.pending /\ IsForInstance(e) THEN Replies(memory)
           ELSE {[pending |-> qwr.pending, memory |-> memory]} :
    \E s \in IF e[1] = "mem_request" /\ qwr.assigned THEN Replies(r.memory) ELSE {r} :
      /\ memory' = IF e[1] \in {"execute", "cancel"} THEN "none" ELSE s.memory
      /\ QwrCase(e, [qwr EXCEPT !.pending = s.pending])

\* After an execution or a cancellation the SoftDevice gives its memory back.
QwrRaises(e) ==
  IF e[1] \in {"execute", "cancel"} /\ up /\ memory = "given" THEN <<<<"mem_release", 0>>>> ELSE <<>>
-----------------------------------------------------------------------------
(* The peer.  The next request waits until this one is authorized.         *)

QwrLinkUp ==
  /\ memory' = "none" /\ authorizing' = "none" /\ prepared' = {}
  /\ UNCHANGED <<qwr, exact>>

\* Before the first write is prepared.
PeerNeedsMemory ==
  /\ up /\ authorizing = "none" /\ memory = "none"
  /\ memory' = "asked"
  /\ Raise("mem_request", 0)
  /\ UNCHANGED <<up, qwr, authorizing, prepared, exact>>

PeerPrepares(attribute) ==
  /\ up /\ authorizing = "none" /\ memory = "given"
  /\ authorizing' = "prepare"
  /\ Raise("prepare", attribute)
  /\ UNCHANGED <<up, qwr, memory, prepared, exact>>

PeerEnds(operation) ==
  /\ up /\ authorizing = "none" /\ memory # "asked"
  /\ authorizing' = operation
  /\ Raise(operation, 0)
  /\ UNCHANGED <<up, qwr, memory, prepared, exact>>
=============================================================================
