----------------------------- MODULE GlinkQueue -----------------------------
(***************************************************************************)
(* What one direction of the GLINK transport promises the rest of          *)
(* pmic_glink.c: a first-in first-out queue of whole messages.  The code   *)
(* above the ring (qpg_poll, the qpg_send_* helpers) relies on this and    *)
(* on nothing else about the shared memory.  GlinkFifo implements it.      *)
(***************************************************************************)
EXTENDS Sequences

CONSTANT Message        \* what qpg_tx is asked to send

VARIABLES queue,        \* messages published and not yet received
          received      \* the message the receiver was handed last, or Nothing

Nothing == [none |-> TRUE]

Init == /\ queue = <<>>
        /\ received = Nothing

(* qpg_tx returned 0: the message is visible to the other side as a whole. *)
Send(m) == /\ queue' = Append(queue, m)
           /\ UNCHANGED received

(* qpg_poll found the oldest message, in full and unaltered. *)
Receive == /\ queue # <<>>
           /\ received' = Head(queue)
           /\ queue' = Tail(queue)

Next == \/ \E m \in Message : Send(m)
        \/ Receive

Spec == Init /\ [][Next]_<<queue, received>>
=============================================================================
