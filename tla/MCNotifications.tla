--------------------------- MODULE MCNotifications ---------------------------
(***************************************************************************)
(* An instance of Notifications for TLC: a confirmation that two producers *)
(* announce, and a marketing event whose template nobody knows.            *)
(***************************************************************************)
EXTENDS Notifications

Announcements ==
    {[offset |-> o, type |-> "souq.order.confirmed.v1", subject |-> "order"] : o \in 1 .. 2}

Marketing(offset, channel, template) ==
    [offset |-> offset, type |-> "souq.notify.v1", subject |-> "cart", template |-> template,
     channel |-> channel, to |-> TRUE, user |-> TRUE]

Confirmations == Announcements \union {Marketing(3, "EMAIL", "unknown")}
=============================================================================
