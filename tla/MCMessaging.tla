----------------------------- MODULE MCMessaging -----------------------------
(* Messaging with two requests, one reply each. *)
EXTENDS Messaging

Once == [r \in Requests |-> 1]
=============================================================================
