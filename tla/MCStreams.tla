------------------------------ MODULE MCStreams ------------------------------
(* Streams on a few messages between two senders and two targets. *)
EXTENDS Streams

CONSTANTS alice, bob, carol, ping, pong

Delivery(data, type, sender, target, serializable) ==
  [data |-> data, type |-> type, sender |-> sender, target |-> target,
   serializable |-> serializable]

(* Message 2 has no sender, 3 has a type the other node does not know, 4   *)
(* cannot be serialized.                                                   *)
Mixed ==
  << Delivery(1, ping, alice, bob, TRUE),
     Delivery(2, ping, Nobody, carol, TRUE),
     Delivery(3, pong, carol, bob, TRUE),
     Delivery(4, ping, carol, carol, FALSE) >>

Plain ==
  << Delivery(1, ping, alice, bob, TRUE),
     Delivery(2, ping, Nobody, carol, TRUE) >>
=============================================================================
