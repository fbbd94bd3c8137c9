------------------------------ MODULE MCAgent ------------------------------
(* Agent with two nodes and one ID. *)
EXTENDS Agent, TLC

CONSTANTS n1, n2, a, c1, c2, c3

Call(op, at) == [op |-> op, at |-> at, id |-> a]

(* An Activate at each node, or an Activate and a Spawn at one; then a     *)
(* Deactivate at the other                                                 *)
Mixed ==
  { (c1 :> Call("activate", n1)) @@ (c2 :> Call("activate", n2)) @@ (c3 :> Call("deactivate", n2)),
    (c1 :> Call("activate", n1)) @@ (c2 :> Call("spawn", n1)) @@ (c3 :> Call("deactivate", n2)) }

Twice == { (c1 :> Call("activate", n1)) @@ (c2 :> Call("activate", n1)) }

(* Both nodes see each other join, n1 later loses n2. *)
JoinLeave == (n1 :> <<{n1, n2}, {n1}>>) @@ (n2 :> <<{n1, n2}>>)
Join == [n \in Nodes |-> <<Nodes>>]
=============================================================================
