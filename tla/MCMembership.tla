---------------------------- MODULE MCMembership -----------------------------
(* Two nodes, one with the other and with a third host as bootstrap members.  *)
(* The third host may be down, or listen without running a cluster.  mDNS      *)
(* works one way.                                                             *)
EXTENDS Membership, TLC

CONSTANTS a, b, c

MCNodes == {a, b}
MCHosts == {a, b, c}
MCBootstrap == (a :> {b, c}) @@ (b :> {})
MCVisible == {<<b, a>>}
=============================================================================
