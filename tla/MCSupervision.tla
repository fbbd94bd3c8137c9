--------------------------- MODULE MCSupervision ---------------------------
(* Supervision for TLC: a root with two children, one of them a parent. *)
EXTENDS Supervision, TLC

CONSTANTS c1, c2, g, x, y

Tree == c1 :> Root @@ c2 :> Root @@ g :> c1
Chain == c1 :> Root @@ g :> c1

TwoCalls == {<<x, Root>>, <<x, g>>}
ThreeCalls == TwoCalls \cup {<<y, Root>>}
=============================================================================
