--------------------------- MODULE MCSubscription ---------------------------
(* Model-checking instances of Subscription. *)
EXTENDS Subscription

CONSTANTS c1, c2, a1, a2

MCAppOf(c) == IF c = c1 THEN a1 ELSE a2
=============================================================================
