---------------------------- MODULE MCLiteManager ----------------------------
(* Two nodes of two countries. *)
EXTENDS LiteManager, TLC

CONSTANTS n1, n2, p1, p2, p3, d1, d2, jp, us
MCCountry == (n1 :> jp) @@ (n2 :> us)
=============================================================================
