----------------------------- MODULE MCPromotion -----------------------------
(***************************************************************************)
(* Small instances of Promotion: d1 and d3 carry the same text (a content  *)
(* re-accepted after a deactivation), d2 carries another.                  *)
(***************************************************************************)
EXTENDS Promotion, TLC

CONSTANTS d1, d2, d3, h1, h2, s1, s2, r1

MCHashOf == [d \in Decision |-> IF d = d2 THEN h2 ELSE h1]
=============================================================================
