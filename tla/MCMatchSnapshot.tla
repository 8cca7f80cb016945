-------------------------- MODULE MCMatchSnapshot --------------------------
(***************************************************************************)
(* Small instances of MatchSnapshot: b1 and b2 back one text, b2 accepted  *)
(* after b1 was deactivated.                                               *)
(***************************************************************************)
EXTENDS MatchSnapshot, TLC

CONSTANTS b1, b2, r1, r2, c1, c2

OneText == [b \in {b1, b2} |-> r1]
Single == [b \in {b1} |-> r1]

Callers == Permutations(Caller)
Backings == Permutations(Backing)
=============================================================================
