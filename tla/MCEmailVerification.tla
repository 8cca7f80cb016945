------------------------ MODULE MCEmailVerification ------------------------
(***************************************************************************)
(* Small instances of EmailVerification for TLC.                           *)
(***************************************************************************)
EXTENDS EmailVerification, TLC

CONSTANTS a1, a2, e1, e2, c1, c2, c3, v1, v2, v3

Alike == Permutations(Account) \cup Permutations(Email)
             \cup Permutations(Challenge) \cup Permutations(Request)
=============================================================================
