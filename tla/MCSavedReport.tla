--------------------------- MODULE MCSavedReport ---------------------------
(***************************************************************************)
(* Small instances of SavedReport for TLC.                                 *)
(***************************************************************************)
EXTENDS SavedReport, TLC

CONSTANTS v1, v2, f1, f2

\* Requests are alike and finalisers are alike; only for runs without liveness.
Alike == Permutations(Visitor) \cup Permutations(Finaliser)
=============================================================================
