--------------------------- MODULE MCReportRooms ---------------------------
(***************************************************************************)
(* Small instances of ReportRooms for TLC: two accounts use one browser,   *)
(* and all reports are for the same room.                                  *)
(***************************************************************************)
EXTENDS ReportRooms, TLC

CONSTANTS a1, a2, r1, r2, old, k1, v1, v2, v3, i1, i2

OneRoom == [r \in Report |-> k1]

Alike == Permutations(Request) \cup Permutations(Identity)
=============================================================================
