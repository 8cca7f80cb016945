------------------------- MODULE MCReportAdmission -------------------------
(***************************************************************************)
(* Small instances of ReportAdmission for TLC.                             *)
(***************************************************************************)
EXTENDS ReportAdmission, TLC

CONSTANTS s1, s2, t1, t2, j1, j2, j3, d1, d2, d3, d4, v1, v2, c1

\* Two reports of the same text; one report.
SameText == [s \in {s1, s2} |-> t1]
OneReport == [s \in {s1} |-> t1]
OneFamily == [t \in {t1, t2} |-> t1]

\* Ids of decisions, and of jobs, are interchangeable.
IdSymmetry == Permutations(DecisionId) \cup Permutations(JobId)
=============================================================================
