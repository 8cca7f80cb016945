\* Every job is decided: one report its owner may delete and its tabs save again,
\* one request, one sweep, two faults, so that a deferred attempt and a sweep may
\* both come to nothing; as many decisions as attempts can make.  Its text is
\* rejected: an accepted one is withdrawn, restored and promoted as well, which
\* multiplies the states and ends no attempt.
CONSTANTS
  s1 = s1  s2 = s2
  t1 = t1  t2 = t2
  j1 = j1  j2 = j2  j3 = j3
  d1 = d1  d2 = d2  d3 = d3  d4 = d4
  v1 = v1  v2 = v2  c1 = c1
  Source = {s1}
  Text = {t1, t2}
  TextOf <- OneReport
  FamilyOf <- OneFamily
  Admissible = {}
  Verified = {}
  Deletable = {s1}
  JobId = {j1}
  DecisionId = {d1, d2, d3, d4}
  Visitor = {v1}
  Sweeper = {c1}
  NoSource = NoSource
  NoJob = NoJob
  NoDecision = NoDecision
  BatchSize = 1
  MaxFaults = 2
  ClaimsOutlived = FALSE
SPECIFICATION FairSpec
CHECK_DEADLOCK FALSE
PROPERTIES EveryJobIsDecided
