\* An accepted decision deleted by its owner's DELETE.
CONSTANTS
  s1 = s1  s2 = s2
  t1 = t1  t2 = t2
  j1 = j1  j2 = j2  j3 = j3
  d1 = d1  d2 = d2  d3 = d3  d4 = d4
  v1 = v1  v2 = v2  c1 = c1
  Source = {s1, s2}
  Text = {t1, t2}
  TextOf <- SameText
  FamilyOf <- OneFamily
  Admissible = {t1, t2}
  Verified = {s1}
  Deletable = {s1, s2}
  JobId = {j1, j2}
  DecisionId = {d1, d2, d3}
  Visitor = {v1, v2}
  Sweeper = {c1}
  NoSource = NoSource
  NoJob = NoJob
  NoDecision = NoDecision
  BatchSize = 1
  MaxFaults = 0
  ClaimsOutlived = TRUE
SPECIFICATION Spec
CHECK_DEADLOCK FALSE
PROPERTIES AcceptedIsDurable
