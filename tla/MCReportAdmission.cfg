\* Two reports of the same text, one deletable, both saved again whenever they have
\* gone; one request, one sweep, one fault.
CONSTANTS
  s1 = s1  s2 = s2
  t1 = t1  t2 = t2
  j1 = j1  j2 = j2  j3 = j3
  d1 = d1  d2 = d2  d3 = d3  d4 = d4
  v1 = v1  v2 = v2  c1 = c1
  Source = {s1, s2}
  Text = {t1, t2}
  TextOf <- SameText
  FamilyOf <- OneFamily
  Admissible = {t1, t2}
  Verified = {s1}
  Deletable = {s2}
  JobId = {j1, j2}
  DecisionId = {d1, d2}
  Visitor = {v1}
  Sweeper = {c1}
  NoSource = NoSource
  NoJob = NoJob
  NoDecision = NoDecision
  BatchSize = 1
  MaxFaults = 1
  ClaimsOutlived = TRUE
SPECIFICATION Spec
SYMMETRY IdSymmetry
CHECK_DEADLOCK FALSE
INVARIANTS TypeOK OneActivePerText UndecidedKeepsReport SucceededIsDecided
PROPERTIES AdmissionKeepsPromise
