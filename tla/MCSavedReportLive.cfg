\* One request that saves again and again, two finalisers, two faults.
CONSTANTS
  v1 = v1  v2 = v2  f1 = f1  f2 = f2
  Visitor = {v1}
  Finaliser = {f1, f2}
  NoOne = NoOne
  NoRow = NoRow
  MaxGeneration = 1
  MaxFaults = 2
  Ceiling = 4
  Reserve = 1
  BaseSize = 1  ScoreSize = 1  MarkerSize = 1  SmallSize = 1  LargeSize = 4
SPECIFICATION FairSpec
PROPERTIES PendingIsFinalized
