\* Two resolutions of one report race the changes of one backing,
\* beside a text another account submitted long ago.
CONSTANTS
  b1 = b1  b2 = b2  r1 = r1  r2 = r2  c1 = c1  c2 = c2
  Backing = {b1}
  Rep = {r1, r2}
  RepOf <- Single
  Ordinary = {r2}
  Exact = {}
  Caller = {c1, c2}
  Delay = 1
  MaxTime = 1
  MaxGeneration = 3
  FlagChanges = FALSE
  Exemptable = {}
SPECIFICATION Spec
SYMMETRY Callers
INVARIANTS TypeOK NoMissedMatch NoWithdrawnMatch NoImmatureMatch
