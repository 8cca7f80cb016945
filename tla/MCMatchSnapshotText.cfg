\* A text deactivated and accepted again, found by the exact-hash fallback
\* only; the flag is switched and accounts are exempted from the delay.
CONSTANTS
  b1 = b1  b2 = b2  r1 = r1  r2 = r2  c1 = c1  c2 = c2
  Backing = {b1, b2}
  Rep = {r1}
  RepOf <- OneText
  Ordinary = {}
  Exact = {r1}
  Caller = {c1}
  Delay = 1
  MaxTime = 1
  MaxGeneration = 3
  FlagChanges = TRUE
  Exemptable = {b1, b2}
SPECIFICATION Spec
SYMMETRY Backings
INVARIANTS NoMissedMatch
