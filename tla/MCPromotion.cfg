\* Two sweeps and a request over three decisions: one that is indexed, one whose
\* text is not retained, one legacy row at the cap.
SPECIFICATION FairSpec
CONSTANTS
    d1 = d1
    d2 = d2
    d3 = d3
    h1 = h1
    h2 = h2
    s1 = s1
    s2 = s2
    r1 = r1
    NoDecision = NoDecision
    Decision = {d1, d2, d3}
    Hash = {h1, h2}
    HashOf <- MCHashOf
    Retained = {d1}
    Legacy = {d3}
    Sweeper = {s1, s2}
    Request = {r1}
    MaxAttempts = 2
    BatchSize = 2
    MaxCrashes = 1
    ClaimsOutlived = FALSE
INVARIANTS TypeOK SingleOwner CapDecides
PROPERTIES SettledIsFinal CreatorMarkIsPermanent SettlesOnce EveryAcceptSettles
CHECK_DEADLOCK TRUE
