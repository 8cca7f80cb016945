\* Two links that share an account, each with an admin's confirmation and a
\* telemetry signal, and a review.
SPECIFICATION Spec
CONSTANTS
    a1 = a1
    a2 = a2
    a3 = a3
    Account = {a1, a2, a3}
    Pair <- Pairs
    Evidence = {manual, device}
    Bound = {manual}
    manual = manual
    device = device
    Reviewer = {v1}
    v1 = v1
    KeepsEvidence = FALSE
    MaxGeneration = 4
INVARIANTS TypeOK RowFollowsEvidence LogTells StampedReviewIsCurrent
CHECK_DEADLOCK TRUE
