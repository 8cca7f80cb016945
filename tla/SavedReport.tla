---------------------------- MODULE SavedReport ----------------------------
(***************************************************************************)
(* One row of saved_reports after its room was won: every request, deferred*)
(* run and cron sweep that writes its payload_json and its AI columns.     *)
(*                                                                         *)
(* A save (POST /api/reports) is three steps that other writers interleave *)
(* with: it reads the row, resolves the similarity score under the corpus  *)
(* generation it finds, and upserts with SAVE_REPORT_SQL.  The AI retry    *)
(* route is one write transaction.  A report created while the             *)
(* selective-corpus flag is on stays "pending", without a score, until a   *)
(* finaliser - the save's own deferred run or a sweep that claimed the row *)
(* - writes the score and its explanation in one guarded UPDATE.           *)
(*                                                                         *)
(* A score is "ordinary" (without selective-corpus evidence), "selective"  *)
(* or the marker "failed".  Sizes stand for persistedPayloadSize: a base,  *)
(* the score with its explanation, and the AI analysis.  A claim is TRUE   *)
(* while it is fresh; the age the sweep waits for is measured on the       *)
(* client's own createdAt, hence any.  Deployments switch the flag: it is  *)
(* either value whenever it is read.  What nothing looks at earlier (the   *)
(* AI half a client sends, the evidence an evaluation found) is chosen     *)
(* where it is used.  selfHealUnifiedSimilarity and                        *)
(* persistRefreshedSimilarity have no caller outside the tests.            *)
(***************************************************************************)
EXTENDS Integers

CONSTANTS
    Visitor,       \* concurrent requests of the report's owner
    Finaliser,     \* deferred runs and sweep invocations
    NoOne,
    NoRow,
    MaxGeneration, \* bound of the model: corpus_match_generation
    MaxFaults,     \* bound of the model: finalisers that die or throw
    Ceiling,       \* MAX_REPORT_SAVE_REQUEST_BYTES
    Reserve,       \* TERMINAL_AI_RESERVE_CHARS
    BaseSize, ScoreSize, MarkerSize, SmallSize, LargeSize

ASSUME SavedReportAssumption ==
    /\ NoOne \notin Visitor
    /\ MaxGeneration \in Nat /\ MaxFaults \in Nat
    /\ Ceiling \in Nat /\ Reserve \in Nat /\ BaseSize \in Nat
    /\ ScoreSize \in Nat /\ MarkerSize \in Nat
    /\ SmallSize \in Nat /\ LargeSize \in Nat

Status == {"none", "pending", "completed", "incomplete"}
Terminal == {"completed", "incomplete"}
Score == {"none", "failed", "ordinary", "selective"}
Final == {"ordinary", "selective"}
Generation == -1 .. MaxGeneration     \* COALESCE(unifiedSimilarityGeneration, -1)
AiStatus == {"null", "processing", "ready", "failed"}
Complete == {"small", "large"}
Analysis == {"none", "error", "marker"} \cup Complete

AnalysisSize == [none |-> 0, error |-> MarkerSize, marker |-> MarkerSize,
                 small |-> SmallSize, large |-> LargeSize]

Columns == [ai : AiStatus, scored : BOOLEAN, of : Visitor \cup {NoOne}]
Result == [kind : Analysis, of : Visitor \cup {NoOne}]
Row == [status : Status, claimed : BOOLEAN, generation : Generation,
        score : Score, explains : Score, columns : Columns, analysis : Result]

ASSUME NoRowAssumption == NoRow \notin Row

VARIABLES
    generation,  \* corpus_match_generation
    row,         \* the saved_reports row, or NoRow
    req,         \* what each save has read and resolved
    fin,         \* what each finaliser has read and resolved
    faults

vars == <<generation, row, req, fin, faults>>

IdleReq == [pc |-> "idle", first |-> FALSE, status |-> "none",
            claimed |-> FALSE, score |-> "none", generation |-> -1]
IdleFin == [pc |-> "idle", fallback |-> FALSE, generation |-> -1]

Init ==
    /\ generation = 0
    /\ row = NoRow
    /\ req = [v \in Visitor |-> IdleReq]
    /\ fin = [f \in Finaliser |-> IdleFin]
    /\ faults = 0

Exists == row # NoRow

-----------------------------------------------------------------------------
\* deriveRoomStatus of the flat columns.
DerivedStatus(c) ==
    CASE c.ai = "failed" -> "failed"
      [] c.ai = "ready" \/ (c.ai # "failed" /\ c.scored) -> "ready"
      [] OTHER -> "processing"

IsReady(c) == DerivedStatus(c) = "ready"

\* persistedPayloadSize of a payload.
Size(r) ==
    BaseSize + (IF r.score \in Final THEN ScoreSize ELSE 0) + AnalysisSize[r.analysis.kind]

\* A save whose AI half is not terminal leaves the reserve free.
SaveCeiling(c) ==
    IF DerivedStatus(c) = "processing" THEN Ceiling - Reserve ELSE Ceiling

\* The AI halves clients send: a first save, a save without the column, an
\* explicit ready (its score does not matter), a failure, a legacy result.
Half(ai, scored, kind, v) ==
    LET tag == IF kind \in Complete THEN v ELSE NoOne
    IN  [columns |-> [ai |-> ai, scored |-> scored, of |-> tag],
         analysis |-> [kind |-> kind, of |-> tag]]

Ready(v) == {Half("ready", FALSE, kind, v) : kind \in Complete}
Failed(v) == Half("failed", FALSE, "error", v)
Halves(v) ==
    Ready(v) \cup {Half("processing", FALSE, "none", v), Half("null", FALSE, "none", v),
                   Half("null", TRUE, "small", v), Failed(v)}

\* The row a save sends: the carried status and claim, the resolved score.
Incoming(q, h) ==
    [status |-> q.status, claimed |-> q.claimed,
     generation |-> q.generation, score |-> q.score,
     explains |-> IF q.score \in Final THEN q.score ELSE "none",
     columns |-> h.columns, analysis |-> h.analysis]

\* A mutant: a save without the column counts as a declared result.
KeepsStoredReady_Declared(stored, in) ==
    IsReady(stored.columns) /\ in.columns.ai \in {"processing", "failed"}

\* KEEP_STORED_READY_AI_SQL.
KeepsStoredReady(stored, in) ==
    IsReady(stored.columns) /\ in.columns.ai \in {"null", "processing", "failed"}

\* A mutant: the retained payload does not receive the incoming analysis.
Upsert_WithoutMerge(stored, in) ==
    IF KeepsStoredReady(stored, in) THEN stored
    ELSE IF stored.generation > in.generation
         THEN [stored EXCEPT !.columns = in.columns]
         ELSE in

\* A mutant: the last writer wins.
Upsert_LastWins(stored, in) == IF KeepsStoredReady(stored, in) THEN stored ELSE in

\* SAVE_REPORT_SQL's conflict branch.
Upsert(stored, in) ==
    IF KeepsStoredReady(stored, in) THEN stored
    ELSE IF stored.generation > in.generation
         THEN [stored EXCEPT !.columns = in.columns,
                             !.analysis = IF in.analysis.kind = "none" THEN @ ELSE in.analysis]
         ELSE in

-----------------------------------------------------------------------------
\* A save: read, resolve, upsert.

\* A mutant: a resave, too, takes the status the flag asks for.
StatusToPersist_Reevaluates(flag) ==
    IF flag THEN "pending" ELSE IF Exists THEN row.status ELSE "none"

\* The flag decides once, at the first save; resaves carry the status forward.
StatusToPersist(flag) ==
    IF Exists THEN row.status ELSE IF flag THEN "pending" ELSE "none"

ReadReport(v) ==
    /\ req[v].pc = "idle"
    /\ \E flag \in BOOLEAN :
           req' = [req EXCEPT ![v] =
               [IdleReq EXCEPT !.pc = "read", !.first = ~Exists,
                               !.status = StatusToPersist(flag),
                               !.claimed = Exists /\ row.claimed]]
    /\ UNCHANGED <<generation, row, fin, faults>>

\* A mutant: resaves withhold nothing.
Withholds_FirstOnly(q) == q.first /\ q.status = "pending"

\* A pending report's save must not persist a score.
Withholds(q) == q.status = "pending"

\* resolvePrimarySimilaritySummary reads the generation first; it succeeds,
\* fails for this report's data, or throws, which leaves the payload without
\* score and generation, as withholding does.
Resolve(v) ==
    /\ req[v].pc = "read"
    /\ \E outcome \in {"none"} \cup (IF Withholds(req[v]) THEN {} ELSE {"ordinary", "failed"}) :
           req' = [req EXCEPT ![v].pc = "resolved", ![v].score = outcome,
                              ![v].generation = IF outcome = "none" THEN -1 ELSE generation]
    /\ UNCHANGED <<generation, row, fin, faults>>

\* A newly pending report schedules its deferred run after the response; the
\* process may end before the run starts.
RunsAfterResponse(newlyPending) ==
    \/ UNCHANGED fin
    \/ /\ newlyPending
       /\ \E f \in Finaliser :
              /\ fin[f].pc = "idle"
              /\ fin' = [fin EXCEPT ![f].pc = "start"]

\* The upsert.  A first save that finds a row lost the room: 409.
Save(v) ==
    /\ req[v].pc = "resolved"
    /\ \E h \in Halves(v) :
           LET in == Incoming(req[v], h)
           IN  /\ Size(in) <= SaveCeiling(in.columns)
               /\ row' = IF ~Exists THEN in
                         ELSE IF req[v].first THEN row
                         ELSE Upsert(row, in)
    /\ RunsAfterResponse(~Exists /\ Withholds(req[v]))
    /\ req' = [req EXCEPT ![v] = IdleReq]
    /\ UNCHANGED <<generation, faults>>

\* 413: nothing is written (the client hands an AI result to the retry route).
SaveRefused(v) ==
    /\ req[v].pc = "resolved"
    /\ \E h \in Halves(v) :
           LET in == Incoming(req[v], h) IN Size(in) > SaveCeiling(in.columns)
    /\ req' = [req EXCEPT ![v] = IdleReq]
    /\ UNCHANGED <<generation, row, fin, faults>>

-----------------------------------------------------------------------------
\* POST /api/reports/[id]/ai-retry: only the AI half, in one transaction.

WithHalf(r, h) == [r EXCEPT !.columns = h.columns, !.analysis = h.analysis]

SizeUnavailable == row.columns.ai = "failed" /\ row.analysis.kind = "marker"

\* A stored result or marker is never displaced by one that does not fit.
HoldsItsResult == IsReady(row.columns) \/ SizeUnavailable

RetryFails(v) ==
    /\ Exists
    /\ ~HoldsItsResult
    /\ Size(WithHalf(row, Failed(v))) <= Ceiling
    /\ row' = WithHalf(row, Failed(v))
    /\ UNCHANGED <<generation, req, fin, faults>>

RetryFits(v) ==
    /\ Exists
    /\ \E h \in Ready(v) :
           /\ Size(WithHalf(row, h)) <= Ceiling
           /\ row' = WithHalf(row, h)
    /\ UNCHANGED <<generation, req, fin, faults>>

\* Neither a result nor its failure fits: the server writes its own marker.
RetryTooLarge(v) ==
    /\ Exists
    /\ ~HoldsItsResult
    /\ \E h \in Ready(v) \cup {Failed(v)} : Size(WithHalf(row, h)) > Ceiling
    /\ LET marked == WithHalf(row, Half("failed", FALSE, "marker", v))
       IN  Size(marked) <= Ceiling /\ row' = marked
    /\ UNCHANGED <<generation, req, fin, faults>>

-----------------------------------------------------------------------------
\* The finalisers of a pending report.

Pending == Exists /\ row.status = "pending"

\* claimStaleSelectiveCorpusAuthoritativePendingReports.
Claim(f) ==
    /\ fin[f].pc = "idle"
    /\ Pending /\ ~row.claimed
    /\ row' = [row EXCEPT !.claimed = TRUE]
    /\ fin' = [fin EXCEPT ![f].pc = "start"]
    /\ UNCHANGED <<generation, req, faults>>

\* A mutant: an abandoned claim is honoured for ever.
ClaimGoesStale_Never == FALSE /\ UNCHANGED vars

\* Ten minutes pass; a claim that a save carries forward ages with it.
ClaimGoesStale ==
    /\ Exists
    /\ row.claimed \/ \E v \in Visitor : req[v].claimed
    /\ row' = [row EXCEPT !.claimed = FALSE]
    /\ req' = [v \in Visitor |-> [req[v] EXCEPT !.claimed = FALSE]]
    /\ UNCHANGED <<generation, fin, faults>>

\* Stage A and B: the whole index, a part of it, or nothing to show.
EvidenceOf(f) == IF fin[f].fallback THEN {"none"} ELSE {"completed", "partial", "none"}

\* The row as it is now, with the final score: the size is measured on this
\* read, and no reserve is left.
FinalFits == Size([row EXCEPT !.score = "selective"]) <= Ceiling

FinalRead(f) ==
    /\ fin[f].pc = "start"
    /\ fin' = [fin EXCEPT ![f] =
           IF Pending /\ FinalFits
           THEN [@ EXCEPT !.pc = "resolved", !.generation = generation]
           ELSE IdleFin]
    /\ UNCHANGED <<generation, row, req, faults>>

\* The CAS of persistSelectiveCorpusAuthoritativeFinalization.
CanFinalise(f) == Pending /\ row.generation <= fin[f].generation

\* A mutant: the state of the evaluation is stored for the terminal status.
Finalised_RawState(f, evidence) == [row EXCEPT !.claimed = FALSE, !.status = evidence]

Finalised(f, evidence) ==
    LET score == IF evidence = "none" THEN "ordinary" ELSE "selective"
    IN  [row EXCEPT !.claimed = FALSE, !.generation = fin[f].generation,
                    !.score = score, !.explains = score,
                    !.status = IF evidence = "completed" THEN "completed" ELSE "incomplete"]

\* Zero rows affected: somebody else finalised, a clean no-op.
FinalWrite(f) ==
    /\ fin[f].pc = "resolved"
    /\ \E evidence \in EvidenceOf(f) :
           row' = IF CanFinalise(f) THEN Finalised(f, evidence) ELSE row
    /\ fin' = [fin EXCEPT ![f] = IdleFin]
    /\ UNCHANGED <<generation, req, faults>>

\* An exception: once a retry without evidence, then the sweep's turn.
FinalThrows(f) ==
    /\ fin[f].pc # "idle" /\ faults < MaxFaults
    /\ faults' = faults + 1
    /\ fin' = [fin EXCEPT ![f] =
           IF fin[f].fallback THEN IdleFin ELSE [IdleFin EXCEPT !.pc = "start", !.fallback = TRUE]]
    /\ UNCHANGED <<generation, row, req>>

FinalDies(f) ==
    /\ fin[f].pc # "idle" /\ faults < MaxFaults
    /\ faults' = faults + 1
    /\ fin' = [fin EXCEPT ![f] = IdleFin]
    /\ UNCHANGED <<generation, row, req>>

-----------------------------------------------------------------------------
\* The environment.

\* A publication or a deactivation elsewhere moves the generation.
MoveGeneration ==
    /\ generation < MaxGeneration
    /\ generation' = generation + 1
    /\ UNCHANGED <<row, req, fin, faults>>

Works(f) == Claim(f) \/ FinalRead(f) \/ FinalWrite(f)

Next ==
    \/ \E v \in Visitor :
           \/ ReadReport(v) \/ Resolve(v) \/ Save(v) \/ SaveRefused(v)
           \/ RetryFails(v) \/ RetryFits(v) \/ RetryTooLarge(v)
    \/ \E f \in Finaliser : Works(f) \/ FinalThrows(f) \/ FinalDies(f)
    \/ ClaimGoesStale \/ MoveGeneration

Spec == Init /\ [][Next]_vars

\* The sweep is a cron job, a finaliser that runs goes on, claims age.
FairSpec ==
    /\ Spec
    /\ WF_vars(ClaimGoesStale)
    /\ \A f \in Finaliser : WF_vars(Works(f))

-----------------------------------------------------------------------------
TypeOK ==
    /\ generation \in 0 .. MaxGeneration
    /\ row \in Row \cup {NoRow}
    /\ req \in [Visitor -> [pc : {"idle", "read", "resolved"}, first : BOOLEAN,
                            status : Status, claimed : BOOLEAN,
                            score : Score, generation : Generation]]
    /\ fin \in [Finaliser -> [pc : {"idle", "start", "resolved"}, fallback : BOOLEAN,
                              generation : Generation]]
    /\ faults \in 0 .. MaxFaults

\* The two AI halves of the row tell one story: the columns say ready exactly
\* when the payload holds a complete analysis, and it is the same result.  The
\* columns and the payload are kept or replaced under different guards.
HalvesAgree ==
    Exists =>
        /\ IsReady(row.columns) <=> row.analysis.kind \in Complete
        /\ IsReady(row.columns) => row.columns.of = row.analysis.of

\* LIFECYCLE-02 over every writer: a ready AI result is only ever replaced by
\* another ready one, never by a failure, a marker or a stale first save.
ReadyNeverLost ==
    [][Exists /\ IsReady(row.columns) => IsReady(row'.columns)]_vars

\* While pending the row carries no score, no failure marker and no generation,
\* whatever a resave resolved and whenever it read the status.
PendingShowsNoScore ==
    Pending => row.score = "none" /\ row.generation = -1

\* The creation-time policy is permanent: a report leaves pending once, for a
\* terminal status, and no resave or flag flip changes any other status.
TerminalOnce ==
    [][Exists => \/ row'.status = row.status
                 \/ row.status = "pending" /\ row'.status \in Terminal]_vars

\* SIM-04: no writer replaces a payload by one of an older corpus generation.
GenerationMonotone ==
    [][Exists => row'.generation >= row.generation]_vars

\* C2: a stored score is explained by the interpretation built from it.
ExplanationMatchesScore ==
    Exists /\ row.score \in Final => row.explains = row.score

\* A pending report is finalised in the end, although its deferred run is lost,
\* finalisers die or throw, and resaves keep rewriting the payload.
PendingIsFinalized ==
    Pending ~> (Exists /\ row.status \in Terminal)

-----------------------------------------------------------------------------
\* lib/report-primary-similarity.ts:1135: a final score that includes the
\* selective corpus is not replaced by one without it.
FinalScoreKept ==
    [][Exists /\ row.score = "selective" /\ row.status = "completed"
           => row'.score = "selective"]_vars
=============================================================================
