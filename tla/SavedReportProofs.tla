------------------------- MODULE SavedReportProofs -------------------------
(***************************************************************************)
(* The safety properties of SavedReport, for any number of requests and    *)
(* finalisers, any sizes and any ceiling.  The argument: a request that    *)
(* read the row carries the row's status or the status it was finalised    *)
(* from, and a request that carries "pending" carries neither a score nor  *)
(* a generation, so that the generation guard of the upsert stops it       *)
(* against every finalised row.                                            *)
(***************************************************************************)
EXTENDS SavedReport, TLAPS

\* A request on its way knows the row's status, or that it was pending.
CarriesStatus ==
    \A v \in Visitor : req[v].pc # "idle" =>
        /\ req[v].first => req[v].status \in {"none", "pending"}
        /\ ~req[v].first =>
               /\ Exists
               /\ \/ req[v].status = row.status
                  \/ req[v].status = "pending" /\ row.status \in Terminal

\* A request that carries "pending" carries no score and no generation.
CarriesNoScore ==
    \A v \in Visitor :
        req[v].status = "pending" => req[v].score = "none" /\ req[v].generation = -1

\* A terminal status comes with the generation of its score.
TerminalHasGeneration ==
    Exists /\ row.status \in Terminal => row.generation >= 0

\* A finaliser that resolved knows its generation.
ResolvedUnderGeneration ==
    \A f \in Finaliser : fin[f].pc = "resolved" => fin[f].generation >= 0

IInv ==
    /\ TypeOK /\ HalvesAgree /\ PendingShowsNoScore /\ ExplanationMatchesScore
    /\ CarriesStatus /\ CarriesNoScore /\ TerminalHasGeneration
    /\ ResolvedUnderGeneration

-----------------------------------------------------------------------------
\* The AI halves a client sends are typed, agree, and carry no analysis only
\* when they declare no result.
LEMMA HalvesFacts ==
    ASSUME NEW v \in Visitor, NEW h \in Halves(v)
    PROVE  /\ h = [columns |-> h.columns, analysis |-> h.analysis]
           /\ h.columns \in Columns /\ h.analysis \in Result
           /\ IsReady(h.columns) <=> h.analysis.kind \in Complete
           /\ h.columns.of = h.analysis.of
           /\ h.columns.ai = "ready" => h.analysis.kind \in Complete
           /\ h.analysis.kind = "none" => h.columns.ai \in {"null", "processing"}
  <1>1. PICK ai \in AiStatus, scored \in BOOLEAN, kind \in Analysis :
            /\ h = Half(ai, scored, kind, v)
            /\ \/ ai = "ready" /\ kind \in Complete
               \/ ai \in {"processing", "null"} /\ ~scored /\ kind = "none"
               \/ ai = "null" /\ scored /\ kind = "small"
               \/ ai = "failed" /\ kind = "error"
    BY DEF Halves, Ready, Failed, AiStatus, Analysis, Complete
  <1> DEFINE tag == IF kind \in Complete THEN v ELSE NoOne
  <1>2. /\ h = [columns |-> [ai |-> ai, scored |-> scored, of |-> tag],
                analysis |-> [kind |-> kind, of |-> tag]]
        /\ tag \in Visitor \cup {NoOne}
    BY <1>1 DEF Half
  <1>3. /\ h.columns = [ai |-> ai, scored |-> scored, of |-> tag]
        /\ h.analysis = [kind |-> kind, of |-> tag]
        /\ h = [columns |-> h.columns, analysis |-> h.analysis]
    BY <1>2
  <1>4. h.columns \in Columns /\ h.analysis \in Result /\ h.columns.of = h.analysis.of
    BY <1>2, <1>3 DEF Columns, Result
  <1>5. IsReady(h.columns) <=> ai = "ready" \/ (ai # "failed" /\ scored)
    BY <1>3 DEF IsReady, DerivedStatus
  <1> HIDE DEF tag
  <1>6. h.columns.ai = ai /\ h.analysis.kind = kind
    BY <1>3
  <1>7. IsReady(h.columns) <=> h.analysis.kind \in Complete
    BY <1>1, <1>5, <1>6 DEF Complete
  <1>8. /\ h.columns.ai = "ready" => h.analysis.kind \in Complete
        /\ h.analysis.kind = "none" => h.columns.ai \in {"null", "processing"}
    BY <1>1, <1>6 DEF Complete
  <1> QED
    BY <1>3, <1>4, <1>7, <1>8

\* What a save sends is a row.
LEMMA IncomingFacts ==
    ASSUME TypeOK, NEW v \in Visitor, NEW h \in Halves(v)
    PROVE  LET in == Incoming(req[v], h)
           IN  /\ in \in Row
               /\ in.status = req[v].status /\ in.score = req[v].score
               /\ in.generation = req[v].generation
               /\ in.columns = h.columns /\ in.analysis = h.analysis
               /\ in.score \in Final => in.explains = in.score
  <1>1. /\ h.columns \in Columns /\ h.analysis \in Result
    BY HalvesFacts
  <1>2. /\ req[v].status \in Status /\ req[v].claimed \in BOOLEAN
        /\ req[v].score \in Score /\ req[v].generation \in Generation
    BY DEF TypeOK
  <1> QED
    BY <1>1, <1>2 DEF Incoming, Row, Score, Final

\* The upsert keeps rows rows.
LEMMA UpsertType ==
    ASSUME NEW stored \in Row, NEW in \in Row
    PROVE  Upsert(stored, in) \in Row
  BY DEF Upsert, Row, Columns, Result

\* The upsert leaves the stored status or takes the incoming one, with its
\* score, explanation and generation.
LEMMA UpsertPayload ==
    ASSUME NEW stored \in Row, NEW in \in Row
    PROVE  LET u == Upsert(stored, in)
           IN  \/ /\ u.status = stored.status /\ u.score = stored.score
                  /\ u.explains = stored.explains /\ u.generation = stored.generation
               \/ /\ u = in /\ in.generation >= stored.generation
  <1>1. stored.generation \in Int /\ in.generation \in Int
    BY SavedReportAssumption DEF Row, Generation
  <1> QED
    BY <1>1 DEF Upsert, Row

\* The upsert keeps the two halves in agreement.
LEMMA UpsertHalves ==
    ASSUME NEW stored \in Row, NEW in \in Row,
           IsReady(stored.columns) <=> stored.analysis.kind \in Complete,
           IsReady(stored.columns) => stored.columns.of = stored.analysis.of,
           IsReady(in.columns) <=> in.analysis.kind \in Complete,
           IsReady(in.columns) => in.columns.of = in.analysis.of,
           in.analysis.kind = "none" => in.columns.ai \in {"null", "processing"}
    PROVE  LET u == Upsert(stored, in)
           IN  /\ IsReady(u.columns) <=> u.analysis.kind \in Complete
               /\ IsReady(u.columns) => u.columns.of = u.analysis.of
  <1> DEFINE u == Upsert(stored, in)
  <1>1. CASE KeepsStoredReady(stored, in)
    BY <1>1 DEF Upsert
  <1>2. CASE ~KeepsStoredReady(stored, in) /\ stored.generation > in.generation
    <2>1. u.columns = in.columns
      BY <1>2 DEF Upsert, Row
    <2>2. u.analysis = IF in.analysis.kind = "none" THEN stored.analysis ELSE in.analysis
      BY <1>2 DEF Upsert, Row
    <2>3. CASE in.analysis.kind = "none"
      <3>1. ~IsReady(stored.columns)
        BY <1>2, <2>3 DEF KeepsStoredReady
      <3>2. ~IsReady(in.columns)
        BY <2>3 DEF Complete
      <3> QED
        BY <2>1, <2>2, <2>3, <3>1, <3>2
    <2> QED
      BY <2>1, <2>2, <2>3
  <1>3. CASE ~KeepsStoredReady(stored, in) /\ ~(stored.generation > in.generation)
    BY <1>3 DEF Upsert
  <1> QED
    BY <1>1, <1>2, <1>3

\* A ready row is never upserted into one that is not.
LEMMA UpsertReady ==
    ASSUME NEW stored \in Row, NEW in \in Row, IsReady(stored.columns)
    PROVE  IsReady(Upsert(stored, in).columns)
  <1>1. CASE KeepsStoredReady(stored, in)
    BY <1>1 DEF Upsert
  <1>2. CASE ~KeepsStoredReady(stored, in)
    <2>1. in.columns.ai = "ready"
      BY <1>2 DEF KeepsStoredReady, Row, Columns, AiStatus
    <2>2. IsReady(in.columns)
      BY <2>1 DEF IsReady, DerivedStatus
    <2>3. Upsert(stored, in).columns = in.columns
      BY <1>2 DEF Upsert, Row
    <2> QED
      BY <2>2, <2>3
  <1> QED
    BY <1>1, <1>2

\* The AI half alone is exchanged.
LEMMA WithHalfFacts ==
    ASSUME NEW r \in Row, NEW v \in Visitor, NEW h,
           h \in Halves(v) \/ h = Half("failed", FALSE, "marker", v)
    PROVE  LET w == WithHalf(r, h)
           IN  /\ w \in Row
               /\ w.status = r.status /\ w.claimed = r.claimed /\ w.generation = r.generation
               /\ w.score = r.score /\ w.explains = r.explains
               /\ w.columns = h.columns /\ w.analysis = h.analysis
               /\ IsReady(w.columns) <=> w.analysis.kind \in Complete
               /\ w.columns.of = w.analysis.of
  <1> DEFINE w == WithHalf(r, h)
  <1>1. /\ h.columns \in Columns /\ h.analysis \in Result
        /\ IsReady(h.columns) <=> h.analysis.kind \in Complete
        /\ h.columns.of = h.analysis.of
    <2>1. CASE h \in Halves(v)
      BY <2>1, HalvesFacts
    <2>2. CASE h = Half("failed", FALSE, "marker", v)
      <3>1. /\ h.columns = [ai |-> "failed", scored |-> FALSE, of |-> NoOne]
            /\ h.analysis = [kind |-> "marker", of |-> NoOne]
        BY <2>2 DEF Half, Complete
      <3>2. h.columns \in Columns /\ h.analysis \in Result
        BY <3>1 DEF Columns, Result, AiStatus, Analysis
      <3>3. ~IsReady(h.columns) /\ h.analysis.kind \notin Complete
        BY <3>1 DEF IsReady, DerivedStatus, Complete
      <3> QED
        BY <3>1, <3>2, <3>3
    <2> QED
      BY <2>1, <2>2
  <1>2. /\ w \in Row
        /\ w.status = r.status /\ w.claimed = r.claimed /\ w.generation = r.generation
        /\ w.score = r.score /\ w.explains = r.explains
        /\ w.columns = h.columns /\ w.analysis = h.analysis
    BY <1>1 DEF WithHalf, Row
  <1> QED
    BY <1>1, <1>2

-----------------------------------------------------------------------------
\* What a step can do to a row that exists.

SaveStep ==
    \E v \in Visitor : \E h \in Halves(v) :
        /\ req[v].pc = "resolved" /\ ~req[v].first
        /\ row' = Upsert(row, Incoming(req[v], h))

HalfStep ==
    \E v \in Visitor : \E h :
        /\ h \in Halves(v) \/ h = Half("failed", FALSE, "marker", v)
        /\ IsReady(row.columns) => h \in Ready(v)
        /\ row' = WithHalf(row, h)

ClaimStep == \E c \in BOOLEAN : row' = [row EXCEPT !.claimed = c]

FinalStep ==
    \E f \in Finaliser : \E evidence \in {"completed", "partial", "none"} :
        /\ fin[f].pc = "resolved" /\ CanFinalise(f)
        /\ row' = Finalised(f, evidence)

\* Every step on an existing row is one of these four, or leaves it alone.
LEMMA RowStep ==
    ASSUME Exists, [Next]_vars
    PROVE  row' = row \/ SaveStep \/ HalfStep \/ ClaimStep \/ FinalStep
  <1>1. CASE UNCHANGED vars
    BY <1>1 DEF vars
  <1>2. ASSUME NEW v \in Visitor, ReadReport(v) \/ Resolve(v) \/ SaveRefused(v)
        PROVE  row' = row
    BY <1>2 DEF ReadReport, Resolve, SaveRefused
  <1>3. ASSUME NEW v \in Visitor, Save(v) PROVE row' = row \/ SaveStep
    BY <1>3 DEF Save, SaveStep
  <1>4. ASSUME NEW v \in Visitor, RetryFails(v) PROVE HalfStep
    <2>1. Failed(v) \in Halves(v)
      BY DEF Halves
    <2> QED
      BY <1>4, <2>1 DEF RetryFails, HalfStep, HoldsItsResult
  <1>5. ASSUME NEW v \in Visitor, RetryFits(v) PROVE HalfStep
    <2>1. Ready(v) \subseteq Halves(v)
      BY DEF Halves
    <2> QED
      BY <1>5, <2>1 DEF RetryFits, HalfStep
  <1>6. ASSUME NEW v \in Visitor, RetryTooLarge(v) PROVE HalfStep
    BY <1>6 DEF RetryTooLarge, HalfStep, HoldsItsResult
  <1>7. ASSUME NEW f \in Finaliser, Works(f) \/ FinalThrows(f) \/ FinalDies(f)
        PROVE  row' = row \/ ClaimStep \/ FinalStep
    <2>1. CASE Claim(f)
      BY <2>1 DEF Claim, ClaimStep
    <2>2. CASE FinalRead(f) \/ FinalThrows(f) \/ FinalDies(f)
      BY <2>2 DEF FinalRead, FinalThrows, FinalDies
    <2>3. CASE FinalWrite(f)
      <3>1. EvidenceOf(f) \subseteq {"completed", "partial", "none"}
        BY DEF EvidenceOf
      <3> QED
        BY <2>3, <3>1 DEF FinalWrite, FinalStep
    <2> QED
      BY <1>7, <2>1, <2>2, <2>3 DEF Works
  <1>8. CASE ClaimGoesStale
    BY <1>8 DEF ClaimGoesStale, ClaimStep
  <1>9. CASE MoveGeneration
    BY <1>9 DEF MoveGeneration
  <1> QED
    BY <1>1, <1>2, <1>3, <1>4, <1>5, <1>6, <1>7, <1>8, <1>9 DEF Next

\* The fields of a finalised row.
LEMMA FinalisedFacts ==
    ASSUME row \in Row, NEW f \in Finaliser, fin[f].generation \in Generation,
           NEW evidence \in {"completed", "partial", "none"}
    PROVE  LET n == Finalised(f, evidence)
           IN  /\ n \in Row
               /\ n.columns = row.columns /\ n.analysis = row.analysis
               /\ n.status \in Terminal /\ n.score \in Final /\ n.explains = n.score
               /\ n.generation = fin[f].generation
  BY DEF Finalised, Row, Status, Terminal, Score, Final

-----------------------------------------------------------------------------
\* Types.

LEMMA RowType ==
    ASSUME TypeOK, Exists, [Next]_vars
    PROVE  row' \in Row
  <1>1. row \in Row
    BY DEF TypeOK, Exists
  <1>2. CASE SaveStep
    <2>1. PICK v \in Visitor : \E h \in Halves(v) : row' = Upsert(row, Incoming(req[v], h))
      BY <1>2 DEF SaveStep
    <2>. PICK h \in Halves(v) : row' = Upsert(row, Incoming(req[v], h))
      BY <2>1
    <2>2. Incoming(req[v], h) \in Row
      BY IncomingFacts
    <2> QED
      BY <1>1, <2>2, UpsertType
  <1>3. CASE HalfStep
    BY <1>1, <1>3, WithHalfFacts DEF HalfStep
  <1>4. CASE ClaimStep
    BY <1>1, <1>4 DEF ClaimStep, Row
  <1>5. CASE FinalStep
    <2>1. \A f \in Finaliser : fin[f].generation \in Generation
      BY DEF TypeOK
    <2> QED
      BY <1>1, <1>5, <2>1, FinalisedFacts DEF FinalStep
  <1> QED
    BY <1>1, <1>2, <1>3, <1>4, <1>5, RowStep

\* The row a save inserts.
LEMMA InsertStep ==
    ASSUME TypeOK, ~Exists, [Next]_vars
    PROVE  \/ row' = row
           \/ \E v \in Visitor : \E h \in Halves(v) :
                  req[v].pc = "resolved" /\ row' = Incoming(req[v], h)
  <1>1. ASSUME NEW v \in Visitor, Save(v)
        PROVE  \E h \in Halves(v) : req[v].pc = "resolved" /\ row' = Incoming(req[v], h)
    BY <1>1 DEF Save
  <1>2. ASSUME NEW v \in Visitor, ReadReport(v) \/ Resolve(v) \/ SaveRefused(v)
        PROVE  row' = row
    BY <1>2 DEF ReadReport, Resolve, SaveRefused
  <1>3. ASSUME NEW v \in Visitor, RetryFails(v) \/ RetryFits(v) \/ RetryTooLarge(v)
        PROVE  FALSE
    BY <1>3 DEF RetryFails, RetryFits, RetryTooLarge
  <1>4. ASSUME NEW f \in Finaliser, Works(f) \/ FinalThrows(f) \/ FinalDies(f)
        PROVE  row' = row
    BY <1>4 DEF Works, Claim, FinalRead, FinalWrite, FinalThrows, FinalDies, Pending, CanFinalise
  <1>5. CASE ClaimGoesStale \/ MoveGeneration \/ UNCHANGED vars
    BY <1>5 DEF ClaimGoesStale, MoveGeneration, vars
  <1> QED
    BY <1>1, <1>2, <1>3, <1>4, <1>5 DEF Next

LEMMA RequestType ==
    ASSUME TypeOK, [Next]_vars
    PROVE  req' \in [Visitor -> [pc : {"idle", "read", "resolved"}, first : BOOLEAN,
                                  status : Status, claimed : BOOLEAN,
                                  score : Score, generation : Generation]]
  <1> DEFINE R == [pc : {"idle", "read", "resolved"}, first : BOOLEAN, status : Status,
                   claimed : BOOLEAN, score : Score, generation : Generation]
  <1> SUFFICES req' \in [Visitor -> R]
    OBVIOUS
  <1>1. req \in [Visitor -> R]
    BY DEF TypeOK
  <1>2. -1 \in Generation /\ generation \in Generation
    BY SavedReportAssumption DEF TypeOK, Generation
  <1>3. IdleReq \in R
    BY <1>2 DEF IdleReq, Status, Score
  <1>4. ASSUME NEW v \in Visitor, ReadReport(v) PROVE req' \in [Visitor -> R]
    <2>1. Exists => row.status \in Status /\ row.claimed \in BOOLEAN
      BY DEF TypeOK, Exists, Row
    <2>2. \A flag \in BOOLEAN : StatusToPersist(flag) \in Status
      BY <2>1 DEF StatusToPersist, Status
    <2>3. (Exists /\ row.claimed) \in BOOLEAN
      OBVIOUS
    <2>4. \A flag \in BOOLEAN :
             [IdleReq EXCEPT !.pc = "read", !.first = ~Exists, !.status = StatusToPersist(flag),
                             !.claimed = Exists /\ row.claimed] \in R
      BY <1>3, <2>2, <2>3 DEF IdleReq
    <2> HIDE DEF R
    <2> QED
      BY <1>1, <1>4, <2>4 DEF ReadReport
  <1>5. ASSUME NEW v \in Visitor, Resolve(v) PROVE req' \in [Visitor -> R]
    <2>1. PICK outcome \in {"none", "ordinary", "failed"} :
             req' = [req EXCEPT ![v].pc = "resolved", ![v].score = outcome,
                                ![v].generation = IF outcome = "none" THEN -1 ELSE generation]
      BY <1>5 DEF Resolve
    <2>2. [req[v] EXCEPT !.pc = "resolved", !.score = outcome,
                         !.generation = IF outcome = "none" THEN -1 ELSE generation] \in R
      BY <1>1, <1>2 DEF Score
    <2> QED
      BY <1>1, <2>1, <2>2
  <1>6. ASSUME NEW v \in Visitor, Save(v) \/ SaveRefused(v) PROVE req' \in [Visitor -> R]
    <2>1. req' = [req EXCEPT ![v] = IdleReq]
      BY <1>6 DEF Save, SaveRefused
    <2> HIDE DEF R
    <2> QED
      BY <1>1, <1>3, <2>1
  <1>7. ASSUME NEW v \in Visitor, RetryFails(v) \/ RetryFits(v) \/ RetryTooLarge(v)
        PROVE  req' \in [Visitor -> R]
    BY <1>1, <1>7 DEF RetryFails, RetryFits, RetryTooLarge
  <1>8. ASSUME NEW f \in Finaliser, Works(f) \/ FinalThrows(f) \/ FinalDies(f)
        PROVE  req' \in [Visitor -> R]
    BY <1>1, <1>8 DEF Works, Claim, FinalRead, FinalWrite, FinalThrows, FinalDies
  <1>9. CASE ClaimGoesStale
    BY <1>1, <1>9 DEF ClaimGoesStale
  <1>10. CASE MoveGeneration
    BY <1>1, <1>10 DEF MoveGeneration
  <1>11. CASE UNCHANGED vars
    BY <1>1, <1>11 DEF vars
  <1> HIDE DEF R
  <1> QED
    BY <1>4, <1>5, <1>6, <1>7, <1>8, <1>9, <1>10, <1>11 DEF Next

LEMMA FinaliserType ==
    ASSUME TypeOK, [Next]_vars
    PROVE  fin' \in [Finaliser -> [pc : {"idle", "start", "resolved"}, fallback : BOOLEAN,
                                    generation : Generation]]
  <1> DEFINE F == [pc : {"idle", "start", "resolved"}, fallback : BOOLEAN, generation : Generation]
  <1> SUFFICES fin' \in [Finaliser -> F]
    OBVIOUS
  <1>1. fin \in [Finaliser -> F]
    BY DEF TypeOK
  <1>2. -1 \in Generation /\ generation \in Generation
    BY SavedReportAssumption DEF TypeOK, Generation
  <1>3. IdleFin \in F /\ [IdleFin EXCEPT !.pc = "start", !.fallback = TRUE] \in F
    BY <1>2 DEF IdleFin
  <1>4. ASSUME NEW f \in Finaliser, fin' = [fin EXCEPT ![f].pc = "start"]
        PROVE  fin' \in [Finaliser -> F]
    BY <1>1, <1>4
  <1>5. ASSUME NEW f \in Finaliser,
               fin' = [fin EXCEPT ![f] = [@ EXCEPT !.pc = "resolved", !.generation = generation]]
        PROVE  fin' \in [Finaliser -> F]
    BY <1>1, <1>2, <1>5
  <1> HIDE DEF F
  <1>6. ASSUME NEW f \in Finaliser,
               \/ fin' = [fin EXCEPT ![f] = IdleFin]
               \/ fin' = [fin EXCEPT ![f] = [IdleFin EXCEPT !.pc = "start", !.fallback = TRUE]]
        PROVE  fin' \in [Finaliser -> F]
    BY <1>1, <1>3, <1>6
  <1>7. ASSUME NEW v \in Visitor,
               \/ ReadReport(v) \/ Resolve(v) \/ Save(v) \/ SaveRefused(v)
               \/ RetryFails(v) \/ RetryFits(v) \/ RetryTooLarge(v)
        PROVE  fin' \in [Finaliser -> F]
    <2>1. \/ fin' = fin
          \/ \E f \in Finaliser : fin' = [fin EXCEPT ![f].pc = "start"]
      BY <1>7 DEF ReadReport, Resolve, Save, SaveRefused, RetryFails, RetryFits, RetryTooLarge,
         RunsAfterResponse
    <2> QED
      BY <1>1, <1>4, <2>1
  <1>8. ASSUME NEW f \in Finaliser, Works(f) \/ FinalThrows(f) \/ FinalDies(f)
        PROVE  fin' \in [Finaliser -> F]
    <2>1. \/ fin' = [fin EXCEPT ![f].pc = "start"]
          \/ fin' = [fin EXCEPT ![f] = IdleFin]
          \/ fin' = [fin EXCEPT ![f] = [IdleFin EXCEPT !.pc = "start", !.fallback = TRUE]]
          \/ fin' = [fin EXCEPT ![f] = [@ EXCEPT !.pc = "resolved", !.generation = generation]]
      BY <1>8 DEF Works, Claim, FinalRead, FinalWrite, FinalThrows, FinalDies
    <2> QED
      BY <1>4, <1>5, <1>6, <2>1
  <1>9. CASE ClaimGoesStale \/ MoveGeneration
    BY <1>1, <1>9 DEF ClaimGoesStale, MoveGeneration
  <1>10. CASE UNCHANGED vars
    BY <1>1, <1>10 DEF vars
  <1> QED
    BY <1>7, <1>8, <1>9, <1>10 DEF Next

LEMMA TypeStep ==
    ASSUME TypeOK, [Next]_vars
    PROVE  TypeOK'
  <1>1. row' \in Row \cup {NoRow}
    <2>1. CASE Exists
      BY <2>1, RowType
    <2>2. CASE ~Exists
      BY <2>2, InsertStep, IncomingFacts DEF Exists
    <2> QED
      BY <2>1, <2>2
  <1>2. generation' \in 0 .. MaxGeneration
    <2>1. generation \in 0 .. MaxGeneration /\ MaxGeneration \in Nat
      BY SavedReportAssumption DEF TypeOK
    <2>2. CASE MoveGeneration
      BY <2>1, <2>2 DEF MoveGeneration
    <2>3. CASE ~MoveGeneration
      BY <2>1, <2>3 DEF Next, vars, ReadReport, Resolve, Save, SaveRefused, RetryFails, RetryFits,
         RetryTooLarge, Works, Claim, FinalRead, FinalWrite, FinalThrows, FinalDies, ClaimGoesStale
    <2> QED
      BY <2>2, <2>3
  <1>3. faults' \in 0 .. MaxFaults
    <2>1. faults \in 0 .. MaxFaults /\ MaxFaults \in Nat
      BY SavedReportAssumption DEF TypeOK
    <2>2. CASE \E f \in Finaliser : FinalThrows(f) \/ FinalDies(f)
      BY <2>1, <2>2 DEF FinalThrows, FinalDies
    <2>3. CASE ~\E f \in Finaliser : FinalThrows(f) \/ FinalDies(f)
      BY <2>1, <2>3 DEF Next, vars, ReadReport, Resolve, Save, SaveRefused, RetryFails, RetryFits,
         RetryTooLarge, Works, Claim, FinalRead, FinalWrite, ClaimGoesStale, MoveGeneration
    <2> QED
      BY <2>2, <2>3
  <1> QED
    BY <1>1, <1>2, <1>3, RequestType, FinaliserType DEF TypeOK

-----------------------------------------------------------------------------
\* What the row's step preserves.

LEMMA HalvesStep ==
    ASSUME TypeOK, HalvesAgree, [Next]_vars
    PROVE  HalvesAgree'
  <1>1. CASE ~Exists
    <2>1. CASE row' = row
      BY <1>1, <2>1 DEF HalvesAgree, Exists
    <2>2. CASE \E v \in Visitor : \E h \in Halves(v) : row' = Incoming(req[v], h)
      <3>1. PICK v \in Visitor : \E h \in Halves(v) : row' = Incoming(req[v], h)
        BY <2>2
      <3>. PICK h \in Halves(v) : row' = Incoming(req[v], h)
        BY <3>1
      <3>2. row'.columns = h.columns /\ row'.analysis = h.analysis
        BY IncomingFacts
      <3> QED
        BY <3>2, HalvesFacts DEF HalvesAgree, IsReady
    <2> QED
      BY <1>1, <2>1, <2>2, InsertStep
  <1>2. CASE Exists
    <2>1. /\ row \in Row
          /\ IsReady(row.columns) <=> row.analysis.kind \in Complete
          /\ IsReady(row.columns) => row.columns.of = row.analysis.of
      BY <1>2 DEF TypeOK, Exists, HalvesAgree
    <2>2. SUFFICES /\ IsReady(row'.columns) <=> row'.analysis.kind \in Complete
                   /\ IsReady(row'.columns) => row'.columns.of = row'.analysis.of
      BY DEF HalvesAgree, IsReady
    <2>3. CASE SaveStep
      <3>1. PICK v \in Visitor : \E h \in Halves(v) : row' = Upsert(row, Incoming(req[v], h))
        BY <2>3 DEF SaveStep
      <3>. PICK h \in Halves(v) : row' = Upsert(row, Incoming(req[v], h))
        BY <3>1
      <3> DEFINE in == Incoming(req[v], h)
      <3>2. in \in Row /\ in.columns = h.columns /\ in.analysis = h.analysis
        BY IncomingFacts
      <3>3. /\ IsReady(in.columns) <=> in.analysis.kind \in Complete
            /\ IsReady(in.columns) => in.columns.of = in.analysis.of
            /\ in.analysis.kind = "none" => in.columns.ai \in {"null", "processing"}
        BY <3>2, HalvesFacts
      <3> HIDE DEF in
      <3>4. row' = Upsert(row, in)
        BY DEF in
      <3> QED
        BY <2>1, <3>2, <3>3, <3>4, UpsertHalves
    <2>4. CASE HalfStep
      <3>1. PICK v \in Visitor : \E h :
               /\ h \in Halves(v) \/ h = Half("failed", FALSE, "marker", v)
               /\ row' = WithHalf(row, h)
        BY <2>4 DEF HalfStep
      <3>. PICK h :
               /\ h \in Halves(v) \/ h = Half("failed", FALSE, "marker", v)
               /\ row' = WithHalf(row, h)
        BY <3>1
      <3> QED
        BY <2>1, WithHalfFacts
    <2>5. CASE ClaimStep
      BY <2>1, <2>5 DEF ClaimStep, Row
    <2>6. CASE FinalStep
      <3>1. \A f \in Finaliser : fin[f].generation \in Generation
        BY DEF TypeOK
      <3> QED
        BY <2>1, <2>6, <3>1, FinalisedFacts DEF FinalStep
    <2> QED
      BY <1>2, <2>1, <2>3, <2>4, <2>5, <2>6, RowStep
  <1> QED
    BY <1>1, <1>2

\* The scored half of the payload: kept, inserted by a save, or finalised.
LEMMA PayloadStep ==
    ASSUME IInv, Exists, [Next]_vars
    PROVE  \/ /\ row'.status = row.status /\ row'.generation = row.generation
              /\ row'.score = row.score /\ row'.explains = row.explains
           \/ \E v \in Visitor :
                 /\ req[v].pc = "resolved" /\ ~req[v].first
                 /\ row'.status = req[v].status /\ row'.generation = req[v].generation
                 /\ row'.score = req[v].score
                 /\ row'.score \in Final => row'.explains = row'.score
                 /\ row'.generation >= row.generation
           \/ /\ row.status = "pending" /\ row'.status \in Terminal
              /\ row'.score \in Final /\ row'.explains = row'.score
              /\ row'.generation >= row.generation /\ row'.generation >= 0
  <1>1. row \in Row
    BY DEF IInv, TypeOK, Exists
  <1>2. CASE SaveStep
    <2>1. PICK v \in Visitor :
             /\ req[v].pc = "resolved" /\ ~req[v].first
             /\ \E h \in Halves(v) : row' = Upsert(row, Incoming(req[v], h))
      BY <1>2 DEF SaveStep
    <2>. PICK h \in Halves(v) : row' = Upsert(row, Incoming(req[v], h))
      BY <2>1
    <2> DEFINE in == Incoming(req[v], h)
    <2>2. /\ in \in Row
          /\ in.status = req[v].status /\ in.score = req[v].score
          /\ in.generation = req[v].generation
          /\ in.score \in Final => in.explains = in.score
      BY IncomingFacts DEF IInv
    <2>3. row' = Upsert(row, in)
      OBVIOUS
    <2> HIDE DEF in
    <2> QED
      BY <1>1, <2>1, <2>2, <2>3, UpsertPayload
  <1>3. CASE HalfStep
    <2>1. PICK v \in Visitor : \E h :
             /\ h \in Halves(v) \/ h = Half("failed", FALSE, "marker", v)
             /\ row' = WithHalf(row, h)
      BY <1>3 DEF HalfStep
    <2>. PICK h :
             /\ h \in Halves(v) \/ h = Half("failed", FALSE, "marker", v)
             /\ row' = WithHalf(row, h)
      BY <2>1
    <2> QED
      BY <1>1, WithHalfFacts
  <1>4. CASE ClaimStep
    BY <1>1, <1>4 DEF ClaimStep, Row
  <1>5. CASE FinalStep
    <2>1. PICK f \in Finaliser :
             /\ fin[f].pc = "resolved" /\ CanFinalise(f)
             /\ \E evidence \in {"completed", "partial", "none"} : row' = Finalised(f, evidence)
      BY <1>5 DEF FinalStep
    <2>2. fin[f].generation \in Generation /\ fin[f].generation >= 0
      BY <2>1 DEF IInv, TypeOK, ResolvedUnderGeneration
    <2>3. row.status = "pending" /\ row.generation <= fin[f].generation
      BY <2>1 DEF CanFinalise, Pending
    <2>4. row.generation \in Int /\ fin[f].generation \in Int
      BY <1>1, <2>2, SavedReportAssumption DEF Row, Generation
    <2>5. /\ row'.status \in Terminal /\ row'.score \in Final /\ row'.explains = row'.score
          /\ row'.generation = fin[f].generation
      BY <1>1, <2>1, <2>2, FinalisedFacts
    <2> QED
      BY <2>2, <2>3, <2>4, <2>5
  <1>6. CASE row' = row
    BY <1>6
  <1> QED
    BY <1>2, <1>3, <1>4, <1>5, <1>6, RowStep DEF IInv

\* The row outlives every step.
LEMMA RowStays ==
    ASSUME TypeOK, Exists, [Next]_vars
    PROVE  Exists'
  BY RowType, NoRowAssumption DEF Exists

\* How one request, or a step elsewhere, changes what requests carry.
LEMMA RequestStep ==
    ASSUME TypeOK, [Next]_vars, NEW v \in Visitor
    PROVE  \/ req'[v] = IdleReq
           \/ /\ req'[v].pc = req[v].pc /\ req'[v].first = req[v].first
              /\ req'[v].status = req[v].status /\ req'[v].score = req[v].score
              /\ req'[v].generation = req[v].generation
           \/ /\ req[v].pc = "idle" /\ row' = row
              /\ req'[v].first = ~Exists
              /\ \E flag \in BOOLEAN : req'[v].status = StatusToPersist(flag)
              /\ req'[v].score = "none" /\ req'[v].generation = -1
           \/ /\ req[v].pc = "read" /\ row' = row
              /\ req'[v].first = req[v].first /\ req'[v].status = req[v].status
              /\ req[v].status = "pending" => req'[v].score = "none" /\ req'[v].generation = -1
  <1>1. DOMAIN req = Visitor /\ req = [x \in Visitor |-> req[x]]
    BY DEF TypeOK
  <1>2. \A x \in Visitor : DOMAIN req[x] = {"pc", "first", "status", "claimed", "score", "generation"}
    BY DEF TypeOK
  <1>3. ASSUME NEW u \in Visitor, ReadReport(u)
        PROVE  \/ req'[v] = req[v]
               \/ /\ req[v].pc = "idle" /\ row' = row
                  /\ req'[v].first = ~Exists
                  /\ \E flag \in BOOLEAN : req'[v].status = StatusToPersist(flag)
                  /\ req'[v].score = "none" /\ req'[v].generation = -1
    <2>1. CASE u = v
      <3>1. PICK flag \in BOOLEAN :
               req' = [req EXCEPT ![v] =
                   [IdleReq EXCEPT !.pc = "read", !.first = ~Exists,
                                   !.status = StatusToPersist(flag),
                                   !.claimed = Exists /\ row.claimed]]
        BY <1>3, <2>1 DEF ReadReport
      <3>2. /\ req'[v].first = ~Exists /\ req'[v].status = StatusToPersist(flag)
            /\ req'[v].score = "none" /\ req'[v].generation = -1
        BY <1>1, <3>1 DEF IdleReq
      <3> QED
        BY <1>3, <2>1, <3>2 DEF ReadReport
    <2>2. CASE u # v
      BY <1>1, <1>3, <2>2 DEF ReadReport
    <2> QED
      BY <2>1, <2>2
  <1>4. ASSUME NEW u \in Visitor, Resolve(u)
        PROVE  \/ req'[v] = req[v]
               \/ /\ req[v].pc = "read" /\ row' = row
                  /\ req'[v].first = req[v].first /\ req'[v].status = req[v].status
                  /\ req[v].status = "pending" =>
                         req'[v].score = "none" /\ req'[v].generation = -1
    <2>1. CASE u = v
      BY <1>1, <1>2, <1>4, <2>1 DEF Resolve, Withholds
    <2>2. CASE u # v
      BY <1>1, <1>4, <2>2 DEF Resolve
    <2> QED
      BY <2>1, <2>2
  <1>5. ASSUME NEW u \in Visitor, Save(u) \/ SaveRefused(u)
        PROVE  req'[v] = req[v] \/ req'[v] = IdleReq
    BY <1>1, <1>5 DEF Save, SaveRefused
  <1>6. ASSUME NEW u \in Visitor, RetryFails(u) \/ RetryFits(u) \/ RetryTooLarge(u)
        PROVE  req'[v] = req[v]
    BY <1>6 DEF RetryFails, RetryFits, RetryTooLarge
  <1>7. ASSUME NEW f \in Finaliser, Works(f) \/ FinalThrows(f) \/ FinalDies(f)
        PROVE  req'[v] = req[v]
    BY <1>7 DEF Works, Claim, FinalRead, FinalWrite, FinalThrows, FinalDies
  <1>8. CASE ClaimGoesStale
    BY <1>1, <1>2, <1>8 DEF ClaimGoesStale
  <1>9. CASE MoveGeneration
    BY <1>9 DEF MoveGeneration
  <1>10. CASE UNCHANGED vars
    BY <1>10 DEF vars
  <1> QED
    BY <1>3, <1>4, <1>5, <1>6, <1>7, <1>8, <1>9, <1>10 DEF Next

LEMMA CarriesNoScoreStep ==
    ASSUME IInv, [Next]_vars
    PROVE  CarriesNoScore'
  <1> SUFFICES ASSUME NEW v \in Visitor, req'[v].status = "pending"
               PROVE  req'[v].score = "none" /\ req'[v].generation = -1
    BY DEF CarriesNoScore
  <1>1. req[v].status = "pending" => req[v].score = "none" /\ req[v].generation = -1
    BY DEF IInv, CarriesNoScore
  <1>2. IdleReq.score = "none" /\ IdleReq.generation = -1
    BY DEF IdleReq
  <1> QED
    BY <1>1, <1>2, RequestStep DEF IInv

\* A status that somebody carries: the row's own, or the one it had before
\* it was finalised.
LEMMA StatusStep ==
    ASSUME IInv, Exists, [Next]_vars
    PROVE  \/ row'.status = row.status
           \/ row.status = "pending" /\ row'.status \in Terminal
  <1> DEFINE P == row'.status = row.status
  <1>1. CASE \E v \in Visitor :
                /\ req[v].pc = "resolved" /\ ~req[v].first
                /\ row'.status = req[v].status /\ row'.generation = req[v].generation
                /\ row'.generation >= row.generation
    <2>1. PICK v \in Visitor :
                /\ req[v].pc = "resolved" /\ ~req[v].first
                /\ row'.status = req[v].status /\ row'.generation = req[v].generation
                /\ row'.generation >= row.generation
      BY <1>1
    <2>2. \/ req[v].status = row.status
          \/ req[v].status = "pending" /\ row.status \in Terminal
      BY <2>1 DEF IInv, CarriesStatus
    <2>3. CASE req[v].status = "pending" /\ row.status \in Terminal
      <3>1. req[v].generation = -1
        BY <2>3 DEF IInv, CarriesNoScore
      <3>2. row.generation >= 0
        BY <2>3 DEF IInv, TerminalHasGeneration
      <3>3. row.generation \in Int
        BY SavedReportAssumption DEF IInv, TypeOK, Exists, Row, Generation
      <3> QED
        BY <2>1, <3>1, <3>2, <3>3
    <2> QED
      BY <2>1, <2>2, <2>3
  <1> QED
    BY <1>1, PayloadStep

LEMMA CarriesStatusStep ==
    ASSUME IInv, [Next]_vars
    PROVE  CarriesStatus'
  <1> SUFFICES ASSUME NEW v \in Visitor, req'[v].pc # "idle"
               PROVE  /\ req'[v].first => req'[v].status \in {"none", "pending"}
                      /\ ~req'[v].first =>
                             /\ Exists'
                             /\ \/ req'[v].status = row'.status
                                \/ req'[v].status = "pending" /\ row'.status \in Terminal
    BY DEF CarriesStatus
  <1>1. Exists => Exists'
    BY RowStays DEF IInv
  <1>2. Exists => \/ row'.status = row.status
                  \/ row.status = "pending" /\ row'.status \in Terminal
    BY StatusStep
  <1>3. CASE /\ req[v].pc # "idle"
             /\ req'[v].first = req[v].first /\ req'[v].status = req[v].status
    <2>1. /\ req[v].first => req[v].status \in {"none", "pending"}
          /\ ~req[v].first =>
                 /\ Exists
                 /\ \/ req[v].status = row.status
                    \/ req[v].status = "pending" /\ row.status \in Terminal
      BY <1>3 DEF IInv, CarriesStatus
    <2> QED
      BY <1>1, <1>2, <1>3, <2>1 DEF Terminal
  <1>4. CASE /\ row' = row /\ req'[v].first = ~Exists
             /\ \E flag \in BOOLEAN : req'[v].status = StatusToPersist(flag)
    BY <1>4 DEF StatusToPersist, Exists
  <1>5. IdleReq.pc = "idle"
    BY DEF IdleReq
  <1> QED
    BY <1>3, <1>4, <1>5, RequestStep DEF IInv

\* A row a save inserts.
LEMMA InsertedStep ==
    ASSUME IInv, ~Exists, [Next]_vars, Exists'
    PROVE  \E v \in Visitor :
              /\ row'.status = req[v].status /\ row'.status \in {"none", "pending"}
              /\ row'.generation = req[v].generation /\ row'.score = req[v].score
              /\ row'.score \in Final => row'.explains = row'.score
  <1>1. PICK v \in Visitor :
           req[v].pc = "resolved" /\ \E h \in Halves(v) : row' = Incoming(req[v], h)
    BY InsertStep DEF IInv, Exists
  <1>. PICK h \in Halves(v) : row' = Incoming(req[v], h)
    BY <1>1
  <1>2. req[v].first /\ req[v].status \in {"none", "pending"}
    BY <1>1 DEF IInv, CarriesStatus
  <1> QED
    BY <1>2, IncomingFacts DEF IInv

LEMMA RowStepInvariants ==
    ASSUME IInv, [Next]_vars
    PROVE  PendingShowsNoScore' /\ ExplanationMatchesScore' /\ TerminalHasGeneration'
  <1> SUFFICES ASSUME Exists'
               PROVE  /\ row'.status = "pending" => row'.score = "none" /\ row'.generation = -1
                      /\ row'.score \in Final => row'.explains = row'.score
                      /\ row'.status \in Terminal => row'.generation >= 0
    BY DEF PendingShowsNoScore, Pending, ExplanationMatchesScore, TerminalHasGeneration
  <1>1. CASE ~Exists
    BY <1>1, InsertedStep DEF IInv, CarriesNoScore, Terminal
  <1>2. CASE Exists
    <2>1. /\ row.status = "pending" => row.score = "none" /\ row.generation = -1
          /\ row.score \in Final => row.explains = row.score
          /\ row.status \in Terminal => row.generation >= 0
          /\ row.generation \in Int
      BY <1>2, SavedReportAssumption DEF IInv, PendingShowsNoScore, Pending,
         ExplanationMatchesScore, TerminalHasGeneration, TypeOK, Exists, Row, Generation
    <2>2. CASE /\ row'.status = row.status /\ row'.generation = row.generation
               /\ row'.score = row.score /\ row'.explains = row.explains
      BY <2>1, <2>2
    <2>3. CASE \E v \in Visitor :
                 /\ req[v].pc = "resolved" /\ ~req[v].first
                 /\ row'.status = req[v].status /\ row'.generation = req[v].generation
                 /\ row'.score = req[v].score
                 /\ row'.score \in Final => row'.explains = row'.score
                 /\ row'.generation >= row.generation
      <3>1. PICK v \in Visitor :
                 /\ req[v].pc = "resolved" /\ ~req[v].first
                 /\ row'.status = req[v].status /\ row'.generation = req[v].generation
                 /\ row'.score = req[v].score
                 /\ row'.score \in Final => row'.explains = row'.score
                 /\ row'.generation >= row.generation
        BY <2>3
      <3>2. row'.status = "pending" => row'.score = "none" /\ row'.generation = -1
        BY <3>1 DEF IInv, CarriesNoScore
      <3>3. ASSUME row'.status \in Terminal PROVE row'.generation >= 0
        <4>1. row.status = row'.status
          BY <1>2, <3>1, <3>3 DEF IInv, CarriesStatus, Terminal
        <4>2. row.generation >= 0 /\ row'.generation \in Int
          BY <2>1, <3>1, <3>3, <4>1, SavedReportAssumption DEF IInv, TypeOK, Generation
        <4> QED
          BY <2>1, <3>1, <4>2
      <3> QED
        BY <3>1, <3>2, <3>3
    <2>4. CASE /\ row.status = "pending" /\ row'.status \in Terminal
               /\ row'.score \in Final /\ row'.explains = row'.score
               /\ row'.generation >= row.generation /\ row'.generation >= 0
      BY <2>4 DEF Terminal
    <2> QED
      BY <1>2, <2>2, <2>3, <2>4, PayloadStep
  <1> QED
    BY <1>1, <1>2

LEMMA ResolvedStep ==
    ASSUME IInv, [Next]_vars
    PROVE  ResolvedUnderGeneration'
  <1> SUFFICES ASSUME NEW g \in Finaliser, fin'[g].pc = "resolved"
               PROVE  fin'[g].generation >= 0
    BY DEF ResolvedUnderGeneration
  <1>1. /\ DOMAIN fin = Finaliser
        /\ \A x \in Finaliser : fin[x].pc = "resolved" => fin[x].generation >= 0
        /\ \A x \in Finaliser : DOMAIN fin[x] = {"pc", "fallback", "generation"}
    BY DEF IInv, TypeOK, ResolvedUnderGeneration
  <1>2. generation >= 0
    BY DEF IInv, TypeOK
  <1>3. ASSUME NEW f \in Finaliser, fin' = [fin EXCEPT ![f].pc = "start"]
        PROVE  fin'[g].generation >= 0
    BY <1>1, <1>3
  <1>4. ASSUME NEW f \in Finaliser,
               \/ fin' = [fin EXCEPT ![f] = IdleFin]
               \/ fin' = [fin EXCEPT ![f] = [IdleFin EXCEPT !.pc = "start", !.fallback = TRUE]]
        PROVE  fin'[g].generation >= 0
    <2>1. /\ IdleFin.pc = "idle"
          /\ [IdleFin EXCEPT !.pc = "start", !.fallback = TRUE].pc = "start"
      BY DEF IdleFin
    <2>2. g # f
      BY <1>1, <1>4, <2>1
    <2>3. fin'[g] = fin[g]
      BY <1>1, <1>4, <2>2
    <2> QED
      BY <1>1, <2>3
  <1>5. ASSUME NEW f \in Finaliser,
               fin' = [fin EXCEPT ![f] = [@ EXCEPT !.pc = "resolved", !.generation = generation]]
        PROVE  fin'[g].generation >= 0
    BY <1>1, <1>2, <1>5
  <1>6. ASSUME NEW v \in Visitor,
               \/ ReadReport(v) \/ Resolve(v) \/ Save(v) \/ SaveRefused(v)
               \/ RetryFails(v) \/ RetryFits(v) \/ RetryTooLarge(v)
        PROVE  \/ fin' = fin
               \/ \E f \in Finaliser : fin' = [fin EXCEPT ![f].pc = "start"]
    BY <1>6 DEF ReadReport, Resolve, Save, SaveRefused, RetryFails, RetryFits, RetryTooLarge,
       RunsAfterResponse
  <1>7. ASSUME NEW f \in Finaliser, Works(f) \/ FinalThrows(f) \/ FinalDies(f)
        PROVE  \/ fin' = [fin EXCEPT ![f].pc = "start"]
               \/ fin' = [fin EXCEPT ![f] = IdleFin]
               \/ fin' = [fin EXCEPT ![f] = [IdleFin EXCEPT !.pc = "start", !.fallback = TRUE]]
               \/ fin' = [fin EXCEPT ![f] = [@ EXCEPT !.pc = "resolved", !.generation = generation]]
    BY <1>7 DEF Works, Claim, FinalRead, FinalWrite, FinalThrows, FinalDies
  <1>8. ClaimGoesStale \/ MoveGeneration \/ UNCHANGED vars => fin' = fin
    BY DEF ClaimGoesStale, MoveGeneration, vars
  <1>9. ASSUME fin' = fin PROVE fin'[g].generation >= 0
    BY <1>1, <1>9
  <1>10. ASSUME NEW v \in Visitor,
                \/ ReadReport(v) \/ Resolve(v) \/ Save(v) \/ SaveRefused(v)
                \/ RetryFails(v) \/ RetryFits(v) \/ RetryTooLarge(v)
         PROVE  fin'[g].generation >= 0
    BY <1>3, <1>6, <1>9, <1>10
  <1>11. ASSUME NEW f \in Finaliser, Works(f) \/ FinalThrows(f) \/ FinalDies(f)
         PROVE  fin'[g].generation >= 0
    BY <1>3, <1>4, <1>5, <1>7, <1>11
  <1> QED
    BY <1>8, <1>9, <1>10, <1>11 DEF Next

-----------------------------------------------------------------------------
LEMMA InitIInv == Init => IInv
  <1> SUFFICES ASSUME Init PROVE IInv
    OBVIOUS
  <1>1. ~Exists /\ ~Pending
    BY DEF Init, Exists, Pending
  <1>2. TypeOK
    BY SavedReportAssumption
       DEF Init, TypeOK, IdleReq, IdleFin, Status, Score, Generation
  <1>3. CarriesStatus /\ CarriesNoScore /\ ResolvedUnderGeneration
    BY DEF Init, CarriesStatus, CarriesNoScore, ResolvedUnderGeneration, IdleReq, IdleFin
  <1> QED
    BY <1>1, <1>2, <1>3 DEF IInv, HalvesAgree, PendingShowsNoScore, ExplanationMatchesScore,
       TerminalHasGeneration

LEMMA IInvStep == IInv /\ [Next]_vars => IInv'
  <1> SUFFICES ASSUME IInv, [Next]_vars PROVE IInv'
    OBVIOUS
  <1>1. TypeOK' /\ HalvesAgree'
    BY TypeStep, HalvesStep DEF IInv
  <1> QED
    BY <1>1, CarriesStatusStep, CarriesNoScoreStep, RowStepInvariants, ResolvedStep DEF IInv

LEMMA Invariance == Spec => []IInv
  BY InitIInv, IInvStep, PTL DEF Spec

\* The state stays typed: one row, requests and finalisers at their labels.
THEOREM TypeCorrect == Spec => []TypeOK
  <1>1. IInv => TypeOK
    BY DEF IInv
  <1> QED
    BY <1>1, Invariance, PTL

\* The AI columns and the AI half of the payload tell one story, whichever of
\* the upsert's branches and the retry's writes made them.
THEOREM HalvesAlwaysAgree == Spec => []HalvesAgree
  <1>1. IInv => HalvesAgree
    BY DEF IInv
  <1> QED
    BY <1>1, Invariance, PTL

\* A pending report shows neither a score nor a generation.
THEOREM PendingNeverShowsScore == Spec => []PendingShowsNoScore
  <1>1. IInv => PendingShowsNoScore
    BY DEF IInv
  <1> QED
    BY <1>1, Invariance, PTL

\* A stored score comes with the explanation built from it.
THEOREM ExplanationAlwaysMatches == Spec => []ExplanationMatchesScore
  <1>1. IInv => ExplanationMatchesScore
    BY DEF IInv
  <1> QED
    BY <1>1, Invariance, PTL

\* A report leaves pending once, and no other status ever changes.
THEOREM StatusLeavesPendingOnce == Spec => TerminalOnce
  <1>1. IInv /\ [Next]_vars =>
           [Exists => \/ row'.status = row.status
                      \/ row.status = "pending" /\ row'.status \in Terminal]_vars
    BY StatusStep
  <1> QED
    BY <1>1, Invariance, PTL DEF Spec, TerminalOnce

\* The stored generation never goes back.
THEOREM GenerationNeverFalls == Spec => GenerationMonotone
  <1>1. ASSUME IInv, [Next]_vars, Exists PROVE row'.generation >= row.generation
    <2>1. row.generation \in Int
      BY <1>1, SavedReportAssumption DEF IInv, TypeOK, Exists, Row, Generation
    <2> QED
      BY <1>1, <2>1, PayloadStep
  <1>2. IInv /\ [Next]_vars => [Exists => row'.generation >= row.generation]_vars
    BY <1>1
  <1> QED
    BY <1>2, Invariance, PTL DEF Spec, GenerationMonotone

\* A ready AI result is only ever replaced by a ready one.
THEOREM ReadyIsNeverLost == Spec => ReadyNeverLost
  <1>1. ASSUME IInv, [Next]_vars, Exists, IsReady(row.columns)
        PROVE  IsReady(row'.columns)
    <2>1. row \in Row
      BY <1>1 DEF IInv, TypeOK, Exists
    <2>2. CASE SaveStep
      <3>1. PICK v \in Visitor : \E h \in Halves(v) : row' = Upsert(row, Incoming(req[v], h))
        BY <2>2 DEF SaveStep
      <3>. PICK h \in Halves(v) : row' = Upsert(row, Incoming(req[v], h))
        BY <3>1
      <3>2. Incoming(req[v], h) \in Row
        BY <1>1, IncomingFacts DEF IInv
      <3> QED
        BY <1>1, <2>1, <3>2, UpsertReady
    <2>3. CASE HalfStep
      <3>1. PICK v \in Visitor : \E h \in Ready(v) : row' = WithHalf(row, h)
        BY <1>1, <2>3 DEF HalfStep
      <3>. PICK h \in Ready(v) : row' = WithHalf(row, h)
        BY <3>1
      <3>2. row'.columns = h.columns
        BY <2>1 DEF WithHalf, Row
      <3>3. h.columns.ai = "ready"
        BY DEF Ready, Half
      <3> QED
        BY <3>2, <3>3 DEF IsReady, DerivedStatus
    <2>4. CASE ClaimStep
      BY <1>1, <2>1, <2>4 DEF ClaimStep, Row
    <2>5. CASE FinalStep
      <3>1. \A f \in Finaliser : fin[f].generation \in Generation
        BY <1>1 DEF IInv, TypeOK
      <3> QED
        BY <1>1, <2>1, <2>5, <3>1, FinalisedFacts DEF FinalStep
    <2> QED
      BY <1>1, <2>2, <2>3, <2>4, <2>5, RowStep
  <1>2. IInv /\ [Next]_vars => [Exists /\ IsReady(row.columns) => IsReady(row'.columns)]_vars
    BY <1>1
  <1> QED
    BY <1>2, Invariance, PTL DEF Spec, ReadyNeverLost
=============================================================================
