-------------------------- MODULE ReportAdmission --------------------------
(***************************************************************************)
(* The admission jobs of lib/corpus-admission-report-integration.ts.  A    *)
(* signed-in user's first save of a report creates a job; processing the   *)
(* job evaluates the report's text with the admission gate                 *)
(* (lib/corpus-admission-gate.ts), records the decision on the job and     *)
(* finalises it, together with the device provenance an ACCEPT of a        *)
(* verified upload owes.                                                   *)
(*                                                                         *)
(* Four kinds of activity touch the same rows: the save request's own      *)
(* deferred attempt, which never claims the job; the daily sweep, which    *)
(* claims a batch; a request that reuses the report's room, which claims   *)
(* one job and then replaces the report in one transaction; and the        *)
(* owner's DELETE of the report, which is a sequence of separate           *)
(* statements.  Visitors are the requests, sweepers the cron invocations.  *)
(*                                                                         *)
(* A first save is a save whose request read no row of the report: the AI  *)
(* resave of a tab, which carries the room, is one again after the report  *)
(* has gone, and brings the report back, with a job under the same         *)
(* source_ref.  A request may have made that read long before its insert,  *)
(* so a save is never refused here for what is there by then.  The         *)
(* variables resaved and raced record such saves for the properties; no    *)
(* step reads raced.                                                       *)
(*                                                                         *)
(* The gate compares families of texts, the unique index and the admin's   *)
(* reactivation compare texts.  A decision that is not ACCEPT is "REJECT"  *)
(* (REVIEW is handled alike), one whose row was deleted is "gone".  The    *)
(* admission flag is on throughout; cancelled jobs have no production      *)
(* caller.                                                                 *)
(***************************************************************************)
EXTENDS Integers, FiniteSets

CONSTANTS
    Source,        \* (account, device, report) triples: source_ref
    Text,          \* canonical texts
    TextOf,        \* the text of each report
    FamilyOf,      \* texts of one family are near-duplicates of each other
    Admissible,    \* texts that pass the hard gates and the quality policy
    Verified,      \* reports uploaded with a verified device passport
    Deletable,     \* reports whose owner may delete them
    JobId,         \* job ids; their number bounds the jobs ever created
    DecisionId,    \* decision ids; their number bounds the evaluations
    Visitor,
    Sweeper,
    NoSource,
    NoJob,
    NoDecision,
    BatchSize,     \* the sweep's LIMIT
    MaxFaults,     \* bound of the model: workers that die, statements that throw
    ClaimsOutlived \* TRUE: an attempt may take longer than its claim lasts

Worker == Visitor \cup Sweeper

ASSUME AdmissionAssumption ==
    /\ TextOf \in [Source -> Text]
    /\ DOMAIN FamilyOf = Text
    /\ Admissible \subseteq Text
    /\ Verified \subseteq Source
    /\ Deletable \subseteq Source
    /\ Visitor \cap Sweeper = {}
    /\ NoSource \notin Source
    /\ NoJob \notin JobId
    /\ NoDecision \notin DecisionId
    /\ BatchSize \in Nat \ {0}
    /\ MaxFaults \in Nat
    /\ ClaimsOutlived \in BOOLEAN

VARIABLES
    uploaded,    \* reports saved at some point
    saved,       \* reports with a saved_reports row
    loose,       \* those whose row names no room
    resaved,     \* history: reports saved again once gone, or while their room was reused
    raced,       \* history: those inserted again while a DELETE of them was running
    jsrc,        \* the job's source_ref
    jstatus,     \* the job's status; "free" before the row exists, "gone" after
    jdecision,   \* the job's decision_id
    jclaim,      \* the job's claimed_at: "none", "fresh" or "stale"
    kind,        \* the decision: "free" (unused id), "ACCEPT", "REJECT", "gone"
    src,         \* the decision's source_ref
    revoked,     \* accepted representations with revoked_at set
    provenance,  \* decisions with a device provenance row
    staged,      \* decisions with a promotion row
    pc, cur, job, seen, mode, todo,   \* the workers
    faults

reports   == <<uploaded, saved, loose, resaved, raced>>
jobs      == <<jsrc, jstatus, jdecision, jclaim>>
decisions == <<kind, src, revoked, provenance, staged>>
workers   == <<pc, cur, job, seen, mode, todo>>
vars      == <<reports, jobs, decisions, workers, faults>>

Init ==
    /\ uploaded = {} /\ saved = {} /\ loose = {} /\ resaved = {} /\ raced = {}
    /\ jsrc = [j \in JobId |-> NoSource]
    /\ jstatus = [j \in JobId |-> "free"]
    /\ jdecision = [j \in JobId |-> NoDecision]
    /\ jclaim = [j \in JobId |-> "none"]
    /\ kind = [d \in DecisionId |-> "free"]
    /\ src = [d \in DecisionId |-> NoSource]
    /\ revoked = {} /\ provenance = {} /\ staged = {}
    /\ pc = [w \in Worker |-> "idle"]
    /\ cur = [w \in Worker |-> NoSource]
    /\ job = [w \in Worker |-> NoJob]
    /\ seen = [w \in Worker |-> NoDecision]
    /\ mode = [w \in Worker |-> "none"]
    /\ todo = [w \in Worker |-> {}]
    /\ faults = 0

-----------------------------------------------------------------------------
\* Facts about the rows.
Stored(j) == jstatus[j] \notin {"free", "gone"}

JobsOf(s) == {j \in JobId : jsrc[j] = s /\ Stored(j)}

\* A mutant: a failed job counts as finished whether or not it was decided.
JobTerminal_AnyFailure(s) ==
    \A j \in JobsOf(s) : jstatus[j] \in {"succeeded", "failed"}

\* isReportAdmissionJobTerminal: nothing would be lost with the report.
JobTerminal(s) ==
    \A j \in JobsOf(s) :
        \/ jstatus[j] = "succeeded"
        \/ jstatus[j] = "failed" /\ jdecision[j] # NoDecision

\* A mutant: an abandoned claim is honoured for ever.
Claimable_NeverReclaims(j) ==
    jstatus[j] \in {"pending", "failed"} /\ jclaim[j] = "none"

Claimable(j) == jstatus[j] \in {"pending", "failed"} /\ jclaim[j] # "fresh"

\* The active accepted representations, of a text and of its family.
Active(t) == {d \in DecisionId \ revoked : kind[d] = "ACCEPT" /\ TextOf[src[d]] = t}

ActiveFamily(t) == UNION {Active(u) : u \in {v \in Text : FamilyOf[v] = FamilyOf[t]}}

DecisionsOf(s) == {d \in DecisionId : src[d] = s /\ kind[d] # "gone"}

\* A mutant: only the decision the job names is looked at.
HasAcceptedContent_OfJob(s) ==
    \E j \in JobsOf(s) : jdecision[j] # NoDecision /\ kind[jdecision[j]] = "ACCEPT"

HasAcceptedContent(s) == \E d \in DecisionsOf(s) : kind[d] = "ACCEPT"

\* A mutant: the job rows outlive their decisions.
Purge_LeavesJobs(js, ds) ==
    /\ jdecision' = [j \in JobId |-> IF jdecision[j] \in ds THEN NoDecision ELSE jdecision[j]]
    /\ kind' = [d \in DecisionId |-> IF d \in ds THEN "gone" ELSE kind[d]]
    /\ provenance' = provenance \ ds
    /\ UNCHANGED <<jsrc, jstatus, jclaim, src, revoked, staged>>

\* Rows are deleted: the jobs js, and the decisions ds, which take their
\* provenance along and disappear from the jobs that name them.
Purge(js, ds) ==
    /\ jstatus' = [j \in JobId |-> IF j \in js THEN "gone" ELSE jstatus[j]]
    /\ jdecision' = [j \in JobId |-> IF j \in js \/ jdecision[j] \in ds THEN NoDecision ELSE jdecision[j]]
    /\ jclaim' = [j \in JobId |-> IF j \in js THEN "none" ELSE jclaim[j]]
    /\ kind' = [d \in DecisionId |-> IF d \in ds THEN "gone" ELSE kind[d]]
    /\ provenance' = provenance \ ds
    /\ UNCHANGED <<jsrc, src, revoked, staged>>

\* DELETE has taken the report's row and has statements left to run.
BeingDeleted(s) ==
    \E w \in Worker : cur[w] = s /\ pc[w] \in {"delCount", "delJob", "delJobOnly", "delDecisions"}

\* A request is about to reuse the report's room.
BeingReused(s) == \E w \in Worker : cur[w] = s /\ mode[w] = "reuse"

\* The upsert of the row of s, where the rows of others are there already, and
\* what is remembered of it.
Upsert(s, others) ==
    /\ saved' = others \cup {s}
    /\ uploaded' = uploaded \cup {s}
    /\ resaved' = IF s \in uploaded /\ (s \notin others \/ BeingReused(s))
                  THEN resaved \cup {s} ELSE resaved
    /\ raced' = IF s \notin others /\ BeingDeleted(s) THEN raced \cup {s} ELSE raced

Goto(w, label) == pc' = [pc EXCEPT ![w] = label]

\* A mutant: the row in hand is kept.
Abandon_KeepsRow(w) ==
    /\ Goto(w, "idle")
    /\ seen' = [seen EXCEPT ![w] = NoDecision]
    /\ mode' = [mode EXCEPT ![w] = "none"]
    /\ todo' = [todo EXCEPT ![w] = {}]
    /\ UNCHANGED <<cur, job>>

\* Give everything up.
Abandon(w) ==
    /\ Goto(w, "idle")
    /\ cur' = [cur EXCEPT ![w] = NoSource]
    /\ job' = [job EXCEPT ![w] = NoJob]
    /\ seen' = [seen EXCEPT ![w] = NoDecision]
    /\ mode' = [mode EXCEPT ![w] = "none"]
    /\ todo' = [todo EXCEPT ![w] = {}]

\* Leave the job in hand: a sweep goes on with its batch, a room reuse looks at
\* its report again, the deferred attempt ends.
Conclude(w) ==
    \/ /\ mode[w] = "reuse"
       /\ Goto(w, "recheck")
       /\ job' = [job EXCEPT ![w] = NoJob]
       /\ seen' = [seen EXCEPT ![w] = NoDecision]
       /\ UNCHANGED <<cur, mode, todo>>
    \/ /\ mode[w] = "sweep" /\ todo[w] # {}
       /\ Goto(w, "loop")
       /\ cur' = [cur EXCEPT ![w] = NoSource]
       /\ job' = [job EXCEPT ![w] = NoJob]
       /\ seen' = [seen EXCEPT ![w] = NoDecision]
       /\ UNCHANGED <<mode, todo>>
    \/ /\ mode[w] # "reuse"
       /\ mode[w] = "sweep" => todo[w] = {}
       /\ Abandon(w)

Start(w, s, m, label) ==
    /\ pc[w] = "idle"
    /\ Goto(w, label)
    /\ cur' = [cur EXCEPT ![w] = s]
    /\ mode' = [mode EXCEPT ![w] = m]
    /\ UNCHANGED <<seen, todo>>

\* A request saves its report for the first time, or after it had gone.
SaveMode(s) == IF s \in resaved' THEN "again" ELSE "first"

-----------------------------------------------------------------------------
\* POST /api/reports, of a request that has read no row of the report, upserts
\* it: a row that is there by now keeps its room, or the lack of one ...
Save(w, s) ==
    /\ Upsert(s, saved)
    /\ Start(w, s, SaveMode(s), "saved")
    /\ UNCHANGED <<loose, jobs, job, decisions, faults>>

\* ... creates the pending job in a second statement, unless the report has one
\* (ON CONFLICT DO NOTHING), and processes it without claiming it once the
\* response is sent.
CreateJob(w) ==
    LET s == cur[w] IN
    /\ pc[w] = "saved"
    /\ \E j \in JobId :
          /\ \/ j \in JobsOf(s) /\ UNCHANGED <<jsrc, jstatus>>
             \/ /\ JobsOf(s) = {}
                /\ jstatus[j] = "free"
                /\ jsrc' = [jsrc EXCEPT ![j] = s]
                /\ jstatus' = [jstatus EXCEPT ![j] = "pending"]
          /\ job' = [job EXCEPT ![w] = j]
    /\ Goto(w, "fetch")
    /\ UNCHANGED <<reports, jdecision, jclaim, decisions, cur, seen, mode, todo, faults>>

\* A resave reads the row, which is gone by the time of its upsert: the report
\* is there again, in no room and without a job of its own.
Resave(s) ==
    /\ s \in uploaded \ saved
    /\ Upsert(s, saved)
    /\ loose' = loose \cup {s}
    /\ UNCHANGED <<jobs, decisions, workers, faults>>

\* One sweep transaction claims a batch.  ORDER BY updated_at only decides which
\* of the claimable jobs fill the LIMIT.
SweepTick(w) ==
    /\ pc[w] = "idle"
    /\ \E mine \in SUBSET {j \in JobId : Claimable(j)} :
          /\ mine # {}
          /\ \/ mine = {j \in JobId : Claimable(j)} /\ Cardinality(mine) <= BatchSize
             \/ Cardinality(mine) = BatchSize
          /\ jclaim' = [j \in JobId |-> IF j \in mine THEN "fresh" ELSE jclaim[j]]
          /\ todo' = [todo EXCEPT ![w] = mine]
    /\ Goto(w, "loop")
    /\ mode' = [mode EXCEPT ![w] = "sweep"]
    /\ UNCHANGED <<reports, jsrc, jstatus, jdecision, decisions, cur, job, seen, faults>>

TakeNext(w, j) ==
    /\ pc[w] = "loop"
    /\ j \in todo[w]
    /\ todo' = [todo EXCEPT ![w] = @ \ {j}]
    /\ cur' = [cur EXCEPT ![w] = jsrc[j]]
    /\ job' = [job EXCEPT ![w] = j]
    /\ Goto(w, "fetch")
    /\ UNCHANGED <<reports, jobs, decisions, seen, mode, faults>>

-----------------------------------------------------------------------------
\* processReportAdmissionJob reads the job once, by its id.  A missing row throws, which
\* costs a sweep the rest of its batch; a succeeded job is left alone; a job
\* whose decision is recorded is only finalised again.
Fetch(w) ==
    LET j == job[w] IN
    /\ pc[w] = "fetch"
    /\ \/ /\ ~Stored(j)
          /\ IF mode[w] = "sweep" THEN Abandon(w) ELSE Conclude(w)
       \/ /\ jstatus[j] = "succeeded"
          /\ Conclude(w)
       \/ /\ jstatus[j] \in {"pending", "failed"}
          /\ seen' = [seen EXCEPT ![w] = jdecision[j]]
          /\ Goto(w, IF jdecision[j] # NoDecision THEN "finalize" ELSE "read")
          /\ UNCHANGED <<cur, job, mode, todo>>
    /\ UNCHANGED <<reports, jobs, decisions, faults>>

\* The text is re-derived from saved_reports; without it the attempt fails.
ReadReport(w) ==
    /\ pc[w] = "read"
    /\ Goto(w, IF cur[w] \in saved THEN "evaluate" ELSE "fail")
    /\ UNCHANGED <<reports, jobs, decisions, cur, job, seen, mode, todo, faults>>

\* The gate's pre-check, outside any transaction.
Evaluate(w) ==
    LET t == TextOf[cur[w]] IN
    /\ pc[w] = "evaluate"
    /\ Goto(w, IF t \in Admissible /\ ActiveFamily(t) = {} THEN "accept" ELSE "reject")
    /\ UNCHANGED <<reports, jobs, decisions, cur, job, seen, mode, todo, faults>>

\* A decision row is inserted under an unused id.
Decide(w, d, verdict) ==
    /\ kind[d] = "free"
    /\ kind' = [kind EXCEPT ![d] = verdict]
    /\ src' = [src EXCEPT ![d] = cur[w]]
    /\ seen' = [seen EXCEPT ![w] = d]
    /\ Goto(w, "record")
    /\ UNCHANGED <<revoked, provenance, staged, cur, job, mode, todo>>

\* A mutant: the transaction trusts the check made before it.
AcceptTx_TrustsPreCheck(w) ==
    /\ pc[w] = "accept"
    /\ \E d \in DecisionId : Decide(w, d, "ACCEPT")
    /\ UNCHANGED <<reports, jobs, faults>>

\* The accept transaction checks again and inserts the decision, the accepted
\* representation and the retained text together, or rolls back and lets a
\* REJECT be inserted.
AcceptTx(w) ==
    /\ pc[w] = "accept"
    /\ \/ /\ ActiveFamily(TextOf[cur[w]]) = {}
          /\ \E d \in DecisionId : Decide(w, d, "ACCEPT")
       \/ /\ ActiveFamily(TextOf[cur[w]]) # {}
          /\ Goto(w, "reject")
          /\ UNCHANGED <<decisions, cur, job, seen, mode, todo>>
    /\ UNCHANGED <<reports, jobs, faults>>

Reject(w) ==
    /\ pc[w] = "reject"
    /\ \E d \in DecisionId : Decide(w, d, "REJECT")
    /\ UNCHANGED <<reports, jobs, faults>>

\* A write of decision_id needs the decision: a stored job's update throws if it
\* has gone; a job that has gone is not updated at all.
CanName(j, d) == Stored(j) => kind[d] # "gone"

\* The decision is recorded on the job before the job is finalised.
Record(w) ==
    LET j == job[w] IN
    /\ pc[w] = "record"
    /\ IF CanName(j, seen[w])
       THEN /\ jdecision' = [jdecision EXCEPT ![j] = IF Stored(j) THEN seen[w] ELSE @]
            /\ Goto(w, "finalize")
       ELSE UNCHANGED jdecision /\ Goto(w, "fail")
    /\ UNCHANGED <<reports, jsrc, jstatus, jclaim, decisions, cur, job, seen, mode, todo, faults>>

OwesProvenance(w) == kind[seen[w]] = "ACCEPT" /\ cur[w] \in Verified

\* finalizeAcceptedAdmissionJob: the job's success and the provenance an ACCEPT
\* owes are one batch, keyed by the job's id alone.  Both need the decision; the
\* bare UPDATE of a job that has gone too would succeed and change nothing.
Finalize(w) ==
    LET j == job[w] IN
    /\ pc[w] = "finalize"
    /\ IF kind[seen[w]] = "gone"
       THEN /\ Goto(w, "fail")
            /\ UNCHANGED <<jobs, provenance>>
       ELSE /\ jstatus' = [jstatus EXCEPT ![j] = IF Stored(j) THEN "succeeded" ELSE @]
            /\ jdecision' = [jdecision EXCEPT ![j] = IF Stored(j) THEN seen[w] ELSE @]
            /\ jclaim' = [jclaim EXCEPT ![j] = "none"]
            /\ provenance' = IF OwesProvenance(w) THEN provenance \cup {seen[w]} ELSE provenance
            /\ Goto(w, "promote")
            /\ UNCHANGED jsrc
    /\ UNCHANGED <<reports, kind, src, revoked, staged, cur, job, seen, mode, todo, faults>>

\* maybePromoteAcceptedDecision hands an ACCEPT over to the promotion queue, if
\* promotion is enabled and the attempt does not throw.
Promote(w) ==
    /\ pc[w] = "promote"
    /\ \/ kind[seen[w]] = "ACCEPT" /\ staged' = staged \cup {seen[w]}
       \/ UNCHANGED staged
    /\ Conclude(w)
    /\ UNCHANGED <<reports, jobs, kind, src, revoked, provenance, faults>>

\* A failed attempt reverts the job, whatever its status is by now, to 'failed'.
RecordFailure(w) ==
    LET j == job[w] IN
    /\ pc[w] = "fail"
    /\ jstatus' = [jstatus EXCEPT ![j] = IF Stored(j) THEN "failed" ELSE @]
    /\ jclaim' = [jclaim EXCEPT ![j] = "none"]
    /\ Conclude(w)
    /\ UNCHANGED <<reports, jsrc, jdecision, decisions, faults>>

-----------------------------------------------------------------------------
\* POST /api/reports again, into the room of a report whose 24 hour cycle has
\* ended: long after the attempts of the requests that first saved that report.
\* A resave keeps the report's date, so those of a later one may still run.
CycleEnded(s) == \A w \in Worker : cur[w] = s => mode[w] # "first"

\* ensureRoomReuseAdmissionSafety gives an undecided job one attempt ...
ReuseCheck(w, s) ==
    /\ s \in saved \ loose
    /\ CycleEnded(s)
    /\ \/ /\ JobTerminal(s)
          /\ Start(w, s, "reuse", "replace")
          /\ UNCHANGED job
       \/ /\ ~JobTerminal(s)
          /\ Start(w, s, "reuse", "claim")
          /\ \E j \in JobsOf(s) : job' = [job EXCEPT ![w] = j]
    /\ UNCHANGED <<reports, jobs, decisions, faults>>

\* ... if it wins the claim (claimReportAdmissionJobForProcessing) ...
ReuseClaim(w) ==
    LET j == job[w] IN
    /\ pc[w] = "claim"
    /\ \/ /\ Claimable(j)
          /\ jclaim' = [jclaim EXCEPT ![j] = "fresh"]
          /\ Goto(w, "fetch")
          /\ UNCHANGED job
       \/ /\ ~Claimable(j)
          /\ Goto(w, "recheck")
          /\ job' = [job EXCEPT ![w] = NoJob]
          /\ UNCHANGED jclaim
    /\ UNCHANGED <<reports, jsrc, jstatus, jdecision, decisions, cur, seen, mode, todo, faults>>

\* ... and then looks once more, at the job the report has by then.
Recheck(w) ==
    /\ pc[w] = "recheck"
    /\ IF JobTerminal(cur[w])
       THEN Goto(w, "replace") /\ UNCHANGED <<cur, job, seen, mode, todo>>
       ELSE Abandon(w)
    /\ UNCHANGED <<reports, jobs, decisions, faults>>

\* insertReportWithRoomCheck, one transaction: the old report goes if it is
\* still there and safe to replace, and the new one is upserted.
Replace(w, n) ==
    LET s == cur[w]
        occupied == s \in saved \ loose
    IN
    /\ pc[w] = "replace"
    /\ occupied => JobTerminal(s)
    /\ Upsert(n, IF occupied THEN saved \ {s} ELSE saved)
    /\ IF occupied
       THEN Purge(JobsOf(s), IF HasAcceptedContent(s) THEN {} ELSE DecisionsOf(s))
       ELSE UNCHANGED <<jobs, decisions>>
    /\ Goto(w, "saved")
    /\ cur' = [cur EXCEPT ![w] = n]
    /\ mode' = [mode EXCEPT ![w] = SaveMode(n)]
    /\ UNCHANGED <<loose, job, seen, todo, faults>>

\* The room is not ready after all, or is taken by somebody else.
ReplaceRefused(w) ==
    /\ pc[w] = "replace"
    /\ Abandon(w)
    /\ UNCHANGED <<reports, jobs, decisions, faults>>

-----------------------------------------------------------------------------
\* DELETE /api/reports/[id], of a request that has read the report's row: the
\* report goes first, then deleteReportCorpusAdmissionData runs its three
\* statements one by one.
DeleteReport(w, s) ==
    /\ s \in uploaded \cap Deletable
    /\ saved' = saved \ {s}
    /\ loose' = loose \ {s}
    /\ Start(w, s, "delete", "delCount")
    /\ UNCHANGED <<uploaded, resaved, raced, jobs, job, decisions, faults>>

DelCount(w) ==
    /\ pc[w] = "delCount"
    /\ Goto(w, IF HasAcceptedContent(cur[w]) THEN "delJobOnly" ELSE "delJob")
    /\ UNCHANGED <<reports, jobs, decisions, cur, job, seen, mode, todo, faults>>

DelJob(w) ==
    /\ pc[w] \in {"delJobOnly", "delJob"}
    /\ Purge(JobsOf(cur[w]), {})
    /\ IF pc[w] = "delJobOnly"
       THEN Abandon(w)
       ELSE Goto(w, "delDecisions") /\ UNCHANGED <<cur, job, seen, mode, todo>>
    /\ UNCHANGED <<reports, faults>>

\* A promotion row keeps its decision: the whole statement fails.
DelDecisions(w) ==
    LET ds == DecisionsOf(cur[w]) IN
    /\ pc[w] = "delDecisions"
    /\ Purge({}, IF ds \cap staged = {} THEN ds ELSE {})
    /\ Abandon(w)
    /\ UNCHANGED <<reports, faults>>

-----------------------------------------------------------------------------
\* lib/corpus-admission-admin-actions.ts, one transaction each.
Deactivate(d) ==
    /\ kind[d] = "ACCEPT"
    /\ d \notin revoked
    /\ revoked' = revoked \cup {d}
    /\ UNCHANGED <<reports, jobs, kind, src, provenance, staged, workers, faults>>

\* Refused while another active representation has the same text.
Reactivate(d) ==
    /\ kind[d] = "ACCEPT"
    /\ d \in revoked
    /\ Active(TextOf[src[d]]) = {}
    /\ revoked' = revoked \ {d}
    /\ UNCHANGED <<reports, jobs, kind, src, provenance, staged, workers, faults>>

-----------------------------------------------------------------------------
\* A statement of an attempt throws inside its try block.
Throws(w) ==
    /\ pc[w] \in {"evaluate", "accept", "reject", "record", "finalize"}
    /\ faults < MaxFaults
    /\ faults' = faults + 1
    /\ Goto(w, "fail")
    /\ UNCHANGED <<reports, jobs, decisions, cur, job, seen, mode, todo>>

\* The process ends in the middle of its work.
Crash(w) ==
    /\ pc[w] # "idle"
    /\ faults < MaxFaults
    /\ faults' = faults + 1
    /\ Abandon(w)
    /\ UNCHANGED <<reports, jobs, decisions>>

\* A sweep or a room reuse works on a job it has claimed.
Claimant(w, j) ==
    /\ mode[w] \in {"sweep", "reuse"}
    /\ \/ j \in todo[w]
       \/ job[w] = j /\ pc[w] # "claim"

\* Five minutes pass.  Nothing in the repository bounds an attempt's duration,
\* so its claim may lapse under it if ClaimsOutlived.
ClaimLapses(j) ==
    /\ jclaim[j] = "fresh"
    /\ ClaimsOutlived \/ \A w \in Worker : ~Claimant(w, j)
    /\ jclaim' = [jclaim EXCEPT ![j] = "stale"]
    /\ UNCHANGED <<reports, jsrc, jstatus, jdecision, decisions, workers, faults>>

Process(w) ==
    \/ CreateJob(w)
    \/ \E j \in JobId : TakeNext(w, j)
    \/ Fetch(w)
    \/ ReadReport(w)
    \/ Evaluate(w)
    \/ AcceptTx(w)
    \/ Reject(w)
    \/ Record(w)
    \/ Finalize(w)
    \/ Promote(w)
    \/ RecordFailure(w)
    \/ ReuseClaim(w)
    \/ Recheck(w)
    \/ \E n \in Source : Replace(w, n)
    \/ ReplaceRefused(w)
    \/ DelCount(w)
    \/ DelJob(w)
    \/ DelDecisions(w)

Visit(w) == \E s \in Source : Save(w, s) \/ ReuseCheck(w, s) \/ DeleteReport(w, s)

Admin == \E d \in DecisionId : Deactivate(d) \/ Reactivate(d)

Next ==
    \/ \E w \in Visitor : Visit(w)
    \/ \E w \in Sweeper : SweepTick(w)
    \/ \E w \in Worker : Process(w) \/ Throws(w) \/ Crash(w)
    \/ Admin
    \/ \E s \in Source : Resave(s)
    \/ \E j \in JobId : ClaimLapses(j)

Spec == Init /\ [][Next]_vars

\* The cron keeps invoking the sweep, a worker that does not die goes on, and
\* time passes.
Fairness ==
    /\ \A w \in Worker : WF_vars(Process(w))
    /\ \A w \in Sweeper : WF_vars(SweepTick(w))
    /\ \A j \in JobId : WF_vars(ClaimLapses(j))

FairSpec == Spec /\ Fairness

-----------------------------------------------------------------------------
Labels == {"idle", "saved", "loop", "fetch", "read", "evaluate", "accept", "reject",
           "record", "finalize", "promote", "fail", "claim", "recheck", "replace",
           "delCount", "delJob", "delJobOnly", "delDecisions"}

\* The labels at which a worker has a job in hand.
Attempting == {"fetch", "read", "evaluate", "accept", "reject", "record", "finalize",
               "promote", "fail", "claim"}

\* Every variable has its type, a saved report was uploaded, and exactly the
\* workers in the middle of something have a report, or a job, in hand: what an
\* attempt leaves behind when it concludes, gives up or dies.
TypeOK ==
    /\ uploaded \subseteq Source
    /\ saved \subseteq uploaded /\ loose \subseteq saved
    /\ resaved \subseteq uploaded /\ raced \subseteq resaved
    /\ jsrc \in [JobId -> Source \cup {NoSource}]
    /\ jstatus \in [JobId -> {"free", "pending", "succeeded", "failed", "gone"}]
    /\ jdecision \in [JobId -> DecisionId \cup {NoDecision}]
    /\ jclaim \in [JobId -> {"none", "fresh", "stale"}]
    /\ kind \in [DecisionId -> {"free", "ACCEPT", "REJECT", "gone"}]
    /\ src \in [DecisionId -> Source \cup {NoSource}]
    /\ revoked \subseteq DecisionId /\ provenance \subseteq DecisionId /\ staged \subseteq DecisionId
    /\ pc \in [Worker -> Labels]
    /\ cur \in [Worker -> Source \cup {NoSource}]
    /\ job \in [Worker -> JobId \cup {NoJob}]
    /\ seen \in [Worker -> DecisionId \cup {NoDecision}]
    /\ mode \in [Worker -> {"none", "first", "again", "sweep", "reuse", "delete"}]
    /\ todo \in [Worker -> SUBSET JobId]
    /\ faults \in 0..MaxFaults
    /\ \A w \in Worker : cur[w] = NoSource <=> pc[w] \in {"idle", "loop"}
    /\ \A w \in Worker : job[w] = NoJob <=> pc[w] \notin Attempting

\* At most one accepted representation of a text is active, whatever requests,
\* sweeps and administrators do at the same time: the gate's second check and
\* the reactivation's conflict check.
OneActivePerText == \A t \in Text : \A d, e \in Active(t) : d = e

\* A job that succeeded names a decision about its own report that still exists,
\* although decisions are deleted by other statements than jobs and attempts
\* write to jobs by id, however late, and although a report that has gone may be
\* saved again and get another job.  Only a report that is saved again between
\* the statements of its own DELETE may lose the decision and keep the job.
SucceededIsDecided ==
    \A j \in JobId : jstatus[j] = "succeeded" /\ jsrc[j] \notin raced =>
        /\ jdecision[j] # NoDecision
        /\ src[jdecision[j]] = jsrc[j]
        /\ kind[jdecision[j]] \in {"ACCEPT", "REJECT"}

\* A report whose job was created is only ever removed from its room once its
\* text has been decided: the replacement never strands a candidate that its
\* owner keeps.  A report that is saved again once it has gone, or while a request
\* is about to take its room, keeps its old date, so that the room may be taken
\* before its new job is created; it is not spoken of here.
UndecidedKeepsReport ==
    \A s \in uploaded \ (Deletable \cup resaved) :
        s \notin saved /\ (\E j \in JobId : jsrc[j] = s) => \E d \in DecisionId : src[d] = s

\* A decision that was accepted is never deleted again.
AcceptedIsDurable ==
    [][\A d \in DecisionId : kind[d] = "ACCEPT" => kind'[d] = "ACCEPT"]_vars

\* An accepted decision is only ever deleted by the owner's DELETE of its own
\* report, once that report is gone: neither a reused room nor the DELETE of
\* another report of the same text takes it along.  The report may be there only
\* if it was saved again while a DELETE of it was running.
AcceptGoesWithReport ==
    [][\A d \in DecisionId : kind[d] = "ACCEPT" /\ kind'[d] # "ACCEPT" =>
           src[d] \in Deletable /\ (src[d] \in saved => src[d] \in raced)]_vars

\* What a reader of the corpus and the owners of reports see of all this.
Owed == {s \in Source : ~JobTerminal(s)}
Leaving == {s \in Source : BeingDeleted(s)}
InForce == {<<d, src[d]>> : d \in {e \in DecisionId \ revoked : kind[e] = "ACCEPT"}}
TakenOut == {<<d, src[d]>> : d \in {e \in revoked : kind[e] = "ACCEPT"}}
Refused == {<<d, src[d]>> : d \in {e \in DecisionId : kind[e] = "REJECT"}}

\* The abstract promise: a text is accepted once at a time, only for a report
\* that was saved and only if admissible; it leaves only while its owner's DELETE
\* of that report is running; no report leaves its room while it is owed a
\* decision, and unless its owner deletes it only a decision about it ends that;
\* however attempts, sweeps, saves, resaves, deletions and administrators
\* interleave.
Corpus ==
    INSTANCE AdmittedCorpus WITH
        Report <- Source, Entry <- DecisionId, known <- uploaded, held <- saved,
        owed <- Owed, leaving <- Leaving, active <- InForce, withdrawn <- TakenOut,
        refused <- Refused

AdmissionKeepsPromise == Corpus!Spec

\* Every job is decided in the end, or its report leaves, although attempts throw
\* and workers die, because sweeps keep reclaiming it.  Only a report that is
\* saved again while its own DELETE is running may stay without either: that
\* DELETE takes the job.
EveryJobIsDecided ==
    \A j \in JobId :
        Stored(j) ~> \/ jdecision[j] # NoDecision
                     \/ jsrc[j] \notin saved \/ jsrc[j] \in raced
=============================================================================
