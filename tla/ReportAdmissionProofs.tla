----------------------- MODULE ReportAdmissionProofs -----------------------
(***************************************************************************)
(* What ReportAdmission guarantees for any number of reports, jobs,        *)
(* decisions, requests, sweeps and faults, however often a report that has *)
(* gone is saved again.  None of the properties is inductive; they follow  *)
(* from three conjuncts that are, each resting on the ones before:         *)
(*                                                                         *)
(*   Rows      decisions, the jobs that name them and the workers that     *)
(*             carry them agree on the report they are about, and a job    *)
(*             never names a decision that is gone;                        *)
(*   Deletion  whoever deletes a report's decisions has made sure that no  *)
(*             job of that report is left to name one, unless the report   *)
(*             was saved again meanwhile;                                  *)
(*   Rooms     a report that its owner keeps leaves its room only after    *)
(*             the attempts of its first saves are over.                   *)
(*                                                                         *)
(* With a fourth, Gated, they make every step one that AdmittedCorpus      *)
(* allows.                                                                 *)
(***************************************************************************)
EXTENDS ReportAdmission, TLAPS

\* The labels at which a worker carries a decision, those at which it is about
\* to make one, and those of DELETE.
Carrying == {"record", "finalize", "promote"}
Judging == {"evaluate", "accept", "reject"}
Deleting == {"delCount", "delJob", "delJobOnly", "delDecisions"}

Rows ==
    /\ \A d \in DecisionId : kind[d] = "free" <=> src[d] = NoSource
    /\ \A j \in JobId : jstatus[j] = "free" <=> jsrc[j] = NoSource
    /\ \A j \in JobId : jsrc[j] \in uploaded \cup {NoSource}
    /\ \A j \in JobId : jdecision[j] # NoDecision =>
          /\ Stored(j)
          /\ src[jdecision[j]] = jsrc[j]
          /\ kind[jdecision[j]] # "gone"
    /\ \A w \in Worker : cur[w] \in uploaded \cup {NoSource}
    /\ \A w \in Worker : job[w] # NoJob => jsrc[job[w]] = cur[w]
    /\ \A w \in Worker : \A j \in todo[w] : jsrc[j] # NoSource
    /\ \A w \in Worker : pc[w] \in Carrying =>
          seen[w] \in DecisionId /\ src[seen[w]] = cur[w]

\* Nobody has decided the job, or is about to.
Untouched(j) ==
    /\ jdecision[j] = NoDecision
    /\ jstatus[j] # "succeeded"
    /\ \A w \in Worker : job[w] = j => pc[w] \notin Judging \cup Carrying

Deletion ==
    /\ \A w \in Worker : pc[w] \in Deleting =>
          cur[w] \in Deletable /\ (cur[w] \in saved => cur[w] \in raced)
    /\ \A w \in Worker : pc[w] = "delDecisions" /\ cur[w] \notin raced =>
          \A j \in JobsOf(cur[w]) : Untouched(j)
    /\ \A j \in JobId : jstatus[j] = "succeeded" /\ jsrc[j] \notin raced =>
          jdecision[j] # NoDecision

\* Reports that their owners keep and that were saved in one go.
Kept(s) == s \notin Deletable \cup resaved

Rooms ==
    /\ \A w \in Worker : pc[w] = "saved" /\ Kept(cur[w]) => mode[w] = "first" /\ cur[w] \in saved
    /\ \A w \in Worker : mode[w] = "reuse" /\ Kept(cur[w]) => CycleEnded(cur[w])
    /\ \A w \in Worker : pc[w] \in {"claim", "recheck", "replace"} => mode[w] = "reuse"
    /\ \A w \in Worker : pc[w] = "loop" => mode[w] = "sweep"
    /\ \A w \in Worker : pc[w] = "idle" => mode[w] = "none"
    /\ \A j \in JobId : jstatus[j] = "gone" /\ Kept(jsrc[j]) => jsrc[j] \notin saved
    /\ loose \subseteq resaved

Inv == TypeOK /\ Rows /\ OneActivePerText /\ Deletion

-----------------------------------------------------------------------------

\* A DELETE that is running has a report that was saved.
LEMMA DeletedIsUploaded ==
    ASSUME TypeOK, Rows, NEW s \in Source, BeingDeleted(s)
    PROVE  s \in uploaded
BY AdmissionAssumption DEF Rows, BeingDeleted

LEMMA UpsertTypes ==
    ASSUME TypeOK, Rows, NEW s \in Source, NEW others \in SUBSET saved, Upsert(s, others)
    PROVE  /\ uploaded' \subseteq Source /\ saved' \subseteq uploaded'
           /\ resaved' \subseteq uploaded' /\ raced' \subseteq resaved'
           /\ saved \ others \subseteq uploaded'
BY DeletedIsUploaded DEF TypeOK, Upsert

LEMMA PurgeTypes ==
    ASSUME TypeOK, NEW js, NEW ds, Purge(js, ds)
    PROVE  /\ jsrc' \in [JobId -> Source \cup {NoSource}]
           /\ jstatus' \in [JobId -> {"free", "pending", "succeeded", "failed", "gone"}]
           /\ jdecision' \in [JobId -> DecisionId \cup {NoDecision}]
           /\ jclaim' \in [JobId -> {"none", "fresh", "stale"}]
           /\ kind' \in [DecisionId -> {"free", "ACCEPT", "REJECT", "gone"}]
           /\ src' \in [DecisionId -> Source \cup {NoSource}]
           /\ revoked' \subseteq DecisionId /\ provenance' \subseteq DecisionId /\ staged' \subseteq DecisionId
BY DEF TypeOK, Purge

\* Steps keep the types; that a carried decision is one is needed where its
\* provenance is written.
LEMMA TypeStep == TypeOK /\ Rows /\ [Next]_vars => TypeOK'
<1> SUFFICES ASSUME TypeOK, Rows, [Next]_vars PROVE TypeOK' OBVIOUS
<1> USE AdmissionAssumption DEF TypeOK, Rows, Carrying, Labels, Attempting, Worker, reports, jobs, decisions, workers, Goto, Stored
<1>1. ASSUME NEW w \in Visitor, NEW s \in Source, Save(w, s) PROVE TypeOK'
  <2>1. saved \subseteq saved' /\ Upsert(s, saved)
    BY <1>1 DEF Save, Upsert
  <2>2. /\ uploaded' \subseteq Source /\ saved' \subseteq uploaded'
        /\ resaved' \subseteq uploaded' /\ raced' \subseteq resaved' /\ loose' \subseteq saved'
    BY <1>1, <2>1, UpsertTypes DEF Save
  <2> QED BY <1>1, <2>2 DEF Save, Start, SaveMode
<1>2. ASSUME NEW w \in Visitor, NEW s \in Source, ReuseCheck(w, s) PROVE TypeOK'
  BY <1>2 DEF ReuseCheck, Start, JobsOf
<1>3. ASSUME NEW w \in Visitor, NEW s \in Source, DeleteReport(w, s) PROVE TypeOK'
  BY <1>3 DEF DeleteReport, Start
<1>4. ASSUME NEW w \in Sweeper, SweepTick(w) PROVE TypeOK'
  BY <1>4 DEF SweepTick, Claimable
<1>5. ASSUME NEW w \in Worker, CreateJob(w) PROVE TypeOK'
  BY <1>5 DEF CreateJob, JobsOf
<1>6. ASSUME NEW w \in Worker, NEW j \in JobId, TakeNext(w, j) PROVE TypeOK'
  BY <1>6 DEF TakeNext
<1>7. ASSUME NEW w \in Worker, Fetch(w) PROVE TypeOK'
  BY <1>7 DEF Fetch, Conclude, Abandon
<1>8. ASSUME NEW w \in Worker, ReadReport(w) PROVE TypeOK'
  BY <1>8 DEF ReadReport
<1>9. ASSUME NEW w \in Worker, Evaluate(w) PROVE TypeOK'
  BY <1>9 DEF Evaluate
<1>10. ASSUME NEW w \in Worker, AcceptTx(w) PROVE TypeOK'
  BY <1>10 DEF AcceptTx, Decide
<1>11. ASSUME NEW w \in Worker, Reject(w) PROVE TypeOK'
  BY <1>11 DEF Reject, Decide
<1>12. ASSUME NEW w \in Worker, Record(w) PROVE TypeOK'
  BY <1>12 DEF Record, CanName
<1>13. ASSUME NEW w \in Worker, Finalize(w) PROVE TypeOK'
  BY <1>13 DEF Finalize
<1>14. ASSUME NEW w \in Worker, Promote(w) PROVE TypeOK'
  BY <1>14 DEF Promote, Conclude, Abandon
<1>15. ASSUME NEW w \in Worker, RecordFailure(w) PROVE TypeOK'
  BY <1>15 DEF RecordFailure, Conclude, Abandon
<1>16. ASSUME NEW w \in Worker, ReuseClaim(w) PROVE TypeOK'
  BY <1>16 DEF ReuseClaim, Claimable
<1>17. ASSUME NEW w \in Worker, Recheck(w) PROVE TypeOK'
  BY <1>17 DEF Recheck, Abandon
<1>18. ASSUME NEW w \in Worker, NEW n \in Source, Replace(w, n) PROVE TypeOK'
  <2> DEFINE s == cur[w]
             others == IF s \in saved \ loose THEN saved \ {s} ELSE saved
  <2>1. others \in SUBSET saved /\ Upsert(n, others)
    BY <1>18 DEF Replace
  <2>2. /\ jsrc' \in [JobId -> Source \cup {NoSource}]
        /\ jstatus' \in [JobId -> {"free", "pending", "succeeded", "failed", "gone"}]
        /\ jdecision' \in [JobId -> DecisionId \cup {NoDecision}]
        /\ jclaim' \in [JobId -> {"none", "fresh", "stale"}]
        /\ kind' \in [DecisionId -> {"free", "ACCEPT", "REJECT", "gone"}]
        /\ src' \in [DecisionId -> Source \cup {NoSource}]
        /\ revoked' \subseteq DecisionId /\ provenance' \subseteq DecisionId /\ staged' \subseteq DecisionId
    BY <1>18, PurgeTypes DEF Replace
  <2>3. loose' \subseteq saved'
    BY <1>18 DEF Replace, Upsert
  <2> QED BY <1>18, <2>1, <2>2, <2>3, UpsertTypes DEF Replace, SaveMode
<1>19. ASSUME NEW w \in Worker, ReplaceRefused(w) PROVE TypeOK'
  BY <1>19 DEF ReplaceRefused, Abandon
<1>20. ASSUME NEW w \in Worker, DelCount(w) PROVE TypeOK'
  BY <1>20 DEF DelCount
<1>21. ASSUME NEW w \in Worker, DelJob(w) PROVE TypeOK'
  <2>1. Purge(JobsOf(cur[w]), {})
    BY <1>21 DEF DelJob
  <2>2. /\ jsrc' \in [JobId -> Source \cup {NoSource}]
        /\ jstatus' \in [JobId -> {"free", "pending", "succeeded", "failed", "gone"}]
        /\ jdecision' \in [JobId -> DecisionId \cup {NoDecision}]
        /\ jclaim' \in [JobId -> {"none", "fresh", "stale"}]
        /\ kind' \in [DecisionId -> {"free", "ACCEPT", "REJECT", "gone"}]
        /\ src' \in [DecisionId -> Source \cup {NoSource}]
        /\ revoked' \subseteq DecisionId /\ provenance' \subseteq DecisionId /\ staged' \subseteq DecisionId
    BY <2>1, PurgeTypes
  <2>3. UNCHANGED <<reports, faults>> /\ pc[w] \in {"delJobOnly", "delJob"}
    BY <1>21 DEF DelJob
  <2>4. Abandon(w) \/ (Goto(w, "delDecisions") /\ UNCHANGED <<cur, job, seen, mode, todo>>)
    BY <1>21 DEF DelJob
  <2>5. /\ pc' \in [Worker -> Labels]
        /\ cur' \in [Worker -> Source \cup {NoSource}]
        /\ job' \in [Worker -> JobId \cup {NoJob}]
        /\ seen' \in [Worker -> DecisionId \cup {NoDecision}]
        /\ mode' \in [Worker -> {"none", "first", "again", "sweep", "reuse", "delete"}]
        /\ todo' \in [Worker -> SUBSET JobId]
    BY <2>4 DEF Abandon
  <2>6. (\A x \in Worker : cur[x] = NoSource <=> pc[x] \in {"idle", "loop"})'
    BY <2>3, <2>4 DEF Abandon
  <2>7. (\A x \in Worker : job[x] = NoJob <=> pc[x] \notin Attempting)'
    BY <2>3, <2>4 DEF Abandon
  <2> QED BY <2>2, <2>3, <2>5, <2>6, <2>7
<1>22. ASSUME NEW w \in Worker, DelDecisions(w) PROVE TypeOK'
  BY <1>22 DEF DelDecisions, Purge, Abandon
<1>23. ASSUME NEW w \in Worker, Throws(w) PROVE TypeOK'
  BY <1>23 DEF Throws
<1>24. ASSUME NEW w \in Worker, Crash(w) PROVE TypeOK'
  BY <1>24 DEF Crash, Abandon
<1>25. ASSUME NEW d \in DecisionId, Deactivate(d) PROVE TypeOK'
  BY <1>25 DEF Deactivate
<1>26. ASSUME NEW d \in DecisionId, Reactivate(d) PROVE TypeOK'
  BY <1>26 DEF Reactivate
<1>27. ASSUME NEW s \in Source, Resave(s) PROVE TypeOK'
  BY <1>27, UpsertTypes DEF Resave, Upsert
<1>28. ASSUME NEW j \in JobId, ClaimLapses(j) PROVE TypeOK'
  BY <1>28 DEF ClaimLapses
<1>29. CASE UNCHANGED vars
  BY <1>29 DEF vars
<1> QED
  BY <1>1, <1>2, <1>3, <1>4, <1>5, <1>6, <1>7, <1>8, <1>9, <1>10, <1>11,
     <1>12, <1>13, <1>14, <1>15, <1>16, <1>17, <1>18, <1>19, <1>20,
     <1>21, <1>22, <1>23, <1>24, <1>25, <1>26, <1>27, <1>28, <1>29 DEF Next, Visit,
     Process, Admin

\* An unused id of a decision or a job belongs to no report, so no worker and no
\* job can disagree with the worker that takes it.
LEMMA RowsStep == TypeOK /\ Rows /\ [Next]_vars => Rows'
<1> SUFFICES ASSUME TypeOK, Rows, [Next]_vars PROVE Rows' OBVIOUS
<1> USE AdmissionAssumption DEF TypeOK, Rows, Carrying, Labels, Attempting, Worker, reports, jobs, decisions, workers, Goto, Stored
<1>1. ASSUME NEW w \in Visitor, NEW s \in Source, Save(w, s) PROVE Rows'
  BY <1>1 DEF Save, Start, Upsert, SaveMode
<1>2. ASSUME NEW w \in Visitor, NEW s \in Source, ReuseCheck(w, s) PROVE Rows'
  BY <1>2 DEF ReuseCheck, Start, JobsOf
<1>3. ASSUME NEW w \in Visitor, NEW s \in Source, DeleteReport(w, s) PROVE Rows'
  BY <1>3 DEF DeleteReport, Start
<1>4. ASSUME NEW w \in Sweeper, SweepTick(w) PROVE Rows'
  BY <1>4 DEF SweepTick, Claimable
<1>5. ASSUME NEW w \in Worker, CreateJob(w) PROVE Rows'
  BY <1>5 DEF CreateJob, JobsOf
<1>6. ASSUME NEW w \in Worker, NEW j \in JobId, TakeNext(w, j) PROVE Rows'
  BY <1>6 DEF TakeNext
<1>7. ASSUME NEW w \in Worker, Fetch(w) PROVE Rows'
  BY <1>7 DEF Fetch, Conclude, Abandon
<1>8. ASSUME NEW w \in Worker, ReadReport(w) PROVE Rows'
  BY <1>8 DEF ReadReport
<1>9. ASSUME NEW w \in Worker, Evaluate(w) PROVE Rows'
  BY <1>9 DEF Evaluate
<1>10. ASSUME NEW w \in Worker, AcceptTx(w) PROVE Rows'
  BY <1>10 DEF AcceptTx, Decide
<1>11. ASSUME NEW w \in Worker, Reject(w) PROVE Rows'
  BY <1>11 DEF Reject, Decide
<1>12. ASSUME NEW w \in Worker, Record(w) PROVE Rows'
  BY <1>12 DEF Record, CanName
<1>13. ASSUME NEW w \in Worker, Finalize(w) PROVE Rows'
  BY <1>13 DEF Finalize
<1>14. ASSUME NEW w \in Worker, Promote(w) PROVE Rows'
  BY <1>14 DEF Promote, Conclude, Abandon
<1>15. ASSUME NEW w \in Worker, RecordFailure(w) PROVE Rows'
  BY <1>15 DEF RecordFailure, Conclude, Abandon
<1>16. ASSUME NEW w \in Worker, ReuseClaim(w) PROVE Rows'
  BY <1>16 DEF ReuseClaim, Claimable
<1>17. ASSUME NEW w \in Worker, Recheck(w) PROVE Rows'
  BY <1>17 DEF Recheck, Abandon
<1>18. ASSUME NEW w \in Worker, NEW n \in Source, Replace(w, n) PROVE Rows'
  BY <1>18 DEF Replace, Purge, Upsert, SaveMode, JobsOf, DecisionsOf
<1>19. ASSUME NEW w \in Worker, ReplaceRefused(w) PROVE Rows'
  BY <1>19 DEF ReplaceRefused, Abandon
<1>20. ASSUME NEW w \in Worker, DelCount(w) PROVE Rows'
  BY <1>20 DEF DelCount
<1>21. ASSUME NEW w \in Worker, DelJob(w) PROVE Rows'
  BY <1>21 DEF DelJob, Purge, Abandon, JobsOf
<1>22. ASSUME NEW w \in Worker, DelDecisions(w) PROVE Rows'
  BY <1>22 DEF DelDecisions, Purge, Abandon, DecisionsOf
<1>23. ASSUME NEW w \in Worker, Throws(w) PROVE Rows'
  BY <1>23 DEF Throws
<1>24. ASSUME NEW w \in Worker, Crash(w) PROVE Rows'
  BY <1>24 DEF Crash, Abandon
<1>25. ASSUME NEW d \in DecisionId, Deactivate(d) PROVE Rows'
  BY <1>25 DEF Deactivate
<1>26. ASSUME NEW d \in DecisionId, Reactivate(d) PROVE Rows'
  BY <1>26 DEF Reactivate
<1>27. ASSUME NEW s \in Source, Resave(s) PROVE Rows'
  BY <1>27 DEF Resave, Upsert
<1>28. ASSUME NEW j \in JobId, ClaimLapses(j) PROVE Rows'
  BY <1>28 DEF ClaimLapses
<1>29. CASE UNCHANGED vars
  BY <1>29 DEF vars
<1> QED
  BY <1>1, <1>2, <1>3, <1>4, <1>5, <1>6, <1>7, <1>8, <1>9, <1>10, <1>11,
     <1>12, <1>13, <1>14, <1>15, <1>16, <1>17, <1>18, <1>19, <1>20,
     <1>21, <1>22, <1>23, <1>24, <1>25, <1>26, <1>27, <1>28, <1>29 DEF Next, Visit,
     Process, Admin

\* Only AcceptTx and Reactivate make a representation active, and both look.
LEMMA ActiveStep == TypeOK /\ Rows /\ OneActivePerText /\ [Next]_vars => OneActivePerText'
<1> SUFFICES ASSUME TypeOK, Rows, OneActivePerText, [Next]_vars PROVE OneActivePerText' OBVIOUS
<1> USE AdmissionAssumption DEF TypeOK, Rows, Worker, reports, jobs, decisions, workers, Goto, OneActivePerText, Active
<1>1. ASSUME NEW w \in Visitor, NEW s \in Source, Save(w, s) PROVE OneActivePerText'
  BY <1>1 DEF Save, Start, Upsert, SaveMode
<1>2. ASSUME NEW w \in Visitor, NEW s \in Source, ReuseCheck(w, s) PROVE OneActivePerText'
  BY <1>2 DEF ReuseCheck, Start, JobsOf
<1>3. ASSUME NEW w \in Visitor, NEW s \in Source, DeleteReport(w, s) PROVE OneActivePerText'
  BY <1>3 DEF DeleteReport, Start
<1>4. ASSUME NEW w \in Sweeper, SweepTick(w) PROVE OneActivePerText'
  BY <1>4 DEF SweepTick, Claimable
<1>5. ASSUME NEW w \in Worker, CreateJob(w) PROVE OneActivePerText'
  BY <1>5 DEF CreateJob, JobsOf
<1>6. ASSUME NEW w \in Worker, NEW j \in JobId, TakeNext(w, j) PROVE OneActivePerText'
  BY <1>6 DEF TakeNext
<1>7. ASSUME NEW w \in Worker, Fetch(w) PROVE OneActivePerText'
  BY <1>7 DEF Fetch, Conclude, Abandon
<1>8. ASSUME NEW w \in Worker, ReadReport(w) PROVE OneActivePerText'
  BY <1>8 DEF ReadReport
<1>9. ASSUME NEW w \in Worker, Evaluate(w) PROVE OneActivePerText'
  BY <1>9 DEF Evaluate
<1>10. ASSUME NEW w \in Worker, AcceptTx(w) PROVE OneActivePerText'
  BY <1>10 DEF AcceptTx, Decide, ActiveFamily
<1>11. ASSUME NEW w \in Worker, Reject(w) PROVE OneActivePerText'
  BY <1>11 DEF Reject, Decide
<1>12. ASSUME NEW w \in Worker, Record(w) PROVE OneActivePerText'
  BY <1>12 DEF Record, CanName
<1>13. ASSUME NEW w \in Worker, Finalize(w) PROVE OneActivePerText'
  BY <1>13 DEF Finalize
<1>14. ASSUME NEW w \in Worker, Promote(w) PROVE OneActivePerText'
  BY <1>14 DEF Promote, Conclude, Abandon
<1>15. ASSUME NEW w \in Worker, RecordFailure(w) PROVE OneActivePerText'
  BY <1>15 DEF RecordFailure, Conclude, Abandon
<1>16. ASSUME NEW w \in Worker, ReuseClaim(w) PROVE OneActivePerText'
  BY <1>16 DEF ReuseClaim, Claimable
<1>17. ASSUME NEW w \in Worker, Recheck(w) PROVE OneActivePerText'
  BY <1>17 DEF Recheck, Abandon
<1>18. ASSUME NEW w \in Worker, NEW n \in Source, Replace(w, n) PROVE OneActivePerText'
  BY <1>18 DEF Replace, Purge, Upsert, SaveMode
<1>19. ASSUME NEW w \in Worker, ReplaceRefused(w) PROVE OneActivePerText'
  BY <1>19 DEF ReplaceRefused, Abandon
<1>20. ASSUME NEW w \in Worker, DelCount(w) PROVE OneActivePerText'
  BY <1>20 DEF DelCount
<1>21. ASSUME NEW w \in Worker, DelJob(w) PROVE OneActivePerText'
  BY <1>21 DEF DelJob, Purge, Abandon
<1>22. ASSUME NEW w \in Worker, DelDecisions(w) PROVE OneActivePerText'
  BY <1>22 DEF DelDecisions, Purge, Abandon
<1>23. ASSUME NEW w \in Worker, Throws(w) PROVE OneActivePerText'
  BY <1>23 DEF Throws
<1>24. ASSUME NEW w \in Worker, Crash(w) PROVE OneActivePerText'
  BY <1>24 DEF Crash, Abandon
<1>25. ASSUME NEW d \in DecisionId, Deactivate(d) PROVE OneActivePerText'
  BY <1>25 DEF Deactivate
<1>26. ASSUME NEW d \in DecisionId, Reactivate(d) PROVE OneActivePerText'
  BY <1>26 DEF Reactivate
<1>27. ASSUME NEW s \in Source, Resave(s) PROVE OneActivePerText'
  BY <1>27 DEF Resave, Upsert
<1>28. ASSUME NEW j \in JobId, ClaimLapses(j) PROVE OneActivePerText'
  BY <1>28 DEF ClaimLapses
<1>29. CASE UNCHANGED vars
  BY <1>29 DEF vars
<1> QED
  BY <1>1, <1>2, <1>3, <1>4, <1>5, <1>6, <1>7, <1>8, <1>9, <1>10, <1>11,
     <1>12, <1>13, <1>14, <1>15, <1>16, <1>17, <1>18, <1>19, <1>20,
     <1>21, <1>22, <1>23, <1>24, <1>25, <1>26, <1>27, <1>28, <1>29 DEF Next, Visit,
     Process, Admin

\* DELETE takes the report first: an attempt that starts later finds no text, unless
\* the report is saved again under it.
LEMMA DeletionStep == TypeOK /\ Rows /\ Deletion /\ [Next]_vars => Deletion'
<1> SUFFICES ASSUME TypeOK, Rows, Deletion, [Next]_vars PROVE Deletion' OBVIOUS
<1> USE AdmissionAssumption DEF TypeOK, Rows, Carrying, Labels, Attempting, Worker, reports, jobs, decisions, workers, Goto, Stored, Judging, Deleting, Deletion, JobsOf, Untouched
<1>1. ASSUME NEW w \in Visitor, NEW s \in Source, Save(w, s) PROVE Deletion'
  BY <1>1 DEF Save, Start, Upsert, SaveMode, BeingDeleted
<1>2. ASSUME NEW w \in Visitor, NEW s \in Source, ReuseCheck(w, s) PROVE Deletion'
  BY <1>2 DEF ReuseCheck, Start
<1>3. ASSUME NEW w \in Visitor, NEW s \in Source, DeleteReport(w, s) PROVE Deletion'
  BY <1>3 DEF DeleteReport, Start
<1>4. ASSUME NEW w \in Sweeper, SweepTick(w) PROVE Deletion'
  BY <1>4 DEF SweepTick, Claimable
<1>5. ASSUME NEW w \in Worker, CreateJob(w) PROVE Deletion'
  BY <1>5 DEF CreateJob
<1>6. ASSUME NEW w \in Worker, NEW j \in JobId, TakeNext(w, j) PROVE Deletion'
  BY <1>6 DEF TakeNext
<1>7. ASSUME NEW w \in Worker, Fetch(w) PROVE Deletion'
  BY <1>7 DEF Fetch, Conclude, Abandon
<1>8. ASSUME NEW w \in Worker, ReadReport(w) PROVE Deletion'
  BY <1>8 DEF ReadReport
<1>9. ASSUME NEW w \in Worker, Evaluate(w) PROVE Deletion'
  BY <1>9 DEF Evaluate
<1>10. ASSUME NEW w \in Worker, AcceptTx(w) PROVE Deletion'
  BY <1>10 DEF AcceptTx, Decide
<1>11. ASSUME NEW w \in Worker, Reject(w) PROVE Deletion'
  BY <1>11 DEF Reject, Decide
<1>12. ASSUME NEW w \in Worker, Record(w) PROVE Deletion'
  BY <1>12 DEF Record, CanName
<1>13. ASSUME NEW w \in Worker, Finalize(w) PROVE Deletion'
  BY <1>13 DEF Finalize
<1>14. ASSUME NEW w \in Worker, Promote(w) PROVE Deletion'
  BY <1>14 DEF Promote, Conclude, Abandon
<1>15. ASSUME NEW w \in Worker, RecordFailure(w) PROVE Deletion'
  BY <1>15 DEF RecordFailure, Conclude, Abandon
<1>16. ASSUME NEW w \in Worker, ReuseClaim(w) PROVE Deletion'
  BY <1>16 DEF ReuseClaim, Claimable
<1>17. ASSUME NEW w \in Worker, Recheck(w) PROVE Deletion'
  BY <1>17 DEF Recheck, Abandon
<1>18. ASSUME NEW w \in Worker, NEW n \in Source, Replace(w, n) PROVE Deletion'
  BY <1>18 DEF Replace, Purge, Upsert, SaveMode, BeingDeleted, DecisionsOf
<1>19. ASSUME NEW w \in Worker, ReplaceRefused(w) PROVE Deletion'
  BY <1>19 DEF ReplaceRefused, Abandon
<1>20. ASSUME NEW w \in Worker, DelCount(w) PROVE Deletion'
  BY <1>20 DEF DelCount
<1>21. ASSUME NEW w \in Worker, DelJob(w) PROVE Deletion'
  BY <1>21 DEF DelJob, Purge, Abandon
<1>22. ASSUME NEW w \in Worker, DelDecisions(w) PROVE Deletion'
  BY <1>22 DEF DelDecisions, Purge, Abandon, DecisionsOf
<1>23. ASSUME NEW w \in Worker, Throws(w) PROVE Deletion'
  BY <1>23 DEF Throws
<1>24. ASSUME NEW w \in Worker, Crash(w) PROVE Deletion'
  BY <1>24 DEF Crash, Abandon
<1>25. ASSUME NEW d \in DecisionId, Deactivate(d) PROVE Deletion'
  BY <1>25 DEF Deactivate
<1>26. ASSUME NEW d \in DecisionId, Reactivate(d) PROVE Deletion'
  BY <1>26 DEF Reactivate
<1>27. ASSUME NEW s \in Source, Resave(s) PROVE Deletion'
  BY <1>27 DEF Resave, Upsert, BeingDeleted
<1>28. ASSUME NEW j \in JobId, ClaimLapses(j) PROVE Deletion'
  BY <1>28 DEF ClaimLapses
<1>29. CASE UNCHANGED vars
  BY <1>29 DEF vars
<1> QED
  BY <1>1, <1>2, <1>3, <1>4, <1>5, <1>6, <1>7, <1>8, <1>9, <1>10, <1>11,
     <1>12, <1>13, <1>14, <1>15, <1>16, <1>17, <1>18, <1>19, <1>20,
     <1>21, <1>22, <1>23, <1>24, <1>25, <1>26, <1>27, <1>28, <1>29 DEF Next, Visit,
     Process, Admin

\* The attempts of a report's first saves are over before its room is taken, so no job is
\* created for a report that was replaced; the others are checked by Replace.
LEMMA RoomsStep == TypeOK /\ Rows /\ Deletion /\ Rooms /\ UndecidedKeepsReport /\ [Next]_vars => Rooms' /\ UndecidedKeepsReport'
<1> SUFFICES ASSUME TypeOK, Rows, Deletion, Rooms, UndecidedKeepsReport, [Next]_vars PROVE Rooms' /\ UndecidedKeepsReport' OBVIOUS
<1> USE AdmissionAssumption DEF TypeOK, Rows, Carrying, Labels, Attempting, Worker, reports, jobs, decisions, workers, Goto, Stored, Deleting, Deletion, JobsOf, Rooms, Kept, UndecidedKeepsReport, CycleEnded
<1>1. ASSUME NEW w \in Visitor, NEW s \in Source, Save(w, s) PROVE Rooms' /\ UndecidedKeepsReport'
  BY <1>1 DEF Save, Start, Upsert, SaveMode, BeingReused
<1>2. ASSUME NEW w \in Visitor, NEW s \in Source, ReuseCheck(w, s) PROVE Rooms' /\ UndecidedKeepsReport'
  BY <1>2 DEF ReuseCheck, Start, JobTerminal
<1>3. ASSUME NEW w \in Visitor, NEW s \in Source, DeleteReport(w, s) PROVE Rooms' /\ UndecidedKeepsReport'
  BY <1>3 DEF DeleteReport, Start
<1>4. ASSUME NEW w \in Sweeper, SweepTick(w) PROVE Rooms' /\ UndecidedKeepsReport'
  BY <1>4 DEF SweepTick, Claimable
<1>5. ASSUME NEW w \in Worker, CreateJob(w) PROVE Rooms' /\ UndecidedKeepsReport'
  BY <1>5 DEF CreateJob
<1>6. ASSUME NEW w \in Worker, NEW j \in JobId, TakeNext(w, j) PROVE Rooms' /\ UndecidedKeepsReport'
  BY <1>6 DEF TakeNext
<1>7. ASSUME NEW w \in Worker, Fetch(w) PROVE Rooms' /\ UndecidedKeepsReport'
  BY <1>7 DEF Fetch, Conclude, Abandon
<1>8. ASSUME NEW w \in Worker, ReadReport(w) PROVE Rooms' /\ UndecidedKeepsReport'
  BY <1>8 DEF ReadReport
<1>9. ASSUME NEW w \in Worker, Evaluate(w) PROVE Rooms' /\ UndecidedKeepsReport'
  BY <1>9 DEF Evaluate
<1>10. ASSUME NEW w \in Worker, AcceptTx(w) PROVE Rooms' /\ UndecidedKeepsReport'
  BY <1>10 DEF AcceptTx, Decide
<1>11. ASSUME NEW w \in Worker, Reject(w) PROVE Rooms' /\ UndecidedKeepsReport'
  BY <1>11 DEF Reject, Decide
<1>12. ASSUME NEW w \in Worker, Record(w) PROVE Rooms' /\ UndecidedKeepsReport'
  BY <1>12 DEF Record, CanName
<1>13. ASSUME NEW w \in Worker, Finalize(w) PROVE Rooms' /\ UndecidedKeepsReport'
  BY <1>13 DEF Finalize
<1>14. ASSUME NEW w \in Worker, Promote(w) PROVE Rooms' /\ UndecidedKeepsReport'
  BY <1>14 DEF Promote, Conclude, Abandon
<1>15. ASSUME NEW w \in Worker, RecordFailure(w) PROVE Rooms' /\ UndecidedKeepsReport'
  BY <1>15 DEF RecordFailure, Conclude, Abandon
<1>16. ASSUME NEW w \in Worker, ReuseClaim(w) PROVE Rooms' /\ UndecidedKeepsReport'
  BY <1>16 DEF ReuseClaim, Claimable
<1>17. ASSUME NEW w \in Worker, Recheck(w) PROVE Rooms' /\ UndecidedKeepsReport'
  BY <1>17 DEF Recheck, Abandon, JobTerminal
<1>18. ASSUME NEW w \in Worker, NEW n \in Source, Replace(w, n) PROVE Rooms' /\ UndecidedKeepsReport'
  BY <1>18 DEF Replace, Purge, Upsert, SaveMode, BeingReused, JobTerminal
<1>19. ASSUME NEW w \in Worker, ReplaceRefused(w) PROVE Rooms' /\ UndecidedKeepsReport'
  BY <1>19 DEF ReplaceRefused, Abandon
<1>20. ASSUME NEW w \in Worker, DelCount(w) PROVE Rooms' /\ UndecidedKeepsReport'
  BY <1>20 DEF DelCount
<1>21. ASSUME NEW w \in Worker, DelJob(w) PROVE Rooms' /\ UndecidedKeepsReport'
  BY <1>21 DEF DelJob, Purge, Abandon
<1>22. ASSUME NEW w \in Worker, DelDecisions(w) PROVE Rooms' /\ UndecidedKeepsReport'
  BY <1>22 DEF DelDecisions, Purge, Abandon
<1>23. ASSUME NEW w \in Worker, Throws(w) PROVE Rooms' /\ UndecidedKeepsReport'
  BY <1>23 DEF Throws
<1>24. ASSUME NEW w \in Worker, Crash(w) PROVE Rooms' /\ UndecidedKeepsReport'
  BY <1>24 DEF Crash, Abandon
<1>25. ASSUME NEW d \in DecisionId, Deactivate(d) PROVE Rooms' /\ UndecidedKeepsReport'
  BY <1>25 DEF Deactivate
<1>26. ASSUME NEW d \in DecisionId, Reactivate(d) PROVE Rooms' /\ UndecidedKeepsReport'
  BY <1>26 DEF Reactivate
<1>27. ASSUME NEW s \in Source, Resave(s) PROVE Rooms' /\ UndecidedKeepsReport'
  BY <1>27 DEF Resave, Upsert
<1>28. ASSUME NEW j \in JobId, ClaimLapses(j) PROVE Rooms' /\ UndecidedKeepsReport'
  BY <1>28 DEF ClaimLapses
<1>29. CASE UNCHANGED vars
  BY <1>29 DEF vars
<1> QED
  BY <1>1, <1>2, <1>3, <1>4, <1>5, <1>6, <1>7, <1>8, <1>9, <1>10, <1>11,
     <1>12, <1>13, <1>14, <1>15, <1>16, <1>17, <1>18, <1>19, <1>20,
     <1>21, <1>22, <1>23, <1>24, <1>25, <1>26, <1>27, <1>28, <1>29 DEF Next, Visit,
     Process, Admin

-----------------------------------------------------------------------------

\* Nothing has happened in the initial state.
LEMMA InitInv == Init => Inv
<1> SUFFICES ASSUME Init PROVE Inv OBVIOUS
<1> USE AdmissionAssumption DEF Init
<1>1. TypeOK
  BY DEF TypeOK, Labels, Attempting
<1>2. Rows /\ OneActivePerText
  BY DEF Rows, Carrying, OneActivePerText, Active
<1>3. Deletion
  BY DEF Deletion, Deleting
<1> QED BY <1>1, <1>2, <1>3 DEF Inv

\* The inductive step, conjunct by conjunct.
LEMMA InvStep == Inv /\ [Next]_vars => Inv'
BY TypeStep, RowsStep, ActiveStep, DeletionStep DEF Inv

\* The invariant that every theorem below rests on.
LEMMA Invariance == Spec => []Inv
BY InitInv, InvStep, PTL DEF Spec

\* Every variable keeps its type, and a worker has a report and a job in hand
\* exactly while it is in the middle of something.
THEOREM TypeCorrect == Spec => []TypeOK
<1>1. Inv => TypeOK BY DEF Inv
<1> QED BY <1>1, Invariance, PTL

\* The gate's check inside its transaction and the conflict check of a
\* reactivation keep at most one accepted representation of a text active.
THEOREM OneActivePerTextHolds == Spec => []OneActivePerText
<1>1. Inv => OneActivePerText BY DEF Inv
<1> QED BY <1>1, Invariance, PTL

\* A succeeded job names a decision of its own report that still exists, while
\* owners delete reports statement by statement and tabs save them again, unless
\* the report itself was saved again between those statements.
THEOREM SucceededIsDecidedHolds == Spec => []SucceededIsDecided
<1>1. Inv => SucceededIsDecided
  <2> SUFFICES ASSUME Inv, NEW j \in JobId, jstatus[j] = "succeeded", jsrc[j] \notin raced
               PROVE  /\ jdecision[j] # NoDecision
                      /\ src[jdecision[j]] = jsrc[j]
                      /\ kind[jdecision[j]] \in {"ACCEPT", "REJECT"}
    BY DEF SucceededIsDecided
  <2>1. jdecision[j] # NoDecision
    BY DEF Inv, Deletion
  <2>2. jdecision[j] \in DecisionId /\ src[jdecision[j]] = jsrc[j] /\ kind[jdecision[j]] # "gone"
    BY <2>1 DEF Inv, TypeOK, Rows
  <2>3. kind[jdecision[j]] # "free"
    BY <2>2 DEF Inv, Rows
  <2> QED BY <2>1, <2>2, <2>3 DEF Inv, TypeOK
<1> QED BY <1>1, Invariance, PTL

\* The part of the argument that is about the reports that their owners keep.
LEMMA RoomsInvariance == Spec => [](Rooms /\ UndecidedKeepsReport)
<1>1. Init => Rooms /\ UndecidedKeepsReport
  BY AdmissionAssumption DEF Init, Rooms, UndecidedKeepsReport
<1>2. Inv /\ Rooms /\ UndecidedKeepsReport /\ [Next]_vars => (Rooms /\ UndecidedKeepsReport)'
  BY RoomsStep DEF Inv
<1> QED BY <1>1, <1>2, Invariance, PTL DEF Spec

\* The reuse of a room never removes a report that its owner keeps while the
\* report's job is undecided, whatever happens to other reports.
THEOREM UndecidedKeepsReportHolds == Spec => []UndecidedKeepsReport
BY RoomsInvariance, PTL

-----------------------------------------------------------------------------
\* A worker that is about to accept has a text that passed the gates, and
\* only decisions that were made are withdrawn.
Gated ==
    /\ \A w \in Worker : pc[w] = "accept" => TextOf[cur[w]] \in Admissible
    /\ \A d \in revoked : kind[d] # "free"

LEMMA GatedStep == TypeOK /\ Gated /\ [Next]_vars => Gated'
<1> SUFFICES ASSUME TypeOK, Gated, [Next]_vars PROVE Gated' OBVIOUS
<1> USE DEF TypeOK, Gated, workers, decisions, Goto
<1>1. ASSUME NEW w \in Worker, \/ \E s \in Source : Save(w, s) \/ ReuseCheck(w, s) \/ DeleteReport(w, s)
                               \/ SweepTick(w) \/ CreateJob(w)
                               \/ \E j \in JobId : TakeNext(w, j)
      PROVE  Gated'
  BY <1>1 DEF Save, ReuseCheck, DeleteReport, Start, SweepTick, CreateJob, TakeNext
<1>2. ASSUME NEW w \in Worker, Fetch(w) \/ ReadReport(w) \/ AcceptTx(w) \/ Reject(w)
      PROVE  Gated'
  BY <1>2 DEF Fetch, Conclude, Abandon, ReadReport, AcceptTx, Reject, Decide
<1>3. ASSUME NEW w \in Worker, Evaluate(w) PROVE Gated'
  BY <1>3 DEF Evaluate
<1>4. ASSUME NEW w \in Worker, Record(w) \/ Finalize(w) \/ Promote(w) \/ RecordFailure(w)
      PROVE  Gated'
  BY <1>4 DEF Record, Finalize, Promote, RecordFailure, Conclude, Abandon
<1>5. ASSUME NEW w \in Worker, \/ ReuseClaim(w) \/ Recheck(w) \/ ReplaceRefused(w)
                               \/ \E n \in Source : Replace(w, n)
      PROVE  Gated'
  BY <1>5 DEF ReuseClaim, Recheck, ReplaceRefused, Replace, Abandon, Purge
<1>6. ASSUME NEW w \in Worker, DelCount(w) \/ DelJob(w) \/ DelDecisions(w)
      PROVE  Gated'
  BY <1>6 DEF DelCount, DelJob, DelDecisions, Abandon, Purge
<1>7. ASSUME NEW w \in Worker, Throws(w) \/ Crash(w) PROVE Gated'
  BY <1>7 DEF Throws, Crash, Abandon
<1>8. ASSUME \/ \E d \in DecisionId : Deactivate(d) \/ Reactivate(d)
             \/ \E j \in JobId : ClaimLapses(j)
             \/ \E s \in Source : Resave(s)
      PROVE  Gated'
  BY <1>8 DEF Deactivate, Reactivate, ClaimLapses, Resave
<1>9. CASE UNCHANGED vars
  BY <1>9 DEF vars
<1> QED
  BY <1>1, <1>2, <1>3, <1>4, <1>5, <1>6, <1>7, <1>8, <1>9 DEF Next, Visit, Process, Admin, Worker

-----------------------------------------------------------------------------
\* What the corpus is made of, for the refinement.
Verdicts == <<InForce, TakenOut, Refused>>
Seen == <<uploaded, saved, Owed, Leaving, Verdicts>>

\* Membership, in this state and in the next.
LEMMA Members ==
    /\ Owed \subseteq Source /\ \A r \in Source : r \in Owed <=> ~JobTerminal(r)
    /\ Owed' \subseteq Source /\ \A r \in Source : r \in Owed' <=> ~JobTerminal(r)'
    /\ Leaving \subseteq Source /\ \A r \in Source : r \in Leaving <=> BeingDeleted(r)
    /\ Leaving' \subseteq Source /\ \A r \in Source : r \in Leaving' <=> BeingDeleted(r)'
BY DEF Owed, JobTerminal, JobsOf, Stored, Leaving, BeingDeleted

LEMMA SameOwed ==
    ASSUME \A r \in Source : JobTerminal(r)' <=> JobTerminal(r)
    PROVE  Owed' = Owed
<1>1. \A r \in Source : r \in Owed' <=> r \in Owed
  BY Members
<1> QED BY <1>1, Members

\* Steps that leave the decisions alone leave the verdicts alone.
LEMMA SameVerdicts ==
    ASSUME UNCHANGED <<kind, src, revoked>>
    PROVE  UNCHANGED Verdicts
BY DEF Verdicts, InForce, TakenOut, Refused

\* Steps that leave the jobs alone leave what is owed alone.
LEMMA SameDebts ==
    ASSUME UNCHANGED <<jsrc, jstatus, jdecision>>
    PROVE  Owed' = Owed
BY DEF Owed, JobTerminal, JobsOf, Stored

\* A worker's step lets at most the DELETE in its hand end.
LEMMA LeavingMoves ==
    ASSUME TypeOK, NEW w \in Worker,
           \A x \in Worker : x # w => pc'[x] = pc[x] /\ cur'[x] = cur[x],
           pc'[w] \notin Deleting
    PROVE  /\ pc[w] \notin Deleting => Leaving' = Leaving
           /\ pc[w] \in Deleting => Leaving' \in {Leaving, Leaving \ {cur[w]}} /\ cur[w] \in Leaving
<1>1. \A s \in Source : BeingDeleted(s) <=> \E x \in Worker : cur[x] = s /\ pc[x] \in Deleting
  BY DEF BeingDeleted, Deleting
<1>2. \A s \in Source : BeingDeleted(s)' <=> \E x \in Worker : cur'[x] = s /\ pc'[x] \in Deleting
  BY DEF BeingDeleted, Deleting
<1>3. CASE pc[w] \notin Deleting
  BY <1>1, <1>2, <1>3 DEF Leaving
<1>4. CASE pc[w] \in Deleting
  <2>1. PICK s \in Source : s = cur[w]
    BY <1>4 DEF TypeOK, Deleting
  <2>2. \A r \in Source : r # s => (BeingDeleted(r)' <=> BeingDeleted(r))
    BY <1>1, <1>2, <2>1
  <2>3. BeingDeleted(s)
    BY <1>1, <1>4, <2>1
  <2>4. ASSUME BeingDeleted(s)' PROVE Leaving' = Leaving
    <3>1. \A r \in Source : BeingDeleted(r)' <=> BeingDeleted(r)
      BY <2>2, <2>3, <2>4
    <3>2. \A r \in Source : r \in Leaving' <=> r \in Leaving
      BY <3>1, Members
    <3> QED BY <3>2, Members
  <2>5. ASSUME ~BeingDeleted(s)' PROVE Leaving' = Leaving \ {s}
    <3>1. \A r \in Source : r \in Leaving' <=> r \in Leaving \ {s}
      BY <2>2, <2>5, Members
    <3> QED BY <3>1, Members
  <2>6. s \in Leaving
    BY <2>3, Members
  <2> QED BY <1>4, <2>1, <2>4, <2>5, <2>6
<1> QED BY <1>3, <1>4

LEMMA SameLeaving ==
    ASSUME UNCHANGED <<pc, cur>>
    PROVE  Leaving' = Leaving
BY DEF Leaving, BeingDeleted

\* The steps of attempts, claims and room checks that write to no job's status
\* or decision do not show.
LEMMA AttemptsUnseen ==
    ASSUME TypeOK, NEW w \in Worker,
           \/ Fetch(w) \/ ReadReport(w) \/ Evaluate(w) \/ Promote(w) \/ ReuseClaim(w) \/ Recheck(w)
           \/ ReplaceRefused(w) \/ Throws(w) \/ SweepTick(w)
           \/ \E j \in JobId : TakeNext(w, j)
           \/ \E s \in Source : ReuseCheck(w, s)
    PROVE  UNCHANGED Seen
<1> USE DEF reports, jobs, decisions, workers
<1>1. UNCHANGED <<uploaded, saved, jsrc, jstatus, jdecision, kind, src, revoked>>
  BY DEF Fetch, ReadReport, Evaluate, Promote, ReuseClaim, Recheck, ReplaceRefused, Throws,
         SweepTick, TakeNext, ReuseCheck
<1>2. pc[w] \notin Deleting /\ pc'[w] \notin Deleting
  BY DEF Fetch, ReadReport, Evaluate, Promote, ReuseClaim, Recheck, ReplaceRefused, Throws,
         SweepTick, TakeNext, ReuseCheck, Start, Goto, Conclude, Abandon, Deleting, TypeOK, Labels
<1>3. \A x \in Worker : x # w => pc'[x] = pc[x] /\ cur'[x] = cur[x]
  BY DEF Fetch, ReadReport, Evaluate, Promote, ReuseClaim, Recheck, ReplaceRefused, Throws,
         SweepTick, TakeNext, ReuseCheck, Start, Goto, Conclude, Abandon, TypeOK
<1>4. Leaving' = Leaving
  BY <1>2, <1>3, LeavingMoves
<1> QED BY <1>1, <1>4, SameVerdicts, SameDebts DEF Seen

\* One job is written: its report is owed a decision now, or no longer, and then
\* there is one.
LEMMA JobWrites ==
    ASSUME Inv, Rows', NEW w \in Worker, NEW s \in Source, cur[w] = s,
           Record(w) \/ Finalize(w) \/ RecordFailure(w)
    PROVE  Corpus!Enter(s) \/ Corpus!Settle(s) \/ UNCHANGED Seen
<1> USE DEF Inv, TypeOK, Rows, reports, jobs, decisions
<1>1. PICK j \in JobId : j = job[w] /\ jsrc[j] = s /\ s \in uploaded
  BY AdmissionAssumption DEF Record, Finalize, RecordFailure, Attempting
<1>2. UNCHANGED <<uploaded, saved, jsrc, kind, src, revoked>>
  BY DEF Record, Finalize, RecordFailure
<1>3. \A i \in JobId : i # j => jstatus'[i] = jstatus[i] /\ jdecision'[i] = jdecision[i]
  BY <1>1 DEF Record, Finalize, RecordFailure
<1>4. UNCHANGED Leaving /\ UNCHANGED Verdicts
  <2>1. pc[w] \notin Deleting /\ pc'[w] \notin Deleting
    BY DEF Record, Finalize, RecordFailure, Goto, Conclude, Abandon, Deleting
  <2>2. \A x \in Worker : x # w => pc'[x] = pc[x] /\ cur'[x] = cur[x]
    BY DEF Record, Finalize, RecordFailure, Goto, Conclude, Abandon
  <2> QED BY <1>2, <2>1, <2>2, LeavingMoves, SameVerdicts
<1>5. \A i \in JobId : i # j => (Stored(i)' <=> Stored(i))
  BY <1>3 DEF Stored
<1>6. \A r \in Source : r # s => (JobTerminal(r)' <=> JobTerminal(r))
  BY <1>1, <1>2, <1>3, <1>5 DEF JobTerminal, JobsOf
<1>7. CASE JobTerminal(s)' <=> JobTerminal(s)
  <2>1. Owed' = Owed
    <3>1. \A r \in Source : JobTerminal(r)' <=> JobTerminal(r)
      BY <1>6, <1>7
    <3> QED BY <3>1, SameOwed
  <2> QED BY <1>2, <1>4, <2>1 DEF Seen
<1>8. CASE JobTerminal(s) /\ ~JobTerminal(s)'
  <2>1. Owed' = Owed \cup {s}
    BY <1>1, <1>6, <1>8, Members
  <2> QED BY <1>1, <1>2, <1>4, <2>1 DEF Corpus!Enter, Corpus!decisions, Verdicts
<1>9. CASE ~JobTerminal(s) /\ JobTerminal(s)'
  <2>1. Owed' = Owed \ {s}
    BY <1>1, <1>6, <1>9, Members
  <2>2. PICK i \in JobsOf(s) : jstatus[i] # "succeeded" /\ ~(jstatus[i] = "failed" /\ jdecision[i] # NoDecision)
    BY <1>9 DEF JobTerminal
  <2>3. i = j /\ Stored(j)
    <3>1. ASSUME i # j PROVE FALSE
      <4>1. i \in JobsOf(s)'
        BY <1>2, <1>5, <2>2, <3>1 DEF JobsOf
      <4>2. jstatus'[i] = "succeeded" \/ (jstatus'[i] = "failed" /\ jdecision'[i] # NoDecision)
        BY <1>9, <4>1 DEF JobTerminal
      <4> QED BY <1>3, <2>2, <3>1, <4>2 DEF JobsOf
    <3> QED BY <2>2, <3>1 DEF JobsOf
  <2>4. j \in JobsOf(s)'
    BY <1>1, <1>2, <2>3 DEF JobsOf, Stored, Record, Finalize, RecordFailure
  <2>5. jstatus'[j] = "succeeded" \/ (jstatus'[j] = "failed" /\ jdecision'[j] # NoDecision)
    BY <1>9, <2>4 DEF JobTerminal
  <2>6. jdecision'[j] # NoDecision
    <3>1. CASE Finalize(w)
      BY <1>1, <2>2, <2>3, <2>5, <3>1, AdmissionAssumption DEF Finalize, Carrying
    <3>2. CASE Record(w) \/ RecordFailure(w)
      BY <1>1, <2>2, <2>3, <2>5, <3>2 DEF Record, RecordFailure
    <3> QED BY <3>1, <3>2
  <2> DEFINE d == jdecision'[j]
  <2>7. d \in DecisionId
    BY <1>1, <2>6 DEF Record, Finalize, RecordFailure, Carrying
  <2>8. src[d] = s /\ kind[d] \in {"ACCEPT", "REJECT"}
    BY <1>1, <1>2, <2>6, <2>7, AdmissionAssumption
  <2>9. <<d, s>> \in Corpus!Decided
    BY <2>7, <2>8 DEF Corpus!Decided, InForce, TakenOut, Refused
  <2> QED BY <1>2, <1>4, <2>1, <2>9 DEF Corpus!Settle, Corpus!decisions, Verdicts
<1> QED BY <1>7, <1>8, <1>9

\* A first save, or one after the report had gone, and a late resave.
LEMMA SaveHolds ==
    ASSUME Inv, NEW s \in Source, Resave(s) \/ \E w \in Visitor : Save(w, s)
    PROVE  Corpus!Hold(s)
<1> USE DEF Upsert, jobs, decisions, workers
<1>1. uploaded' = uploaded \cup {s} /\ saved' = saved \cup {s}
  BY DEF Save, Resave
<1>2. UNCHANGED Owed /\ UNCHANGED Verdicts
  BY SameDebts, SameVerdicts DEF Save, Resave
<1>3. Leaving' = Leaving
  <2>1. CASE Resave(s)
    BY <2>1, SameLeaving DEF Resave
  <2>2. ASSUME NEW w \in Visitor, Save(w, s) PROVE Leaving' = Leaving
    <3>1. pc[w] \notin Deleting /\ pc'[w] \notin Deleting /\ w \in Worker
      BY <2>2 DEF Save, Start, Goto, Deleting, Worker, Inv, TypeOK
    <3>2. \A x \in Worker : x # w => pc'[x] = pc[x] /\ cur'[x] = cur[x]
      BY <2>2 DEF Save, Start, Goto, Inv, TypeOK
    <3> QED BY <3>1, <3>2, LeavingMoves DEF Inv
  <2> QED BY <2>1, <2>2
<1> QED BY <1>1, <1>2, <1>3 DEF Corpus!Hold, Corpus!decisions, Verdicts

\* The job is there already, or the report is owed a decision from now on.
LEMMA CreateJobEnters ==
    ASSUME Inv, NEW w \in Worker, NEW s \in Source, cur[w] = s, CreateJob(w)
    PROVE  Corpus!Enter(s) \/ UNCHANGED Seen
<1> USE DEF Inv, TypeOK, Rows, reports, decisions
<1>1. s \in uploaded
  BY AdmissionAssumption DEF CreateJob
<1>2. UNCHANGED <<uploaded, saved, jdecision, kind, src, revoked>>
  BY DEF CreateJob
<1>3. UNCHANGED Leaving /\ UNCHANGED Verdicts
  <2>1. pc[w] \notin Deleting /\ pc'[w] \notin Deleting
    BY DEF CreateJob, Goto, Deleting
  <2>2. \A x \in Worker : x # w => pc'[x] = pc[x] /\ cur'[x] = cur[x]
    BY DEF CreateJob, Goto
  <2> QED BY <1>2, <2>1, <2>2, LeavingMoves, SameVerdicts
<1>4. CASE UNCHANGED <<jsrc, jstatus>>
  BY <1>2, <1>3, <1>4, SameDebts DEF Seen
<1>5. ASSUME NEW j \in JobId, jstatus[j] = "free",
             jsrc' = [jsrc EXCEPT ![j] = s], jstatus' = [jstatus EXCEPT ![j] = "pending"]
      PROVE  Corpus!Enter(s)
  <2>1. jsrc[j] = NoSource /\ ~Stored(j)
    BY <1>5 DEF Stored
  <2>2. \A i \in JobId : i # j => jsrc'[i] = jsrc[i] /\ jstatus'[i] = jstatus[i]
    BY <1>5
  <2>3. \A r \in Source : r # s => JobsOf(r)' = JobsOf(r)
    BY <1>5, <2>1, <2>2 DEF JobsOf, Stored
  <2>4. \A i \in JobId : Stored(i) => jstatus'[i] = jstatus[i]
    BY <2>1, <2>2
  <2>5. \A r \in Source : r # s => (JobTerminal(r)' <=> JobTerminal(r))
    BY <1>2, <2>3, <2>4 DEF JobTerminal, JobsOf
  <2>6. j \in JobsOf(s)' /\ jstatus'[j] = "pending"
    BY <1>5 DEF JobsOf, Stored
  <2>7. ~JobTerminal(s)'
    BY <2>6 DEF JobTerminal
  <2>8. Owed' = Owed \cup {s}
    BY <1>1, <2>5, <2>7, Members
  <2> QED BY <1>1, <1>2, <1>3, <2>8 DEF Corpus!Enter, Corpus!decisions, Verdicts
<1> QED BY <1>4, <1>5 DEF CreateJob

\* A decision under an unused id.
LEMMA DecideJudges ==
    ASSUME Inv, Gated, NEW w \in Worker, cur[w] \in Source, NEW d \in DecisionId,
           NEW verdict \in {"ACCEPT", "REJECT"}, Decide(w, d, verdict)
    PROVE  /\ InForce' = IF verdict = "ACCEPT" THEN InForce \cup {<<d, cur[w]>>} ELSE InForce
           /\ Refused' = IF verdict = "REJECT" THEN Refused \cup {<<d, cur[w]>>} ELSE Refused
           /\ TakenOut' = TakenOut
           /\ \A x \in Corpus!Decided : x[1] # d
<1> USE DEF Inv, TypeOK, Rows, Decide
<1>1. kind[d] = "free" /\ d \notin revoked
  BY DEF Gated
<1>2. \A e \in DecisionId : e # d => kind'[e] = kind[e] /\ src'[e] = src[e]
  OBVIOUS
<1>3. kind'[d] = verdict /\ src'[d] = cur[w] /\ revoked' = revoked
  OBVIOUS
<1>4. \A x \in Corpus!Decided : x[1] # d
  BY <1>1 DEF Corpus!Decided, InForce, TakenOut, Refused
<1>5. InForce' = IF verdict = "ACCEPT" THEN InForce \cup {<<d, cur[w]>>} ELSE InForce
  BY <1>1, <1>2, <1>3 DEF InForce
<1>6. Refused' = IF verdict = "REJECT" THEN Refused \cup {<<d, cur[w]>>} ELSE Refused
  BY <1>1, <1>2, <1>3 DEF Refused
<1>7. TakenOut' = TakenOut
  BY <1>1, <1>2, <1>3 DEF TakenOut
<1> QED BY <1>4, <1>5, <1>6, <1>7

\* Neither transaction of the gate touches reports, jobs or a DELETE.
LEMMA GateUnseen ==
    ASSUME Inv, NEW w \in Worker, AcceptTx(w) \/ Reject(w)
    PROVE  cur[w] \in Source \cap uploaded /\ UNCHANGED <<uploaded, saved, Owed, Leaving>>
<1> USE DEF Inv, TypeOK, Rows, reports, jobs
<1>1. cur[w] \in Source \cap uploaded
  BY AdmissionAssumption DEF AcceptTx, Reject
<1>2. UNCHANGED <<uploaded, saved>> /\ UNCHANGED Owed
  BY SameDebts DEF AcceptTx, Reject
<1>3. pc[w] \notin Deleting /\ pc'[w] \notin Deleting
  BY DEF AcceptTx, Reject, Decide, Goto, Deleting
<1>4. \A x \in Worker : x # w => pc'[x] = pc[x] /\ cur'[x] = cur[x]
  BY DEF AcceptTx, Reject, Decide, Goto
<1> QED BY <1>1, <1>2, <1>3, <1>4, LeavingMoves

\* The transaction's own check is the one that counts.
LEMMA AcceptAdmits ==
    ASSUME Inv, Gated, NEW w \in Worker, AcceptTx(w)
    PROVE  (\E d \in DecisionId : Corpus!Admit(cur[w], d)) \/ UNCHANGED Seen
<1>1. TextOf[cur[w]] \in Admissible
  BY DEF Gated, AcceptTx
<1>2. cur[w] \in Source \cap uploaded /\ UNCHANGED <<uploaded, saved, Owed, Leaving>>
  BY GateUnseen
<1>3. ASSUME ActiveFamily(TextOf[cur[w]]) = {}, NEW d \in DecisionId, Decide(w, d, "ACCEPT")
      PROVE  Corpus!Admit(cur[w], d)
  <2>1. ASSUME NEW x \in InForce PROVE FamilyOf[TextOf[x[2]]] # FamilyOf[TextOf[cur[w]]]
    <3>1. PICK e \in DecisionId \ revoked : kind[e] = "ACCEPT" /\ x = <<e, src[e]>>
      BY DEF InForce
    <3>2. src[e] \in Source /\ TextOf[src[e]] \in Text
      BY <3>1, AdmissionAssumption DEF Inv, TypeOK, Rows
    <3>3. e \in Active(TextOf[src[e]])
      BY <3>1 DEF Active
    <3> QED BY <1>3, <3>1, <3>2, <3>3 DEF ActiveFamily
  <2>2. /\ InForce' = InForce \cup {<<d, cur[w]>>} /\ Refused' = Refused /\ TakenOut' = TakenOut
        /\ \A x \in Corpus!Decided : x[1] # d
    BY <1>2, <1>3, DecideJudges
  <2> QED BY <1>1, <1>2, <2>1, <2>2 DEF Corpus!Admit, Corpus!TextIn, Corpus!reports
<1>4. CASE UNCHANGED decisions
  BY <1>2, <1>4, SameVerdicts DEF decisions, Seen
<1> QED BY <1>3, <1>4 DEF AcceptTx

LEMMA RejectRefuses ==
    ASSUME Inv, Gated, NEW w \in Worker, Reject(w)
    PROVE  \E d \in DecisionId : Corpus!Refuse(cur[w], d)
<1>1. cur[w] \in Source \cap uploaded /\ UNCHANGED <<uploaded, saved, Owed, Leaving>>
  BY GateUnseen
<1>2. PICK d \in DecisionId : Decide(w, d, "REJECT")
  BY DEF Reject
<1>3. /\ InForce' = InForce /\ Refused' = Refused \cup {<<d, cur[w]>>} /\ TakenOut' = TakenOut
      /\ \A x \in Corpus!Decided : x[1] # d
  BY <1>1, <1>2, DecideJudges
<1> QED BY <1>1, <1>3 DEF Corpus!Refuse, Corpus!reports

\* Rows deleted: a deleted decision is no verdict any more.
LEMMA PurgeVerdicts ==
    ASSUME TypeOK, NEW js, NEW D \in SUBSET DecisionId, Purge(js, D)
    PROVE  /\ InForce' = {x \in InForce : x[1] \notin D}
           /\ TakenOut' = {x \in TakenOut : x[1] \notin D}
           /\ Refused' = {x \in Refused : x[1] \notin D}
<1> USE DEF TypeOK, Purge
<1>1. InForce' = {x \in InForce : x[1] \notin D}
  BY DEF InForce
<1>2. TakenOut' = {x \in TakenOut : x[1] \notin D}
  BY DEF TakenOut
<1>3. Refused' = {x \in Refused : x[1] \notin D}
  BY DEF Refused
<1> QED BY <1>1, <1>2, <1>3

LEMMA PurgeNothing ==
    ASSUME TypeOK, NEW js, Purge(js, {})
    PROVE  UNCHANGED <<InForce, TakenOut, Refused>>
<1>1. UNCHANGED <<kind, src, revoked>>
  BY DEF TypeOK, Purge
<1> QED BY <1>1, SameVerdicts DEF Verdicts

\* Rows of one report deleted: nothing else is owed more or less.
LEMMA PurgeDebts ==
    ASSUME Inv, NEW s \in Source, NEW js \in SUBSET JobsOf(s), NEW D \in SUBSET DecisionsOf(s),
           Purge(js, D)
    PROVE  /\ \A r \in Source : r # s => (JobTerminal(r)' <=> JobTerminal(r))
           /\ js = JobsOf(s) => JobTerminal(s)'
           /\ js = {} /\ JobTerminal(s)' => JobTerminal(s)
           /\ js = {} /\ D = {} => Owed' = Owed
<1> USE DEF Inv, TypeOK, Rows, Purge
<1>1. \A i \in JobId : i \notin js => jstatus'[i] = jstatus[i]
  OBVIOUS
<1>2. \A i \in js : jstatus'[i] = "gone"
  BY DEF JobsOf
<1>3. \A r \in Source : r # s => JobsOf(r)' = JobsOf(r)
  BY <1>1 DEF JobsOf, Stored
<1>4. \A i \in JobId : jsrc[i] # s => jdecision'[i] = jdecision[i]
  BY DEF JobsOf, DecisionsOf
<1>5. \A r \in Source : r # s => (JobTerminal(r)' <=> JobTerminal(r))
  BY <1>1, <1>3, <1>4 DEF JobTerminal, JobsOf
<1>6. js = JobsOf(s) => JobTerminal(s)'
  BY <1>1, <1>2 DEF JobTerminal, JobsOf, Stored
<1>7. js = {} /\ JobTerminal(s)' => JobTerminal(s)
  BY <1>1 DEF JobTerminal, JobsOf, Stored
<1>8. js = {} /\ D = {} => Owed' = Owed
  <2> SUFFICES ASSUME js = {}, D = {} PROVE Owed' = Owed
    OBVIOUS
  <2>1. jsrc' = jsrc /\ jstatus' = jstatus /\ jdecision' = jdecision
    OBVIOUS
  <2> QED BY <2>1, SameDebts
<1> QED BY <1>5, <1>6, <1>7, <1>8

\* The room's old report goes if it is not owed a decision, and takes along
\* only what was not accepted.
LEMMA ReplaceReplaces ==
    ASSUME Inv, NEW w \in Worker, NEW s \in Source, cur[w] = s, NEW n \in Source, Replace(w, n)
    PROVE  Corpus!Replace(s, n) \/ Corpus!Hold(n)
<1>2. Leaving' = Leaving
  <2>1. pc[w] \notin Deleting /\ pc'[w] \notin Deleting
    BY DEF Replace, Goto, Deleting, Inv, TypeOK
  <2>2. \A x \in Worker : x # w => pc'[x] = pc[x] /\ cur'[x] = cur[x]
    BY DEF Replace, Goto, Inv, TypeOK
  <2> QED BY <2>1, <2>2, LeavingMoves DEF Inv
<1>3. CASE s \in saved \ loose
  <2>1. JobTerminal(s)
    BY <1>3 DEF Replace
  <2>2. uploaded' = uploaded \cup {n} /\ saved' = (saved \ {s}) \cup {n}
    BY <1>3 DEF Replace, Upsert
  <2> DEFINE D == IF HasAcceptedContent(s) THEN {} ELSE DecisionsOf(s)
  <2>3. Purge(JobsOf(s), D) /\ D \in SUBSET DecisionsOf(s) /\ D \in SUBSET DecisionId
    BY <1>3 DEF Replace, DecisionsOf
  <2>4. \A r \in Source : JobTerminal(r)' <=> JobTerminal(r)
    BY <2>1, <2>3, PurgeDebts
  <2>5. Owed' = Owed
    BY <2>4, Members
  <2>6. /\ InForce' = {x \in InForce : x[1] \notin D}
        /\ TakenOut' = {x \in TakenOut : x[1] \notin D}
        /\ Refused' = {x \in Refused : x[1] \notin D}
    BY <2>3, PurgeVerdicts DEF Inv
  <2>7. \A x \in InForce \cup TakenOut : x[1] \notin D
    BY DEF HasAcceptedContent, DecisionsOf, InForce, TakenOut, Inv, TypeOK
  <2>8. InForce' = InForce /\ TakenOut' = TakenOut
    BY <2>6, <2>7
  <2>9. Refused' \in {Refused, {x \in Refused : x[2] # s}}
    <3>1. \A x \in Refused : x[1] \in DecisionsOf(s) <=> x[2] = s
      BY DEF Refused, DecisionsOf, Inv, TypeOK
    <3> QED BY <2>6, <3>1
  <2>10. s \in saved \ Owed
    BY <1>3, <2>1 DEF Owed
  <2> QED BY <1>2, <2>2, <2>5, <2>8, <2>9, <2>10 DEF Corpus!Replace, Corpus!Without
<1>4. CASE s \notin saved \ loose
  <2>1. uploaded' = uploaded \cup {n} /\ saved' = saved \cup {n} /\ UNCHANGED <<jobs, decisions>>
    BY <1>4 DEF Replace, Upsert
  <2>2. UNCHANGED Owed /\ UNCHANGED Verdicts
    BY <2>1, SameDebts, SameVerdicts DEF jobs, decisions
  <2> QED BY <1>2, <2>1, <2>2 DEF Corpus!Hold, Corpus!decisions, Verdicts
<1> QED BY <1>3, <1>4

\* The owner's DELETE: its first statement ...
LEMMA DeleteRemoves ==
    ASSUME Inv, NEW w \in Visitor, NEW s \in Source, DeleteReport(w, s)
    PROVE  Corpus!Remove(s)
<1> USE DEF DeleteReport, jobs, decisions
<1>1. UNCHANGED Owed /\ UNCHANGED Verdicts
  BY SameDebts, SameVerdicts
<1>2. Leaving' = Leaving \cup {s}
  <2>1. w \in Worker /\ pc'[w] = "delCount" /\ cur'[w] = s /\ pc[w] = "idle"
    BY DEF Start, Goto, Worker, Inv, TypeOK
  <2>2. \A x \in Worker : x # w => pc'[x] = pc[x] /\ cur'[x] = cur[x]
    BY DEF Start, Goto, Inv, TypeOK
  <2>3. BeingDeleted(s)'
    BY <2>1 DEF BeingDeleted
  <2>4. \A r \in Source : r # s => (BeingDeleted(r)' <=> BeingDeleted(r))
    BY <2>1, <2>2 DEF BeingDeleted
  <2> QED BY <2>3, <2>4, Members
<1> QED BY <1>1, <1>2 DEF Corpus!Remove, Corpus!decisions, Verdicts

\* ... the count, which does not show ...
LEMMA DelCountUnseen ==
    ASSUME Inv, NEW w \in Worker, DelCount(w)
    PROVE  UNCHANGED Seen
<1> USE DEF DelCount, reports, jobs, decisions
<1>1. \A r \in Source : BeingDeleted(r)' <=> BeingDeleted(r)
  BY DEF BeingDeleted, Goto, Inv, TypeOK
<1>2. Leaving' = Leaving
  BY <1>1, Members
<1> QED BY <1>2, SameDebts, SameVerdicts DEF Seen

\* ... the jobs ...
LEMMA DelJobReleases ==
    ASSUME Inv, NEW w \in Worker, NEW s \in Source, cur[w] = s, DelJob(w)
    PROVE  Corpus!Release(s)
<1> USE DEF DelJob
<1>1. pc[w] \in Deleting /\ UNCHANGED reports /\ Purge(JobsOf(s), {})
  BY DEF Inv, TypeOK, Deleting
<1>2. s \in Leaving /\ Leaving' \in {Leaving, Leaving \ {s}}
  <2>1. \A x \in Worker : x # w => pc'[x] = pc[x] /\ cur'[x] = cur[x]
    BY DEF Abandon, Goto, Inv, TypeOK
  <2>2. CASE pc[w] = "delJobOnly"
    <3>1. pc'[w] = "idle"
      BY <2>2 DEF Abandon, Goto, Inv, TypeOK
    <3> QED BY <1>1, <2>1, <3>1, LeavingMoves DEF Inv, Deleting
  <2>3. CASE pc[w] = "delJob"
    <3>1. pc'[w] = "delDecisions" /\ cur'[w] = s
      BY <2>3 DEF Goto, Inv, TypeOK
    <3>2. BeingDeleted(s) /\ \A r \in Source : BeingDeleted(r)' <=> BeingDeleted(r)
      BY <2>1, <2>3, <3>1 DEF BeingDeleted
    <3> QED BY <1>1, <3>2, Members
  <2> QED BY <2>2, <2>3
<1>3. Owed' = Owed \ {s}
  <2>1. JobTerminal(s)' /\ \A r \in Source : r # s => (JobTerminal(r)' <=> JobTerminal(r))
    BY <1>1, PurgeDebts
  <2> QED BY <2>1, Members
<1>4. UNCHANGED <<InForce, TakenOut, Refused>>
  BY <1>1, PurgeNothing DEF Inv
<1> QED BY <1>1, <1>2, <1>3, <1>4 DEF Corpus!Release, Corpus!decisions, reports

\* ... and the decisions.  A failing statement ends it as well.
LEMMA DelDecisionsForgets ==
    ASSUME Inv, NEW w \in Worker, NEW s \in Source, cur[w] = s, DelDecisions(w)
    PROVE  Corpus!Forget(s) \/ Corpus!EndDelete(s) \/ UNCHANGED Seen
<1> USE DEF DelDecisions
<1>1. UNCHANGED reports
  OBVIOUS
<1>2. s \in Leaving /\ Leaving' \in {Leaving, Leaving \ {s}}
  <2>1. pc[w] \in Deleting /\ pc'[w] \notin Deleting
    BY DEF Abandon, Goto, Deleting, Inv, TypeOK
  <2>2. \A x \in Worker : x # w => pc'[x] = pc[x] /\ cur'[x] = cur[x]
    BY DEF Abandon, Goto, Inv, TypeOK
  <2> QED BY <2>1, <2>2, LeavingMoves DEF Inv
<1>3. CASE DecisionsOf(s) \cap staged = {}
  <2>1. Purge({}, DecisionsOf(s)) /\ DecisionsOf(s) \in SUBSET DecisionId
    BY <1>3 DEF DecisionsOf
  <2>2. /\ InForce' = {x \in InForce : x[1] \notin DecisionsOf(s)}
        /\ TakenOut' = {x \in TakenOut : x[1] \notin DecisionsOf(s)}
        /\ Refused' = {x \in Refused : x[1] \notin DecisionsOf(s)}
    BY <2>1, PurgeVerdicts DEF Inv
  <2>3. \A x \in InForce \cup TakenOut \cup Refused : x[1] \in DecisionsOf(s) <=> x[2] = s
    BY DEF InForce, TakenOut, Refused, DecisionsOf, Inv, TypeOK
  <2>4. /\ InForce' = Corpus!Without(InForce, s) /\ TakenOut' = Corpus!Without(TakenOut, s)
        /\ Refused' = Corpus!Without(Refused, s)
    BY <2>2, <2>3 DEF Corpus!Without
  <2>5. /\ \A r \in Source : r # s => (JobTerminal(r)' <=> JobTerminal(r))
        /\ JobTerminal(s)' => JobTerminal(s)
    BY <1>1, <2>1, PurgeDebts
  <2>6. Owed' \in {Owed, Owed \cup {s}}
    <3>1. CASE JobTerminal(s)' <=> JobTerminal(s)
      BY <2>5, <3>1, Members
    <3>2. CASE ~JobTerminal(s)' /\ JobTerminal(s)
      BY <1>1, <2>5, <3>2, Members
    <3> QED BY <2>5, <3>1, <3>2
  <2> QED BY <1>1, <1>2, <2>4, <2>6 DEF Corpus!Forget, reports
<1>4. CASE DecisionsOf(s) \cap staged # {}
  <2>1. Purge({}, {})
    BY <1>4
  <2>2. UNCHANGED <<InForce, TakenOut, Refused>>
    BY <2>1, PurgeNothing DEF Inv
  <2>3. Owed' = Owed
    BY <1>1, <2>1, PurgeDebts
  <2> QED BY <1>1, <1>2, <2>2, <2>3 DEF Corpus!EndDelete, Corpus!decisions, reports, Seen, Verdicts
<1> QED BY <1>3, <1>4

\* A process that dies may leave a DELETE unfinished.
LEMMA CrashEnds ==
    ASSUME Inv, NEW w \in Worker, Crash(w)
    PROVE  (cur[w] \in Source /\ Corpus!EndDelete(cur[w])) \/ UNCHANGED Seen
<1> USE DEF Crash, reports, jobs, decisions
<1>1. UNCHANGED <<uploaded, saved>> /\ UNCHANGED Owed /\ UNCHANGED Verdicts
  BY SameDebts, SameVerdicts
<1>2. pc'[w] \notin Deleting /\ \A x \in Worker : x # w => pc'[x] = pc[x] /\ cur'[x] = cur[x]
  BY DEF Abandon, Goto, Deleting, Inv, TypeOK
<1>3. CASE pc[w] \notin Deleting
  BY <1>1, <1>2, <1>3, LeavingMoves DEF Inv, Seen
<1>4. CASE pc[w] \in Deleting
  <2>1. cur[w] \in Leaving /\ Leaving' \in {Leaving, Leaving \ {cur[w]}}
    BY <1>2, <1>4, LeavingMoves DEF Inv
  <2> QED BY <1>1, <2>1 DEF Corpus!EndDelete, Corpus!decisions, Verdicts, Seen, Leaving
<1> QED BY <1>3, <1>4

LEMMA AdminActs ==
    ASSUME Inv, NEW d \in DecisionId, Deactivate(d) \/ Reactivate(d)
    PROVE  \/ \E x \in InForce : Corpus!Withdraw(x)
           \/ \E x \in TakenOut : Corpus!Restore(x)
<1> DEFINE x == <<d, src[d]>>
<1> USE DEF reports, jobs, workers
<1>1. /\ UNCHANGED <<uploaded, saved>> /\ UNCHANGED Owed /\ UNCHANGED Leaving
      /\ kind' = kind /\ src' = src /\ Refused' = Refused
  BY SameDebts, SameLeaving DEF Deactivate, Reactivate, Refused
<1>2. CASE Deactivate(d)
  <2>1. x \in InForce /\ InForce' = InForce \ {x} /\ TakenOut' = TakenOut \cup {x}
    BY <1>1, <1>2 DEF Deactivate, InForce, TakenOut
  <2> QED BY <1>1, <2>1 DEF Corpus!Withdraw, Corpus!reports
<1>3. CASE Reactivate(d)
  <2>1. x \in TakenOut /\ InForce' = InForce \cup {x} /\ TakenOut' = TakenOut \ {x}
    BY <1>1, <1>3 DEF Reactivate, InForce, TakenOut, Inv, TypeOK
  <2>2. \A y \in InForce : TextOf[y[2]] # TextOf[src[d]]
    BY <1>3 DEF Reactivate, InForce, Active
  <2> QED BY <1>1, <2>1, <2>2 DEF Corpus!Restore, Corpus!TextIn, Corpus!reports
<1> QED BY <1>2, <1>3

\* Every step of admission is one of the abstract specification's, or does not
\* show.
LEMMA CorpusStep == Inv /\ Gated /\ [Next]_vars => [Corpus!Next]_(Corpus!vars)
<1> SUFFICES ASSUME Inv, Gated, [Next]_vars
             PROVE  Corpus!Next \/ UNCHANGED Seen
  BY DEF Seen, Verdicts, Corpus!vars, Corpus!reports, Corpus!decisions
<1>1. ASSUME NEW w \in Visitor, Visit(w) PROVE Corpus!Next \/ UNCHANGED Seen
  BY <1>1, SaveHolds, DeleteRemoves, AttemptsUnseen DEF Visit, Corpus!Next, Worker, Inv
<1>2. ASSUME NEW w \in Sweeper, SweepTick(w) PROVE UNCHANGED Seen
  BY <1>2, AttemptsUnseen DEF Worker, Inv
<1>3. ASSUME NEW w \in Worker, Process(w) PROVE Corpus!Next \/ UNCHANGED Seen
  <2>1. CASE cur[w] \notin Source
    <3>1. pc[w] \in {"idle", "loop"}
      BY <2>1 DEF Inv, TypeOK
    <3>2. \E j \in JobId : TakeNext(w, j)
      BY <1>3, <3>1 DEF Process, CreateJob, Fetch, ReadReport, Evaluate, AcceptTx, Reject, Record,
             Finalize, Promote, RecordFailure, ReuseClaim, Recheck, Replace, ReplaceRefused,
             DelCount, DelJob, DelDecisions
    <3> QED BY <3>2, AttemptsUnseen DEF Inv
  <2>2. CASE cur[w] \in Source
    <3>1. CASE CreateJob(w)
      BY <2>2, <3>1, CreateJobEnters DEF Corpus!Next
    <3>2. CASE AcceptTx(w)
      BY <2>2, <3>2, AcceptAdmits DEF Corpus!Next
    <3>3. CASE Reject(w)
      BY <2>2, <3>3, RejectRefuses DEF Corpus!Next
    <3>4. CASE Record(w) \/ Finalize(w) \/ RecordFailure(w)
      <4>1. Rows'
        BY RowsStep DEF Inv
      <4> QED BY <2>2, <3>4, <4>1, JobWrites DEF Corpus!Next
    <3>5. ASSUME NEW n \in Source, Replace(w, n) PROVE Corpus!Next
      BY <2>2, <3>5, ReplaceReplaces DEF Corpus!Next
    <3>6. CASE DelCount(w)
      BY <3>6, DelCountUnseen
    <3>7. CASE DelJob(w)
      BY <2>2, <3>7, DelJobReleases DEF Corpus!Next
    <3>8. CASE DelDecisions(w)
      BY <2>2, <3>8, DelDecisionsForgets DEF Corpus!Next
    <3> QED BY <1>3, <3>1, <3>2, <3>3, <3>4, <3>5, <3>6, <3>7, <3>8, AttemptsUnseen DEF Process, Inv
  <2> QED BY <2>1, <2>2
<1>4. ASSUME NEW w \in Worker, Throws(w) PROVE UNCHANGED Seen
  BY <1>4, AttemptsUnseen DEF Inv
<1>5. ASSUME NEW w \in Worker, Crash(w) PROVE Corpus!Next \/ UNCHANGED Seen
  BY <1>5, CrashEnds DEF Corpus!Next
<1>6. CASE Admin
  BY <1>6, AdminActs DEF Admin, Corpus!Next
<1>7. ASSUME NEW s \in Source, Resave(s) PROVE Corpus!Next
  BY <1>7, SaveHolds DEF Corpus!Next
<1>8. ASSUME NEW j \in JobId, ClaimLapses(j) PROVE UNCHANGED Seen
  BY <1>8, SameVerdicts, SameDebts, SameLeaving DEF ClaimLapses, reports, decisions, workers, Seen
<1>9. CASE UNCHANGED vars
  BY <1>9, SameVerdicts, SameDebts, SameLeaving DEF vars, reports, jobs, decisions, workers, Seen
<1> QED BY <1>1, <1>2, <1>3, <1>4, <1>5, <1>6, <1>7, <1>8, <1>9 DEF Next

\* Admission keeps what the corpus promises, for every number of requests, sweeps
\* and resaves of reports that have gone.
THEOREM AdmissionAlwaysKeepsPromise == Spec => AdmissionKeepsPromise
<1>1. Init => Corpus!Init
  <2> SUFFICES ASSUME Init PROVE Corpus!Init
    OBVIOUS
  <2>1. Owed = {} /\ Leaving = {}
    BY DEF Init, Owed, JobTerminal, JobsOf, Stored, Leaving, BeingDeleted
  <2>2. InForce = {} /\ TakenOut = {} /\ Refused = {}
    BY DEF Init, InForce, TakenOut, Refused
  <2> QED BY <2>1, <2>2 DEF Init, Corpus!Init
<1>2. Init => Gated
  BY DEF Init, Gated
<1>3. Inv /\ Gated /\ [Next]_vars => Gated'
  BY GatedStep DEF Inv
<1> QED
  BY <1>1, <1>2, <1>3, CorpusStep, Invariance, PTL
  DEF Spec, AdmissionKeepsPromise, Corpus!Spec

\* An accepted decision goes only by the DELETE of its own report, which is no
\* longer saved by then unless it was saved again under that DELETE.
THEOREM AcceptGoesWithReportHolds == Spec => AcceptGoesWithReport
<1> DEFINE Goes ==
             \A d \in DecisionId : kind[d] = "ACCEPT" /\ kind'[d] # "ACCEPT" =>
                 src[d] \in Deletable /\ (src[d] \in saved => src[d] \in raced)
<1>1. Inv /\ [Next]_vars => [Goes]_vars
  <2> SUFFICES ASSUME Inv, [Next]_vars, NEW d \in DecisionId, kind[d] = "ACCEPT", kind'[d] # "ACCEPT"
               PROVE  src[d] \in Deletable /\ (src[d] \in saved => src[d] \in raced)
    OBVIOUS
  <2>1. \E w \in Worker : DelDecisions(w) \/ DelJob(w) \/ \E n \in Source : Replace(w, n)
    <3>1. kind' # kind
      OBVIOUS
    <3>2. ASSUME NEW w \in Worker, AcceptTx(w) \/ Reject(w) PROVE FALSE
      BY <3>2 DEF AcceptTx, Reject, Decide, decisions, Inv, TypeOK
    <3>3. ASSUME NEW w \in Worker, Throws(w) \/ Crash(w) \/ CreateJob(w) \/ Fetch(w) \/ ReadReport(w)
                   \/ Evaluate(w) \/ Record(w) \/ Finalize(w) \/ Promote(w) \/ RecordFailure(w)
                   \/ ReuseClaim(w) \/ Recheck(w) \/ ReplaceRefused(w) \/ DelCount(w)
                   \/ \E j \in JobId : TakeNext(w, j)
          PROVE  FALSE
      BY <3>1, <3>3 DEF Throws, Crash, CreateJob, Fetch, ReadReport, Evaluate, Record, Finalize, Promote,
         RecordFailure, ReuseClaim, Recheck, ReplaceRefused, DelCount, TakeNext, decisions
    <3>4. ASSUME NEW w, Visit(w) \/ SweepTick(w) PROVE FALSE
      BY <3>1, <3>4 DEF Visit, Save, ReuseCheck, DeleteReport, SweepTick, decisions
    <3>5. ~Admin /\ (\A s \in Source : ~Resave(s)) /\ (\A j \in JobId : ~ClaimLapses(j)) /\ vars' # vars
      BY <3>1 DEF Admin, Deactivate, Reactivate, Resave, ClaimLapses, decisions, vars
    <3> QED BY <3>2, <3>3, <3>4, <3>5 DEF Next, Process
  <2>2. ASSUME NEW w \in Worker, NEW n \in Source, Replace(w, n) PROVE FALSE
    BY <2>2 DEF Replace, Purge, HasAcceptedContent, DecisionsOf, decisions, Inv, TypeOK
  <2>3. ASSUME NEW w \in Worker, DelJob(w) PROVE FALSE
    BY <2>3 DEF DelJob, Purge, Inv, TypeOK
  <2>4. ASSUME NEW w \in Worker, DelDecisions(w)
        PROVE  src[d] \in Deletable /\ (src[d] \in saved => src[d] \in raced)
    <3>1. src[d] = cur[w]
      BY <2>4 DEF DelDecisions, Purge, DecisionsOf, Inv, TypeOK
    <3> QED BY <2>4, <3>1 DEF DelDecisions, Inv, Deletion, Deleting
  <2> QED BY <2>1, <2>2, <2>3, <2>4
<1>2. Spec => [][Goes]_vars
  BY <1>1, Invariance, PTL DEF Spec
<1> QED BY <1>2 DEF AcceptGoesWithReport

\* Where no owner deletes reports, accepted decisions are never deleted.
THEOREM AcceptedIsDurableHolds == ASSUME Deletable = {} PROVE Spec => AcceptedIsDurable
<1>1. ASSUME [\A d \in DecisionId : kind[d] = "ACCEPT" /\ kind'[d] # "ACCEPT" =>
                 src[d] \in Deletable /\ (src[d] \in saved => src[d] \in raced)]_vars
      PROVE  [\A d \in DecisionId : kind[d] = "ACCEPT" => kind'[d] = "ACCEPT"]_vars
  BY <1>1
<1>2. AcceptGoesWithReport => AcceptedIsDurable
  BY <1>1, PTL DEF AcceptGoesWithReport, AcceptedIsDurable
<1> QED BY <1>2, AcceptGoesWithReportHolds, PTL
=============================================================================
