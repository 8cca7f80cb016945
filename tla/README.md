# TLA+ models of TurnitPlus

TurnitPlus is a Next.js application that reviews a document for similarity and
AI-written text.  Its state lives in one libSQL (Turso) database that serverless
requests, deferred after-response work and cron sweeps write concurrently; no
long-lived process owns anything.  The specifications in this directory are
about the parts of the system where that concurrency decides what is correct:
the row of a saved report and the room it holds; the path on which its text is
*admitted* to a shared corpus, *promoted* into the matching index and *found* by
the historical match of other reports; and two account-level protocols, e-mail
verification and owner links.

Paths below are relative to the repository's root.

## 1. Inventory

| Component | State | Operations | What is hard | Module |
|---|---|---|---|---|
| Report admission jobs (`lib/corpus-admission-report-integration.ts`) | `corpus_admission_report_jobs`: status, `decision_id`, `claimed_at` | create, deferred attempt, daily sweep, room-reuse attempt, finalise, fail, delete | the deferred attempt never claims; claims expire; one processing run is some ten separate statements | `ReportAdmission` |
| Admission gate (`lib/corpus-admission-gate.ts`, `-policy.ts`, `-family.ts`) | `corpus_admission_decisions`, `_accepted_representations`, `_content_store` | evaluate, accept in a transaction, reject | check, then check again inside the transaction; unique index as backstop | `ReportAdmission` |
| Promotion queue (`lib/corpus-admission-promotion.ts`) | `corpus_admission_promotions`, `corpus_document_representations` | stage, claim, sweep, process, index, fail, skip, dead-letter | claims that expire under a living worker; the attempt cap; terminal rows must stay terminal | `Promotion` |
| Admin actions (`lib/corpus-admission-admin-actions.ts`) | `revoked_at`, audit log | deactivate, reactivate, preview | interplay with later acceptances of the same text and with cached answers | `ReportAdmission`, `MatchSnapshot` |
| User-submission corpus and matching (`lib/user-submission-corpus.ts`, `-matching.ts`) | representations, shingles, submission references | candidate query, exact-hash fallback, classification | eligibility is computed from five tables and the clock | `MatchSnapshot` |
| Historical-match snapshots (`lib/report-historical-match.ts`, `corpus-match-generation.ts`) | `report_historical_match_snapshots`, one global generation | get-or-compute, delete, invalidate | a cache with no lock, invalidated by a counter, by time and by a flag | `MatchSnapshot` |
| Maturity exemptions (`lib/developer-corpus-maturity-exemptions.ts`) | exempt accounts | add, remove | changes eligibility behind the cache's back | `MatchSnapshot` |
| Report save (`app/api/reports/route.ts`) | the payload and AI columns of `saved_reports` | save, resave | two halves of one row kept or replaced under different guards of one upsert | `SavedReport` |
| Similarity and selective-corpus finalisation (`lib/report-primary-similarity.ts`, `lib/selective-corpus-authoritative.ts`) | fields of `payload_json` | resolve, deferred run, five-minute sweep, fall back | a claim queue inside a JSON column; guarded writes of results computed concurrently | `SavedReport` |
| AI result (`app/api/reports/[id]/ai-retry/route.ts`, workers) | `ai_status`, `ai_score`, payload | save, retry, poll | a ready result must not be lost to a late failure | `SavedReport` |
| Rooms and room reuse (`app/api/reports/route.ts`, `lib/report-rooms.ts`) | owner, room number, 24-hour cycle | claim a vacant or expired room, resave | occupancy is decided in a transaction after a read outside it | `ReportRooms`, `ReportAdmission` |
| Deletion (`app/api/reports/[id]/route.ts`, `lib/report-deletion.ts`, `lib/account-deletion.ts`) | all tables of a report or an account | delete report, delete account, developer resets | several statements without a transaction, next to deferred work that writes the same tables | `ReportRooms`, `ReportAdmission` |
| Sessions, accounts, e-mail verification (`lib/auth-session.ts`, `lib/email-verification.ts`) | users, fingerprints, challenges | sign up, send, verify, change the address, prune | single-use codes, expiry, a marker that must prove the present address | `EmailVerification` |
| Owner links and review (`lib/owner-link-repo.ts`, `lib/owner-review.ts`) | links, evidence, generations, event log | observe, withdraw evidence, withdraw link, review | three records of one fact; a review of four reads | `OwnerLinks` |
| Retention sweep, sweep state (`lib/corpus-admission-retention-sweep.ts`, `-sweep-state.ts`) | ages of decisions and jobs; last run of each sweep | purge, record | deletes rows other sweeps may be about to claim | – |
| Rate limits, quota (`lib/rate-limit.ts`, `lib/upload-limit.ts`) | token buckets | check, clean up | the clock is read before the UPSERT, so checks reach the row out of order; cold rows are deleted under checks | `TokenBucket` |
| Device passport (`lib/device-passport-server.ts`, ledgers) | challenges, passports, usage | challenge, register, verify | single use, atomic ledger | – |
| Client pipeline and store (`lib/document-check-pipeline.ts`, `lib/report-store.ts`, workers) | one tab's progress | run, persist, poll | bounded poll | – |
| Scoring and text algorithms, archive and academic search, migrations, tools, UI | none, static or operator-run | – | numbers rather than interleavings | – |

Who calls whom.  `POST /api/reports` reads the row, resolves its score (through
the snapshot cache), claims a room or updates the row, inserts an admission job
and answers; then its deferred work captures the document identity, attempts
the admission job and finalises a pending report.  An admission attempt that
ends in ACCEPT stages and processes a promotion; a promotion that is indexed
bumps the corpus generation; the generation (and the clock, and the flag)
decides whether a resolution of another report reuses its snapshot, and is
stamped on the score a save stores.  Crons: admission sweep 03:00, promotion
sweep 04:00, selective-corpus sweep every five minutes (`vercel.json`).  Admins
act on accepted representations at any time; owners save, reuse rooms, retry
the AI half, delete reports and accounts, and log in on other browsers.

What makes each component correct: one owner per promotion and one settlement
(promotion); one active representation per text, no undecided text lost, no
accepted one deleted, every job decided (admission); no missed, no withdrawn
and no immature match in an answer (snapshots); the halves of a row tell one
story, a ready AI result survives, a pending report shows no score and is
finalised in the end (saved report); one report per room, nobody takes over a
report or an active room, nothing outlives its account (rooms); one live code,
and a verified account has proved its present address (verification); a link is
active exactly while its evidence says so, and the log and a stamped review
tell the same (owner links); a limit is a limit in whatever order its checks
arrive (rate limits).  The hazards behind these, each at its line, are
listed in `PROJECT.json`.

## 2. Modules

| Module | Role |
|---|---|
| `PromotionOutcome` | abstract: each decision is settled at most once; each publication is one step of the generation |
| `Promotion` | the promotion queue, refines `PromotionOutcome` |
| `AdmittedCorpus` | abstract: what gets into the corpus, who takes it out, and which reports may leave their rooms |
| `ReportAdmission` | the admission jobs with the gate, room reuse, DELETE and admin actions, refines `AdmittedCorpus` |
| `MatchSnapshot` | the snapshot cache with promotion, admin actions, exemptions, clock and flag as its environment |
| `SavedReport` | the payload and the AI half of one row: saves, AI retries, finalisers, sweeps |
| `ReportRooms` | owners, rooms and document identities: saves, logins, deletions |
| `AddressProof` | abstract: an account proves an address only with a live code mailed to the very address it has |
| `EmailVerification` | accounts, codes, mails and changes of address, refines `AddressProof` |
| `OwnerLinks` | links between accounts, their evidence, log, generations and the admin review |
| `TokenBucket` | one bucket of the rate limiter; proved about, not run |
| `MC...` | small instances; the `.cfg` files give the constants |
| `...Proofs` | theorems, checked by TLAPS, one module per component |

Operators whose name contains an underscore (`Claimable_IgnoresClaim`) are
mutants: plausible bugs that the properties are tested against.  No behaviour of
a specification uses them.

### Promotion

A worker is a sweep or an immediate attempt; `pc`, `cur`, `todo` are its local
variables between two statements.  `StageDecision` and `ClaimDecision` are the
two statements of `stageAndClaimCorpusAdmissionPromotionForDecision`;
`SweepTick` is the sweep's one transaction (discover, normalise, claim);
`ReadRow` is the read and the guards of `processCorpusAdmissionPromotion`;
`IndexCommit`, `RecordFailure`, `RecordSkip` its possible last writes.  A crash
is possible between any two.  `claimed_at` is "none", "fresh" or "stale";
`ClaimLapses` is the passing of five minutes.  The two failure branches for a
missing decision or representation are covered by `IndexThrows`, which reaches
the same write.

`ClaimsOutlived` is the assumption to be aware of: no route sets a
`maxDuration`, and a batch is up to twenty rows with up to ten retries per
write, so nothing *in the repository* keeps a worker from outliving its claim; a
host that ends invocations within five minutes does.  `FALSE` checks the
protocol under that limit, `TRUE` without it.

### ReportAdmission

`Save`/`CreateJob` are the two statements of a first save, the deferred attempt
then enters at `fetch`.  First is a save whose request read no row
(`app/api/reports/route.ts:642`): a tab's AI resave names the room
(`lib/report-ai-completion.ts:95`), so once the report has gone it is a first
save again and finds or creates a job under the same `source_ref`.  `Save` and
`Replace` are therefore open to every report at every time, those that a DELETE
is just removing and those whose row has come back meanwhile included; `Resave`
is the resave that read a row which has gone by its upsert and comes back without
a room.  `SweepTick`/`TakeNext` are the sweep, `ReuseCheck`,
`ReuseClaim`, `Recheck`, `Replace` a save into a room whose cycle has ended.
`Fetch` ... `RecordFailure` are `processReportAdmissionJob` statement by
statement: `Evaluate` is the gate's pre-check, `AcceptTx` its transaction,
`Reject` the insertion of a negative decision, `Record` the bare UPDATE of
`decision_id`, `Finalize` the batch with the provenance, `Promote` the hand-over.
`DeleteReport`, `DelCount`, `DelJob`, `DelDecisions` are the DELETE route, whose
request may have read the row long before.  A source is a triple of account,
device and report (`buildReportAdmissionSourceRef`): one report saved under two
accounts is two sources.  Ids are drawn from `JobId` and `DecisionId` and never
used again, so that an attempt may hold the id of a job that has gone; the
foreign keys (provenance follows its decision, a job's `decision_id` is nulled
and cannot name a missing decision, a promotion row blocks the delete) are in
`Purge`, `CanName` and `DelDecisions`.  Two histories, which no step reads but
to name its own mode, serve the properties: `resaved` has the reports that were
saved again once they had gone or while a request was about to reuse their room,
`raced` those that were inserted again while their own DELETE was running.  Near-duplicates are texts with equal
`FamilyOf`; quality is membership in `Admissible`.  REVIEW is handled like
REJECT by every operation modelled.  `Deletable` are the reports whose owners may
use DELETE; what is said of the others holds beside it.

`AdmittedCorpus` has neither jobs nor workers.  Its state is what readers of the
corpus and owners of reports see: the saved reports, those that are owed a
decision, those whose DELETE is running, the texts in force, those taken out and
those refused (`Owed`, `Leaving`, `InForce`, `TakenOut`, `Refused` in the
mapping).  `Admit` looks at the family, `Restore` at the text only, `Settle` at
whether there is a decision; `Remove`, `Release`, `Forget`, `EndDelete` are an
owner's DELETE, the only way out for an accepted text, and `Replace` is open to
reports that are owed nothing.

### MatchSnapshot

`Start` ... `Write` are the reads and the write of one resolution in the code's
order: flag, clock, generation, row, maturity window, candidate query, exact-hash
fallback (two statements), classification, upsert.  `Abort` is an exception or
crash at any of them.  `Accept`, `Index`, `Deactivate`, `Reactivate`, `Exempt`,
`SetFlag`, `Tick`, `DropSnapshot` are the rest of the system, one committed
transaction each.  `through` and `seen` are history variables: what could be
seen, by its age, during the whole of a call, and what was promoted at some
moment of it.  `Exemptable` are the backings whose account may be exempt from
the delay.  The properties compare an answer with them, so that an answer is
held only to what a resolution running in one instant could have shown.

### SavedReport

A request is `ReadReport` (what the save decides on), `Resolve` (the score and
the generation it was computed under, whatever the flag says at that moment),
then `Save`, the upsert `SAVE_REPORT_SQL`: `Incoming` is what the request would
store, `Upsert` what the ON CONFLICT clause makes of it, with
`KeepsStoredReady` for the AI columns and `StatusToPersist`, `Withholds` for the
route's own merging of the evaluation status.  `SaveRefused` is the size limit.
`RetryFails`, `RetryFits`, `RetryTooLarge` are the branches of the AI retry
route, one transaction.  A finaliser is the save's deferred run or a sweep that
claimed the row (`Claim`); it reads a score and its generation (`FinalRead`) and
writes with a compare-and-set on "pending" and the generation (`FinalWrite`).
`FinalThrows` falls back once to the score without evidence, `FinalDies` is a
crash, `ClaimGoesStale` the passing of the claim's age.  Scores, analyses and
sizes are small enumerations: who computed a result and how large it is is all
the guards look at.

### ReportRooms

A report id is made by one check, which fixes `RoomOf` and the end of its cycle;
which session saves it, first or later, is free, since a browser may switch
accounts under an open tab.  `ReadReport` is the read that decides who may write
(`MayWrite`) and whether the save is a first one, `ClaimVacant`, `ClaimExpired`,
`ClaimFails` the outcomes of quota, admission check and
`insertReportWithRoomCheck`, `Resave` its update of a row that exists.  `Saved`
is the upsert with its unguarded owner.  `Capture` and `Link` are the deferred
capture of the text and its link to the row, `DeferredEnds` its failure.
`SelectOwned`, `DeleteRow`, `DeleteDocument` are DELETE of one report;
`ClaimAnonymous` is the login; `DeleteReports`, `DeleteIdentities`, `DeleteUser`,
`DeletionStops` the deletion of an account, one at a time for each account.
Nothing is kept apart: every request may run next to every other and to every
deletion.  What the code leaves to chance is recorded in three histories, which
no step reads: `doubled` has the rooms in which a resave or a login, which do not
look at rooms, put a report beside another; `late` the accounts for which
something was written while they were being deleted; `stranded` the identities
whose last name a step took from a row without having seen it.  Section 5 has how
each comes about, and the properties say that nothing else goes wrong.

### EmailVerification

A send is `SendSession`, `SendMarker`, `SendLimits`, `SendIssue` (revoke and
insert in one batch), then `MailLeaves` and `Accepted` or `DeliveryFails`, which
revokes the code by its id.  A mail may leave although the provider reports a
failure.  A verify is `VerifySession`, `VerifyFind`, `VerifyStamp` and
`VerifyConsume`, the batch in which every later statement is conditional on the
consumption; `VerifyBusy` retries with a new stamp.  `EditSession` and
`EditWrite` are PATCH of the address: a change voids the marker, the codes and
the fingerprint, unless the probe for the marker's column throws
(`usersHaveEmailVerifiedAtColumn` answers false then), and an unchanged address
voids nothing.  `Prune` deletes dead rows.  A millisecond is a tick, which two
attempts may share, and PATCHes of one account overlap freely.  `slipped` is a
history of the accounts that have so come to an address they have not proved, by
one of three slips (section 5), until a change of address voids what was left.
`AddressProof` knows neither requests nor time: a code is live for the address it
was issued for, and proving, moving, slipping and issuing are one step each.  `Promise` is its
instance: `ProvedAddress` is the fingerprint of a verified account, `LiveCodes`
the outstanding challenges with their addresses.

### OwnerLinks

`CreateLink` and `Observe` are `upsertOwnerLinkEvidence` without and with a link
row, `WithdrawEvidence` and `WithdrawLink` the two withdrawals, each one write
transaction: link, evidence, events and both generations.  `Resolved` and
`Strongest` are `resolveLinkStatusFromEvidence`.  Of the append-only log the
newest event of each subject is kept: no code reads older ones except to list
them, and an event's other fields follow from its type.  A review is
`StartReview`, `ReadGeneration` for either account, `ReadLink`, `ReadEvidence`.
The route returns the generations with the review; a snapshot stamped with one
of them is the reader the schema announces.  `KeepsEvidence` lets callers
withdraw a link and leave its evidence (section 5).

### TokenBucket

A check is `ReadClock`, then `Check`, the one UPSERT: `Insert`, `Take` or
`Refuse`, with `Refilled` for `REFILLED_TOKENS_EXPR`.  Tokens are counted in
units of 1 / `Interval` of a token, which makes the refill integer arithmetic.
`Cleanup` is the deletion of a row nobody has touched for `StaleAfter`.  `Tick`
is held back by a check that waits for the database for `MaxDelay`.
`OpenWindow` starts the measured window anywhere, so that `WindowBound` speaks
of every window of time.

## 3. Runs

| Run | Shows |
|---|---|
| `promotion` | single owner, the cap, terminal rows final, the creator mark permanent, refinement of `PromotionOutcome`, and every ACCEPT settled while promotion stays enabled |
| `admission` | one active representation per text, a succeeded job names an existing decision of its report, no report that its owner keeps is replaced undecided, refinement of `AdmittedCorpus`: an accepted text goes only while the DELETE of its own report is running; all with reports saved again whenever they have gone |
| `admission_live` | every job is decided in spite of two faults, unless its report leaves or is saved again under its own DELETE |
| `snapshot` | two resolutions race one source's whole life, beside a text another account submitted long ago: nothing visible is missed, nothing withdrawn or immature is shown |
| `snapshot_text` | one text under two backings, found by the exact-hash fallback only, while the flag and the exemptions change: nothing that has served its delay is missed |
| `saved_report` | saves, AI retries and finalisers over one row: the two AI halves agree, a ready result survives, no score while pending, pending left once, generations do not fall |
| `saved_report_live` | a pending report is finalised in the end |
| `rooms` | one report per room, active reports and owners are kept, no identity without its report, nothing outlives its account, whatever saves, logins and deletions run together |
| `email` | one live code, settled codes stay settled, refinement of `AddressProof`: a verified account has proved the address it has by a mail that left, or it slipped in one of three ways |
| `owner_links` | links follow their evidence, the log tells the rows, a review whose generation has not moved is right |
| `admission_durable`, `saved_report_final` | two places where a comment of the code promises more than the code does; TLC finds the counterexample (section 5) |

Bounds.  *Promotion*: three decisions - one that is indexed, one whose text is
not retained, one a legacy row at the cap - and any set of texts indexed before
(so that `duplicate` links happen); two sweeps, one request, a cap of two (a
failure that is retried and one that dead-letters), batches of two, one crash.
*Admission*: two reports of one text, one of them deletable, both saved again
without bound, two jobs and two decisions (an accept and a reject, or an accept
after a deactivation), one request, one sweep, one fault; 1,075,619 distinct
states.  With one request, only
`Resave` and the sweep run next to a DELETE there; that another request saves the
report then, and creates or finds a job, was checked once, on one deletable report
with two requests, two jobs, three decisions and no sweep: TypeOK,
SucceededIsDecided, UndecidedKeepsReport, AdmissionKeepsPromise and
AcceptGoesWithReport hold on all 511,764 states, and SucceededIsDecided fails
without its exception for `raced`.  The live run has one report, which is deleted
and comes back, one job, four decisions, as many as its attempts can make, and
two faults, so that the deferred attempt and a sweep both come to nothing; its
text is rejected, because withdrawing, restoring and promoting an accepted one
multiplies the states and ends no attempt.  With two jobs and one fault it passes
as well (688,141 states).  *Snapshots*: one backing, one text that is always there and two
concurrent resolutions, or two backings and one resolution at a time; a delay of
one tick with times 0 and 1, so that a source is immature, then mature;
generations up to three by admin actions (`MaxGeneration` stops only
deactivations and reactivations, a promotion's bump is never refused), enough
for deactivate, reactivate, deactivate.  A caller starts again and again.
*SavedReport*: two requests, each of which saves and retries without bound, two
finalisers, one move of the generation (any number of them would only repeat old
and new), two faults; the sizes are chosen so that a large analysis fits beside
nothing and everything else fits.  *Rooms*: a report and a report from before accounts were required, both for one
room, two accounts of which one may be deleted, two requests, one captured text
at a time: 1,812,151 states.  Two instances that are too large for a regular run
were checked once, with all the properties: two identities (9,572,962 states) and
both accounts leaving (8,349,473).  *Email*: one account, two addresses, two codes
(a live one and a superseded one, or one to be issued), two requests, times 0 to 2
with a life, a cooldown and a window of one tick: 279,115 states; three codes
passed once as well.  *Owner links*: two links that share an
account, one establishing and one supporting evidence, generations up to four:
create, add, withdraw, observe again.  Every race the properties speak of needs
two or three actors and one subject, and the proofs remove the bounds for all
but the liveness properties.  Symmetry is used only on
interchangeable actors and ids, in runs without liveness properties.

Deadlock is checked except for ReportAdmission and ReportRooms, which may stop:
their reports, decision ids and identities are used up.

Fairness.  Weak fairness of a worker's own next statement (a process that has
not died goes on; it may still crash or throw, which is bounded), of the
sweeps' ticks (the cron keeps invoking them) and of the lapse of an abandoned
claim (time passes).  Nothing is assumed of users, administrators, or of any
particular outcome of a statement.  `EveryAcceptSettles` is conditional on the
flag staying on; a flag that is switched off stops the queue by design.
`PendingIsFinalized` needs no assumption on the flag, which the sweep does not
read, but its run has scores that fit (section 5 has the reports that do not).
`EveryJobIsDecided` excepts reports that their owner has removed, and those saved
again while their own DELETE was running, whose job it takes.

## 4. What is proved

For every value of the constants:

| Module | Without assumptions | Under an assumption |
|---|---|---|
| Promotion | `TypeOK`, `CapDecides`, `IndexTells` | `~ClaimsOutlived`: `SingleOwner`, `AttemptsWithinCap`, `SettledIsFinal`, `CreatorMarkIsPermanent`, `GenerationCounts`, refinement `SettlesOnce` |
| ReportAdmission | `TypeOK`, `OneActivePerText`, `SucceededIsDecided`, `UndecidedKeepsReport`, `AcceptGoesWithReport`, refinement `AdmissionKeepsPromise` | `Deletable = {}`: `AcceptedIsDurable` |
| MatchSnapshot | `TypeOK`, `NoWithdrawnMatch`, `NoImmatureMatch`, `NoMissedSubmission`, `NoFalseNegative` | `Ordinary = {}` or `~FlagChanges`: `NoMissedMatch` |
| SavedReport | `TypeOK`, `HalvesAgree`, `PendingShowsNoScore`, `ExplanationMatchesScore`, `TerminalOnce`, `GenerationMonotone`, `ReadyNeverLost` | – |
| ReportRooms | `TypeOK`, `ActiveReportKept`, `OneReportPerRoom`, `OwnerKept`, `NothingOutlivesAccount`, `LinkedIdentityHasReport` | – |
| EmailVerification | `TypeOK`, `OneLiveCode`, `VerifiedIsWhole`, `FingerprintWasMailed`, `SettledStays`, `MarkerProvesEmail`, refinement `AddressIsProved` | – |
| OwnerLinks | `TypeOK`, `StampedReviewIsCurrent`, `ActiveIsBacked`, `EvidenceLogTells` | `~KeepsEvidence`: `RowFollowsEvidence`, `LogTells` |
| TokenBucket | – | `BucketAssumption`: `WindowBound`, `RetryAfterSuffices` |

Each assumption excludes a behaviour that section 5 describes, except that
`BucketAssumption` is a condition on constants that the code meets.  Where a
property fails without its assumption, the middle column has what is left of it:
`AcceptGoesWithReport` of `AcceptedIsDurable`, `NoMissedSubmission` and
`NoFalseNegative` of `NoMissedMatch`,
`ActiveIsBacked` and `EvidenceLogTells` of `RowFollowsEvidence` and `LogTells`,
`IndexTells` of `SettledIsFinal`.  The other properties have their exceptions
inside, where each can be read: `NoImmatureMatch` speaks of backings outside
`Exemptable`, since a removed exemption leaves a stored match;
`UndecidedKeepsReport` of reports outside `Deletable` and `resaved`;
`SucceededIsDecided`, `AcceptGoesWithReport` and `EveryJobIsDecided` except
`raced`; `OneReportPerRoom` the rooms in `doubled`, `NothingOutlivesAccount` the
accounts in `late`, `LinkedIdentityHasReport` the identities in `stranded`,
`MarkerProvesEmail` the accounts in `slipped`.  A history names only what a step
of one of the kinds in section 5 has done; where none of these steps happens it
stays empty and the property is unconditional.  The only axioms are the modules'
named assumptions about their constants, which TLC evaluates in every run.

Most of the runs keep to the assumptions; that the middle column holds without
them was looked at with TLC on variants of the runs' constants before it was
proved.  With `ClaimsOutlived` and a bound on attempts and generation,
`IndexTells` holds on all 495,372 distinct states; with `KeepsEvidence`,
`ActiveIsBacked` and `EvidenceLogTells` on 220,011; with one caller and flag and exemptions both free,
`NoMissedSubmission` and `NoFalseNegative` on 132,102.

*Promotion.*  `SingleOwner` is not inductive: a worker about to claim must be
unable to take a row in somebody's hands.  `WorkedRowsAreHeld` says that a row
under work is open, below the cap and freshly claimed, which is exactly what
`Claimable` refuses.  `RowHistory` (no attempts before the first conclusion, a
link only with the index) carries the creator mark.  The refinement uses both:
an indexed row under work would be settled twice.  `IndexTells` needs neither,
because the branch an attempt takes is decided by the retained text alone
(`Branch`): of two workers on one row, one cannot index it and the other skip
it.  `GenerationCounts` uses the ownership again: a row under work is not yet in
the index, whereas after an outlived claim it is indexed and counted twice.

*ReportAdmission.*  `Rows` ties decisions, jobs and workers to one report and
says that no job names a decision that is gone; `Deletion` that whoever deletes
the decisions of a report has removed its job first and that no new one has been
decided since, unless the report was saved again meanwhile; `Rooms` that a room
is taken over only after the deferred attempts of its report's first saves are
over, of a report that its owner keeps and that was saved in one go (`Kept`).  A
replacement counts and deletes in one transaction, so it deletes no ACCEPT;
whatever removes one is the DELETE route, whose count, delete, delete are apart
(`AcceptGoesWithReport`).  The refinement adds that a worker about to accept has
a text that passed the gates and that only decisions that were made are withdrawn
(`Gated`).  Steps of attempts and claims do not show (`AttemptsUnseen`); one
lemma for each of the others names the step of `AdmittedCorpus` it is.  A report
is owed a decision by its undecided job (`Owed`), so that a save, a job written
by a stale attempt and a DELETE each show as `Hold`, `Enter`, `Settle`,
`Release` or `Forget`; none of this needs to know how often a report was saved.

*MatchSnapshot.*  What a row or a running resolution holds was promoted
(`AllPromoted`), ripe or once exempt (`AllRipe`) and complete (`AllCovered`) at the generation
it is stamped with; whatever changes what is promoted changes the generation
(lemma `Generations`); no stamp is ahead of the generation (`Stamps`).  A
resolution that reuses a row read a generation no newer than the stamp, so
nothing happened between its own read and the one the stamp stands for.
Maturity has no generation: `AllCovered` excepts what is not ripe at the row's
clock, and `CheckWindow` covers precisely that exception.  `Corpus` (at most one
active backing of a text) rules out that a second backing hides the withdrawal
of the first.  A text of an ordinary submission is found under any flag
(`OrdinaryFound`), which is `NoMissedSubmission`, and NO_MATCH is only ever said
of an empty answer (`VerdictTells`).  From these `NoFalseNegative` follows by cases: with an
ordinary submission the verdict is never NO_MATCH, without one `NoMissedMatch`
applies, whatever the flag does.  While the flag is off only such texts can be seen, so
`AllCovered` is needed, and holds, only where the flag is on or a result without
the corpus is stored as DISABLED (`Sighted`).

*SavedReport.*  A request that has read the row knows its status, or that it was
pending before it was finalised (`CarriesStatus`); one that carries "pending"
carries neither a score nor a generation (`CarriesNoScore`), while a terminal
status comes with the generation of its score (`TerminalHasGeneration`), so the
upsert's generation guard stops every late "pending" against a finalised row.
The action properties follow from these step by step.

*ReportRooms.*  Four properties, four small strengthenings, no assumption.  A row
is in no room or in that of its report's check (`RoomsOfCheck`), so a save puts a
report only into the room that its transaction has looked at, and a resave or a
login can only crowd a room, which `doubled` records.  Past its first statement
the deletion of an account has left it no report, unless something was written
since (`NothingOwned`); so a row that ends without an owner, and a text that
stays, was written late.  A request that saves has seen no owner but its own
account or none (`SeenOwn`): whoever takes a report over had seen another owner
than the one it takes it from.  What is captured is attributed to an account
(`CapturedForAccount`), and whoever removes a row knows its identity, finds it by
the account or records it as stranded.  `ActiveReportKept` needs the types only:
the room claim looks at the cycle inside its transaction.  Most steps move no
row, room or identity (`InPlaceSteps`), and each property has one step for every
action that does.

*EmailVerification.*  A change of address that voids revokes what is outstanding
in its own transaction, so a code that is live when a verify consumes it was
mailed to the address the account still has, unless the account has slipped
(`LiveIsCurrent`); only a change that voids takes an account out of `slipped`
(`SlippedStep`).  With the same invariant every step maps to a step of
`AddressProof` or stutters, one lemma for each action: what it does to the set of
live codes is a code handed out (`CodeHanded`), one that dies (`CodeDies`) or all
of them gone (`CodesRevoked`).  A verify proves in its last step only, and finds
its code live there or slips; an edit is a move, a slip or a stutter
(`RefineEdit`).

*OwnerLinks.*  `RowFollowsEvidence` needs that an active link is established and
that without a link there is no evidence (`Established`, `Empty`), and that the
strongest confidence is a live row's (`Strong`); these hold also where evidence
is kept and give `ActiveIsBacked`.  The log of the evidence (`EvidenceLog`)
follows each row alone; that of the links (`LinkLog`) needs `RowFollowsEvidence`.
For
`StampedReviewIsCurrent`, no stamp is ahead of its generation (`Stamps`), and
what a review has read of the link is right while one of its stamps is current
(`ReadIsCurrent`, `SawEstablished`): every writer moves the generation of both
accounts or leaves the link's status alone.

*TokenBucket.*  `WindowBound` says that no window of time sees more checks
allowed than a full bucket and the refill of the window; `RetryAfterSuffices`
that a client who waits as told is not refused unless another check was allowed
first.  The argument is a potential: tokens less what the clock has paid for,
`tokens - last_refill * MaxTokens`, loses `Interval` with every check allowed
and is never raised, even when `last_refill` moves back and tokens fall below
zero (`Budget`, `Promised`).  `Floor` bounds how far they fall, and `Evicted`
uses it: a row as old as `StaleAfter` would be full again for every check under
way, so beginning a new one gives nothing away.  `BucketAssumption` is what that
takes, `Interval + 2 * MaxDelay <= StaleAfter`; the limiter's intervals are
between one and fifteen minutes and a row is stale after 24 hours.  The bucket
has theorems and no TLC run of its own: its properties are arithmetic over an
unbounded clock.

Only model-checked: `EveryAcceptSettles`, `EveryJobIsDecided` and
`PendingIsFinalized`; liveness is out of the prover's reach.

## 5. Where code and comments differ

Two violation runs with their counterexamples:

1. **Durability** (`admission_durable`).  The DELETE route's count, delete,
   delete can remove an ACCEPT that was committed in between
   (`lib/corpus-admission-report-integration.ts:64-67`).
2. **Final score** (`saved_report_final`).  A resave after the finalisation
   replaces a score that includes the selective corpus by one that does not,
   under the carried "completed" status (`app/api/reports/route.ts:1332`).
   `lib/report-primary-similarity.ts:1137-1141` calls this a regression.

The models also have the following behaviours, which the constants of the runs
exclude or for which no property is stated; a reader who changes the constant
or states one will get a counterexample.

*Admission and promotion*

* A succeeded job can name an ACCEPT without its provenance: the deferred
  attempt, which holds no claim, and a sweep evaluate one report, which then has
  two decisions (`lib/corpus-admission-report-integration.ts:452-459` and
  `:540-541` say that neither happens).
* The failure write of an attempt names the job by id and releases a claim the
  attempt does not own, so two sweeps can process one job without any claim
  being outlived (`:61-63`).
* A DELETE that dies between the row and the job leaves a job whose report is
  gone; the sweep retries it for ever.
* A report that is saved again while its own DELETE is running (`raced`) finds the
  old job, which the DELETE then takes, or gets a new one whose decision the
  DELETE takes; an ACCEPT committed after its count goes while the report is
  saved.  `lib/corpus-admission-report-integration.ts:174-178` calls an existing
  job "a defensive case that should never occur from the live route, which only
  ever calls this once per report via isFirstSaveOfThisReport": a report that has
  gone is a first save once more.
* A report that comes back keeps its old date, so a request may take its room
  before its new job is created, and the undecided text is gone (`resaved`).
* With `ClaimsOutlived = TRUE`, `SettledIsFinal` fails: the terminal guard is a
  read, not a condition of the indexing UPDATE
  (`lib/corpus-admission-promotion.ts:525-532`).
* A reactivation compares hashes, the gate families
  (`lib/corpus-admission-family.ts:4`): two near-duplicates can be active.

*Snapshots*

* If a report also matches a submission (`Ordinary`), its row computed with the
  flag off is MATCHED, hence reused with the flag on, although
  `lib/report-historical-match.ts:90-92` says that turning the flag on cannot
  leave a match suppressed.
* Exemptions change eligibility without a bump (`:121` says every eligibility
  change bumps): what is eligible only by an exemption is missed, or shown, until
  the generation moves.

*Saved report*

* The finaliser measures a report against the whole ceiling, on a read made
  before its write, so the reserve that `lib/ai-unavailable-state.ts:86-104` and
  `app/api/reports/route.ts:489-498` keep for a later AI marker can be used up;
  the cause is `lib/report-evidence-interpretation.ts:304-335`.
* A report whose final score no longer fits beside its AI result stays pending
  and returns to the head of the sweep's oldest-first batch.

*Rooms and deletion* (recorded in `late`, `stranded` and `doubled`)

* A save, a capture or a login under way when its account is deleted leaves a
  report or a text behind (`lib/account-deletion.ts:132-257`), although
  `app/api/auth/me/route.ts:366-367` says "This account's own data is gone either
  way": `late`.
* Who may write is decided by a read, and the upsert sets the owner without
  looking at it (`COALESCE(excluded.user_id, ...)`, `app/api/reports/route.ts:178`).
  Two sessions of one browser that both read no row, or a row without owner, both
  write it and the later takes it over.  The comment there says "Ownership itself
  can therefore never be transferred away from an existing non-NULL owner by any
  resave" (`:710-711`); the first-save branch and the time between check and
  upsert make that untrue.
* After a DELETE, or after the account has gone, a tab that still has the report
  saves it again: a first save with a room for any session that is signed in, or
  by a resave that had read the row an insert without a room and past the quota.
* A DELETE that read the row before the deferred run linked its identity removes
  the row only (`lib/report-deletion.ts:4-11`).  Two first saves of one report
  both link a text, and the second name replaces the first.  A report that was
  taken over is deleted with its new account and leaves the text captured for the
  old one: `stranded`.
* Two reports in one room result from a login that claims an orphan, or a resave
  that takes over a report, whose room its account holds already: `doubled`.
* `lib/report-rooms.ts:46-53` says that an expired report is never deleted; a save
  into its room deletes it.

*E-mail verification* (recorded in `slipped`)

* A change of address whose probe for the marker's column throws, while the
  process has not yet seen the column, writes `users.email` and none of the
  statements that void (`app/api/auth/me/route.ts:240-248`,
  `lib/email-verification.ts:329-339`), although `app/api/auth/me/route.ts:226-231`
  says that voiding and UPDATE "must land atomically".
* A PATCH that decided "same address" against its session commits after another
  one changed the address (`app/api/auth/me/route.ts:239`) and puts the old one
  back without voiding.
* An attempt that did not consume the code takes another's consumption in the
  same millisecond for its own, for the address its session has.

  Each leaves a verified account with an address it has not proved.
* Of two concurrent sends each mails a code and only the later is live
  (`app/api/auth/email-verification/send/route.ts:117-126`); both may pass the
  cooldown and the window count.  A revocation that fails leaves an undelivered
  code live.

*Owner links* (`KeepsEvidence = TRUE`)

* A link that is withdrawn with `withdrawEvidence: false` keeps live evidence of
  HIGH confidence, so it is WITHDRAWN against `lib/owner-link.ts:527-530`; the
  next observation of any signal, also of one that is
  "NEVER able to create, activate, or withdraw" a link
  (`lib/owner-link.ts:124-126`), and even the withdrawal of another evidence
  row, makes it ACTIVE again.  The latter leaves the withdrawal's reason on the row
  and writes no LINK_REACTIVATED event, although
  `lib/owner-link-repo.ts:48-55` says that every transition is appended.
* `decided_by` of a withdrawn link follows every later withdrawal of evidence,
  so it may differ from the actor of the event that withdrew the link.

## 6. Abstractions and what is not modelled

* A write retried on SQLITE_BUSY is one atomic step unless the retry is the
  point (EmailVerification); exhausted retries are a crash (Promotion) or a
  thrown statement (ReportAdmission).
* Texts are model values: hashing, canonicalisation, shingles, scores and the
  quality model are not computed.  Every candidate of a search is assumed to
  meet the matching thresholds.
* Each specification models its neighbours by the transactions they commit: a
  report's job and its promotion, a promotion and the cache, or a row's room
  and its payload are not composed in one specification.
* The token bucket's rounding to a REAL column is left out.
* The deletion of an account removes the admission data of its reports before
  their rows; in ReportAdmission reports are deleted one by one, the row first.
* Server and database clocks agree; feature flags are read where the code reads
  them, in ReportAdmission the admission flag is on.
* Not modelled, with the reasons in `PROJECT.json`: the retention sweep, the
  daily upload quota (`lib/upload-limit.ts` accepts its race in a comment),
  device passports and their ledgers, the client pipeline and the
  browser store, sessions beyond their account, scoring and text algorithms,
  archive and academic search, migrations and tools, UI.  Most of the
  repository's lines are of these kinds - a table of cities, rendering, text
  scoring, importers - and have no state that steps could get wrong.
  `revokeConsentAndCancelPendingAdmissionJobs`,
  `indexDocumentSubmissionIntoCorpus`, `persistRefreshedSimilarity` and
  `selfHealUnifiedSimilarity` have no production caller; neither have the
  writers of owner links, which are modelled because the review reads what they
  write.

## 7. Plan

Done: the three modules of the corpus path, each producer before its consumer;
the row of a saved report and its room; e-mail verification; owner links; the token bucket.

Next, most important first:

1. `CorpusPipeline`: one report from job to another report's answer, composed of
   the three modules; property: what was accepted, promoted and matured is found
   (`AdmittedCorpus` with a find as the specification).
2. Retention as an extension of `ReportAdmission`: no job or decision a worker
   holds is purged under it.
3. Device-passport challenges and ledgers: single use, atomic registration, and
   the passport's generation: `maybeBumpDevicePassportProvenanceGeneration` looks
   for another report of the same account after its own insert, so of two
   concurrent first saves each may find the other and neither bump
   (`lib/device-passport-server.ts:441-455`).
4. The browser's poll for an AI result: it ends, and never shows an older one.
5. A small TLC run of `TokenBucket` beside its proofs.

Theorem to come: that what `AdmittedCorpus` lets in is found, once `CorpusPipeline`
exists.
