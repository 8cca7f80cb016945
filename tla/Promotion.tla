----------------------------- MODULE Promotion -----------------------------
(***************************************************************************)
(* The promotion queue of lib/corpus-admission-promotion.ts: every ACCEPT  *)
(* decision of the admission gate gets one row in                          *)
(* corpus_admission_promotions, and a worker that has claimed the row      *)
(* publishes the decision's retained text into the shared matching index.  *)
(*                                                                         *)
(* Two kinds of workers run concurrently on the same table.  A sweeper is  *)
(* an invocation of the daily promotion sweep: it discovers, normalises    *)
(* and claims a batch in one write transaction and then processes the      *)
(* batch row by row.  A request is an admission job that has just been     *)
(* finalised as ACCEPT: it stages and claims its own row and processes it. *)
(* Each row is processed by several independently committed statements, a  *)
(* worker may die between any two of them, and the only protection is the  *)
(* claimed_at column, which another worker may take over once it is older  *)
(* than five minutes.                                                      *)
(*                                                                         *)
(* claimed_at is abstracted to "none", "fresh" or "stale" (older than the  *)
(* reclaim threshold).  ClaimsOutlived says whether a worker may still be  *)
(* alive when its claim turns stale: nothing in the source bounds the time *)
(* a worker spends on a batch, a host with a five-minute execution limit   *)
(* does.                                                                   *)
(***************************************************************************)
EXTENDS Integers, FiniteSets

CONSTANTS
    Decision,        \* ids of ACCEPT decisions
    Hash,            \* canonical_sha256 values
    HashOf,          \* the canonical hash of each decision's accepted text
    Retained,        \* decisions with a corpus_admission_content_store row
    Legacy,          \* rows left 'failed' at the cap before the cap existed
    Sweeper,         \* sweep invocations
    Request,         \* admission jobs running their immediate promotion
    NoDecision,      \* "no row in hand"
    MaxAttempts,     \* MAX_PROMOTION_ATTEMPTS
    BatchSize,       \* the sweep's LIMIT
    MaxCrashes,      \* bound of the model: workers that die mid-way
    ClaimsOutlived   \* may a claim turn stale under a living worker?

Worker == Sweeper \cup Request

ASSUME PromotionAssumption ==
    /\ HashOf \in [Decision -> Hash]
    /\ Retained \subseteq Decision
    /\ Legacy \subseteq Decision
    /\ NoDecision \notin Decision
    /\ MaxAttempts \in Nat \ {0}
    /\ BatchSize \in Nat \ {0}
    /\ MaxCrashes \in Nat
    /\ ClaimsOutlived \in BOOLEAN
    /\ Sweeper \cap Request = {}

VARIABLES
    enabled,     \* CORPUS_PROMOTION_ENABLED
    accepted,    \* decisions whose ACCEPT has been committed by the gate
    status,      \* the row's status, "none" while there is no row
    attempts,    \* attempt_count
    claim,       \* claimed_at: "none", "fresh" or "stale"
    link,        \* link_type: "none", "new" or "duplicate"
    reps,        \* hashes that have a corpus_document_representations row
    generation,  \* corpus_match_generation
    pc,          \* where each worker is
    todo,        \* claimed rows a worker has still to process
    cur,         \* the row a worker has in hand
    crashes      \* workers that have died so far

row  == <<status, attempts, claim, link>>
work == <<pc, todo, cur>>
vars == <<enabled, accepted, row, reps, generation, work, crashes>>

Open     == {"staged", "failed"}
Terminal == {"indexed", "skipped", "dead_lettered"}
Busy     == {"index", "fail", "skip"}

-----------------------------------------------------------------------------
\* The initial database: no promotion yet, except for rows that failed before
\* MAX_PROMOTION_ATTEMPTS was introduced; some content is already in the index.
Init ==
    /\ enabled \in BOOLEAN
    /\ accepted = Legacy
    /\ status = [d \in Decision |-> IF d \in Legacy THEN "failed" ELSE "none"]
    /\ attempts = [d \in Decision |-> IF d \in Legacy THEN MaxAttempts ELSE 0]
    /\ claim = [d \in Decision |-> "none"]
    /\ link = [d \in Decision |-> "none"]
    /\ reps \in SUBSET Hash
    /\ generation = 0
    /\ pc = [w \in Worker |-> "idle"]
    /\ todo = [w \in Worker |-> {}]
    /\ cur = [w \in Worker |-> NoDecision]
    /\ crashes = 0

\* The admission gate commits an ACCEPT with its accepted representation.
Accept(d) ==
    /\ d \notin accepted
    /\ accepted' = accepted \cup {d}
    /\ UNCHANGED <<enabled, row, reps, generation, work, crashes>>

\* An operator flips CORPUS_PROMOTION_ENABLED.
ToggleFlag ==
    /\ enabled' = ~enabled
    /\ UNCHANGED <<accepted, row, reps, generation, work, crashes>>

-----------------------------------------------------------------------------
\* Mutants of Claimable: the claim is not looked at; a stale claim is never
\* taken over.
Claimable_IgnoresClaim(st, d) ==
    st[d] = "staged" \/ (st[d] = "failed" /\ attempts[d] < MaxAttempts)

Claimable_NeverReclaims(st, d) ==
    /\ st[d] = "staged" \/ (st[d] = "failed" /\ attempts[d] < MaxAttempts)
    /\ claim[d] = "none"

\* A row may be claimed when it is open, under the cap, and nobody holds a
\* claim younger than the threshold.
Claimable(st, d) ==
    /\ st[d] = "staged" \/ (st[d] = "failed" /\ attempts[d] < MaxAttempts)
    /\ claim[d] # "fresh"

\* Every choice the sweep's LIMIT can make among the rows S.
Batches(S) ==
    {T \in SUBSET S : \/ T = S /\ Cardinality(S) <= BatchSize
                      \/ Cardinality(T) = BatchSize}

\* The immediate path makes sure the row exists ...
StageDecision(w, d) ==
    /\ enabled
    /\ pc[w] = "idle"
    /\ d \in accepted
    /\ status' = IF status[d] = "none" THEN [status EXCEPT ![d] = "staged"] ELSE status
    /\ pc' = [pc EXCEPT ![w] = "claiming"]
    /\ cur' = [cur EXCEPT ![w] = d]
    /\ UNCHANGED <<enabled, accepted, attempts, claim, link, reps, generation, todo, crashes>>

\* Mutant of ClaimDecision: the worker processes the row it staged, whoever
\* holds the claim.
ClaimDecision_Unconditional(w) ==
    /\ pc[w] = "claiming"
    /\ claim' = [claim EXCEPT ![cur[w]] = "fresh"]
    /\ todo' = [todo EXCEPT ![w] = {cur[w]}]
    /\ pc' = [pc EXCEPT ![w] = "loop"]
    /\ cur' = [cur EXCEPT ![w] = NoDecision]
    /\ UNCHANGED <<enabled, accepted, status, attempts, link, reps, generation, crashes>>

\* ... and then claims it with one conditional UPDATE, or leaves it to whoever
\* holds the claim.
ClaimDecision(w) ==
    LET d == cur[w] IN
    /\ pc[w] = "claiming"
    /\ IF Claimable(status, d)
       THEN /\ claim' = [claim EXCEPT ![d] = "fresh"]
            /\ todo' = [todo EXCEPT ![w] = {d}]
            /\ pc' = [pc EXCEPT ![w] = "loop"]
       ELSE /\ pc' = [pc EXCEPT ![w] = "idle"]
            /\ UNCHANGED <<claim, todo>>
    /\ cur' = [cur EXCEPT ![w] = NoDecision]
    /\ UNCHANGED <<enabled, accepted, status, attempts, link, reps, generation, crashes>>

Undiscovered == {d \in accepted : status[d] = "none"}

OverCap(d) == status[d] = "failed" /\ attempts[d] >= MaxAttempts /\ claim[d] # "fresh"

\* The statuses after the sweep has staged the rows of new and normalised.
Swept(new) ==
    [d \in Decision |-> IF d \in new THEN "staged"
                        ELSE IF OverCap(d) THEN "dead_lettered" ELSE status[d]]

\* One sweep transaction: discover, normalise, claim.  ORDER BY updated_at only
\* decides which of the claimable rows fill the LIMIT.
SweepTick(w) ==
    /\ enabled
    /\ pc[w] = "idle"
    /\ \E new \in Batches(Undiscovered) :
       \E mine \in Batches({d \in Decision : Claimable(Swept(new), d)}) :
          /\ status' = Swept(new)
          /\ claim' = [d \in Decision |-> IF d \in mine THEN "fresh"
                                          ELSE IF OverCap(d) THEN "none" ELSE claim[d]]
          /\ todo' = [todo EXCEPT ![w] = mine]
          /\ pc' = [pc EXCEPT ![w] = IF mine = {} THEN "idle" ELSE "loop"]
    /\ UNCHANGED <<enabled, accepted, attempts, link, reps, generation, cur, crashes>>

-----------------------------------------------------------------------------
\* The worker is done with the row in hand and turns to the next one.
Advance(w) ==
    /\ pc' = [pc EXCEPT ![w] = IF todo[w] = {} THEN "idle" ELSE "loop"]
    /\ cur' = [cur EXCEPT ![w] = NoDecision]
    /\ UNCHANGED todo

\* processCorpusAdmissionPromotion reads the row once.  A terminal row is left
\* alone; otherwise the branch taken depends on the retained text, which the
\* gate wrote together with the decision and nobody changes.
ReadRow(w, d) ==
    /\ pc[w] = "loop"
    /\ d \in todo[w]
    /\ todo' = [todo EXCEPT ![w] = @ \ {d}]
    /\ IF status[d] \in Terminal
       THEN /\ pc' = [pc EXCEPT ![w] = IF todo[w] = {d} THEN "idle" ELSE "loop"]
            /\ UNCHANGED cur
       ELSE /\ pc' = [pc EXCEPT ![w] = IF d \in Retained THEN "index" ELSE "skip"]
            /\ cur' = [cur EXCEPT ![w] = d]
    /\ UNCHANGED <<enabled, accepted, row, reps, generation, crashes>>

\* Mutant of IndexCommit: the invalidation is forgotten.
IndexCommit_NoBump(w) ==
    LET d == cur[w] IN
    /\ pc[w] = "index"
    /\ reps' = reps \cup {HashOf[d]}
    /\ link' = [link EXCEPT ![d] = IF HashOf[d] \in reps THEN "duplicate" ELSE "new"]
    /\ status' = [status EXCEPT ![d] = "indexed"]
    /\ attempts' = [attempts EXCEPT ![d] = @ + 1]
    /\ claim' = [claim EXCEPT ![d] = "none"]
    /\ Advance(w)
    /\ UNCHANGED <<enabled, accepted, generation, crashes>>

\* The indexing transaction: find or create the representation, record its
\* shingles, settle the row, bump the generation.  The final UPDATE names the
\* row by id only.
IndexCommit(w) ==
    LET d == cur[w] IN
    /\ pc[w] = "index"
    /\ reps' = reps \cup {HashOf[d]}
    /\ link' = [link EXCEPT ![d] = IF HashOf[d] \in reps THEN "duplicate" ELSE "new"]
    /\ status' = [status EXCEPT ![d] = "indexed"]
    /\ attempts' = [attempts EXCEPT ![d] = @ + 1]
    /\ claim' = [claim EXCEPT ![d] = "none"]
    /\ generation' = generation + 1
    /\ Advance(w)
    /\ UNCHANGED <<enabled, accepted, crashes>>

\* The indexing transaction (or the hash comparison before it) throws and
\* rolls back.
IndexThrows(w) ==
    /\ pc[w] = "index"
    /\ pc' = [pc EXCEPT ![w] = "fail"]
    /\ UNCHANGED <<enabled, accepted, row, reps, generation, todo, cur, crashes>>

\* Mutants of RecordFailure: the cap is compared with the count before the
\* increment; the claim is kept and the row cleared to an unknown status.
RecordFailure_OffByOne(w) ==
    LET d == cur[w] IN
    /\ pc[w] = "fail"
    /\ attempts' = [attempts EXCEPT ![d] = @ + 1]
    /\ status' = [status EXCEPT
                    ![d] = IF attempts[d] >= MaxAttempts THEN "dead_lettered" ELSE "failed"]
    /\ claim' = [claim EXCEPT ![d] = "none"]
    /\ Advance(w)
    /\ UNCHANGED <<enabled, accepted, link, reps, generation, crashes>>

RecordFailure_Untyped(w) ==
    LET d == cur[w] IN
    /\ pc[w] = "fail"
    /\ attempts' = [attempts EXCEPT ![d] = @ + 1]
    /\ status' = [status EXCEPT ![d] = "error"]
    /\ Advance(w)
    /\ UNCHANGED <<enabled, accepted, claim, link, reps, generation, crashes>>

\* recordPromotionProcessingFailure: one UPDATE by id decides between 'failed'
\* and 'dead_lettered' from the count it writes.
RecordFailure(w) ==
    LET d == cur[w] IN
    /\ pc[w] = "fail"
    /\ attempts' = [attempts EXCEPT ![d] = @ + 1]
    /\ status' = [status EXCEPT
                    ![d] = IF attempts[d] + 1 >= MaxAttempts THEN "dead_lettered" ELSE "failed"]
    /\ claim' = [claim EXCEPT ![d] = "none"]
    /\ Advance(w)
    /\ UNCHANGED <<enabled, accepted, link, reps, generation, crashes>>

\* No retained text: permanently inapplicable.
RecordSkip(w) ==
    LET d == cur[w] IN
    /\ pc[w] = "skip"
    /\ status' = [status EXCEPT ![d] = "skipped"]
    /\ attempts' = [attempts EXCEPT ![d] = @ + 1]
    /\ claim' = [claim EXCEPT ![d] = "none"]
    /\ Advance(w)
    /\ UNCHANGED <<enabled, accepted, link, reps, generation, crashes>>

-----------------------------------------------------------------------------
\* The invocation dies, or one of its status writes exhausts its retries and
\* the exception abandons the rest of the batch.
Crash(w) ==
    /\ pc[w] # "idle"
    /\ crashes < MaxCrashes
    /\ crashes' = crashes + 1
    /\ pc' = [pc EXCEPT ![w] = "idle"]
    /\ todo' = [todo EXCEPT ![w] = {}]
    /\ cur' = [cur EXCEPT ![w] = NoDecision]
    /\ UNCHANGED <<enabled, accepted, row, reps, generation>>

\* w has claimed d and has not concluded its attempt.
Works(w, d) == d \in todo[w] \/ (pc[w] \in Busy /\ cur[w] = d)

\* Five minutes pass since d was claimed.
ClaimLapses(d) ==
    /\ claim[d] = "fresh"
    /\ ClaimsOutlived \/ \A w \in Worker : ~Works(w, d)
    /\ claim' = [claim EXCEPT ![d] = "stale"]
    /\ UNCHANGED <<enabled, accepted, status, attempts, link, reps, generation, work, crashes>>

Process(w) ==
    \/ \E d \in Decision : ReadRow(w, d)
    \/ IndexCommit(w)
    \/ IndexThrows(w)
    \/ RecordFailure(w)
    \/ RecordSkip(w)

Next ==
    \/ \E d \in Decision : Accept(d) \/ ClaimLapses(d)
    \/ ToggleFlag
    \/ \E w \in Request : (\E d \in Decision : StageDecision(w, d)) \/ ClaimDecision(w)
    \/ \E w \in Sweeper : SweepTick(w)
    \/ \E w \in Worker : Process(w) \/ Crash(w)

Spec == Init /\ [][Next]_vars

\* A living worker goes on, time passes, and cron keeps starting the sweep.
Fairness ==
    /\ \A w \in Worker : WF_vars(Process(w))
    /\ \A w \in Request : WF_vars(ClaimDecision(w))
    /\ \A w \in Sweeper : WF_vars(SweepTick(w))
    /\ \A d \in Decision : WF_vars(ClaimLapses(d))

FairSpec == Spec /\ Fairness

-----------------------------------------------------------------------------
\* Every column and every worker variable has its type.
TypeOK ==
    /\ enabled \in BOOLEAN
    /\ accepted \subseteq Decision
    /\ status \in [Decision -> {"none"} \cup Open \cup Terminal]
    /\ attempts \in [Decision -> Nat]
    /\ claim \in [Decision -> {"none", "fresh", "stale"}]
    /\ link \in [Decision -> {"none", "new", "duplicate"}]
    /\ reps \subseteq Hash
    /\ generation \in Nat
    /\ pc \in [Worker -> {"idle", "claiming", "loop"} \cup Busy]
    /\ todo \in [Worker -> SUBSET Decision]
    /\ cur \in [Worker -> Decision \cup {NoDecision}]
    /\ crashes \in Nat

\* The claim protocol: no two workers ever work on the same promotion, however
\* sweeps and immediate attempts interleave and whoever dies
\* (stageAndClaimCorpusAdmissionPromotionForDecision, the sweep's claim step).
SingleOwner ==
    \A w1, w2 \in Worker : \A d \in Decision :
        Works(w1, d) /\ Works(w2, d) => w1 = w2

\* The attempt cap, whether or not claims are outlived: a claim is held only on
\* a row that is still open, a failed row is retryable unless it predates the
\* cap, and only the cap dead-letters a row (recordPromotionProcessingFailure,
\* the sweep's normalisation).
CapDecides ==
    \A d \in Decision :
        /\ claim[d] # "none" => status[d] \in Open
        /\ status[d] = "failed" => attempts[d] < MaxAttempts \/ d \in Legacy
        /\ status[d] = "dead_lettered" => attempts[d] >= MaxAttempts

\* No row is attempted more often than the cap, and no row in the index or in
\* the queue without having been accepted first.
AttemptsWithinCap ==
    \A d \in Decision :
        /\ attempts[d] <= MaxAttempts
        /\ status[d] # "none" => d \in accepted

\* The index and the queue agree, whether or not claims are outlived: what reads
\* as indexed is matchable and had its text retained, what is skipped had not,
\* and at most one promotion says that it created a representation
\* (indexPromotionAtomically, the link_type it records).
IndexTells ==
    /\ \A d \in Decision :
        /\ status[d] = "indexed" => link[d] # "none"
        /\ link[d] # "none" => d \in Retained /\ HashOf[d] \in reps
        /\ status[d] = "skipped" => d \notin Retained
    /\ \A d, e \in Decision :
        link[d] = "new" /\ link[e] = "new" /\ HashOf[d] = HashOf[e] => d = e

\* Snapshots are invalidated once for every promotion in the index: the match
\* generation counts them (bumpCorpusMatchGeneration, in the same transaction).
Indexed == {d \in Decision : link[d] # "none"}
GenerationCounts == generation = Cardinality(Indexed)

\* A promotion that created a representation stays marked as its creator:
\* admissionEligibilitySql treats a representation without such a promotion as
\* legacy content, which an admin's deactivation cannot hide.
CreatorMarkIsPermanent ==
    [][\A d \in Decision : link[d] = "new" => link'[d] = "new"]_vars

\* A terminal row is never written again: not its status, its attempt count or
\* its link (the terminal guard of processCorpusAdmissionPromotion).
SettledIsFinal ==
    [][\A d \in Decision :
         status[d] \in Terminal =>
            status'[d] = status[d] /\ attempts'[d] = attempts[d] /\ link'[d] = link[d]]_vars

\* Once promotion stays enabled, every ACCEPT is eventually settled: by its own
\* immediate attempt, by a sweep, or by a later sweep after a worker died.
EveryAcceptSettles ==
    <>[]enabled => \A d \in Decision : d \in accepted ~> status[d] \in Terminal

\* The abstract promise, for the status column read as an outcome.
Outcome ==
    INSTANCE PromotionOutcome WITH
        outcome <- [d \in Decision |-> IF status[d] \in Terminal THEN status[d] ELSE "open"]

SettlesOnce == Outcome!Spec
=============================================================================
