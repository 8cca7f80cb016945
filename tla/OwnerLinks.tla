----------------------------- MODULE OwnerLinks -----------------------------
(***************************************************************************)
(* Direct owner links between two accounts (lib/owner-link-repo.ts): the   *)
(* link row, its evidence rows, the append-only event log, one generation  *)
(* per account, and the admin review that reads them                       *)
(* (lib/owner-review.ts).                                                  *)
(*                                                                         *)
(* Each writer is one write transaction, hence one action; only the review *)
(* is a sequence of reads that writers come between.  A pair is a set of   *)
(* two accounts; an evidence is a signal type with its fingerprint, the    *)
(* upsert key within a pair.  Of the event log the newest event of each    *)
(* subject is kept: the shape of an event is fixed by its type, so that    *)
(* what the log says of the present is its newest event.  Left out: times, *)
(* counts and details, which nothing decides on; the HMAC key, without     *)
(* which nothing is written; the creator of an evidence row.  Production   *)
(* calls the review only: the writers are a foundation with tests.         *)
(***************************************************************************)
EXTENDS Integers

CONSTANTS
    Account,
    Pair,
    Evidence,
    Bound,           \* evidence whose signal type is owner-bound
    Reviewer,
    KeepsEvidence,   \* TRUE: callers also pass withdrawEvidence: false
    MaxGeneration    \* bound of the model: link_generation

ASSUME OwnerLinksAssumption ==
    /\ \A p \in Pair : p \subseteq Account /\ p # {}
    /\ Bound \subseteq Evidence
    /\ KeepsEvidence \in BOOLEAN
    /\ MaxGeneration \in Nat

Confidence == {"LOW", "MEDIUM", "HIGH"}
Actor == {"SYSTEM", "ADMIN"}
CallerReason == {"REVOKED", "SUPERSEDED"}     \* two of the controlled vocabulary
Automatic == "NO_QUALIFYING_EVIDENCE"
Reason == CallerReason \cup {Automatic, "none"}
State == {"none", "ACTIVE", "WITHDRAWN"}

VARIABLES
    link,        \* account_owner_links
    ev,          \* each evidence row: "none", "withdrawn" or its confidence
    log,         \* newest LINK_* event of each link
    evlog,       \* new_state of the newest EVIDENCE_* event of each row
    gen,         \* account_owner_link_state.link_generation
    review       \* what each review has read

store == <<link, ev, log, evlog>>
vars == <<store, gen, review>>

Link == [status : State, strongest : Confidence, reason : Reason, decidedBy : Actor]
Event == [state : State, reason : Reason, actor : Actor]
NoLink == [status |-> "none", strongest |-> "LOW", reason |-> "none",
           decidedBy |-> "SYSTEM"]
NoEvent == [state |-> "none", reason |-> "none", actor |-> "SYSTEM"]

Unread == -1
Review == [pc : {"idle", "reading", "evidence", "done"}, pair : SUBSET Account,
           stamp : [Account -> Nat \cup {Unread}],
           status : State, established : BOOLEAN]
IdleReview == [pc |-> "idle", pair |-> {}, stamp |-> [a \in Account |-> Unread],
               status |-> "none", established |-> FALSE]

Init ==
    /\ link = [p \in Pair |-> NoLink]
    /\ ev = [p \in Pair |-> [e \in Evidence |-> "none"]]
    /\ log = [p \in Pair |-> NoEvent]
    /\ evlog = [p \in Pair |-> [e \in Evidence |-> "none"]]
    /\ gen = [a \in Account |-> 0]
    /\ review = [v \in Reviewer |-> IdleReview]

-----------------------------------------------------------------------------
\* resolveLinkStatusFromEvidence of the evidence rows f of one link.
Live(f) == {e \in Evidence : f[e] \in Confidence}
Establishes(f) == \E e \in Bound : f[e] = "HIGH"
Resolved(f) == IF Establishes(f) THEN "ACTIVE" ELSE "WITHDRAWN"

\* A mutant: nothing lives, so nothing is written.
Strongest_Null(f, last) ==
    IF Live(f) = {} THEN "none" ELSE last

Strongest(f, last) ==
    LET C == {f[e] : e \in Live(f)}
    IN  IF "HIGH" \in C THEN "HIGH"
        ELSE IF "MEDIUM" \in C THEN "MEDIUM"
        ELSE IF "LOW" \in C THEN "LOW" ELSE last

Coalesce(r, s) == IF r = "none" THEN s ELSE r

\* A mutant: only the subject's generation moves.
Bump_OneEnd(p) == \E a \in p : gen' = [gen EXCEPT ![a] = @ + 1]

\* bumpGenerationStatements: both endpoints, in the writer's transaction.
Bump(p) == gen' = [a \in Account |-> IF a \in p THEN gen[a] + 1 ELSE gen[a]]

Room(p) == \A a \in p : gen[a] < MaxGeneration

\* upsertOwnerLinkEvidence without a link: only an establishing signal makes
\* one.  decidedBy defaults to SYSTEM.
CreateLink(p, e, by) ==
    /\ link[p].status = "none"
    /\ e \in Bound
    /\ Room(p)
    /\ link' = [link EXCEPT ![p] = [status |-> "ACTIVE", strongest |-> "HIGH",
                                    reason |-> "none", decidedBy |-> by]]
    /\ ev' = [ev EXCEPT ![p] = [ev[p] EXCEPT ![e] = "HIGH"]]
    /\ log' = [log EXCEPT ![p] = [state |-> "ACTIVE", reason |-> "none", actor |-> by]]
    /\ evlog' = [evlog EXCEPT ![p] = [evlog[p] EXCEPT ![e] = "ACTIVE"]]
    /\ Bump(p)
    /\ UNCHANGED review

\* The link row after upsertOwnerLinkEvidence recorded f; by is decidedBy, or
\* else createdBy.  Only a reactivation is attributed to somebody.
Observed(old, f, by) ==
    [status |-> Resolved(f),
     strongest |-> Strongest(f, old.strongest),
     reason |-> IF Establishes(f) THEN "none" ELSE Coalesce(old.reason, Automatic),
     decidedBy |-> IF Establishes(f) /\ old.status = "WITHDRAWN" THEN by ELSE old.decidedBy]

\* A mutant: a revived row revives its link without a word in the log.
Observe_NoLinkEvent(p, e, c, by) ==
    LET f == [ev[p] EXCEPT ![e] = c]
    IN  /\ link[p].status # "none"
        /\ Room(p)
        /\ link' = [link EXCEPT ![p] = Observed(link[p], f, by)]
        /\ ev' = [ev EXCEPT ![p] = f]
        /\ evlog' = [evlog EXCEPT ![p] = [evlog[p] EXCEPT ![e] = "ACTIVE"]]
        /\ Bump(p)
        /\ UNCHANGED <<log, review>>

\* upsertOwnerLinkEvidence with a link: add, refresh or revive the row e, then
\* recompute the link; nothing is logged or bumped unless something changed.
Observe(p, e, c, by) ==
    LET f == [ev[p] EXCEPT ![e] = c]
        fresh == ev[p][e] \notin Confidence
        flips == Resolved(f) # link[p].status
        changed == fresh \/ flips \/ Strongest(f, link[p].strongest) # link[p].strongest
    IN  /\ link[p].status # "none"
        /\ link' = [link EXCEPT ![p] = Observed(link[p], f, by)]
        /\ ev' = [ev EXCEPT ![p] = f]
        /\ log' = IF flips
                  THEN [log EXCEPT ![p] =
                          [state |-> Resolved(f), actor |-> by,
                           reason |-> IF Establishes(f) THEN "none" ELSE Automatic]]
                  ELSE log
        /\ evlog' = IF fresh THEN [evlog EXCEPT ![p] = [evlog[p] EXCEPT ![e] = "ACTIVE"]]
                    ELSE evlog
        /\ IF changed THEN Room(p) /\ Bump(p) ELSE UNCHANGED gen
        /\ UNCHANGED review

\* A mutant: the link is not recomputed.
Reduced_NotRecomputed(old, f, r, by) ==
    [old EXCEPT !.strongest = Strongest(f, old.strongest)]

\* The link row after withdrawOwnerLinkEvidence left f.
Reduced(old, f, r, by) ==
    IF Establishes(f)
    THEN [old EXCEPT !.status = "ACTIVE", !.strongest = Strongest(f, old.strongest)]
    ELSE [status |-> "WITHDRAWN", strongest |-> Strongest(f, old.strongest),
          reason |-> Coalesce(old.reason, r), decidedBy |-> by]

\* withdrawOwnerLinkEvidence: a tombstone, then the link is recomputed.
WithdrawEvidence(p, e, r, by) ==
    LET f == [ev[p] EXCEPT ![e] = "withdrawn"]
    IN  /\ ev[p][e] \in Confidence
        /\ Room(p)
        /\ ev' = [ev EXCEPT ![p] = f]
        /\ link' = [link EXCEPT ![p] = Reduced(link[p], f, r, by)]
        /\ evlog' = [evlog EXCEPT ![p] = [evlog[p] EXCEPT ![e] = "WITHDRAWN"]]
        /\ log' = IF link[p].status = "ACTIVE" /\ ~Establishes(f)
                  THEN [log EXCEPT ![p] = [state |-> "WITHDRAWN", reason |-> r, actor |-> by]]
                  ELSE log
        /\ Bump(p)
        /\ UNCHANGED review

\* withdrawOwnerLink, with its evidence unless the caller keeps it.
WithdrawLink(p, r, by, keep) ==
    LET gone == IF keep THEN {} ELSE Live(ev[p])
    IN  /\ link[p].status = "ACTIVE"
        /\ keep => KeepsEvidence
        /\ Room(p)
        /\ ev' = [ev EXCEPT ![p] =
                    [e \in Evidence |-> IF e \in gone THEN "withdrawn" ELSE ev[p][e]]]
        /\ evlog' = [evlog EXCEPT ![p] =
                       [e \in Evidence |-> IF e \in gone THEN "WITHDRAWN" ELSE evlog[p][e]]]
        /\ link' = [link EXCEPT ![p] = [status |-> "WITHDRAWN", strongest |-> link[p].strongest,
                                        reason |-> r, decidedBy |-> by]]
        /\ log' = [log EXCEPT ![p] = [state |-> "WITHDRAWN", reason |-> r, actor |-> by]]
        /\ Bump(p)
        /\ UNCHANGED review

-----------------------------------------------------------------------------
\* reviewOwnerEvidence: the generations of the two accounts, one after the
\* other, then the link, then its evidence.
StartReview(v, p) ==
    /\ review[v].pc \in {"idle", "done"}
    /\ review' = [review EXCEPT ![v] = [IdleReview EXCEPT !.pc = "reading", !.pair = p]]
    /\ UNCHANGED <<store, gen>>

ReadGeneration(v, a) ==
    /\ review[v].pc = "reading"
    /\ a \in review[v].pair
    /\ review[v].stamp[a] = Unread
    /\ review' = [review EXCEPT ![v] =
                    [review[v] EXCEPT !.stamp = [review[v].stamp EXCEPT ![a] = gen[a]]]]
    /\ UNCHANGED <<store, gen>>

ReadLink(v) ==
    LET s == link[review[v].pair].status
    IN  /\ review[v].pc = "reading"
        /\ \A a \in review[v].pair : review[v].stamp[a] # Unread
        /\ review' = [review EXCEPT ![v] =
             [review[v] EXCEPT !.pc = IF s = "none" THEN "done" ELSE "evidence",
                               !.status = s]]
        /\ UNCHANGED <<store, gen>>

ReadEvidence(v) ==
    /\ review[v].pc = "evidence"
    /\ review' = [review EXCEPT ![v] =
         [review[v] EXCEPT !.pc = "done",
                           !.established = /\ review[v].status = "ACTIVE"
                                           /\ Establishes(ev[review[v].pair])]]
    /\ UNCHANGED <<store, gen>>

-----------------------------------------------------------------------------
Next ==
    \/ \E p \in Pair, e \in Evidence, by \in Actor :
          \/ CreateLink(p, e, by)
          \/ \E c \in Confidence : Observe(p, e, c, by)
          \/ \E r \in CallerReason : WithdrawEvidence(p, e, r, by)
    \/ \E p \in Pair, r \in CallerReason, by \in Actor, keep \in BOOLEAN :
          WithdrawLink(p, r, by, keep)
    \/ \E v \in Reviewer :
          \/ \E p \in Pair : StartReview(v, p)
          \/ \E a \in Account : ReadGeneration(v, a)
          \/ ReadLink(v)
          \/ ReadEvidence(v)

Spec == Init /\ [][Next]_vars

-----------------------------------------------------------------------------
\* Types of the rows, the log, the generations and the reviews.
TypeOK ==
    /\ link \in [Pair -> Link]
    /\ ev \in [Pair -> [Evidence -> {"none", "withdrawn"} \cup Confidence]]
    /\ log \in [Pair -> Event]
    /\ evlog \in [Pair -> [Evidence -> State]]
    /\ gen \in [Account -> Nat]
    /\ review \in [Reviewer -> Review]
    /\ \A v \in Reviewer : review[v].pc # "idle" => review[v].pair \in Pair

\* A link is ACTIVE exactly while an owner-bound row of HIGH confidence lives,
\* and its strongest confidence is that of a live row, whatever the order in
\* which evidence came, lost its confidence, went and came back.  Hence signals
\* that are not owner-bound decide nothing.
RowFollowsEvidence ==
    \A p \in Pair : link[p].status # "none" =>
        /\ link[p].status = Resolved(ev[p])
        /\ link[p].strongest = Strongest(ev[p], link[p].strongest)

\* What of this is left when a caller withdraws a link and keeps its evidence:
\* no link is active on less than an establishing row, and the strongest
\* confidence still is a live row's.
ActiveIsBacked ==
    \A p \in Pair :
        /\ link[p].status = "ACTIVE" => Establishes(ev[p])
        /\ link[p].status # "none" =>
             link[p].strongest = Strongest(ev[p], link[p].strongest)

\* The newest event of an evidence row has its state, whichever writer wrote it.
EvidenceLogTells ==
    \A p \in Pair, e \in Evidence :
        /\ evlog[p][e] = "ACTIVE" <=> ev[p][e] \in Confidence
        /\ evlog[p][e] = "WITHDRAWN" <=> ev[p][e] = "withdrawn"

\* The immutable log tells the present: as above, and the newest event of a link
\* has its state, a withdrawn link has the reason of the event that withdrew it,
\* and an active one is attributed to who activated it.
LogTells ==
    /\ \A p \in Pair :
        /\ log[p].state = link[p].status
        /\ log[p].reason = link[p].reason
        /\ link[p].status = "ACTIVE" => log[p].actor = link[p].decidedBy
    /\ EvidenceLogTells

\* A review, or an answer stamped like one, is still right while the generation
\* it read of either account has not moved, although its reads are separate
\* statements and the two accounts have other links.
StampedReviewIsCurrent ==
    \A v \in Reviewer :
        LET p == review[v].pair
        IN  review[v].pc = "done" /\ (\E a \in p : review[v].stamp[a] = gen[a]) =>
              /\ review[v].status = link[p].status
              /\ review[v].established <=> link[p].status = "ACTIVE"
=============================================================================
