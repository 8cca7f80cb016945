--------------------------- MODULE MatchSnapshot ---------------------------
(***************************************************************************)
(* The cached historical match of one saved report                         *)
(* (lib/report-historical-match.ts), computed from a corpus that changes   *)
(* while it is computed.  A resolution reads the corpus generation, reuses *)
(* the stored row if it is current, and otherwise searches the corpus and  *)
(* overwrites the row, stamped with the generation it read before the      *)
(* search.  Nothing locks the row or the corpus for the length of a        *)
(* resolution: two of them, the promotion sweep, the admin actions and the *)
(* clock interleave with its steps.                                        *)
(*                                                                         *)
(* The report belongs to a signed-in account.  A backing is an accepted    *)
(* decision of another account whose text, RepOf, matches the report's;    *)
(* it counts once its promotion is indexed, while it is not revoked and    *)
(* when it is Delay old.  Passages, version tags (they change with a       *)
(* deployment), the document frequency pruning and the candidate limit are *)
(* left out; so is the account's own content, which the search excludes.   *)
(* The server's and the database's clocks agree.                           *)
(***************************************************************************)
EXTENDS Integers

CONSTANTS
    Backing,
    Rep,                 \* canonical texts, as corpus representations
    RepOf,
    Ordinary,            \* representations another account submitted long ago
    Exact,               \* found only by the exact-hash fallback
    Caller,
    Delay,               \* CORPUS_ACTIVATION_DELAY_DAYS
    MaxTime,             \* bound of the model: the clock
    MaxGeneration,       \* bound of the model: admin actions
    FlagChanges,         \* TRUE: the feature flag is switched on and off
    Exemptable           \* backings of accounts that developers exempt at times

Never == -1 - Delay
Time == 0 .. MaxTime

ASSUME SnapshotAssumption ==
    /\ RepOf \in [Backing -> Rep]
    /\ Ordinary \subseteq Rep
    /\ \A b \in Backing : RepOf[b] \notin Ordinary
    /\ Exact \subseteq Rep
    /\ Delay \in Nat
    /\ MaxTime \in Nat
    /\ MaxGeneration \in Nat
    /\ FlagChanges \in BOOLEAN
    /\ Exemptable \subseteq Backing

VARIABLES
    now,
    flag,        \* CORPUS_SOURCE_MATCHING_ENABLED
    gen,         \* corpus_match_generation
    born,        \* created_at of the backing's decision, or Never
    indexed,     \* backings whose promotion is indexed
    revoked,     \* backings whose accepted representation is revoked
    exempt,      \* backings of accounts exempt from the maturity gate
    row,         \* the report's snapshot row
    call,        \* the resolutions under way
    through,     \* history: what was visible all through a call
    seen         \* history: what was actively promoted during a call

corpus == <<now, flag, gen, born, indexed, revoked, exempt>>
vars   == <<corpus, row, call, through, seen>>

NoRow == [status |-> "ABSENT", found |-> {}, gen |-> 0, asOf |-> 0,
          partial |-> FALSE]

Idle == [pc |-> "idle", flag |-> FALSE, asOf |-> 0, gen |-> 0, row |-> NoRow,
         found |-> {}, status |-> "NONE", partial |-> FALSE]

Init ==
    /\ now = 0 /\ flag \in BOOLEAN /\ gen = 0
    /\ born = [b \in Backing |-> Never]
    /\ indexed = {} /\ revoked = {} /\ exempt = {}
    /\ row = NoRow
    /\ call = [c \in Caller |-> Idle]
    /\ through = [c \in Caller |-> {}]
    /\ seen = [c \in Caller |-> {}]

-----------------------------------------------------------------------------
\* Eligibility.
Live(b) == b \in indexed /\ b \notin revoked

Mature(b, asOf) == born[b] <= asOf - Delay \/ b \in exempt

Eligible(asOf) == {RepOf[b] : b \in {x \in Backing : Live(x) /\ Mature(x, asOf)}}

ActivelyPromoted == {RepOf[b] : b \in {x \in Backing : Live(x)}}

\* What a resolution that ran in one instant would show now, whoever is exempt.
Aged(asOf) == {RepOf[b] : b \in {x \in Backing : Live(x) /\ born[x] <= asOf - Delay}}

Visible == Ordinary \cup IF flag THEN Aged(now) ELSE {}

SameTextActive(b) ==
    \E x \in Backing \ {b} :
        RepOf[x] = RepOf[b] /\ born[x] # Never /\ x \notin revoked

-----------------------------------------------------------------------------
\* The rows of the cache.
\* A mutant: a row survives the bumps.
SnapshotCurrent_AnyGeneration(r, g) ==
    r.status \notin {"ABSENT", "DISABLED"} /\ ~r.partial

\* isSnapshotRowCurrent.
SnapshotCurrent(r, g) ==
    /\ r.status \notin {"ABSENT", "DISABLED"}
    /\ ~r.partial
    /\ r.gen >= g

\* corpusBackingMaturedInWindow, the window half open on the left.
BackingMatured(from, to) ==
    \E b \in indexed : born[b] > from - Delay /\ born[b] <= to - Delay

\* applyCorpusSourceMatchingFlag over rowToResult, with the flag read now.
Shown(found) == IF flag THEN found ELSE found \cap Ordinary

Answer(status, found) ==
    IF status = "FAILED" THEN "UNAVAILABLE"
    ELSE IF Shown(found) = {} THEN "NO_MATCH" ELSE "MATCHED"

\* The resolution c goes on as next.
Become(c, next) == call' = [call EXCEPT ![c] = next]

Return(c, status, found, partial) ==
    Become(c, [Idle EXCEPT !.pc = "done", !.found = Shown(found),
                           !.status = Answer(status, found),
                           !.partial = partial])

-----------------------------------------------------------------------------
\* The history: a call observes every state from its start to its return.
Running(c) == call[c].pc \notin {"idle", "done"}

Observe ==
    /\ through' = [c \in Caller |->
          IF ~Running(c) /\ ~Running(c)' THEN through[c]
          ELSE IF ~Running(c) THEN Visible'
          ELSE IF call'[c] = Idle THEN {}
          ELSE through[c] \cap Visible']
    /\ seen' = [c \in Caller |->
          IF ~Running(c) /\ ~Running(c)' THEN seen[c]
          ELSE IF ~Running(c) THEN ActivelyPromoted'
          ELSE IF call'[c] = Idle THEN {}
          ELSE seen[c] \cup ActivelyPromoted']

-----------------------------------------------------------------------------
\* A resolution: resolvePrimarySimilaritySummary's own reads, then
\* getOrComputeHistoricalMatchSnapshot.
At(c, where) == call[c].pc = where

Start(c) ==
    /\ call[c].pc \in {"idle", "done"}
    /\ Become(c, [Idle EXCEPT !.pc = "clock", !.flag = flag])
    /\ UNCHANGED <<corpus, row>>
    /\ Observe

ReadClock(c) ==
    /\ At(c, "clock")
    /\ Become(c, [call[c] EXCEPT !.pc = "generation", !.asOf = now])
    /\ UNCHANGED <<corpus, row>>
    /\ Observe

ReadGeneration(c) ==
    /\ At(c, "generation")
    /\ Become(c, [call[c] EXCEPT !.pc = "row", !.gen = gen])
    /\ UNCHANGED <<corpus, row>>
    /\ Observe

ReadRow(c) ==
    /\ At(c, "row")
    /\ Become(c, IF SnapshotCurrent(row, call[c].gen)
                 THEN [call[c] EXCEPT !.pc = "window", !.row = row]
                 ELSE [call[c] EXCEPT !.pc = "search"])
    /\ UNCHANGED <<corpus, row>>
    /\ Observe

CheckWindow(c) ==
    /\ At(c, "window")
    /\ LET r == call[c].row IN
       IF BackingMatured(r.asOf, call[c].asOf)
       THEN Become(c, [call[c] EXCEPT !.pc = "search", !.row = NoRow])
       ELSE Return(c, r.status, r.found, r.partial)
    /\ UNCHANGED <<corpus, row>>
    /\ Observe

\* A mutant: the candidate query is not given the maturity cutoff.
Search_NoMaturity(c) ==
    /\ At(c, "search")
    /\ Become(c, [call[c] EXCEPT
                     !.pc = "fallback",
                     !.found = (Ordinary \cup ActivelyPromoted) \ Exact])
    /\ UNCHANGED <<corpus, row>>
    /\ Observe

\* findCandidateCorpusRepresentations.
Search(c) ==
    /\ At(c, "search")
    /\ Become(c, [call[c] EXCEPT
                     !.pc = "fallback",
                     !.found = (Ordinary \cup Eligible(call[c].asOf)) \ Exact])
    /\ UNCHANGED <<corpus, row>>
    /\ Observe

\* The candidate query times out or errors: nothing found, the answer partial.
SearchTimesOut(c) ==
    /\ At(c, "search")
    /\ Become(c, [call[c] EXCEPT !.pc = "classify", !.found = {}, !.partial = TRUE])
    /\ UNCHANGED <<corpus, row>>
    /\ Observe

\* The exact-hash fallback asks for eligibility, then for the promotion.
Fallback(c) ==
    /\ At(c, "fallback")
    /\ Become(c, [call[c] EXCEPT
                     !.pc = "confirm",
                     !.found = @ \cup (Exact \cap (Ordinary \cup Eligible(call[c].asOf)))])
    /\ UNCHANGED <<corpus, row>>
    /\ Observe

Confirm(c) ==
    /\ At(c, "confirm")
    /\ Become(c, [call[c] EXCEPT
                     !.pc = "classify",
                     !.found = {r \in @ : r \in Exact => r \in Ordinary \cup ActivelyPromoted}])
    /\ UNCHANGED <<corpus, row>>
    /\ Observe

\* A mutant: the status of a no-match ignores the flag it ran under.
NoMatchStatus_Reusable(enabled, partial) == "NO_MATCH"

NoMatchStatus(enabled, partial) ==
    IF partial \/ enabled THEN "NO_MATCH" ELSE "DISABLED"

\* The loop over the candidates; with the time budget spent it stops early.
Classify(c) ==
    /\ At(c, "classify")
    /\ \E reached \in SUBSET call[c].found :
          LET kept == IF call[c].flag THEN reached ELSE reached \cap Ordinary
              partial == call[c].partial \/ reached # call[c].found
          IN Become(c, [call[c] EXCEPT
                !.pc = "write", !.found = kept, !.partial = partial,
                !.status = IF kept # {} THEN "MATCHED"
                           ELSE NoMatchStatus(call[c].flag, partial)])
    /\ UNCHANGED <<corpus, row>>
    /\ Observe

\* A mutant: the status shown to the reader is stored.
ComputationFails_StoresAnswer(c) ==
    /\ call[c].pc \in {"search", "fallback", "confirm", "classify"}
    /\ Become(c, [call[c] EXCEPT !.pc = "write", !.found = {},
                                 !.partial = FALSE, !.status = "UNAVAILABLE"])
    /\ UNCHANGED <<corpus, row>>
    /\ Observe

\* The computation throws and is stored as FAILED.
ComputationFails(c) ==
    /\ call[c].pc \in {"search", "fallback", "confirm", "classify"}
    /\ Become(c, [call[c] EXCEPT !.pc = "write", !.found = {},
                                 !.partial = FALSE, !.status = "FAILED"])
    /\ UNCHANGED <<corpus, row>>
    /\ Observe

Write(c) ==
    /\ At(c, "write")
    /\ row' = [status |-> call[c].status, found |-> call[c].found,
               gen |-> call[c].gen, asOf |-> call[c].asOf,
               partial |-> call[c].partial]
    /\ Return(c, call[c].status, call[c].found, call[c].partial)
    /\ UNCHANGED corpus
    /\ Observe

\* A statement outside the computation's own try throws to the caller, or
\* the process dies.
Abort(c) ==
    /\ call[c].pc \notin {"idle", "done"}
    /\ Become(c, Idle)
    /\ UNCHANGED <<corpus, row>>
    /\ Observe

-----------------------------------------------------------------------------
\* The rest of the system.
Tick ==
    /\ now < MaxTime
    /\ now' = now + 1
    /\ UNCHANGED <<flag, gen, born, indexed, revoked, exempt, row, call>>
    /\ Observe

SetFlag ==
    /\ FlagChanges
    /\ flag' = ~flag
    /\ UNCHANGED <<now, gen, born, indexed, revoked, exempt, row, call>>
    /\ Observe

\* The gate accepts a decision: at most one active one per text.
Accept(b) ==
    /\ born[b] = Never
    /\ ~SameTextActive(b)
    /\ born' = [born EXCEPT ![b] = now]
    /\ UNCHANGED <<now, flag, gen, indexed, revoked, exempt, row, call>>
    /\ Observe

\* indexPromotionAtomically; it does not look at revoked_at.
Index(b) ==
    /\ born[b] # Never /\ b \notin indexed
    /\ indexed' = indexed \cup {b}
    /\ gen' = gen + 1
    /\ UNCHANGED <<now, flag, born, revoked, exempt, row, call>>
    /\ Observe

\* A mutant: the targeted delete is taken for the invalidation.
Deactivate_OnlyDeletes(b) ==
    /\ born[b] # Never /\ b \notin revoked
    /\ gen < MaxGeneration
    /\ revoked' = revoked \cup {b}
    /\ row' = IF b \in indexed /\ RepOf[b] \in row.found THEN NoRow ELSE row
    /\ UNCHANGED <<now, flag, gen, born, indexed, exempt, call>>
    /\ Observe

\* deactivateAcceptedRepresentation.
Deactivate(b) ==
    /\ born[b] # Never /\ b \notin revoked
    /\ gen < MaxGeneration
    /\ revoked' = revoked \cup {b}
    /\ row' = IF b \in indexed /\ RepOf[b] \in row.found THEN NoRow ELSE row
    /\ gen' = IF b \in indexed THEN gen + 1 ELSE gen
    /\ UNCHANGED <<now, flag, born, indexed, exempt, call>>
    /\ Observe

\* reactivateAcceptedRepresentation, refused while the text is active.
Reactivate(b) ==
    /\ b \in revoked
    /\ ~SameTextActive(b)
    /\ gen < MaxGeneration
    /\ revoked' = revoked \ {b}
    /\ gen' = IF b \in indexed THEN gen + 1 ELSE gen
    /\ UNCHANGED <<now, flag, born, indexed, exempt, row, call>>
    /\ Observe

\* addCorpusMaturityExemption and removeCorpusMaturityExemption.
Exempt(b) ==
    /\ b \in Exemptable
    /\ exempt' = IF b \in exempt THEN exempt \ {b} ELSE exempt \cup {b}
    /\ UNCHANGED <<now, flag, gen, born, indexed, revoked, row, call>>
    /\ Observe

\* The report is deleted, or its room reused: deleteHistoricalMatchSnapshot.
DropSnapshot ==
    /\ row # NoRow
    /\ row' = NoRow
    /\ UNCHANGED <<corpus, call>>
    /\ Observe

Resolve(c) ==
    \/ Start(c) \/ ReadClock(c) \/ ReadGeneration(c) \/ ReadRow(c)
    \/ CheckWindow(c) \/ Search(c) \/ SearchTimesOut(c) \/ Fallback(c)
    \/ Confirm(c) \/ Classify(c) \/ ComputationFails(c) \/ Write(c) \/ Abort(c)

Change(b) ==
    Accept(b) \/ Index(b) \/ Deactivate(b) \/ Reactivate(b) \/ Exempt(b)

Next ==
    \/ \E c \in Caller : Resolve(c)
    \/ \E b \in Backing : Change(b)
    \/ Tick \/ SetFlag \/ DropSnapshot

Spec == Init /\ [][Next]_vars

-----------------------------------------------------------------------------
\* The types of the variables: a row and a call never hold a representation
\* or a status outside the ones the code writes.
Status == {"MATCHED", "NO_MATCH", "DISABLED", "FAILED"}

Row == [status : Status \cup {"ABSENT"}, found : SUBSET Rep, gen : Nat,
        asOf : Nat, partial : BOOLEAN]

Call == [pc : {"idle", "clock", "generation", "row", "window", "search",
               "fallback", "confirm", "classify", "write", "done"},
         flag : BOOLEAN, asOf : Nat, gen : Nat, row : Row,
         found : SUBSET Rep,
         status : Status \cup {"NONE", "UNAVAILABLE"}, partial : BOOLEAN]

TypeOK ==
    /\ now \in Nat /\ flag \in BOOLEAN /\ gen \in Nat
    /\ born \in [Backing -> Nat \cup {Never}]
    /\ indexed \subseteq Backing /\ revoked \subseteq Backing
    /\ exempt \subseteq Backing
    /\ row \in Row
    /\ call \in [Caller -> Call]
    /\ through \in [Caller -> SUBSET Rep]
    /\ seen \in [Caller -> SUBSET Rep]

\* A settled answer: neither partial nor unavailable.
Settled(c) ==
    /\ call[c].pc = "done"
    /\ ~call[c].partial
    /\ call[c].status # "UNAVAILABLE"

\* No missed match: a settled answer, cached or computed, contains every
\* representation that could be seen, by its age, from the first read of the
\* resolution to its return.  A generation bump or a maturity crossing that a
\* cached row missed, or a row written late over a newer corpus, would break it.
NoMissedMatch == \A c \in Caller : Settled(c) => through[c] \subseteq call[c].found

\* No withdrawn match: an answer, even a partial one, names a corpus source
\* only if it was actively promoted at some moment of that very resolution: a
\* source deactivated before the report is opened again is never shown from
\* the cache, though a resolution that found it may write it afterwards.
NoWithdrawnMatch ==
    \A c \in Caller : call[c].pc = "done" => call[c].found \subseteq Ordinary \cup seen[c]

\* No immature match: an answer names a corpus source only if a backing of it
\* has served its activation delay, or is of an account that is exempt at times.
NoImmatureMatch ==
    \A c \in Caller : call[c].pc = "done" =>
        call[c].found \subseteq
            Ordinary \cup {RepOf[b] : b \in {x \in Backing :
                born[x] # Never /\ (born[x] <= now - Delay \/ x \in Exemptable)}}

\* No false negative: the verdict that nothing matches is never wrong about a
\* source that could be seen all through the resolution, whatever the flag did
\* and whichever row was reused.
NoFalseNegative ==
    \A c \in Caller : Settled(c) /\ call[c].status = "NO_MATCH" => through[c] = {}

\* An ordinary submission is in every settled answer, the ones computed or
\* reused while the corpus is switched off included.
NoMissedSubmission == \A c \in Caller : Settled(c) => Ordinary \subseteq call[c].found
=============================================================================
