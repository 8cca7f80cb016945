-------------------------- MODULE PromotionOutcome --------------------------
(***************************************************************************)
(* What lib/corpus-admission-promotion.ts promises about one ACCEPT        *)
(* decision: it is settled at most once, and every settlement that         *)
(* publishes content into the matching index is announced by exactly one   *)
(* step of the match generation, the counter that invalidates the cached   *)
(* historical-match snapshots.  Promotion refines this specification.      *)
(***************************************************************************)
EXTENDS Naturals

CONSTANT Decision

VARIABLES
    outcome,     \* per decision: "open" until settled, then the terminal status
    generation   \* corpus_match_generation

vars == <<outcome, generation>>

Settled == {"indexed", "skipped", "dead_lettered"}

Init ==
    /\ outcome = [d \in Decision |-> "open"]
    /\ generation = 0

\* Content of d becomes matchable; every cached snapshot is outdated by it.
Publish(d) ==
    /\ outcome[d] = "open"
    /\ outcome' = [outcome EXCEPT ![d] = "indexed"]
    /\ generation' = generation + 1

\* Sets of decisions are given up together: a sweep normalises all of its
\* over-the-cap rows in one statement.
GiveUp(ds) ==
    /\ \A d \in ds : outcome[d] = "open"
    /\ \E o \in {"skipped", "dead_lettered"} :
          outcome' = [d \in Decision |-> IF d \in ds THEN o ELSE outcome[d]]
    /\ UNCHANGED generation

Next ==
    \/ \E d \in Decision : Publish(d)
    \/ \E ds \in SUBSET Decision : GiveUp(ds)

Spec == Init /\ [][Next]_vars
=============================================================================
