---------------------------- MODULE TokenBucket ----------------------------
(***************************************************************************)
(* One bucket of the durable rate limiter, lib/rate-limit.ts.  A check     *)
(* reads its server's clock and then runs one UPSERT that refills the row  *)
(* by the time since last_refill and takes a token if there is one.        *)
(* Checks of several requests reach the database in another order than     *)
(* they read the clock in, so last_refill moves backwards too, and tokens  *)
(* may drop below zero; the cleanup that rides on other checks deletes     *)
(* rows not touched for a day.                                             *)
(*                                                                         *)
(* The row's tokens are counted in units of 1 / Interval of a token, which *)
(* makes the refill exact: elapsed milliseconds times MaxTokens.  The      *)
(* rounding of the REAL column is left out; the servers' clocks agree.     *)
(***************************************************************************)
EXTENDS Integers

CONSTANTS
    Request,
    MaxTokens,     \* e.g. GENERAL_MAX_TOKENS
    Interval,      \* e.g. GENERAL_INTERVAL_MS
    StaleAfter,    \* STALE_AFTER_MS
    MaxDelay       \* the longest a check takes from its clock to the database

\* A limit admits something, and a row is only stale when it would be full
\* again for every check under way.
BucketAssumption ==
    /\ MaxTokens \in Nat \ {0}
    /\ Interval \in Nat \ {0}
    /\ MaxDelay \in Nat
    /\ StaleAfter \in Nat
    /\ Interval + 2 * MaxDelay <= StaleAfter

Full == MaxTokens * Interval

VARIABLES
    now,          \* the clock, in milliseconds
    exists,       \* the bucket's row exists
    tokens,
    last_refill,
    at,           \* the clock as each check read it
    pc,
    since,        \* history: the start of some window of time
    allowed,      \* history: checks allowed since it was opened
    due           \* history: when the last refused client was told to retry

row     == <<exists, tokens, last_refill>>
checks  == <<at, pc>>
history == <<since, allowed, due>>
vars    == <<now, row, checks, history>>

NoPromise == -1

Init ==
    /\ now = 0
    /\ exists = FALSE /\ tokens = 0 /\ last_refill = 0
    /\ at = [r \in Request |-> 0]
    /\ pc = [r \in Request |-> "idle"]
    /\ since = 0 /\ allowed = 0 /\ due = NoPromise

UnderWay(r) == pc[r] = "read"

\* Time passes; a check that waits for the database is given up in the end.
Tick ==
    /\ \A r \in Request : UnderWay(r) => now - at[r] < MaxDelay
    /\ now' = now + 1
    /\ UNCHANGED <<row, checks, history>>

\* checkBucket reads Date.now() ...
ReadClock(r) ==
    /\ pc[r] = "idle"
    /\ at' = [at EXCEPT ![r] = now]
    /\ pc' = [pc EXCEPT ![r] = "read"]
    /\ UNCHANGED <<now, row, history>>

\* REFILLED_TOKENS_EXPR.
Refilled(a) ==
    LET sum == tokens + (a - last_refill) * MaxTokens
    IN  IF sum <= Full THEN sum ELSE Full

\* ... and inserts a full bucket less the token it takes, ...
Insert(r) ==
    /\ ~exists
    /\ exists' = TRUE
    /\ tokens' = Full - Interval
    /\ allowed' = allowed + 1
    /\ due' = NoPromise

\* ... takes a token of the refilled row, ...
Take(r) ==
    /\ exists
    /\ Refilled(at[r]) >= Interval
    /\ tokens' = Refilled(at[r]) - Interval
    /\ allowed' = allowed + 1
    /\ due' = NoPromise
    /\ UNCHANGED exists

\* ... or is refused, and told to retry when the missing part of a token has
\* been refilled, rounded up.
Refuse(r) ==
    /\ exists
    /\ Refilled(at[r]) < Interval
    /\ tokens' = Refilled(at[r])
    /\ \E wait \in Nat :
          /\ wait * MaxTokens >= Interval - tokens'
          /\ due' = at[r] + wait
    /\ UNCHANGED <<exists, allowed>>

Check(r) ==
    /\ UnderWay(r)
    /\ Insert(r) \/ Take(r) \/ Refuse(r)
    /\ last_refill' = at[r]
    /\ pc' = [pc EXCEPT ![r] = "idle"]
    /\ UNCHANGED <<now, at, since>>

\* maybeCleanupStaleBuckets, with a clock that was read at most now.
Cleanup ==
    /\ exists
    /\ last_refill < now - StaleAfter
    /\ exists' = FALSE
    /\ UNCHANGED <<now, tokens, last_refill, checks, history>>

\* Not a step of the code: a window of time is opened, no later than the clock
\* of any check under way.
OpenWindow(t) ==
    /\ t <= now
    /\ \A r \in Request : UnderWay(r) => t <= at[r]
    /\ since' = t
    /\ allowed' = 0
    /\ UNCHANGED <<now, row, checks, due>>

Next ==
    \/ Tick
    \/ \E r \in Request : ReadClock(r) \/ Check(r)
    \/ Cleanup
    \/ \E t \in Int : OpenWindow(t)

Spec == Init /\ [][Next]_vars

-----------------------------------------------------------------------------
TypeOK ==
    /\ now \in Nat
    /\ exists \in BOOLEAN
    /\ tokens \in Int
    /\ last_refill \in Int
    /\ at \in [Request -> Int]
    /\ pc \in [Request -> {"idle", "read"}]
    /\ since \in Int
    /\ allowed \in Nat
    /\ due \in Int

\* In every window of time no more checks are allowed than a full bucket and
\* the refill of the window pay for, in whatever order they reach the row, and
\* also when the row is deleted and begun again: the limit is a limit.
WindowBound == allowed * Interval <= Full + (now - since) * MaxTokens

\* A client that was told when to retry, and does not come back earlier, is not
\* refused again unless somebody else was allowed in between.
RetryAfterSuffices ==
    [][\A r \in Request :
          Check(r) /\ due # NoPromise /\ due <= at[r] => allowed' = allowed + 1]_vars
=============================================================================
