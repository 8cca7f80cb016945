------------------------- MODULE TokenBucketProofs -------------------------
(***************************************************************************)
(* The two properties of TokenBucket, for every limit, interval, number of *)
(* clients and delay.                                                      *)
(*                                                                         *)
(* The argument is a potential: tokens less what the clock has paid for,   *)
(* tokens - last_refill * MaxTokens, falls by Interval with every check    *)
(* allowed and falls when the refill is cut off at a full bucket, and no   *)
(* order of the checks ever raises it.                                     *)
(***************************************************************************)
EXTENDS TokenBucket, TLAPS

\* Every check under way read the clock not too long ago, in the window.
FreshChecks ==
    /\ since <= now
    /\ \A r \in Request : UnderWay(r) =>
          /\ at[r] <= now
          /\ now <= at[r] + MaxDelay
          /\ since <= at[r]

\* Tokens fall below zero only by what the clock went back, and at most by
\* what a delay is worth.
Floor ==
    exists =>
        /\ last_refill <= now
        /\ tokens <= Full
        /\ tokens >= (last_refill - now) * MaxTokens
        /\ tokens >= -(MaxDelay * MaxTokens)

\* What was allowed and what is left never exceed a full bucket and the refill.
Budget ==
    exists =>
        \/ last_refill < since /\ allowed = 0
        \/ /\ since <= last_refill
           /\ allowed * Interval + tokens <= Full + (last_refill - since) * MaxTokens

\* A row is only deleted when a new one for any check would be paid for.
Evicted ==
    ~exists => allowed = 0 \/ allowed * Interval <= (now - MaxDelay - since) * MaxTokens

\* The promise made to a refused client.
Promised ==
    exists /\ due # NoPromise => tokens + (due - last_refill) * MaxTokens >= Interval

Inv == TypeOK /\ FreshChecks /\ Floor /\ Budget /\ Evicted /\ Promised

-----------------------------------------------------------------------------
\* Multiplication by the refill rate: order and differences.
LEMMA Scaled ==
    ASSUME NEW m \in Nat, NEW x \in Int, NEW y \in Int, x <= y
    PROVE  x * m <= y * m
<1> DEFINE d == y - x
<1>1. d \in Nat /\ y = x + d
  OBVIOUS
<1>2. d * m \in Nat
  BY <1>1
<1>3. (x + d) * m = x * m + d * m
  BY <1>1
<1> QED
  BY <1>1, <1>2, <1>3

LEMMA Spread ==
    ASSUME NEW m \in Nat, NEW x \in Int, NEW y \in Int
    PROVE  /\ (x - y) * m = x * m - y * m
           /\ x * m \in Int /\ y * m \in Int
  OBVIOUS

LEMMA Repaid ==
    ASSUME NEW m \in Nat, NEW cost \in Nat, NEW t \in Int, NEW l \in Int, NEW d \in Int,
           NEW w \in Nat, d = l + w, w * m >= cost - t
    PROVE  t + (d - l) * m >= cost
<1>1. d - l = w
  OBVIOUS
<1>2. w * m \in Int
  OBVIOUS
<1>3. t + w * m >= cost
  BY <1>2
<1> QED
  BY <1>1, <1>3

LEMMA FullIsWhole ==
    ASSUME BucketAssumption
    PROVE  /\ Full \in Nat /\ Interval <= Full
           /\ Full = Interval * MaxTokens
<1>1. MaxTokens \in Nat /\ Interval \in Nat /\ 1 <= MaxTokens
  BY DEF BucketAssumption
<1>2. 1 * Interval <= MaxTokens * Interval
  BY <1>1, Scaled
<1> QED
  BY <1>1, <1>2 DEF Full

-----------------------------------------------------------------------------
LEMMA InvInit == Init => Inv
<1> SUFFICES ASSUME Init PROVE Inv
  OBVIOUS
<1>1. TypeOK
  <2>1. at \in [Request -> Int] /\ pc \in [Request -> {"idle", "read"}]
    BY DEF Init
  <2>2. now \in Nat /\ tokens \in Int /\ last_refill \in Int /\ since \in Int /\ allowed \in Nat
    BY DEF Init
  <2>3. exists \in BOOLEAN
    BY DEF Init
  <2>4. due \in Int
    BY DEF Init, NoPromise
  <2> QED
    BY <2>1, <2>2, <2>3, <2>4 DEF TypeOK
<1>2. FreshChecks
  <2>1. since <= now /\ \A r \in Request : ~UnderWay(r)
    BY DEF Init, UnderWay
  <2> QED
    BY <2>1 DEF FreshChecks
<1>3. Floor /\ Budget /\ Evicted /\ Promised
  BY DEF Init, Floor, Budget, Evicted, Promised
<1> QED
  BY <1>1, <1>2, <1>3 DEF Inv

LEMMA TypeNext == BucketAssumption /\ TypeOK /\ [Next]_vars => TypeOK'
<1> SUFFICES ASSUME BucketAssumption, TypeOK, [Next]_vars PROVE TypeOK'
  OBVIOUS
<1> USE DEF TypeOK
<1>1. MaxTokens \in Nat /\ Interval \in Nat /\ Full \in Nat
  BY FullIsWhole DEF BucketAssumption
<1>2. CASE Tick
  BY <1>2 DEF Tick, row, checks, history
<1>3. ASSUME NEW r \in Request, ReadClock(r) PROVE TypeOK'
  BY <1>3 DEF ReadClock, row, history
<1>4. ASSUME NEW r \in Request, Check(r) PROVE TypeOK'
  <2>1. Refilled(at[r]) \in Int
    <3>1. (at[r] - last_refill) * MaxTokens \in Int
      BY <1>1
    <3> QED
      BY <1>1, <3>1 DEF Refilled
  <2>2. /\ exists' \in BOOLEAN /\ tokens' \in Int /\ allowed' \in Nat /\ due' \in Int
    <3>1. CASE Insert(r)
      BY <1>1, <3>1 DEF Insert, NoPromise
    <3>2. CASE Take(r)
      BY <1>1, <2>1, <3>2 DEF Take, NoPromise
    <3>3. CASE Refuse(r)
      BY <1>1, <2>1, <3>3 DEF Refuse
    <3> QED
      BY <1>4, <3>1, <3>2, <3>3 DEF Check
  <2> QED
    BY <1>4, <2>2 DEF Check
<1>5. CASE Cleanup
  BY <1>5 DEF Cleanup, checks, history
<1>6. ASSUME NEW t \in Int, OpenWindow(t) PROVE TypeOK'
  BY <1>6 DEF OpenWindow, row, checks
<1>7. CASE UNCHANGED vars
  BY <1>7 DEF vars, row, checks, history
<1> QED
  BY <1>2, <1>3, <1>4, <1>5, <1>6, <1>7 DEF Next

\* No check's clock moves; the time does.
LEMMA TickKeeps == ASSUME BucketAssumption, Inv, Tick PROVE FreshChecks' /\ Floor' /\ Budget' /\ Evicted' /\ Promised'
<1> USE DEF Inv, TypeOK, Tick, row, checks, history
<1>1. MaxTokens \in Nat /\ Interval \in Nat /\ MaxDelay \in Nat /\ Full \in Nat
  BY FullIsWhole DEF BucketAssumption
<1>2. FreshChecks'
  BY <1>1 DEF FreshChecks, UnderWay
<1>3. Floor'
  <2>1. (last_refill - now') * MaxTokens <= (last_refill - now) * MaxTokens
    BY <1>1, Scaled
  <2>2. (last_refill - now) * MaxTokens \in Int /\ (last_refill - now') * MaxTokens \in Int
    BY <1>1
  <2> QED
    BY <1>1, <2>1, <2>2 DEF Floor
<1>4. Budget' /\ Promised'
  BY DEF Budget, Promised
<1>5. Evicted'
  <2>1. (now - MaxDelay - since) * MaxTokens <= (now' - MaxDelay - since) * MaxTokens
    BY <1>1, Scaled
  <2>2. /\ (now - MaxDelay - since) * MaxTokens \in Int
        /\ (now' - MaxDelay - since) * MaxTokens \in Int
        /\ allowed * Interval \in Int
    BY <1>1
  <2> QED
    BY <2>1, <2>2 DEF Evicted
<1> QED
  BY <1>2, <1>3, <1>4, <1>5

LEMMA ReadClockKeeps ==
    ASSUME BucketAssumption, Inv, NEW r \in Request, ReadClock(r)
    PROVE  FreshChecks' /\ Floor' /\ Budget' /\ Evicted' /\ Promised'
<1> USE DEF Inv, TypeOK, ReadClock, row, history
<1>1. FreshChecks'
  BY DEF FreshChecks, UnderWay, BucketAssumption
<1>2. Floor' /\ Budget' /\ Evicted' /\ Promised'
  BY DEF Floor, Budget, Evicted, Promised
<1> QED
  BY <1>1, <1>2

LEMMA OpenWindowKeeps ==
    ASSUME BucketAssumption, Inv, NEW t \in Int, OpenWindow(t)
    PROVE  FreshChecks' /\ Floor' /\ Budget' /\ Evicted' /\ Promised'
<1> USE DEF Inv, TypeOK, OpenWindow, row, checks
<1>1. MaxTokens \in Nat /\ Interval \in Nat /\ Full \in Nat
  BY FullIsWhole DEF BucketAssumption
<1>2. FreshChecks'
  BY DEF FreshChecks, UnderWay
<1>3. Floor' /\ Promised' /\ Evicted'
  BY DEF Floor, Promised, Evicted
<1>4. Budget'
  <2>1. ASSUME exists, t <= last_refill PROVE 0 <= (last_refill - t) * MaxTokens
    <3>1. 0 * MaxTokens <= (last_refill - t) * MaxTokens
      BY <1>1, <2>1, Scaled
    <3> QED
      BY <1>1, <3>1
  <2>2. (last_refill - t) * MaxTokens \in Int /\ 0 * Interval = 0
    BY <1>1
  <2> QED
    BY <1>1, <2>1, <2>2 DEF Budget, Floor
<1> QED
  BY <1>2, <1>3, <1>4

\* A row goes only when it would have been full for every check under way.
LEMMA CleanupKeeps ==
    ASSUME BucketAssumption, Inv, Cleanup
    PROVE  FreshChecks' /\ Floor' /\ Budget' /\ Evicted' /\ Promised'
<1> USE DEF Inv, TypeOK, Cleanup, checks, history
<1>1. /\ MaxTokens \in Nat /\ Interval \in Nat /\ MaxDelay \in Nat /\ StaleAfter \in Nat
      /\ Full = Interval * MaxTokens /\ Full \in Nat
      /\ Interval + 2 * MaxDelay <= StaleAfter
  BY FullIsWhole DEF BucketAssumption
<1>2. FreshChecks' /\ Floor' /\ Budget' /\ Promised'
  BY DEF FreshChecks, UnderWay, Floor, Budget, Promised
<1>3. Evicted'
  <2>1. CASE allowed = 0
    BY <2>1 DEF Evicted
  <2>2. CASE allowed # 0
    <3>1. allowed * Interval + tokens <= Full + (last_refill - since) * MaxTokens
      BY <2>2 DEF Budget
    <3>2. -(MaxDelay * MaxTokens) <= tokens
      BY DEF Floor
    <3>3. (Interval + MaxDelay + last_refill - since) * MaxTokens
            <= (now - MaxDelay - since) * MaxTokens
      BY <1>1, Scaled
    <3>4. (Interval + MaxDelay + last_refill - since) * MaxTokens
            = Interval * MaxTokens + MaxDelay * MaxTokens + (last_refill - since) * MaxTokens
      BY <1>1
    <3>5. /\ Interval * MaxTokens \in Int /\ MaxDelay * MaxTokens \in Int
          /\ (last_refill - since) * MaxTokens \in Int /\ allowed * Interval \in Int
          /\ (now - MaxDelay - since) * MaxTokens \in Int
      BY <1>1
    <3>6. allowed * Interval <= (now - MaxDelay - since) * MaxTokens
      BY <1>1, <3>1, <3>2, <3>3, <3>4, <3>5
    <3> QED
      BY <3>6 DEF Evicted
  <2> QED
    BY <2>1, <2>2
<1> QED
  BY <1>2, <1>3

-----------------------------------------------------------------------------
\* The refill of a check, and what it is worth.
LEMMA RefillFacts ==
    ASSUME BucketAssumption, Inv, NEW r \in Request, UnderWay(r), exists
    PROVE  LET f == Refilled(at[r]) IN
           /\ f \in Int /\ f <= Full
           /\ f <= tokens + (at[r] - last_refill) * MaxTokens
           /\ f < Interval => f = tokens + (at[r] - last_refill) * MaxTokens
<1>1. /\ MaxTokens \in Nat /\ Full \in Nat /\ Interval \in Nat /\ Interval <= Full
  BY FullIsWhole DEF BucketAssumption
<1>2. (at[r] - last_refill) * MaxTokens \in Int
  BY <1>1 DEF Inv, TypeOK
<1> QED
  BY <1>1, <1>2 DEF Refilled, Inv, TypeOK

\* The allowance of a window: what the check finds is still paid for.
LEMMA Affordable ==
    ASSUME BucketAssumption, Inv, NEW r \in Request, UnderWay(r), exists
    PROVE  allowed * Interval + Refilled(at[r]) <= Full + (at[r] - since) * MaxTokens
<1> DEFINE f == Refilled(at[r])
           a == at[r]
<1> SUFFICES allowed * Interval + f <= Full + (a - since) * MaxTokens
  OBVIOUS
<1> USE DEF Inv, TypeOK
<1>1. /\ MaxTokens \in Nat /\ Full \in Nat /\ Interval \in Nat
  BY FullIsWhole DEF BucketAssumption
<1>2. f \in Int /\ f <= Full /\ f <= tokens + (a - last_refill) * MaxTokens
  BY RefillFacts
<1>3. a \in Int /\ since <= a
  BY DEF FreshChecks
<1>4. 0 <= (a - since) * MaxTokens /\ (a - since) * MaxTokens \in Int
  <2>1. 0 * MaxTokens <= (a - since) * MaxTokens
    BY <1>1, <1>3, Scaled
  <2> QED
    BY <1>1, <1>3, <2>1
<1>5. CASE allowed = 0
  <2>1. allowed * Interval = 0
    BY <1>1, <1>5
  <2> HIDE DEF f, a
  <2> QED
    BY <1>1, <1>2, <1>4, <2>1
<1>6. CASE allowed # 0
  <2>1. allowed * Interval + tokens <= Full + (last_refill - since) * MaxTokens
    BY <1>6 DEF Budget
  <2>2. (a - last_refill) * MaxTokens + (last_refill - since) * MaxTokens = (a - since) * MaxTokens
    BY <1>1, <1>3
  <2>3. /\ (a - last_refill) * MaxTokens \in Int /\ (last_refill - since) * MaxTokens \in Int
        /\ allowed * Interval \in Int
    BY <1>1, <1>3
  <2> HIDE DEF f, a
  <2> QED
    BY <1>1, <1>2, <1>4, <2>1, <2>2, <2>3
<1> QED
  BY <1>5, <1>6

LEMMA CheckKeeps ==
    ASSUME BucketAssumption, Inv, NEW r \in Request, Check(r)
    PROVE  FreshChecks' /\ Floor' /\ Budget' /\ Evicted' /\ Promised'
<1> DEFINE a == at[r]
           f == Refilled(a)
<1> USE DEF Inv, TypeOK
<1>1. /\ MaxTokens \in Nat /\ Interval \in Nat /\ MaxDelay \in Nat /\ Full \in Nat
      /\ Interval <= Full /\ 0 < Interval
  BY FullIsWhole DEF BucketAssumption
<1>2. /\ a \in Int /\ a <= now /\ now <= a + MaxDelay /\ since <= a /\ UnderWay(r)
      /\ last_refill' = a /\ now' = now /\ since' = since
  BY DEF Check, FreshChecks
<1>3. FreshChecks'
  BY DEF Check, FreshChecks, UnderWay
<1>4. exists'
  BY DEF Check, Insert, Take, Refuse
<1>5. /\ (a - now) * MaxTokens <= 0
      /\ -(MaxDelay * MaxTokens) <= (a - now) * MaxTokens
      /\ (a - now) * MaxTokens \in Int /\ MaxDelay * MaxTokens \in Int
      /\ MaxDelay * MaxTokens >= 0
  <2>1. (a - now) * MaxTokens <= 0 * MaxTokens
    BY <1>1, <1>2, Scaled
  <2>2. (0 - MaxDelay) * MaxTokens <= (a - now) * MaxTokens
    BY <1>1, <1>2, Scaled
  <2>3. 0 * MaxTokens = 0 /\ (0 - MaxDelay) * MaxTokens = -(MaxDelay * MaxTokens)
    BY <1>1
  <2>4. MaxDelay * MaxTokens \in Nat
    BY <1>1
  <2> QED
    BY <1>1, <1>2, <2>1, <2>2, <2>3, <2>4
<1>6. Floor'
  <2>1. CASE Insert(r)
    BY <1>1, <1>2, <1>5, <2>1 DEF Insert, Floor
  <2>2. CASE Take(r)
    <3>1. f \in Int /\ f <= Full /\ tokens' = f - Interval /\ Interval <= f
      BY <1>2, <2>2, RefillFacts DEF Take
    <3> HIDE DEF f, a
    <3> QED
      BY <1>1, <1>2, <1>5, <3>1 DEF Floor
  <2>3. CASE Refuse(r)
    <3>1. /\ tokens' = f /\ f < Interval /\ f \in Int
          /\ f = tokens + (a - last_refill) * MaxTokens
      BY <1>2, <2>3, RefillFacts DEF Refuse
    <3>2. tokens >= (last_refill - now) * MaxTokens
      BY <2>3 DEF Refuse, Floor
    <3>3. (last_refill - now) * MaxTokens + (a - last_refill) * MaxTokens = (a - now) * MaxTokens
      BY <1>1, <1>2
    <3>4. (last_refill - now) * MaxTokens \in Int /\ (a - last_refill) * MaxTokens \in Int
      BY <1>1, <1>2
    <3> HIDE DEF f, a
    <3> QED
      BY <1>1, <1>2, <1>5, <3>1, <3>2, <3>3, <3>4 DEF Floor
  <2> QED
    BY <2>1, <2>2, <2>3 DEF Check
<1>7. Budget'
  <2>1. ASSUME allowed' * Interval + tokens' <= Full + (a - since) * MaxTokens PROVE Budget'
    BY <1>2, <2>1 DEF Budget
  <2>2. CASE Insert(r)
    <3>1. /\ tokens' = Full - Interval /\ allowed' = allowed + 1 /\ ~exists
      BY <2>2 DEF Insert
    <3>2. (allowed + 1) * Interval = allowed * Interval + Interval /\ allowed * Interval \in Int
      BY <1>1
    <3>3. allowed * Interval <= (a - since) * MaxTokens /\ (a - since) * MaxTokens \in Int
      <4>1. (now - MaxDelay - since) * MaxTokens <= (a - since) * MaxTokens
        BY <1>1, <1>2, Scaled
      <4>2. 0 * MaxTokens <= (a - since) * MaxTokens
        BY <1>1, <1>2, Scaled
      <4>3. /\ (now - MaxDelay - since) * MaxTokens \in Int /\ (a - since) * MaxTokens \in Int
            /\ 0 * MaxTokens = 0 /\ 0 * Interval = 0
        BY <1>1, <1>2
      <4> QED
        BY <3>1, <3>2, <4>1, <4>2, <4>3 DEF Evicted
    <3> QED
      BY <1>1, <2>1, <3>1, <3>2, <3>3
  <2>3. CASE Take(r)
    <3>1. allowed * Interval + f <= Full + (a - since) * MaxTokens /\ f \in Int
      BY <1>2, <2>3, Affordable, RefillFacts DEF Take
    <3>2. (allowed + 1) * Interval = allowed * Interval + Interval /\ allowed * Interval \in Int
      BY <1>1
    <3>3. tokens' = f - Interval /\ allowed' = allowed + 1
      BY <2>3 DEF Take
    <3>4. (a - since) * MaxTokens \in Int
      BY <1>1, <1>2
    <3> HIDE DEF f, a
    <3> QED
      BY <1>1, <2>1, <3>1, <3>2, <3>3, <3>4
  <2>4. CASE Refuse(r)
    BY <1>2, <2>1, <2>4, Affordable DEF Refuse
  <2> QED
    BY <2>2, <2>3, <2>4 DEF Check
<1>8. Evicted'
  BY <1>4 DEF Evicted
<1>9. Promised'
  <2>1. CASE Insert(r) \/ Take(r)
    BY <2>1 DEF Insert, Take, Promised
  <2>2. CASE Refuse(r)
    <3>1. PICK wait \in Nat : wait * MaxTokens >= Interval - tokens' /\ due' = a + wait
      BY <2>2 DEF Refuse
    <3>2. /\ tokens' \in Int /\ last_refill' \in Int /\ due' \in Int
          /\ due' = last_refill' + wait
      BY <1>1, <1>2, <2>2, <3>1, RefillFacts DEF Refuse
    <3>3. wait * MaxTokens >= Interval - tokens'
      BY <3>1
    <3>4. tokens' + (due' - last_refill') * MaxTokens >= Interval
      BY <1>1, <3>1, <3>2, <3>3, Repaid
    <3> QED
      BY <3>4 DEF Promised
  <2> QED
    BY <2>1, <2>2 DEF Check
<1> QED
  BY <1>3, <1>6, <1>7, <1>8, <1>9

-----------------------------------------------------------------------------
LEMMA InvNext == BucketAssumption /\ Inv /\ [Next]_vars => Inv'
<1> SUFFICES ASSUME BucketAssumption, Inv, [Next]_vars PROVE Inv'
  OBVIOUS
<1>1. TypeOK'
  BY TypeNext DEF Inv
<1>2. FreshChecks' /\ Floor' /\ Budget' /\ Evicted' /\ Promised'
  <2>1. CASE UNCHANGED vars
    BY <2>1 DEF vars, row, checks, history, Inv, FreshChecks, UnderWay, Floor, Budget,
       Evicted, Promised
  <2> QED
    BY <2>1, TickKeeps, ReadClockKeeps, CheckKeeps, CleanupKeeps, OpenWindowKeeps DEF Next
<1> QED
  BY <1>1, <1>2 DEF Inv

\* checkBucket, the cleanup and the clock keep the invariant: a row never holds
\* more than a full bucket, and less than nothing only by what the clock went
\* back between two checks.
THEOREM BucketInvariant == ASSUME BucketAssumption PROVE Spec => []Inv
<1>1. Init => Inv
  BY InvInit
<1>2. Inv /\ [Next]_vars => Inv'
  BY InvNext, BucketAssumption
<1> QED
  BY <1>1, <1>2, PTL DEF Spec

LEMMA InvBounds == ASSUME BucketAssumption, Inv PROVE WindowBound
<1> USE DEF Inv, TypeOK
<1>1. /\ MaxTokens \in Nat /\ Interval \in Nat /\ Full \in Nat /\ MaxDelay \in Nat
  BY FullIsWhole DEF BucketAssumption
<1>2. 0 <= (now - since) * MaxTokens /\ (now - since) * MaxTokens \in Int
  <2>1. 0 * MaxTokens <= (now - since) * MaxTokens
    BY <1>1, Scaled DEF FreshChecks
  <2> QED
    BY <1>1, <2>1
<1>3. CASE allowed = 0
  <2>1. allowed * Interval = 0
    BY <1>1, <1>3
  <2> QED
    BY <1>1, <1>2, <2>1 DEF WindowBound
<1>4. CASE allowed # 0 /\ exists
  <2>1. allowed * Interval + tokens <= Full + (last_refill - since) * MaxTokens
    BY <1>4 DEF Budget
  <2>2. (last_refill - now) * MaxTokens <= tokens
    BY <1>4 DEF Floor
  <2>3. (last_refill - since) * MaxTokens = (last_refill - now) * MaxTokens + (now - since) * MaxTokens
    BY <1>1
  <2>4. /\ (last_refill - since) * MaxTokens \in Int /\ (last_refill - now) * MaxTokens \in Int
        /\ allowed * Interval \in Int
    BY <1>1
  <2> QED
    BY <1>1, <1>2, <2>1, <2>2, <2>3, <2>4 DEF WindowBound
<1>5. CASE allowed # 0 /\ ~exists
  <2>1. allowed * Interval <= (now - MaxDelay - since) * MaxTokens
    BY <1>5 DEF Evicted
  <2>2. (now - MaxDelay - since) * MaxTokens <= (now - since) * MaxTokens
    BY <1>1, Scaled
  <2>3. (now - MaxDelay - since) * MaxTokens \in Int /\ allowed * Interval \in Int
    BY <1>1
  <2> QED
    BY <1>1, <1>2, <2>1, <2>2, <2>3 DEF WindowBound
<1> QED
  BY <1>3, <1>4, <1>5

\* The limiter limits: in any window of time it allows no more checks than a
\* full bucket and the refill of the window, although checks reach the database
\* out of order and their row is deleted under them.
THEOREM WindowBoundHolds == ASSUME BucketAssumption PROVE Spec => []WindowBound
<1>1. Inv => WindowBound
  BY InvBounds, BucketAssumption
<1>2. Spec => []Inv
  BY BucketInvariant, BucketAssumption
<1> QED
  BY <1>1, <1>2, PTL

LEMMA RetryStep ==
    ASSUME BucketAssumption, Inv, NEW r \in Request, Check(r), due # NoPromise, due <= at[r]
    PROVE  allowed' = allowed + 1
<1>1. /\ MaxTokens \in Nat /\ Interval \in Nat
  BY DEF BucketAssumption
<1>2. CASE Insert(r) \/ Take(r)
  BY <1>2 DEF Insert, Take
<1>3. CASE Refuse(r)
  <2> DEFINE f == Refilled(at[r])
  <2>1. f < Interval /\ f = tokens + (at[r] - last_refill) * MaxTokens
    BY <1>3, RefillFacts DEF Refuse, Check
  <2>2. tokens + (due - last_refill) * MaxTokens >= Interval
    BY <1>3 DEF Refuse, Inv, Promised
  <2>3. (due - last_refill) * MaxTokens <= (at[r] - last_refill) * MaxTokens
    BY <1>1, Scaled DEF Inv, TypeOK
  <2>4. /\ (due - last_refill) * MaxTokens \in Int /\ (at[r] - last_refill) * MaxTokens \in Int
        /\ tokens \in Int
    BY <1>1 DEF Inv, TypeOK
  <2> HIDE DEF f
  <2>5. FALSE
    BY <1>1, <2>1, <2>2, <2>3, <2>4
  <2> QED
    BY <2>5
<1> QED
  BY <1>2, <1>3 DEF Check

\* The Retry-After of checkBucket is long enough, whatever other refused or late
\* checks did to the row in the meantime.
THEOREM RetryAfterHolds == ASSUME BucketAssumption PROVE Spec => RetryAfterSuffices
<1>1. Inv /\ [Next]_vars =>
        [\A r \in Request :
            Check(r) /\ due # NoPromise /\ due <= at[r] => allowed' = allowed + 1]_vars
  BY RetryStep, BucketAssumption
<1>2. Spec => []Inv
  BY BucketInvariant, BucketAssumption
<1> QED
  BY <1>1, <1>2, PTL DEF Spec, RetryAfterSuffices
=============================================================================
