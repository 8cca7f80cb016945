--------------------------- MODULE PromotionProofs ---------------------------
(***************************************************************************)
(* Theorems about Promotion, for any number of decisions and workers, any  *)
(* cap and any batch size.                                                 *)
(*                                                                         *)
(* Shape is inductive whatever happens to claims.  Ownership is the        *)
(* strengthening that makes SingleOwner inductive when no claim outlives   *)
(* its worker: a row somebody works on is open, under the cap, and carries *)
(* a fresh claim, so Claimable cannot give it to anybody else.             *)
(***************************************************************************)
EXTENDS Promotion, FiniteSetTheorems, TLAPS

\* A worker about to claim holds a staged row and nothing else; one that is
\* processing holds a row that is not also in its backlog.
InHand ==
    \A w \in Worker :
        /\ pc[w] = "claiming" => cur[w] \in accepted /\ status[cur[w]] # "none"
        /\ pc[w] \in Busy => cur[w] \in Decision \ todo[w]
        /\ pc[w] \in {"idle", "claiming"} => todo[w] = {}

Shape == TypeOK /\ InHand /\ CapDecides

WorkedRowsAreHeld ==
    \A w \in Worker : \A d \in Decision :
        Works(w, d) => status[d] \in Open /\ claim[d] = "fresh" /\ attempts[d] < MaxAttempts

\* A row nobody has concluded yet has no attempts; a link is set with the index.
RowHistory ==
    \A d \in Decision :
        /\ status[d] \in {"none", "staged"} => attempts[d] = 0
        /\ link[d] # "none" => status[d] = "indexed"

Ownership ==
    /\ Shape
    /\ WorkedRowsAreHeld
    /\ SingleOwner
    /\ AttemptsWithinCap
    /\ RowHistory

-----------------------------------------------------------------------------
\* Shape holds initially.
LEMMA InitShape == Init => Shape
  BY PromotionAssumption
     DEF Init, Shape, TypeOK, InHand, CapDecides, Open, Terminal, Busy

\* A claimable row is a discovered one.
LEMMA ClaimableRow ==
  ASSUME TypeOK, NEW d \in Decision, Claimable(status, d)
  PROVE  status[d] \in Open /\ claim[d] # "fresh"
  BY DEF Claimable, Open

\* Every step keeps Shape: the types, what a worker holds, and that the cap
\* alone decides between retrying and dead-lettering.
LEMMA NextShape == Shape /\ [Next]_vars => Shape'
<1> SUFFICES ASSUME Shape, [Next]_vars PROVE Shape'
  OBVIOUS
<1> USE PromotionAssumption DEF Shape
<1>1. ASSUME NEW d \in Decision, Accept(d) PROVE Shape'
  BY <1>1 DEF Accept, TypeOK, InHand, CapDecides, row, work
<1>2. ASSUME NEW d \in Decision, ClaimLapses(d) PROVE Shape'
  BY <1>2 DEF ClaimLapses, TypeOK, InHand, CapDecides, work
<1>3. CASE ToggleFlag
  BY <1>3 DEF ToggleFlag, TypeOK, InHand, CapDecides, row, work
<1>4. ASSUME NEW w \in Request, NEW d \in Decision, StageDecision(w, d) PROVE Shape'
  <2>1. TypeOK'
    BY <1>4 DEF StageDecision, TypeOK, Open, Worker
  <2>2. InHand'
    BY <1>4 DEF StageDecision, TypeOK, InHand, Busy, Worker
  <2>3. CapDecides'
    BY <1>4 DEF StageDecision, TypeOK, CapDecides, Open
  <2> QED
    BY <2>1, <2>2, <2>3
<1>5. ASSUME NEW w \in Request, ClaimDecision(w) PROVE Shape'
  <2>0. cur[w] \in Decision
    BY <1>5 DEF ClaimDecision, InHand, TypeOK, Worker
  <2>1. TypeOK'
    BY <1>5, <2>0 DEF ClaimDecision, TypeOK, Worker
  <2>2. InHand'
    BY <1>5, <2>0 DEF ClaimDecision, TypeOK, InHand, Busy, Worker
  <2>3. CapDecides'
    BY <1>5, <2>0 DEF ClaimDecision, Claimable, TypeOK, CapDecides, Open
  <2> QED
    BY <2>1, <2>2, <2>3
<1>6. ASSUME NEW w \in Sweeper, SweepTick(w) PROVE Shape'
  <2>0. PICK new \in Batches(Undiscovered) :
        \E mine \in Batches({d \in Decision : Claimable(Swept(new), d)}) :
          /\ status' = Swept(new)
          /\ claim' = [d \in Decision |-> IF d \in mine THEN "fresh"
                                          ELSE IF OverCap(d) THEN "none" ELSE claim[d]]
          /\ todo' = [todo EXCEPT ![w] = mine]
          /\ pc' = [pc EXCEPT ![w] = IF mine = {} THEN "idle" ELSE "loop"]
    BY <1>6 DEF SweepTick
  <2>1. PICK mine \in Batches({d \in Decision : Claimable(Swept(new), d)}) :
          /\ status' = Swept(new)
          /\ claim' = [d \in Decision |-> IF d \in mine THEN "fresh"
                                          ELSE IF OverCap(d) THEN "none" ELSE claim[d]]
          /\ todo' = [todo EXCEPT ![w] = mine]
          /\ pc' = [pc EXCEPT ![w] = IF mine = {} THEN "idle" ELSE "loop"]
    BY <2>0
  <2>2. new \subseteq Undiscovered /\ mine \subseteq {d \in Decision : Claimable(Swept(new), d)}
    BY DEF Batches
  <2>3. TypeOK'
    BY <1>6, <2>1, <2>2 DEF SweepTick, TypeOK, Swept, Open, Terminal, Worker
  <2>4. InHand'
    BY <1>6, <2>1, <2>2 DEF SweepTick, TypeOK, InHand, Swept, Undiscovered, Busy, Worker
  <2>5. CapDecides'
    BY <1>6, <2>1, <2>2
       DEF SweepTick, TypeOK, CapDecides, Swept, Undiscovered, OverCap, Claimable, Open, Terminal
  <2> QED
    BY <2>3, <2>4, <2>5
<1>7. ASSUME NEW w \in Worker, NEW d \in Decision, ReadRow(w, d) PROVE Shape'
  <2>1. TypeOK' /\ CapDecides'
    BY <1>7 DEF ReadRow, TypeOK, CapDecides, Busy, row
  <2>2. InHand'
    BY <1>7 DEF ReadRow, TypeOK, InHand, Busy, row
  <2> QED
    BY <2>1, <2>2
<1>8. ASSUME NEW w \in Worker, IndexCommit(w) PROVE Shape'
  <2>0. cur[w] \in Decision
    BY <1>8 DEF IndexCommit, InHand, Busy
  <2>1. TypeOK'
    BY <1>8, <2>0 DEF IndexCommit, Advance, TypeOK, Busy, Terminal
  <2>2. InHand'
    BY <1>8, <2>0 DEF IndexCommit, Advance, TypeOK, InHand, Busy
  <2>3. CapDecides'
    BY <1>8, <2>0 DEF IndexCommit, TypeOK, CapDecides
  <2> QED
    BY <2>1, <2>2, <2>3
<1>9. ASSUME NEW w \in Worker, IndexThrows(w) PROVE Shape'
  BY <1>9 DEF IndexThrows, TypeOK, InHand, CapDecides, Busy, row
<1>10. ASSUME NEW w \in Worker, RecordFailure(w) PROVE Shape'
  <2>0. cur[w] \in Decision
    BY <1>10 DEF RecordFailure, InHand, Busy
  <2>1. TypeOK'
    BY <1>10, <2>0 DEF RecordFailure, Advance, TypeOK, Busy, Terminal, Open
  <2>2. InHand'
    BY <1>10, <2>0 DEF RecordFailure, Advance, TypeOK, InHand, Busy
  <2>3. CapDecides'
    BY <1>10, <2>0 DEF RecordFailure, TypeOK, CapDecides
  <2> QED
    BY <2>1, <2>2, <2>3
<1>11. ASSUME NEW w \in Worker, RecordSkip(w) PROVE Shape'
  <2>0. cur[w] \in Decision
    BY <1>11 DEF RecordSkip, InHand, Busy
  <2>1. TypeOK'
    BY <1>11, <2>0 DEF RecordSkip, Advance, TypeOK, Busy, Terminal
  <2>2. InHand'
    BY <1>11, <2>0 DEF RecordSkip, Advance, TypeOK, InHand, Busy
  <2>3. CapDecides'
    BY <1>11, <2>0 DEF RecordSkip, TypeOK, CapDecides
  <2> QED
    BY <2>1, <2>2, <2>3
<1>12. ASSUME NEW w \in Worker, Crash(w) PROVE Shape'
  BY <1>12 DEF Crash, TypeOK, InHand, CapDecides, Busy, row
<1>13. CASE UNCHANGED vars
  BY <1>13 DEF TypeOK, InHand, CapDecides, vars, row, work
<1> QED
  BY <1>1, <1>2, <1>3, <1>4, <1>5, <1>6, <1>7, <1>8, <1>9, <1>10, <1>11,
     <1>12, <1>13 DEF Next, Process

\* Type correctness: every statement of the queue writes a value of the
\* column's type.
THEOREM TypeCorrect == Spec => []TypeOK
<1>1. Shape => TypeOK
  BY DEF Shape
<1> QED
  BY InitShape, NextShape, <1>1, PTL DEF Spec

\* The attempt cap alone decides between retrying and dead-lettering, even when
\* claims are outlived and several workers process the same row.
THEOREM CapDecidesAlways == Spec => []CapDecides
<1>1. Shape => CapDecides
  BY DEF Shape
<1> QED
  BY InitShape, NextShape, <1>1, PTL DEF Spec

-----------------------------------------------------------------------------
\* The branch a worker is on is the one the retained text decides, whoever else
\* has the same row in hand.
Branch ==
    \A w \in Worker :
        /\ pc[w] \in {"index", "fail"} => cur[w] \in Retained
        /\ pc[w] = "skip" => cur[w] \notin Retained

IndexInv == Shape /\ Branch /\ IndexTells

LEMMA InitIndex == Init => IndexInv
  BY InitShape DEF Init, IndexInv, Branch, IndexTells

\* Steps that leave links, representations and settled rows alone.
LEMMA LinksStay ==
  ASSUME IndexTells, UNCHANGED <<link, reps>>,
         \A d \in Decision : status'[d] \in {"indexed", "skipped"} => status'[d] = status[d]
  PROVE  IndexTells'
  BY DEF IndexTells

LEMMA BranchStep ==
  ASSUME Shape, Branch, [Next]_vars
  PROVE  Branch'
<1> USE DEF Shape, TypeOK, Branch
<1>1. ASSUME NEW w \in Request, NEW d \in Decision, StageDecision(w, d) PROVE Branch'
  BY <1>1 DEF StageDecision, Worker
<1>2. ASSUME NEW w \in Request, ClaimDecision(w) PROVE Branch'
  BY <1>2 DEF ClaimDecision, Worker
<1>3. ASSUME NEW w \in Sweeper, SweepTick(w) PROVE Branch'
  <2>1. /\ cur' = cur
        /\ \E l \in {"idle", "loop"} : pc' = [pc EXCEPT ![w] = l]
    BY <1>3 DEF SweepTick
  <2> QED
    BY <2>1 DEF Worker
<1>4. ASSUME NEW w \in Worker, NEW d \in Decision, ReadRow(w, d) PROVE Branch'
  BY <1>4 DEF ReadRow
<1>5. ASSUME NEW w \in Worker, IndexThrows(w) PROVE Branch'
  BY <1>5 DEF IndexThrows
<1>6. ASSUME NEW w \in Worker, IndexCommit(w) \/ RecordFailure(w) \/ RecordSkip(w)
      PROVE  Branch'
  <2>1. Advance(w)
    BY <1>6 DEF IndexCommit, RecordFailure, RecordSkip
  <2> QED
    BY <2>1 DEF Advance
<1>7. ASSUME NEW w \in Worker, Crash(w) PROVE Branch'
  BY <1>7 DEF Crash
<1>8. CASE (\E d \in Decision : Accept(d) \/ ClaimLapses(d)) \/ ToggleFlag \/ UNCHANGED vars
  BY <1>8 DEF Accept, ClaimLapses, ToggleFlag, vars, work
<1> QED
  BY <1>1, <1>2, <1>3, <1>4, <1>5, <1>6, <1>7, <1>8 DEF Next, Process

LEMMA NextIndex == IndexInv /\ [Next]_vars => IndexInv'
<1> SUFFICES ASSUME IndexInv, [Next]_vars PROVE IndexInv'
  OBVIOUS
<1>0. Shape /\ Shape' /\ Branch /\ Branch' /\ IndexTells
  BY NextShape, BranchStep DEF IndexInv
<1>1. ASSUME NEW w \in Request, NEW d \in Decision, StageDecision(w, d) PROVE IndexTells'
  BY <1>0, <1>1, LinksStay DEF StageDecision, Shape, TypeOK
<1>2. ASSUME NEW w \in Sweeper, SweepTick(w) PROVE IndexTells'
  <2>1. PICK new \in Batches(Undiscovered) : status' = Swept(new) /\ UNCHANGED <<link, reps>>
    BY <1>2 DEF SweepTick
  <2> QED
    BY <1>0, <2>1, LinksStay DEF Swept
<1>3. ASSUME NEW w \in Worker, IndexCommit(w) PROVE IndexTells'
  <2>1. PICK d \in Decision : d = cur[w]
    BY <1>0, <1>3 DEF IndexCommit, Shape, InHand, Busy
  <2>2. /\ reps' = reps \cup {HashOf[d]}
        /\ link' = [link EXCEPT ![d] = IF HashOf[d] \in reps THEN "duplicate" ELSE "new"]
        /\ status' = [status EXCEPT ![d] = "indexed"]
        /\ d \in Retained
    BY <1>0, <1>3, <2>1 DEF IndexCommit, Branch
  <2> QED
    BY <1>0, <2>2 DEF IndexTells, Shape, TypeOK
<1>4. ASSUME NEW w \in Worker, RecordFailure(w) PROVE IndexTells'
  <2>1. cur[w] \in Decision
    BY <1>0, <1>4 DEF RecordFailure, Shape, InHand, Busy
  <2> QED
    BY <1>0, <1>4, <2>1, LinksStay DEF RecordFailure, Shape, TypeOK
<1>5. ASSUME NEW w \in Worker, RecordSkip(w) PROVE IndexTells'
  <2>1. cur[w] \in Decision \ Retained
    BY <1>0, <1>5 DEF RecordSkip, Shape, InHand, Busy, Branch
  <2> QED
    BY <1>0, <1>5, <2>1 DEF RecordSkip, IndexTells, Shape, TypeOK
<1>6. ASSUME UNCHANGED <<status, link, reps>> PROVE IndexTells'
  BY <1>0, <1>6 DEF IndexTells
<1>7. UNCHANGED <<status, link, reps>>
      \/ (\E w \in Request, d \in Decision : StageDecision(w, d))
      \/ (\E w \in Sweeper : SweepTick(w))
      \/ (\E w \in Worker : IndexCommit(w) \/ RecordFailure(w) \/ RecordSkip(w))
  BY DEF Next, Process, Accept, ClaimLapses, ToggleFlag, ClaimDecision, ReadRow,
         IndexThrows, Crash, vars, row
<1> QED
  BY <1>0, <1>1, <1>2, <1>3, <1>4, <1>5, <1>6, <1>7 DEF IndexInv

\* Whether or not claims are outlived, what reads as indexed is matchable and had
\* its text retained, what is skipped had not, and a representation has at most
\* one promotion that says it created it.
THEOREM IndexAlwaysTells == Spec => []IndexTells
<1>1. IndexInv => IndexTells
  BY DEF IndexInv
<1> QED
  BY InitIndex, NextIndex, <1>1, PTL DEF Spec

-----------------------------------------------------------------------------
\* From here on no claim outlives the worker that made it.
LEMMA InitOwnership == Init => Ownership
<1> SUFFICES ASSUME Init PROVE Ownership
  OBVIOUS
<1>1. WorkedRowsAreHeld /\ SingleOwner
  BY DEF Init, WorkedRowsAreHeld, SingleOwner, Works, Busy
<1>2. AttemptsWithinCap /\ RowHistory
  BY PromotionAssumption DEF Init, AttemptsWithinCap, RowHistory
<1> QED
  BY InitShape, <1>1, <1>2 DEF Ownership

\* Taking up free rows: when a worker that holds nothing claims rows that were
\* claimable, every worked row is again held and has one owner.
LEMMA ClaimKeepsOwnership ==
  ASSUME Ownership, Shape', NEW w \in Worker, NEW mine \in SUBSET Decision,
         pc[w] \in {"idle", "claiming"}, pc'[w] \notin Busy,
         \A v \in Worker \ {w} : pc'[v] = pc[v] /\ todo'[v] = todo[v] /\ cur'[v] = cur[v],
         todo'[w] = mine,
         \A d \in mine : /\ claim[d] # "fresh" /\ claim'[d] = "fresh"
                         /\ status'[d] \in Open /\ attempts[d] < MaxAttempts,
         \A d \in Decision : claim[d] = "fresh" => claim'[d] = "fresh" /\ status'[d] = status[d],
         attempts' = attempts
  PROVE  WorkedRowsAreHeld' /\ SingleOwner'
<1> USE DEF Ownership
<1>1. \A d \in Decision : Works(w, d)' <=> d \in mine
  BY DEF Works
<1>2. \A v \in Worker \ {w} : \A d \in Decision : Works(v, d)' <=> Works(v, d)
  BY DEF Works
<1>3. \A v \in Worker \ {w} : \A d \in Decision :
         Works(v, d) => d \notin mine /\ claim'[d] = "fresh" /\ status'[d] \in Open
  BY DEF WorkedRowsAreHeld
<1>4. WorkedRowsAreHeld'
  BY <1>1, <1>2, <1>3 DEF WorkedRowsAreHeld
<1>5. SingleOwner'
  BY <1>1, <1>2, <1>3 DEF SingleOwner
<1> QED
  BY <1>4, <1>5

\* Concluding: when a worker that had d in hand releases it, the other rows and
\* the other workers are as they were.
LEMMA ConcludeKeepsOwnership ==
  ASSUME Ownership, NEW w \in Worker, pc[w] \in Busy, Advance(w),
         NEW d \in Decision, d = cur[w],
         \A e \in Decision \ {d} :
            status'[e] = status[e] /\ claim'[e] = claim[e] /\ attempts'[e] = attempts[e]
  PROVE  WorkedRowsAreHeld' /\ SingleOwner'
<1> USE DEF Ownership
<1>1. Works(w, d) /\ d \notin todo[w]
  BY DEF Works, Shape, InHand
<1>2. \A v \in Worker, e \in Decision : Works(v, e)' => Works(v, e) /\ e # d
  BY <1>1 DEF Works, Advance, SingleOwner, Shape, TypeOK, Busy
<1>3. WorkedRowsAreHeld'
  BY <1>2 DEF WorkedRowsAreHeld
<1>4. SingleOwner'
  BY <1>2 DEF SingleOwner
<1> QED
  BY <1>3, <1>4

\* Every step keeps Ownership.
LEMMA NextOwnership ==
  ASSUME ~ClaimsOutlived
  PROVE  Ownership /\ [Next]_vars => Ownership'
<1> SUFFICES ASSUME Ownership, [Next]_vars PROVE Ownership'
  OBVIOUS
<1> USE PromotionAssumption DEF Ownership
<1>0. Shape'
  BY NextShape
<1>1. ASSUME NEW d \in Decision, Accept(d) PROVE Ownership'
  BY <1>0, <1>1 DEF Accept, WorkedRowsAreHeld, SingleOwner, AttemptsWithinCap,
     RowHistory, Works, row, work
<1>2. ASSUME NEW d \in Decision, ClaimLapses(d) PROVE Ownership'
  <2>1. WorkedRowsAreHeld'
    BY <1>2 DEF ClaimLapses, WorkedRowsAreHeld, Works, Shape, TypeOK, work
  <2>2. SingleOwner'
    BY <1>2 DEF ClaimLapses, SingleOwner, Works, work
  <2> QED
    BY <1>0, <1>2, <2>1, <2>2 DEF ClaimLapses, AttemptsWithinCap, RowHistory
<1>3. CASE ToggleFlag
  BY <1>0, <1>3 DEF ToggleFlag, WorkedRowsAreHeld, SingleOwner, AttemptsWithinCap,
     RowHistory, Works, row, work
<1>4. ASSUME NEW w \in Request, NEW d \in Decision, StageDecision(w, d) PROVE Ownership'
  <2>1. \A v \in Worker, e \in Decision : Works(v, e)' => Works(v, e)
    BY <1>4 DEF StageDecision, Works, Shape, TypeOK, Busy, Worker
  <2>2. WorkedRowsAreHeld'
    BY <1>4, <2>1 DEF StageDecision, WorkedRowsAreHeld, Shape, TypeOK, Open
  <2>3. SingleOwner'
    BY <2>1 DEF SingleOwner
  <2>4. AttemptsWithinCap'
    BY <1>4 DEF StageDecision, AttemptsWithinCap, Shape, TypeOK
  <2>5. RowHistory'
    BY <1>4 DEF StageDecision, RowHistory, Shape, TypeOK
  <2> QED
    BY <1>0, <2>2, <2>3, <2>4, <2>5
<1>5. ASSUME NEW w \in Request, ClaimDecision(w) PROVE Ownership'
  <2>0. cur[w] \in Decision /\ w \in Worker /\ todo[w] = {}
    BY <1>5 DEF ClaimDecision, Shape, InHand, TypeOK, Worker
  <2>1. AttemptsWithinCap' /\ RowHistory'
    BY <1>5 DEF ClaimDecision, AttemptsWithinCap, RowHistory
  <2>2. CASE Claimable(status, cur[w])
    <3>1. attempts[cur[w]] < MaxAttempts /\ status[cur[w]] \in Open /\ claim[cur[w]] # "fresh"
      BY <2>0, <2>2 DEF Claimable, Open, RowHistory
    <3> QED
      BY <1>0, <1>5, <2>0, <2>1, <2>2, <3>1, ClaimKeepsOwnership
         DEF ClaimDecision, Shape, TypeOK, Busy
  <2>3. CASE ~Claimable(status, cur[w])
    <3>1. todo' = todo /\ \A v \in Worker : pc'[v] \in Busy => pc[v] \in Busy /\ cur'[v] = cur[v]
      BY <1>5, <2>0, <2>3 DEF ClaimDecision, Shape, TypeOK, Busy
    <3> QED
      BY <1>0, <1>5, <2>1, <2>3, <3>1 DEF ClaimDecision, WorkedRowsAreHeld, SingleOwner, Works
  <2> QED
    BY <2>2, <2>3
<1>6. ASSUME NEW w \in Sweeper, SweepTick(w) PROVE Ownership'
  <2>0. PICK new \in Batches(Undiscovered) :
        \E mine \in Batches({d \in Decision : Claimable(Swept(new), d)}) :
          /\ status' = Swept(new)
          /\ claim' = [d \in Decision |-> IF d \in mine THEN "fresh"
                                          ELSE IF OverCap(d) THEN "none" ELSE claim[d]]
          /\ todo' = [todo EXCEPT ![w] = mine]
          /\ pc' = [pc EXCEPT ![w] = IF mine = {} THEN "idle" ELSE "loop"]
    BY <1>6 DEF SweepTick
  <2>1. PICK mine \in Batches({d \in Decision : Claimable(Swept(new), d)}) :
          /\ status' = Swept(new)
          /\ claim' = [d \in Decision |-> IF d \in mine THEN "fresh"
                                          ELSE IF OverCap(d) THEN "none" ELSE claim[d]]
          /\ todo' = [todo EXCEPT ![w] = mine]
          /\ pc' = [pc EXCEPT ![w] = IF mine = {} THEN "idle" ELSE "loop"]
    BY <2>0
  <2>2. new \subseteq Undiscovered /\ mine \subseteq {d \in Decision : Claimable(Swept(new), d)}
    BY DEF Batches
  <2>3. \A d \in mine : /\ d \in Decision /\ claim[d] # "fresh" /\ claim'[d] = "fresh"
                        /\ status'[d] \in Open /\ attempts[d] < MaxAttempts
    BY <2>1, <2>2 DEF Claimable, Swept, Undiscovered, RowHistory, Open
  <2>4. \A d \in Decision : claim[d] = "fresh" => claim'[d] = "fresh" /\ status'[d] = status[d]
    BY <2>1, <2>2 DEF Swept, Undiscovered, OverCap, Shape, CapDecides, Open
  <2>5. WorkedRowsAreHeld' /\ SingleOwner'
    BY <1>0, <1>6, <2>1, <2>3, <2>4, ClaimKeepsOwnership
       DEF SweepTick, Shape, TypeOK, Busy, Worker
  <2>6. AttemptsWithinCap'
    BY <1>6, <2>1, <2>2 DEF SweepTick, AttemptsWithinCap, Swept, Undiscovered, OverCap
  <2>7. RowHistory'
    BY <1>6, <2>1, <2>2 DEF SweepTick, RowHistory, Swept, Undiscovered, OverCap
  <2> QED
    BY <1>0, <2>5, <2>6, <2>7
<1>7. ASSUME NEW w \in Worker, NEW d \in Decision, ReadRow(w, d) PROVE Ownership'
  <2>1. \A v \in Worker, e \in Decision : Works(v, e)' => Works(v, e)
    BY <1>7 DEF ReadRow, Works, Shape, TypeOK, Busy
  <2>2. AttemptsWithinCap' /\ RowHistory'
    BY <1>7 DEF ReadRow, AttemptsWithinCap, RowHistory, row
  <2>3. WorkedRowsAreHeld'
    BY <1>7, <2>1 DEF ReadRow, WorkedRowsAreHeld, row
  <2>4. SingleOwner'
    BY <2>1 DEF SingleOwner
  <2> QED
    BY <1>0, <2>2, <2>3, <2>4
<1>8. ASSUME NEW w \in Worker, IndexCommit(w) PROVE Ownership'
  <2>0. cur[w] \in Decision /\ attempts[cur[w]] < MaxAttempts /\ status[cur[w]] \in Open
    BY <1>8 DEF IndexCommit, Shape, InHand, Busy, WorkedRowsAreHeld, Works
  <2>1. WorkedRowsAreHeld' /\ SingleOwner'
    BY <1>8, <2>0, ConcludeKeepsOwnership DEF IndexCommit, Shape, TypeOK, Busy
  <2>2. AttemptsWithinCap' /\ RowHistory'
    BY <1>8, <2>0 DEF IndexCommit, AttemptsWithinCap, RowHistory, Shape, TypeOK, Open
  <2> QED
    BY <1>0, <2>1, <2>2
<1>9. ASSUME NEW w \in Worker, IndexThrows(w) PROVE Ownership'
  <2>1. \A v \in Worker, e \in Decision : Works(v, e)' <=> Works(v, e)
    BY <1>9 DEF IndexThrows, Works, Shape, TypeOK, Busy
  <2> QED
    BY <1>0, <1>9, <2>1 DEF IndexThrows, WorkedRowsAreHeld, SingleOwner,
       AttemptsWithinCap, RowHistory, row
<1>10. ASSUME NEW w \in Worker, RecordFailure(w) PROVE Ownership'
  <2>0. cur[w] \in Decision /\ attempts[cur[w]] < MaxAttempts /\ status[cur[w]] \in Open
    BY <1>10 DEF RecordFailure, Shape, InHand, Busy, WorkedRowsAreHeld, Works
  <2>1. WorkedRowsAreHeld' /\ SingleOwner'
    BY <1>10, <2>0, ConcludeKeepsOwnership DEF RecordFailure, Shape, TypeOK, Busy
  <2>2. AttemptsWithinCap' /\ RowHistory'
    BY <1>10, <2>0 DEF RecordFailure, AttemptsWithinCap, RowHistory, Shape, TypeOK, Open
  <2> QED
    BY <1>0, <2>1, <2>2
<1>11. ASSUME NEW w \in Worker, RecordSkip(w) PROVE Ownership'
  <2>0. cur[w] \in Decision /\ attempts[cur[w]] < MaxAttempts /\ status[cur[w]] \in Open
    BY <1>11 DEF RecordSkip, Shape, InHand, Busy, WorkedRowsAreHeld, Works
  <2>1. WorkedRowsAreHeld' /\ SingleOwner'
    BY <1>11, <2>0, ConcludeKeepsOwnership DEF RecordSkip, Shape, TypeOK, Busy
  <2>2. AttemptsWithinCap' /\ RowHistory'
    BY <1>11, <2>0 DEF RecordSkip, AttemptsWithinCap, RowHistory, Shape, TypeOK, Open
  <2> QED
    BY <1>0, <2>1, <2>2
<1>12. ASSUME NEW w \in Worker, Crash(w) PROVE Ownership'
  <2>1. \A v \in Worker, e \in Decision : Works(v, e)' => Works(v, e)
    BY <1>12 DEF Crash, Works, Shape, TypeOK, Busy
  <2> QED
    BY <1>0, <1>12, <2>1 DEF Crash, WorkedRowsAreHeld, SingleOwner,
       AttemptsWithinCap, RowHistory, row
<1>13. CASE UNCHANGED vars
  BY <1>0, <1>13 DEF WorkedRowsAreHeld, SingleOwner, AttemptsWithinCap, RowHistory,
     Works, vars, row, work
<1> QED
  BY <1>1, <1>2, <1>3, <1>4, <1>5, <1>6, <1>7, <1>8, <1>9, <1>10, <1>11,
     <1>12, <1>13 DEF Next, Process

-----------------------------------------------------------------------------
\* Single ownership: as long as no claim outlives its worker, sweeps, immediate
\* attempts, crashes and takeovers never put two workers on one promotion.
THEOREM SingleOwnerHolds ==
  ASSUME ~ClaimsOutlived
  PROVE  Spec => []SingleOwner
<1>1. Ownership /\ [Next]_vars => Ownership'
  BY NextOwnership
<1>2. Ownership => SingleOwner
  BY DEF Ownership
<1> QED
  BY InitOwnership, <1>1, <1>2, PTL DEF Spec

\* The retry bound: under the same assumption no promotion is ever attempted
\* more than MAX_PROMOTION_ATTEMPTS times, and none is queued unaccepted.
THEOREM AttemptsWithinCapHolds ==
  ASSUME ~ClaimsOutlived
  PROVE  Spec => []AttemptsWithinCap
<1>1. Ownership /\ [Next]_vars => Ownership'
  BY NextOwnership
<1>2. Ownership => AttemptsWithinCap
  BY DEF Ownership
<1> QED
  BY InitOwnership, <1>1, <1>2, PTL DEF Spec

\* A row in hand is open, so a step that writes a row finds it open.
LEMMA InHandIsOpen ==
  ASSUME Ownership, NEW w \in Worker, pc[w] \in Busy
  PROVE  cur[w] \in Decision /\ status[cur[w]] \in Open /\ link[cur[w]] = "none"
  BY DEF Ownership, Shape, TypeOK, InHand, WorkedRowsAreHeld, Works, RowHistory, Open

\* What one step does to a settled row: nothing.
LEMMA StepKeepsSettled ==
  ASSUME Ownership, [Next]_vars, NEW d \in Decision, status[d] \in Terminal
  PROVE  status'[d] = status[d] /\ attempts'[d] = attempts[d] /\ link'[d] = link[d]
<1> USE DEF Open, Terminal
<1>1. ASSUME NEW e \in Decision, Accept(e) \/ ClaimLapses(e)
      PROVE  UNCHANGED <<status, attempts, link>>
  BY <1>1 DEF Accept, ClaimLapses, row
<1>2. ASSUME NEW w \in Request, NEW e \in Decision, StageDecision(w, e)
      PROVE  status'[d] = status[d] /\ UNCHANGED <<attempts, link>>
  BY <1>2 DEF StageDecision, Ownership, Shape, TypeOK
<1>3. ASSUME NEW w \in Request, ClaimDecision(w) PROVE UNCHANGED <<status, attempts, link>>
  BY <1>3 DEF ClaimDecision
<1>4. ASSUME NEW w \in Sweeper, SweepTick(w)
      PROVE  status'[d] = status[d] /\ UNCHANGED <<attempts, link>>
  <2>1. PICK new \in Batches(Undiscovered) : status' = Swept(new)
    BY <1>4 DEF SweepTick
  <2>2. new \subseteq Undiscovered
    BY DEF Batches
  <2> QED
    BY <1>4, <2>1, <2>2 DEF SweepTick, Swept, Undiscovered, OverCap
<1>5. ASSUME NEW w \in Worker, IndexCommit(w) \/ RecordFailure(w) \/ RecordSkip(w)
      PROVE  status'[d] = status[d] /\ attempts'[d] = attempts[d] /\ link'[d] = link[d]
  <2>1. pc[w] \in Busy /\ cur[w] # d
    BY <1>5, InHandIsOpen DEF IndexCommit, RecordFailure, RecordSkip, Busy
  <2> QED
    BY <1>5, <2>1 DEF IndexCommit, RecordFailure, RecordSkip, Ownership, Shape, TypeOK
<1>6. ASSUME NEW w \in Worker, NEW e \in Decision, ReadRow(w, e) \/ IndexThrows(w) \/ Crash(w)
      PROVE  UNCHANGED <<status, attempts, link>>
  BY <1>6 DEF ReadRow, IndexThrows, Crash, row
<1>7. ASSUME ToggleFlag \/ UNCHANGED vars PROVE UNCHANGED <<status, attempts, link>>
  BY <1>7 DEF ToggleFlag, vars, row
<1> QED
  BY <1>1, <1>2, <1>3, <1>4, <1>5, <1>6, <1>7 DEF Next, Process

\* Settled means settled: with no claim outlived, no step writes the status, the
\* attempts or the link of an indexed, skipped or dead-lettered promotion.
THEOREM SettledIsFinalHolds ==
  ASSUME ~ClaimsOutlived
  PROVE  Spec => SettledIsFinal
<1>1. Ownership /\ [Next]_vars => Ownership'
  BY NextOwnership
<1>2. Ownership /\ [Next]_vars =>
        [\A d \in Decision :
           status[d] \in Terminal =>
             status'[d] = status[d] /\ attempts'[d] = attempts[d] /\ link'[d] = link[d]]_vars
  BY StepKeepsSettled
<1> QED
  BY InitOwnership, <1>1, <1>2, PTL DEF Spec, SettledIsFinal

\* The promotion that created a representation keeps the mark that makes an
\* admin's deactivation of it effective.
THEOREM CreatorMarkIsPermanentHolds ==
  ASSUME ~ClaimsOutlived
  PROVE  Spec => CreatorMarkIsPermanent
<1>1. Ownership /\ [Next]_vars => Ownership'
  BY NextOwnership
<1>2. Ownership /\ [Next]_vars =>
        [\A d \in Decision : link[d] = "new" => link'[d] = "new"]_vars
  <2> SUFFICES ASSUME Ownership, [Next]_vars, NEW d \in Decision, link[d] = "new"
               PROVE  link'[d] = "new"
    OBVIOUS
  <2>1. status[d] \in Terminal
    BY DEF Ownership, RowHistory, Terminal
  <2> QED
    BY <2>1, StepKeepsSettled
<1> QED
  BY InitOwnership, <1>1, <1>2, PTL DEF Spec, CreatorMarkIsPermanent

-----------------------------------------------------------------------------
\* The generation counts the promotions in the index.
Counted == IsFiniteSet(Indexed) /\ GenerationCounts

LEMMA InitCounted == Init => Counted
<1> SUFFICES ASSUME Init PROVE Counted
  OBVIOUS
<1>1. Indexed = {}
  BY DEF Init, Indexed
<1> QED
  BY <1>1, FS_EmptySet DEF Init, Counted, GenerationCounts

LEMMA NextCounted ==
  ASSUME Ownership, Counted, [Next]_vars
  PROVE  Counted'
<1>1. ASSUME NEW w \in Worker, IndexCommit(w) PROVE Counted'
  <2>1. PICK d \in Decision : d = cur[w]
    BY <1>1 DEF IndexCommit, Ownership, Shape, InHand, Busy
  <2>2. status[d] \in Open
    BY <1>1, <2>1 DEF IndexCommit, Ownership, WorkedRowsAreHeld, Works, Busy
  <2>3. d \notin Indexed
    BY <2>2 DEF Ownership, RowHistory, Indexed, Open
  <2>4. Indexed' = Indexed \cup {d} /\ generation' = generation + 1
    BY <1>1, <2>1 DEF IndexCommit, Indexed, Ownership, Shape, TypeOK
  <2> QED
    BY <2>3, <2>4, FS_AddElement DEF Counted, GenerationCounts
<1>2. CASE UNCHANGED <<link, generation>>
  BY <1>2 DEF Counted, GenerationCounts, Indexed
<1> QED
  BY <1>1, <1>2 DEF Next, Process, Accept, ClaimLapses, ToggleFlag, StageDecision, ClaimDecision,
     SweepTick, ReadRow, IndexThrows, RecordFailure, RecordSkip, Crash, vars, row

\* While no claim is outlived, the generation has moved exactly once for every
\* promotion in the index, so no publication reuses another's invalidation.
THEOREM GenerationAlwaysCounts ==
  ASSUME ~ClaimsOutlived
  PROVE  Spec => []GenerationCounts
<1>1. Ownership /\ [Next]_vars => Ownership'
  BY NextOwnership
<1>2. Counted => GenerationCounts
  BY DEF Counted
<1> QED
  BY InitOwnership, InitCounted, NextCounted, <1>1, <1>2, PTL DEF Spec

-----------------------------------------------------------------------------
\* Refinement: with no claim outlived, the queue implements PromotionOutcome.
\* Indexing is Publish, a skip, a last failure or a normalisation is GiveUp, and
\* everything else leaves outcomes and generation alone.
THEOREM SettlesOnceHolds ==
  ASSUME ~ClaimsOutlived
  PROVE  Spec => SettlesOnce
<1> DEFINE oc == [d \in Decision |-> IF status[d] \in Terminal THEN status[d] ELSE "open"]
<1>1. Init => Outcome!Init
  BY PromotionAssumption DEF Init, Outcome!Init, Terminal
<1>2. Ownership /\ [Next]_vars => Ownership'
  BY NextOwnership
<1>3. Ownership /\ [Next]_vars => [Outcome!Next]_(Outcome!vars)
  <2> SUFFICES ASSUME Ownership, [Next]_vars PROVE Outcome!Next \/ UNCHANGED <<oc, generation>>
    BY DEF Outcome!vars
  <2> USE DEF Open, Terminal
  <2>1. ASSUME NEW e \in Decision, Accept(e) \/ ClaimLapses(e)
        PROVE  UNCHANGED <<oc, generation>>
    BY <2>1 DEF Accept, ClaimLapses, row
  <2>2. ASSUME NEW w \in Request, NEW e \in Decision, StageDecision(w, e)
        PROVE  UNCHANGED <<oc, generation>>
    BY <2>2 DEF StageDecision, Ownership, Shape, TypeOK
  <2>3. ASSUME NEW w \in Request, ClaimDecision(w) PROVE UNCHANGED <<oc, generation>>
    BY <2>3 DEF ClaimDecision
  <2>4. ASSUME NEW w \in Sweeper, SweepTick(w) PROVE Outcome!Next
    <3>1. PICK new \in Batches(Undiscovered) : status' = Swept(new)
      BY <2>4 DEF SweepTick
    <3>2. new \subseteq Undiscovered
      BY DEF Batches
    <3> DEFINE ds == {d \in Decision : OverCap(d)}
    <3>3. \A d \in ds : oc[d] = "open"
      BY DEF OverCap
    <3>4. oc' = [d \in Decision |-> IF d \in ds THEN "dead_lettered" ELSE oc[d]]
      BY <3>1, <3>2 DEF Swept, Undiscovered, OverCap
    <3>5. generation' = generation
      BY <2>4 DEF SweepTick
    <3>6. Outcome!GiveUp(ds)
      BY <3>3, <3>4, <3>5 DEF Outcome!GiveUp
    <3> QED
      BY <3>6 DEF Outcome!Next, Outcome!GiveUp
  <2>5. ASSUME NEW w \in Worker, IndexCommit(w) PROVE Outcome!Next
    <3>1. cur[w] \in Decision /\ status[cur[w]] \in Open
      BY <2>5, InHandIsOpen DEF IndexCommit, Busy
    <3>2. oc' = [oc EXCEPT ![cur[w]] = "indexed"] /\ oc[cur[w]] = "open"
      BY <2>5, <3>1 DEF IndexCommit, Ownership, Shape, TypeOK
    <3>3. Outcome!Publish(cur[w])
      BY <2>5, <3>2 DEF IndexCommit, Outcome!Publish
    <3> QED
      BY <3>1, <3>3 DEF Outcome!Next, Outcome!Publish
  <2>6. ASSUME NEW w \in Worker, RecordSkip(w) PROVE Outcome!Next
    <3>1. cur[w] \in Decision /\ status[cur[w]] \in Open
      BY <2>6, InHandIsOpen DEF RecordSkip, Busy
    <3>2. oc' = [d \in Decision |-> IF d \in {cur[w]} THEN "skipped" ELSE oc[d]] /\ oc[cur[w]] = "open"
      BY <2>6, <3>1 DEF RecordSkip, Ownership, Shape, TypeOK
    <3>3. Outcome!GiveUp({cur[w]})
      BY <2>6, <3>2 DEF RecordSkip, Outcome!GiveUp
    <3> QED
      BY <3>1, <3>3 DEF Outcome!Next, Outcome!GiveUp
  <2>7. ASSUME NEW w \in Worker, RecordFailure(w)
        PROVE  Outcome!Next \/ UNCHANGED <<oc, generation>>
    <3>1. cur[w] \in Decision /\ status[cur[w]] \in Open
      BY <2>7, InHandIsOpen DEF RecordFailure, Busy
    <3>2. CASE attempts[cur[w]] + 1 >= MaxAttempts
      <4>1. oc' = [d \in Decision |-> IF d \in {cur[w]} THEN "dead_lettered" ELSE oc[d]] /\ oc[cur[w]] = "open"
        BY <2>7, <3>1, <3>2 DEF RecordFailure, Ownership, Shape, TypeOK
      <4>2. Outcome!GiveUp({cur[w]})
        BY <2>7, <4>1 DEF RecordFailure, Outcome!GiveUp
      <4> QED
        BY <3>1, <4>2 DEF Outcome!Next, Outcome!GiveUp
    <3>3. CASE ~(attempts[cur[w]] + 1 >= MaxAttempts)
      BY <2>7, <3>1, <3>3 DEF RecordFailure, Ownership, Shape, TypeOK
    <3> QED
      BY <3>2, <3>3
  <2>8. ASSUME NEW w \in Worker, NEW e \in Decision, ReadRow(w, e)
        PROVE  UNCHANGED <<oc, generation>>
    BY <2>8 DEF ReadRow, row
  <2>9. ASSUME ToggleFlag \/ UNCHANGED vars PROVE UNCHANGED <<oc, generation>>
    BY <2>9 DEF ToggleFlag, vars, row
  <2> DEFINE goal == Outcome!Next \/ UNCHANGED <<oc, generation>>
  <2>10. /\ \A e \in Decision : Accept(e) \/ ClaimLapses(e) => goal
         /\ \A w \in Request : (\E e \in Decision : StageDecision(w, e)) \/ ClaimDecision(w) => goal
    BY <2>1, <2>2, <2>3
  <2>11. /\ \A w \in Sweeper : SweepTick(w) => goal
         /\ ToggleFlag \/ UNCHANGED vars => goal
    BY <2>4, <2>9
  <2>12. ASSUME NEW w \in Worker, Process(w) PROVE goal
    <3>1. CASE \E e \in Decision : ReadRow(w, e)
      BY <3>1, <2>8
    <3>2. CASE IndexThrows(w)
      BY <3>2 DEF IndexThrows, row
    <3>3. CASE IndexCommit(w) \/ RecordSkip(w)
      BY <3>3, <2>5, <2>6
    <3>4. CASE RecordFailure(w)
      BY <3>4, <2>7
    <3> QED
      BY <2>12, <3>1, <3>2, <3>3, <3>4 DEF Process
  <2>13. ASSUME NEW w \in Worker, Crash(w) PROVE goal
    BY <2>13 DEF Crash, row
  <2> HIDE DEF goal
  <2>14. goal
    BY <2>10, <2>11, <2>12, <2>13 DEF Next
  <2> QED
    BY <2>14 DEF goal
<1> QED
  BY InitOwnership, <1>1, <1>2, <1>3, PTL DEF Spec, SettlesOnce, Outcome!Spec
=============================================================================
