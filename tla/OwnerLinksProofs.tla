-------------------------- MODULE OwnerLinksProofs --------------------------
(***************************************************************************)
(* Theorems about OwnerLinks.  What a review is stamped with is current    *)
(* because every writer either moves the generation of both accounts of    *)
(* its pair or leaves the status of the link alone; a link is its          *)
(* evidence, and the log its row, unless a withdrawn link keeps evidence.  *)
(***************************************************************************)
EXTENDS OwnerLinks, TLAPS

\* An active link is established; without a link there is no evidence.
Established ==
    \A p \in Pair : link[p].status = "ACTIVE" => Establishes(ev[p])

Empty ==
    \A p \in Pair : link[p].status = "none" => \A e \in Evidence : ev[p][e] = "none"

\* No stamp is ahead of its account's generation.
Stamps ==
    \A v \in Reviewer, a \in Account :
        review[v].stamp[a] # Unread => review[v].stamp[a] <= gen[a]

\* A review that has read its link is right about it while a stamp is current.
ReadIsCurrent ==
    \A v \in Reviewer : \A a \in review[v].pair :
        review[v].pc \in {"evidence", "done"} /\ review[v].stamp[a] = gen[a] =>
            review[v].status = link[review[v].pair].status

SawEstablished ==
    /\ \A v \in Reviewer : review[v].pc # "done" => ~review[v].established
    /\ \A v \in Reviewer : \A a \in review[v].pair :
        review[v].pc = "done" /\ review[v].stamp[a] = gen[a] =>
            (review[v].established <=> review[v].status = "ACTIVE")

\* The strongest confidence of a link is that of a live row.
Strong ==
    \A p \in Pair : link[p].status # "none" =>
        link[p].strongest = Strongest(ev[p], link[p].strongest)

Base == TypeOK /\ Established /\ Empty /\ Strong

-----------------------------------------------------------------------------
\* What the recomputation of a link returns.
LEMMA StrongestType ==
    ASSUME NEW f, NEW last \in Confidence
    PROVE  Strongest(f, last) \in Confidence
BY DEF Strongest, Confidence

LEMMA ResolvedType ==
    ASSUME NEW f
    PROVE  Resolved(f) \in {"ACTIVE", "WITHDRAWN"}
BY DEF Resolved

LEMMA ObservedType ==
    ASSUME NEW old \in Link, NEW f, NEW by \in Actor
    PROVE  Observed(old, f, by) \in Link
<1>1. Resolved(f) \in State
  BY ResolvedType DEF State
<1>2. Strongest(f, old.strongest) \in Confidence
  BY StrongestType DEF Link
<1>3. Coalesce(old.reason, Automatic) \in Reason
  BY DEF Coalesce, Link, Reason, Automatic
<1>4. (IF Establishes(f) THEN "none" ELSE Coalesce(old.reason, Automatic)) \in Reason
  BY <1>3 DEF Reason
<1>5. (IF Establishes(f) /\ old.status = "WITHDRAWN" THEN by ELSE old.decidedBy) \in Actor
  BY DEF Link
<1> QED
  BY <1>1, <1>2, <1>4, <1>5 DEF Observed, Link

LEMMA ReducedType ==
    ASSUME NEW old \in Link, NEW f, NEW r \in CallerReason, NEW by \in Actor
    PROVE  Reduced(old, f, r, by) \in Link
<1>1. Strongest(f, old.strongest) \in Confidence
  BY StrongestType DEF Link
<1>2. Coalesce(old.reason, r) \in Reason
  BY DEF Coalesce, Link, Reason
<1>3. CASE Establishes(f)
  <2>1. Reduced(old, f, r, by) =
          [old EXCEPT !.status = "ACTIVE", !.strongest = Strongest(f, old.strongest)]
    BY <1>3 DEF Reduced
  <2> QED
    BY <2>1, <1>1 DEF Link, State
<1>4. CASE ~Establishes(f)
  <2>1. Reduced(old, f, r, by) =
          [status |-> "WITHDRAWN", strongest |-> Strongest(f, old.strongest),
           reason |-> Coalesce(old.reason, r), decidedBy |-> by]
    BY <1>4 DEF Reduced
  <2> QED
    BY <2>1, <1>1, <1>2 DEF Link, State
<1> QED
  BY <1>3, <1>4

LEMMA ReducedStatus ==
    ASSUME NEW old \in Link, NEW f, NEW r, NEW by
    PROVE  Reduced(old, f, r, by).status = Resolved(f)
BY DEF Reduced, Resolved, Link

LEMMA BumpType ==
    ASSUME gen \in [Account -> Nat], NEW p, Bump(p)
    PROVE  gen' \in [Account -> Nat]
BY DEF Bump

-----------------------------------------------------------------------------
\* The types, one step per writer and reader.
LEMMA TypeCreate ==
    ASSUME TypeOK, NEW p \in Pair, NEW e \in Evidence, NEW by \in Actor, CreateLink(p, e, by)
    PROVE  TypeOK'
<1> USE DEF CreateLink, TypeOK
<1>1. link' \in [Pair -> Link]
  <2>1. [status |-> "ACTIVE", strongest |-> "HIGH", reason |-> "none", decidedBy |-> by] \in Link
    BY DEF Link, State, Confidence, Reason
  <2> QED BY <2>1
<1>2. ev' \in [Pair -> [Evidence -> {"none", "withdrawn"} \cup Confidence]]
  BY DEF Confidence
<1>3. log' \in [Pair -> Event]
  <2>1. [state |-> "ACTIVE", reason |-> "none", actor |-> by] \in Event
    BY DEF Event, State, Reason
  <2> QED BY <2>1
<1>4. evlog' \in [Pair -> [Evidence -> State]]
  BY DEF State
<1>5. gen' \in [Account -> Nat]
  BY BumpType
<1> QED
  BY <1>1, <1>2, <1>3, <1>4, <1>5

LEMMA TypeObserve ==
    ASSUME TypeOK, NEW p \in Pair, NEW e \in Evidence, NEW c \in Confidence,
           NEW by \in Actor, Observe(p, e, c, by)
    PROVE  TypeOK'
<1> DEFINE f == [ev[p] EXCEPT ![e] = c]
<1>1. link' \in [Pair -> Link]
  <2>1. Observed(link[p], f, by) \in Link
    BY ObservedType DEF TypeOK
  <2>2. link' = [link EXCEPT ![p] = Observed(link[p], f, by)]
    BY DEF Observe
  <2> QED BY <2>1, <2>2 DEF TypeOK
<1>2. ev' \in [Pair -> [Evidence -> {"none", "withdrawn"} \cup Confidence]]
  BY DEF Observe, TypeOK
<1>3. log' \in [Pair -> Event]
  <2>1. [state |-> Resolved(f), actor |-> by,
         reason |-> IF Establishes(f) THEN "none" ELSE Automatic] \in Event
    BY ResolvedType DEF Event, State, Reason, Automatic
  <2>2. \/ log' = log
        \/ log' = [log EXCEPT ![p] = [state |-> Resolved(f), actor |-> by,
                     reason |-> IF Establishes(f) THEN "none" ELSE Automatic]]
    BY DEF Observe
  <2> QED BY <2>1, <2>2 DEF TypeOK
<1>4. evlog' \in [Pair -> [Evidence -> State]]
  BY DEF Observe, TypeOK, State
<1>5. gen' \in [Account -> Nat]
  <2>1. gen' = gen \/ Bump(p)
    BY DEF Observe
  <2> QED BY <2>1, BumpType DEF TypeOK
<1> QED
  BY <1>1, <1>2, <1>3, <1>4, <1>5 DEF TypeOK, Observe

LEMMA TypeWithdrawEvidence ==
    ASSUME TypeOK, NEW p \in Pair, NEW e \in Evidence, NEW r \in CallerReason,
           NEW by \in Actor, WithdrawEvidence(p, e, r, by)
    PROVE  TypeOK'
<1> DEFINE f == [ev[p] EXCEPT ![e] = "withdrawn"]
<1>1. link' \in [Pair -> Link]
  <2>1. Reduced(link[p], f, r, by) \in Link
    BY ReducedType DEF TypeOK
  <2>2. link' = [link EXCEPT ![p] = Reduced(link[p], f, r, by)]
    BY DEF WithdrawEvidence
  <2> QED BY <2>1, <2>2 DEF TypeOK
<1>2. ev' \in [Pair -> [Evidence -> {"none", "withdrawn"} \cup Confidence]]
  BY DEF WithdrawEvidence, TypeOK
<1>3. log' \in [Pair -> Event]
  <2>1. [state |-> "WITHDRAWN", reason |-> r, actor |-> by] \in Event
    BY DEF Event, State, Reason
  <2>2. \/ log' = log
        \/ log' = [log EXCEPT ![p] = [state |-> "WITHDRAWN", reason |-> r, actor |-> by]]
    BY DEF WithdrawEvidence
  <2> QED BY <2>1, <2>2 DEF TypeOK
<1>4. evlog' \in [Pair -> [Evidence -> State]]
  BY DEF WithdrawEvidence, TypeOK, State
<1>5. gen' \in [Account -> Nat]
  BY BumpType DEF WithdrawEvidence, TypeOK
<1> QED
  BY <1>1, <1>2, <1>3, <1>4, <1>5 DEF TypeOK, WithdrawEvidence

LEMMA TypeWithdrawLink ==
    ASSUME TypeOK, NEW p \in Pair, NEW r \in CallerReason, NEW by \in Actor,
           NEW keep \in BOOLEAN, WithdrawLink(p, r, by, keep)
    PROVE  TypeOK'
<1> DEFINE gone == IF keep THEN {} ELSE Live(ev[p])
<1>1. link' \in [Pair -> Link]
  <2>1. [status |-> "WITHDRAWN", strongest |-> link[p].strongest,
         reason |-> r, decidedBy |-> by] \in Link
    BY DEF TypeOK, Link, State, Reason
  <2> QED BY <2>1 DEF TypeOK, WithdrawLink
<1>2. ev' \in [Pair -> [Evidence -> {"none", "withdrawn"} \cup Confidence]]
  <2>1. [e \in Evidence |-> IF e \in gone THEN "withdrawn" ELSE ev[p][e]]
          \in [Evidence -> {"none", "withdrawn"} \cup Confidence]
    BY DEF TypeOK
  <2> QED BY <2>1 DEF TypeOK, WithdrawLink
<1>3. log' \in [Pair -> Event]
  <2>1. [state |-> "WITHDRAWN", reason |-> r, actor |-> by] \in Event
    BY DEF Event, State, Reason
  <2> QED BY <2>1 DEF TypeOK, WithdrawLink
<1>4. evlog' \in [Pair -> [Evidence -> State]]
  <2>1. [e \in Evidence |-> IF e \in gone THEN "WITHDRAWN" ELSE evlog[p][e]]
          \in [Evidence -> State]
    BY DEF TypeOK, State
  <2> QED BY <2>1 DEF TypeOK, WithdrawLink
<1>5. gen' \in [Account -> Nat]
  BY BumpType DEF WithdrawLink, TypeOK
<1> QED
  BY <1>1, <1>2, <1>3, <1>4, <1>5 DEF TypeOK, WithdrawLink

LEMMA TypeReview ==
    ASSUME TypeOK, NEW v \in Reviewer,
           \/ \E p \in Pair : StartReview(v, p)
           \/ \E a \in Account : ReadGeneration(v, a)
           \/ ReadLink(v)
           \/ ReadEvidence(v)
    PROVE  TypeOK'
<1>1. \A w \in Reviewer : review[w] \in Review
  BY DEF TypeOK
<1>2. UNCHANGED <<store, gen>>
  BY DEF StartReview, ReadGeneration, ReadLink, ReadEvidence
<1> DEFINE Moves == \E n \in Review :
                       /\ review' = [review EXCEPT ![v] = n]
                       /\ n.pc # "idle" => n.pair \in Pair
<1>3. Moves
  <2>1. ASSUME NEW p \in Pair, StartReview(v, p)
        PROVE  Moves
    <3> DEFINE m == [IdleReview EXCEPT !.pc = "reading", !.pair = p]
    <3>1. m \in Review
      BY OwnerLinksAssumption DEF IdleReview, Review, Unread, State
    <3>2. m.pair = p
      BY DEF IdleReview
    <3> QED BY <2>1, <3>1, <3>2 DEF StartReview
  <2>2. ASSUME NEW a \in Account, ReadGeneration(v, a)
        PROVE  Moves
    <3> DEFINE m == [review[v] EXCEPT !.stamp = [review[v].stamp EXCEPT ![a] = gen[a]]]
    <3>1. m \in Review
      BY <1>1 DEF Review, TypeOK
    <3>2. m.pair = review[v].pair /\ m.pc = review[v].pc
      BY <1>1 DEF Review
    <3> QED BY <2>2, <3>1, <3>2 DEF ReadGeneration, TypeOK
  <2>3. ASSUME ReadLink(v)
        PROVE  Moves
    <3> DEFINE s == link[review[v].pair].status
               m == [review[v] EXCEPT !.pc = IF s = "none" THEN "done" ELSE "evidence",
                                      !.status = s]
    <3>1. review[v].pair \in Pair
      BY <2>3 DEF ReadLink, TypeOK
    <3>2. s \in State
      BY <3>1 DEF TypeOK, Link
    <3>3. m \in Review
      BY <1>1, <3>2 DEF Review
    <3>4. m.pair = review[v].pair
      BY <1>1 DEF Review
    <3> QED BY <2>3, <3>1, <3>3, <3>4 DEF ReadLink
  <2>4. ASSUME ReadEvidence(v)
        PROVE  Moves
    <3> DEFINE b == review[v].status = "ACTIVE" /\ Establishes(ev[review[v].pair])
               m == [review[v] EXCEPT !.pc = "done", !.established = b]
    <3>1. review[v].pair \in Pair
      BY <2>4 DEF ReadEvidence, TypeOK
    <3>2. b \in BOOLEAN
      OBVIOUS
    <3>3. m \in Review
      BY <1>1, <3>2 DEF Review
    <3>4. m.pair = review[v].pair
      BY <1>1 DEF Review
    <3> QED BY <2>4, <3>1, <3>3, <3>4 DEF ReadEvidence
  <2> QED BY <2>1, <2>2, <2>3, <2>4
<1>4. review' \in [Reviewer -> Review]
  BY <1>3 DEF TypeOK
<1>5. \A w \in Reviewer : review'[w].pc # "idle" => review'[w].pair \in Pair
  BY <1>3 DEF TypeOK
<1> QED
  BY <1>2, <1>4, <1>5 DEF TypeOK, store

LEMMA TypeInit == Init => TypeOK
<1> SUFFICES ASSUME Init PROVE TypeOK
  OBVIOUS
<1>1. NoLink \in Link
  BY DEF NoLink, Link, State, Confidence, Reason, Actor
<1>2. NoEvent \in Event
  BY DEF NoEvent, Event, State, Reason, Actor
<1>3. IdleReview \in Review /\ IdleReview.pc = "idle"
  BY DEF IdleReview, Review, State, Unread
<1> QED
  BY <1>1, <1>2, <1>3 DEF Init, TypeOK, State

LEMMA TypeStep == TypeOK /\ [Next]_vars => TypeOK'
<1> SUFFICES ASSUME TypeOK, [Next]_vars PROVE TypeOK'
  OBVIOUS
<1>1. ASSUME NEW p \in Pair, NEW e \in Evidence, NEW by \in Actor, CreateLink(p, e, by)
      PROVE  TypeOK'
  BY <1>1, TypeCreate
<1>2. ASSUME NEW p \in Pair, NEW e \in Evidence, NEW c \in Confidence,
             NEW by \in Actor, Observe(p, e, c, by)
      PROVE  TypeOK'
  BY <1>2, TypeObserve
<1>3. ASSUME NEW p \in Pair, NEW e \in Evidence, NEW r \in CallerReason,
             NEW by \in Actor, WithdrawEvidence(p, e, r, by)
      PROVE  TypeOK'
  BY <1>3, TypeWithdrawEvidence
<1>4. ASSUME NEW p \in Pair, NEW r \in CallerReason, NEW by \in Actor,
             NEW keep \in BOOLEAN, WithdrawLink(p, r, by, keep)
      PROVE  TypeOK'
  BY <1>4, TypeWithdrawLink
<1>5. ASSUME NEW v \in Reviewer,
             \/ \E p \in Pair : StartReview(v, p)
             \/ \E a \in Account : ReadGeneration(v, a)
             \/ ReadLink(v)
             \/ ReadEvidence(v)
      PROVE  TypeOK'
  BY <1>5, TypeReview
<1>6. CASE UNCHANGED vars
  BY <1>6 DEF vars, store, TypeOK
<1> QED
  BY <1>1, <1>2, <1>3, <1>4, <1>5, <1>6 DEF Next

\* The rows, the log, the generations and the reviews keep their types.
THEOREM TypeCorrect == Spec => []TypeOK
BY TypeInit, TypeStep, PTL DEF Spec

-----------------------------------------------------------------------------
\* A writer's effect on its own pair p and on the others.
Writer(p) ==
    \/ \E e \in Evidence, by \in Actor :
          \/ CreateLink(p, e, by)
          \/ \E c \in Confidence : Observe(p, e, c, by)
          \/ \E r \in CallerReason : WithdrawEvidence(p, e, r, by)
    \/ \E r \in CallerReason, by \in Actor, keep \in BOOLEAN : WithdrawLink(p, r, by, keep)

Reader(v) ==
    \/ \E p \in Pair : StartReview(v, p)
    \/ \E a \in Account : ReadGeneration(v, a)
    \/ ReadLink(v)
    \/ ReadEvidence(v)

LEMMA NextCases ==
    Next <=> (\E p \in Pair : Writer(p)) \/ (\E v \in Reviewer : Reader(v))
BY DEF Next, Writer, Reader

\* Another pair's rows stay; the own status moves with both generations.
Effect(p) ==
    /\ UNCHANGED review
    /\ \A q \in Pair : q # p => link'[q] = link[q] /\ ev'[q] = ev[q]
    /\ Bump(p) \/ (UNCHANGED gen /\ link'[p].status = link[p].status)

LEMMA WriterEffect ==
    ASSUME TypeOK, NEW p \in Pair, Writer(p)
    PROVE  Effect(p)
<1> USE DEF TypeOK, Effect
<1>1. ASSUME NEW e \in Evidence, NEW by \in Actor, CreateLink(p, e, by)
      PROVE  Effect(p)
  BY <1>1 DEF CreateLink
<1>2. ASSUME NEW e \in Evidence, NEW c \in Confidence, NEW by \in Actor,
             Observe(p, e, c, by)
      PROVE  Effect(p)
  <2> DEFINE f == [ev[p] EXCEPT ![e] = c]
  <2>1. \A q \in Pair : q # p => link'[q] = link[q] /\ ev'[q] = ev[q]
    BY <1>2 DEF Observe
  <2>2. CASE Bump(p)
    BY <1>2, <2>1, <2>2 DEF Observe
  <2>3. CASE ~Bump(p)
    <3>1. Resolved(f) = link[p].status /\ UNCHANGED gen
      BY <1>2, <2>3 DEF Observe
    <3>2. link'[p] = Observed(link[p], f, by)
      BY <1>2 DEF Observe
    <3>3. link'[p].status = Resolved(f)
      BY <3>2 DEF Observed
    <3> QED BY <1>2, <2>1, <3>1, <3>3 DEF Observe
  <2> QED BY <2>2, <2>3
<1>3. ASSUME NEW e \in Evidence, NEW r \in CallerReason, NEW by \in Actor,
             WithdrawEvidence(p, e, r, by)
      PROVE  Effect(p)
  BY <1>3 DEF WithdrawEvidence
<1>4. ASSUME NEW r \in CallerReason, NEW by \in Actor, NEW keep \in BOOLEAN,
             WithdrawLink(p, r, by, keep)
      PROVE  Effect(p)
  BY <1>4 DEF WithdrawLink
<1> QED
  BY <1>1, <1>2, <1>3, <1>4 DEF Writer

\* After a writer the pair has a link with the strongest confidence of its rows,
\* established if it is active; the status is that of its evidence unless
\* evidence is kept.
LEMMA WriterOwn ==
    ASSUME Base, NEW p \in Pair, Writer(p)
    PROVE  /\ link'[p].status # "none"
           /\ link'[p].status = "ACTIVE" => Establishes(ev'[p])
           /\ link'[p].strongest = Strongest(ev'[p], link'[p].strongest)
           /\ ~KeepsEvidence => link'[p].status = Resolved(ev'[p])
<1> USE DEF Base, TypeOK
<1>1. ASSUME NEW e \in Evidence, NEW by \in Actor, CreateLink(p, e, by)
      PROVE  /\ link'[p].status = Resolved(ev'[p])
             /\ link'[p].strongest = Strongest(ev'[p], link'[p].strongest)
  <2>1. link'[p].status = "ACTIVE" /\ link'[p].strongest = "HIGH"
    BY <1>1 DEF CreateLink
  <2>2. e \in Bound /\ ev'[p][e] = "HIGH"
    BY <1>1 DEF CreateLink
  <2>3. Establishes(ev'[p])
    BY <2>2 DEF Establishes
  <2>4. e \in Live(ev'[p])
    BY <2>2 DEF Live, Confidence
  <2>5. Strongest(ev'[p], link'[p].strongest) = "HIGH"
    BY <2>2, <2>4 DEF Strongest
  <2> QED BY <2>1, <2>3, <2>5 DEF Resolved
<1>2. ASSUME NEW e \in Evidence, NEW c \in Confidence, NEW by \in Actor,
             Observe(p, e, c, by)
      PROVE  /\ link'[p].status = Resolved(ev'[p])
             /\ link'[p].strongest = Strongest(ev'[p], link'[p].strongest)
  <2>1. link'[p] = Observed(link[p], ev'[p], by)
    BY <1>2 DEF Observe
  <2>2. \A f, last : Strongest(f, Strongest(f, last)) = Strongest(f, last)
    BY DEF Strongest
  <2> QED BY <2>1, <2>2 DEF Observed
<1>3. ASSUME NEW e \in Evidence, NEW r \in CallerReason, NEW by \in Actor,
             WithdrawEvidence(p, e, r, by)
      PROVE  /\ link'[p].status = Resolved(ev'[p])
             /\ link'[p].strongest = Strongest(ev'[p], link'[p].strongest)
  <2>1. link'[p] = Reduced(link[p], ev'[p], r, by)
    BY <1>3 DEF WithdrawEvidence
  <2>2. link[p] \in Link
    OBVIOUS
  <2>3. link'[p].status = Resolved(ev'[p])
    BY <2>1, <2>2, ReducedStatus
  <2>4. link'[p].strongest = Strongest(ev'[p], link[p].strongest)
    BY <2>1, <2>2 DEF Reduced, Link
  <2>5. \A f, last : Strongest(f, Strongest(f, last)) = Strongest(f, last)
    BY DEF Strongest
  <2> QED BY <2>3, <2>4, <2>5
<1>4. ASSUME NEW r \in CallerReason, NEW by \in Actor, NEW keep \in BOOLEAN,
             WithdrawLink(p, r, by, keep)
      PROVE  /\ link'[p].status = "WITHDRAWN"
             /\ link'[p].strongest = Strongest(ev'[p], link'[p].strongest)
             /\ ~KeepsEvidence => ~Establishes(ev'[p])
  <2>1. link'[p].status = "WITHDRAWN" /\ link'[p].strongest = link[p].strongest
    BY <1>4 DEF WithdrawLink
  <2>2. ASSUME ~KeepsEvidence
        PROVE  Live(ev'[p]) = {}
    <3>1. ev'[p] = [e \in Evidence |-> IF e \in Live(ev[p]) THEN "withdrawn" ELSE ev[p][e]]
      BY <1>4, <2>2 DEF WithdrawLink
    <3> QED BY <3>1 DEF Live, Confidence
  <2>3. ASSUME Live(ev'[p]) = {}
        PROVE  ~Establishes(ev'[p])
    BY <2>3, OwnerLinksAssumption DEF Live, Establishes, Confidence
  <2>4. CASE keep
    <3>1. ev'[p] = ev[p]
      BY <1>4, <2>4 DEF WithdrawLink
    <3>2. link[p].status # "none"
      BY <1>4 DEF WithdrawLink
    <3> QED BY <2>1, <2>2, <2>3, <3>1, <3>2 DEF Strong
  <2>5. CASE ~keep
    <3>1. ev'[p] = [e \in Evidence |-> IF e \in Live(ev[p]) THEN "withdrawn" ELSE ev[p][e]]
      BY <1>4, <2>5 DEF WithdrawLink
    <3>2. Live(ev'[p]) = {}
      BY <3>1 DEF Live, Confidence
    <3> QED BY <2>1, <2>3, <3>2 DEF Strongest
  <2> QED BY <2>4, <2>5
<1>6. \A f : Resolved(f) # "none" /\ (Resolved(f) = "ACTIVE" <=> Establishes(f))
              /\ (Resolved(f) = "WITHDRAWN" <=> ~Establishes(f))
  BY DEF Resolved
<1>7. CASE \E r \in CallerReason, by \in Actor, keep \in BOOLEAN : WithdrawLink(p, r, by, keep)
  BY <1>4, <1>6, <1>7
<1>8. CASE ~\E r \in CallerReason, by \in Actor, keep \in BOOLEAN : WithdrawLink(p, r, by, keep)
  <2>1. /\ link'[p].status = Resolved(ev'[p])
        /\ link'[p].strongest = Strongest(ev'[p], link'[p].strongest)
    BY <1>1, <1>2, <1>3, <1>8 DEF Writer
  <2> QED BY <2>1, <1>6
<1> QED
  BY <1>7, <1>8
-----------------------------------------------------------------------------
\* Whoever writes or reads, base facts stay.
LEMMA BaseInit == Init => Base
<1> SUFFICES ASSUME Init PROVE Base
  OBVIOUS
<1> QED
  BY TypeInit DEF Init, Base, Established, Empty, Strong, NoLink

LEMMA ReaderEffect ==
    ASSUME NEW v \in Reviewer, Reader(v)
    PROVE  UNCHANGED <<store, gen>>
BY DEF Reader, StartReview, ReadGeneration, ReadLink, ReadEvidence

LEMMA BaseStep == Base /\ [Next]_vars => Base'
<1> SUFFICES ASSUME Base, [Next]_vars PROVE Base'
  OBVIOUS
<1>1. TypeOK /\ TypeOK'
  BY TypeStep DEF Base
<1>2. ASSUME NEW p \in Pair, Writer(p)
      PROVE  Established' /\ Empty' /\ Strong'
  <2>1. \A q \in Pair : q # p => link'[q] = link[q] /\ ev'[q] = ev[q]
    BY <1>1, <1>2, WriterEffect DEF Effect
  <2>2. /\ link'[p].status # "none"
        /\ link'[p].status = "ACTIVE" => Establishes(ev'[p])
        /\ link'[p].strongest = Strongest(ev'[p], link'[p].strongest)
    BY <1>2, WriterOwn
  <2>3. ASSUME NEW q \in Pair
        PROVE  /\ link'[q].status = "ACTIVE" => Establishes(ev'[q])
               /\ link'[q].status = "none" => \A e \in Evidence : ev'[q][e] = "none"
               /\ link'[q].status # "none" =>
                    link'[q].strongest = Strongest(ev'[q], link'[q].strongest)
    <3>1. CASE q = p
      BY <2>2, <3>1
    <3>2. CASE q # p
      BY <2>1, <3>2 DEF Base, Established, Empty, Strong
    <3> QED BY <3>1, <3>2
  <2> QED BY <2>3 DEF Established, Empty, Strong, Establishes, Strongest, Live
<1>3. CASE UNCHANGED store
  BY <1>1, <1>3 DEF store, Base, Established, Empty, Strong, Establishes, Strongest, Live
<1>4. CASE UNCHANGED vars
  BY <1>3, <1>4 DEF vars
<1> QED
  BY <1>1, <1>2, <1>3, <1>4, NextCases, ReaderEffect DEF Base

\* No link is active without an establishing row, and its strongest confidence
\* is a live row's, whether callers withdraw evidence with a link or not.
THEOREM ActiveAlwaysBacked == Spec => []ActiveIsBacked
<1>1. Base => ActiveIsBacked
  BY DEF Base, Established, Strong, ActiveIsBacked
<1> QED
  BY <1>1, BaseInit, BaseStep, PTL DEF Spec

-----------------------------------------------------------------------------
\* A link is its evidence.
LEMMA RowsInit == Init => RowFollowsEvidence
BY DEF Init, RowFollowsEvidence, NoLink

LEMMA RowsStep ==
    ASSUME ~KeepsEvidence, Base, RowFollowsEvidence, [Next]_vars
    PROVE  RowFollowsEvidence'
<1>1. ASSUME NEW p \in Pair, Writer(p)
      PROVE  RowFollowsEvidence'
  <2>1. \A q \in Pair : q # p => link'[q] = link[q] /\ ev'[q] = ev[q]
    BY <1>1, WriterEffect DEF Effect, Base
  <2>2. /\ link'[p].status = Resolved(ev'[p])
        /\ link'[p].strongest = Strongest(ev'[p], link'[p].strongest)
    BY <1>1, WriterOwn
  <2>3. ASSUME NEW q \in Pair, link'[q].status # "none"
        PROVE  /\ link'[q].status = Resolved(ev'[q])
               /\ link'[q].strongest = Strongest(ev'[q], link'[q].strongest)
    <3>1. CASE q = p
      BY <2>2, <3>1
    <3>2. CASE q # p
      BY <2>1, <2>3, <3>2 DEF RowFollowsEvidence
    <3> QED BY <3>1, <3>2
  <2> QED BY <2>3 DEF RowFollowsEvidence, Resolved, Strongest, Establishes, Live
<1>2. CASE UNCHANGED store
  BY <1>2 DEF store, RowFollowsEvidence, Resolved, Strongest, Establishes, Live
<1>3. CASE UNCHANGED vars
  BY <1>2, <1>3 DEF vars
<1> QED
  BY <1>1, <1>2, <1>3, NextCases, ReaderEffect

\* A link is ACTIVE exactly while an establishing row of evidence lives, and
\* its strongest confidence is a live one, unless a withdrawn link may keep its
\* evidence.
THEOREM RowAlwaysFollows == ~KeepsEvidence => (Spec => []RowFollowsEvidence)
<1> SUFFICES ASSUME ~KeepsEvidence PROVE Spec => []RowFollowsEvidence
  OBVIOUS
<1>1. Init => Base /\ RowFollowsEvidence
  BY BaseInit, RowsInit
<1>2. Base /\ RowFollowsEvidence /\ [Next]_vars => (Base /\ RowFollowsEvidence)'
  BY BaseStep, RowsStep
<1> QED
  BY <1>1, <1>2, PTL DEF Spec

-----------------------------------------------------------------------------
\* Reviews.
Reviews == Base /\ Stamps /\ ReadIsCurrent /\ SawEstablished

LEMMA ReviewsInit == Init => Reviews
<1> SUFFICES ASSUME Init PROVE Reviews
  OBVIOUS
<1>1. Base
  BY BaseInit
<1> QED
  BY <1>1 DEF Init, Reviews, Stamps, ReadIsCurrent, SawEstablished, IdleReview, Unread

\* A stamp that is current after a writer was so before, and then the status
\* of the review's link has not moved.
LEMMA StaleAfterWrite ==
    ASSUME Base, Stamps, NEW p \in Pair, Writer(p), NEW v \in Reviewer,
           NEW a \in review[v].pair, review[v].pc # "idle",
           review[v].stamp[a] = gen'[a]
    PROVE  /\ review[v].stamp[a] = gen[a]
           /\ link'[review[v].pair].status = link[review[v].pair].status
<1> DEFINE q == review[v].pair
<1>1. q \in Pair /\ a \in Account /\ review[v] \in Review
  BY OwnerLinksAssumption DEF Base, TypeOK
<1>2. review[v].stamp[a] \in Nat \cup {Unread} /\ gen[a] \in Nat
  BY <1>1 DEF Base, TypeOK, Review
<1>3. Effect(p)
  BY WriterEffect DEF Base
<1>4. CASE Bump(p)
  <2>1. gen'[a] = IF a \in p THEN gen[a] + 1 ELSE gen[a]
    BY <1>1, <1>4 DEF Bump
  <2>2. review[v].stamp[a] # Unread
    BY <2>1, <1>2 DEF Unread
  <2>3. review[v].stamp[a] <= gen[a]
    BY <1>1, <2>2 DEF Stamps
  <2>4. a \notin p
    BY <1>2, <2>1, <2>2, <2>3
  <2>5. q # p
    BY <2>4
  <2>6. link'[q] = link[q]
    BY <1>1, <1>3, <2>5 DEF Effect
  <2> QED BY <2>1, <2>4, <2>6
<1>5. CASE UNCHANGED gen /\ link'[p].status = link[p].status
  <2>1. link'[q].status = link[q].status
    <3>1. CASE q = p
      BY <1>5, <3>1
    <3>2. CASE q # p
      BY <1>1, <1>3, <3>2 DEF Effect
    <3> QED BY <3>1, <3>2
  <2> QED BY <1>5, <2>1
<1> QED
  BY <1>3, <1>4, <1>5 DEF Effect

LEMMA ReviewsWrite ==
    ASSUME Reviews, NEW p \in Pair, Writer(p)
    PROVE  Stamps' /\ ReadIsCurrent' /\ SawEstablished'
<1>1. Effect(p)
  BY WriterEffect DEF Reviews, Base
<1>2. UNCHANGED review
  BY <1>1 DEF Effect
<1>3. \A a \in Account : gen[a] \in Nat /\ gen[a] <= gen'[a]
  BY <1>1 DEF Effect, Bump, Reviews, Base, TypeOK
<1>4. Stamps'
  <2> SUFFICES ASSUME NEW v \in Reviewer, NEW a \in Account,
                      review'[v].stamp[a] # Unread
               PROVE  review'[v].stamp[a] <= gen'[a]
    BY DEF Stamps
  <2>1. review[v].stamp[a] \in Nat /\ review[v].stamp[a] <= gen[a]
    BY <1>2 DEF Reviews, Base, TypeOK, Review, Stamps
  <2>2. gen'[a] \in Nat
    BY <1>1 DEF Effect, Bump, Reviews, Base, TypeOK
  <2> QED BY <1>2, <1>3, <2>1, <2>2
<1>5. ReadIsCurrent'
  <2> SUFFICES ASSUME NEW v \in Reviewer, NEW a \in review'[v].pair,
                      review'[v].pc \in {"evidence", "done"},
                      review'[v].stamp[a] = gen'[a]
               PROVE  review'[v].status = link'[review'[v].pair].status
    BY DEF ReadIsCurrent
  <2>1. /\ a \in review[v].pair /\ review[v].pc \in {"evidence", "done"}
        /\ review[v].stamp[a] = gen'[a]
    BY <1>2
  <2>2. /\ review[v].stamp[a] = gen[a]
        /\ link'[review[v].pair].status = link[review[v].pair].status
    BY <2>1, StaleAfterWrite DEF Reviews
  <2>3. review[v].status = link[review[v].pair].status
    BY <2>1, <2>2 DEF Reviews, ReadIsCurrent
  <2> QED BY <1>2, <2>2, <2>3
<1>6. SawEstablished'
  <2>1. ASSUME NEW v \in Reviewer, NEW a \in review'[v].pair,
               review'[v].pc = "done", review'[v].stamp[a] = gen'[a]
        PROVE  review'[v].established <=> review'[v].status = "ACTIVE"
    <3>1. /\ a \in review[v].pair /\ review[v].pc = "done"
          /\ review[v].stamp[a] = gen'[a]
      BY <1>2, <2>1
    <3>2. review[v].stamp[a] = gen[a]
      BY <3>1, StaleAfterWrite DEF Reviews
    <3>3. review[v].established <=> review[v].status = "ACTIVE"
      BY <3>1, <3>2 DEF Reviews, SawEstablished
    <3> QED BY <1>2, <3>3
  <2>2. \A v \in Reviewer : review'[v].pc # "done" => ~review'[v].established
    BY <1>2 DEF Reviews, SawEstablished
  <2> QED BY <2>1, <2>2 DEF SawEstablished
<1> QED
  BY <1>4, <1>5, <1>6

\* What a step of the review v must establish about its new record n.
Sound(n) ==
    /\ \A a \in Account : n.stamp[a] # Unread => n.stamp[a] <= gen[a]
    /\ \A a \in n.pair : n.pc \in {"evidence", "done"} /\ n.stamp[a] = gen[a] =>
                             n.status = link[n.pair].status
    /\ n.pc # "done" => ~n.established
    /\ \A a \in n.pair : n.pc = "done" /\ n.stamp[a] = gen[a] =>
                             (n.established <=> n.status = "ACTIVE")

LEMMA SoundRecords ==
    (Stamps /\ ReadIsCurrent /\ SawEstablished) <=> \A v \in Reviewer : Sound(review[v])
BY DEF Sound, Stamps, ReadIsCurrent, SawEstablished

LEMMA SoundNext ==
    ASSUME Reviews, NEW v \in Reviewer, Reader(v)
    PROVE  \E n : Sound(n) /\ review' = [review EXCEPT ![v] = n]
<1> DEFINE Moves == \E n : Sound(n) /\ review' = [review EXCEPT ![v] = n]
<1>1. review[v] \in Review /\ Sound(review[v])
  BY SoundRecords DEF Reviews, Base, TypeOK
<1>2. ASSUME NEW p \in Pair, StartReview(v, p)
      PROVE  Moves
  <2> DEFINE m == [IdleReview EXCEPT !.pc = "reading", !.pair = p]
  <2>1. /\ m.pc = "reading" /\ m.established = FALSE
        /\ \A a \in Account : m.stamp[a] = Unread
    BY DEF IdleReview
  <2>2. Sound(m)
    BY <2>1 DEF Sound
  <2> QED BY <1>2, <2>2 DEF StartReview
<1>3. ASSUME NEW a \in Account, ReadGeneration(v, a)
      PROVE  Moves
  <2> DEFINE m == [review[v] EXCEPT !.stamp = [review[v].stamp EXCEPT ![a] = gen[a]]]
  <2>1. /\ m.pc = "reading" /\ m.established = review[v].established
        /\ m.stamp = [review[v].stamp EXCEPT ![a] = gen[a]]
    BY <1>1, <1>3 DEF Review, ReadGeneration
  <2>2. \A b \in Account : m.stamp[b] # Unread => m.stamp[b] <= gen[b]
    BY <1>1, <2>1 DEF Review, Sound, Reviews, Base, TypeOK
  <2>3. ~review[v].established
    BY <1>1, <1>3 DEF Sound, ReadGeneration
  <2>4. Sound(m)
    BY <2>1, <2>2, <2>3 DEF Sound
  <2> QED BY <1>3, <2>4 DEF ReadGeneration
<1>4. ASSUME ReadLink(v)
      PROVE  Moves
  <2> DEFINE s == link[review[v].pair].status
             m == [review[v] EXCEPT !.pc = IF s = "none" THEN "done" ELSE "evidence",
                                    !.status = s]
  <2>1. /\ m.pc = IF s = "none" THEN "done" ELSE "evidence"
        /\ m.status = s /\ m.pair = review[v].pair /\ m.stamp = review[v].stamp
        /\ m.established = review[v].established
    BY <1>1 DEF Review
  <2>2. ~review[v].established
    BY <1>1, <1>4 DEF Sound, ReadLink
  <2>3. \A b \in Account : m.stamp[b] # Unread => m.stamp[b] <= gen[b]
    BY <1>1, <2>1 DEF Sound
  <2>4. m.pc = "done" => m.status # "ACTIVE"
    BY <2>1
  <2>5. Sound(m)
    BY <2>1, <2>2, <2>3, <2>4 DEF Sound
  <2> QED BY <1>4, <2>5 DEF ReadLink
<1>5. ASSUME ReadEvidence(v)
      PROVE  Moves
  <2> DEFINE q == review[v].pair
             b == review[v].status = "ACTIVE" /\ Establishes(ev[q])
             m == [review[v] EXCEPT !.pc = "done", !.established = b]
  <2>1. /\ m.pc = "done" /\ m.established = b /\ m.pair = q
        /\ m.status = review[v].status /\ m.stamp = review[v].stamp
    BY <1>1 DEF Review
  <2>2. \A c \in Account : m.stamp[c] # Unread => m.stamp[c] <= gen[c]
    BY <1>1, <2>1 DEF Sound
  <2>3. review[v].pc = "evidence" /\ q \in Pair
    BY <1>5 DEF ReadEvidence, Reviews, Base, TypeOK
  <2>4. ASSUME NEW a \in q, review[v].stamp[a] = gen[a]
        PROVE  /\ review[v].status = link[q].status
               /\ b <=> review[v].status = "ACTIVE"
    <3>1. review[v].status = link[q].status
      BY <1>1, <2>3, <2>4 DEF Sound
    <3>2. link[q].status = "ACTIVE" => Establishes(ev[q])
      BY <2>3 DEF Reviews, Base, Established
    <3> QED BY <3>1, <3>2
  <2>5. Sound(m)
    BY <2>1, <2>2, <2>4 DEF Sound
  <2> QED BY <1>5, <2>5 DEF ReadEvidence
<1> QED
  BY <1>2, <1>3, <1>4, <1>5 DEF Reader

LEMMA ReviewsRead ==
    ASSUME Reviews, NEW v \in Reviewer, Reader(v)
    PROVE  Stamps' /\ ReadIsCurrent' /\ SawEstablished'
<1>1. UNCHANGED <<link, ev, gen>>
  BY ReaderEffect DEF store
<1>2. PICK n : Sound(n) /\ review' = [review EXCEPT ![v] = n]
  BY SoundNext
<1>3. \A w \in Reviewer : Sound(review'[w])
  <2>1. \A w \in Reviewer : Sound(review[w])
    BY SoundRecords DEF Reviews
  <2>2. \A w \in Reviewer : review'[w] = IF w = v THEN n ELSE review[w]
    BY <1>2 DEF Reviews, Base, TypeOK
  <2> QED BY <1>2, <2>1, <2>2
<1> QED
  BY <1>1, <1>3 DEF Sound, Stamps, ReadIsCurrent, SawEstablished

LEMMA ReviewsStep == Reviews /\ [Next]_vars => Reviews'
<1> SUFFICES ASSUME Reviews, [Next]_vars PROVE Reviews'
  OBVIOUS
<1>1. Base'
  BY BaseStep DEF Reviews
<1>2. CASE UNCHANGED vars
  BY <1>1, <1>2 DEF vars, store, Reviews, Stamps, ReadIsCurrent, SawEstablished
<1>3. CASE Next
  <2>1. Stamps' /\ ReadIsCurrent' /\ SawEstablished'
    BY <1>3, NextCases, ReviewsWrite, ReviewsRead
  <2> QED BY <1>1, <2>1 DEF Reviews
<1> QED
  BY <1>2, <1>3

\* A review that carries the current generation of one of its accounts is still
\* right: nothing it read one statement after the other has changed since.
THEOREM StampedReviewAlwaysCurrent == Spec => []StampedReviewIsCurrent
<1>1. Reviews => StampedReviewIsCurrent
  <2> SUFFICES ASSUME Reviews, NEW v \in Reviewer, review[v].pc = "done",
                      NEW a \in review[v].pair, review[v].stamp[a] = gen[a]
               PROVE  /\ review[v].status = link[review[v].pair].status
                      /\ review[v].established <=> link[review[v].pair].status = "ACTIVE"
    BY DEF StampedReviewIsCurrent
  <2>1. review[v].status = link[review[v].pair].status
    BY DEF Reviews, ReadIsCurrent
  <2>2. review[v].established <=> review[v].status = "ACTIVE"
    BY DEF Reviews, SawEstablished
  <2> QED BY <2>1, <2>2
<1> QED
  BY <1>1, ReviewsInit, ReviewsStep, PTL DEF Spec

-----------------------------------------------------------------------------
\* The log.
Says(c) ==
    IF c \in Confidence THEN "ACTIVE" ELSE IF c = "withdrawn" THEN "WITHDRAWN" ELSE "none"

\* A link's row l and its newest event g agree; only a withdrawn link has a
\* reason.
Tells(l, g) ==
    /\ g.state = l.status
    /\ g.reason = l.reason
    /\ l.status = "ACTIVE" => g.actor = l.decidedBy
    /\ l.reason = "none" <=> l.status # "WITHDRAWN"

EvidenceLog == \A p \in Pair, e \in Evidence : evlog[p][e] = Says(ev[p][e])

LinkLog == \A p \in Pair : Tells(link[p], log[p])

EvidenceBase == TypeOK /\ EvidenceLog

LogBase == Base /\ RowFollowsEvidence /\ LinkLog

LEMMA LogInit == Init => EvidenceLog /\ LinkLog
BY DEF Init, EvidenceLog, LinkLog, Tells, Says, NoLink, NoEvent, Confidence

LEMMA EvidenceLogWrite ==
    ASSUME EvidenceBase, NEW p \in Pair, Writer(p)
    PROVE  EvidenceLog'
<1> USE DEF EvidenceBase, EvidenceLog, TypeOK, Says, Confidence
<1>1. ASSUME NEW e \in Evidence, NEW by \in Actor, CreateLink(p, e, by)
      PROVE  EvidenceLog'
  BY <1>1 DEF CreateLink
<1>2. ASSUME NEW e \in Evidence, NEW c \in Confidence, NEW by \in Actor,
             Observe(p, e, c, by)
      PROVE  EvidenceLog'
  BY <1>2 DEF Observe
<1>3. ASSUME NEW e \in Evidence, NEW r \in CallerReason, NEW by \in Actor,
             WithdrawEvidence(p, e, r, by)
      PROVE  EvidenceLog'
  BY <1>3 DEF WithdrawEvidence
<1>4. ASSUME NEW r \in CallerReason, NEW by \in Actor, NEW keep \in BOOLEAN,
             WithdrawLink(p, r, by, keep)
      PROVE  EvidenceLog'
  <2> DEFINE gone == IF keep THEN {} ELSE Live(ev[p])
  <2>1. /\ ev' = [ev EXCEPT ![p] =
                    [x \in Evidence |-> IF x \in gone THEN "withdrawn" ELSE ev[p][x]]]
        /\ evlog' = [evlog EXCEPT ![p] =
                    [x \in Evidence |-> IF x \in gone THEN "WITHDRAWN" ELSE evlog[p][x]]]
    BY <1>4 DEF WithdrawLink
  <2> HIDE DEF gone
  <2> QED BY <2>1
<1> QED
  BY <1>1, <1>2, <1>3, <1>4 DEF Writer

LEMMA EvidenceLogStep == EvidenceBase /\ [Next]_vars => EvidenceBase'
<1> SUFFICES ASSUME EvidenceBase, [Next]_vars PROVE EvidenceBase'
  OBVIOUS
<1>1. TypeOK'
  BY TypeStep DEF EvidenceBase
<1>2. CASE UNCHANGED store
  BY <1>1, <1>2 DEF store, EvidenceBase, EvidenceLog
<1>3. CASE UNCHANGED vars
  BY <1>2, <1>3 DEF vars
<1> QED
  BY <1>1, <1>2, <1>3, NextCases, ReaderEffect, EvidenceLogWrite DEF EvidenceBase

\* The newest event of an evidence row has its state, whether callers withdraw
\* evidence with a link or not.
THEOREM EvidenceLogAlwaysTells == Spec => []EvidenceLogTells
<1>1. Init => EvidenceBase
  BY TypeInit, LogInit DEF EvidenceBase
<1>2. EvidenceBase => EvidenceLogTells
  <2> SUFFICES ASSUME EvidenceBase, NEW p \in Pair, NEW e \in Evidence
               PROVE  /\ evlog[p][e] = "ACTIVE" <=> ev[p][e] \in Confidence
                      /\ evlog[p][e] = "WITHDRAWN" <=> ev[p][e] = "withdrawn"
    BY DEF EvidenceLogTells
  <2>1. evlog[p][e] = Says(ev[p][e])
    BY DEF EvidenceBase, EvidenceLog
  <2> QED BY <2>1 DEF Says, Confidence
<1> QED
  BY <1>1, <1>2, EvidenceLogStep, PTL DEF Spec

LEMMA LogCreate ==
    ASSUME LogBase, NEW p \in Pair, NEW e \in Evidence, NEW by \in Actor,
           CreateLink(p, e, by)
    PROVE  Tells(link'[p], log'[p])
BY DEF LogBase, Base, TypeOK, CreateLink, Tells

LEMMA LogObserve ==
    ASSUME LogBase, NEW p \in Pair, NEW e \in Evidence, NEW c \in Confidence,
           NEW by \in Actor, Observe(p, e, c, by)
    PROVE  Tells(link'[p], log'[p])
<1> DEFINE f == [ev[p] EXCEPT ![e] = c]
           old == link[p]
<1>1. /\ link'[p] = Observed(old, f, by) /\ ev'[p] = f
      /\ old \in Link /\ old.status \in {"ACTIVE", "WITHDRAWN"}
  BY DEF Observe, LogBase, Base, TypeOK, Link, State
<1>2. Tells(old, log[p])
  BY DEF LogBase, LinkLog
<1>3. /\ link'[p].status = Resolved(f)
      /\ link'[p].reason = IF Establishes(f) THEN "none" ELSE Coalesce(old.reason, Automatic)
      /\ link'[p].decidedBy = IF Establishes(f) /\ old.status = "WITHDRAWN" THEN by
                              ELSE old.decidedBy
  BY <1>1 DEF Observed
<1>4. Tells(link'[p], log'[p])
  <2>1. CASE Resolved(f) # old.status
    <3>1. log'[p] = [state |-> Resolved(f), actor |-> by,
                     reason |-> IF Establishes(f) THEN "none" ELSE Automatic]
      BY <2>1 DEF Observe, LogBase, Base, TypeOK
    <3>2. CASE Establishes(f)
      <4>1. Resolved(f) = "ACTIVE" /\ old.status = "WITHDRAWN"
        BY <1>1, <2>1, <3>2 DEF Resolved
      <4> QED BY <1>3, <3>1, <3>2, <4>1 DEF Tells
    <3>3. CASE ~Establishes(f)
      <4>1. Resolved(f) = "WITHDRAWN" /\ old.status = "ACTIVE"
        BY <1>1, <2>1, <3>3 DEF Resolved
      <4>2. Coalesce(old.reason, Automatic) = Automatic
        BY <1>2, <4>1 DEF Tells, Coalesce
      <4> QED BY <1>3, <3>1, <3>3, <4>1, <4>2 DEF Tells, Automatic
    <3> QED BY <3>2, <3>3
  <2>2. CASE Resolved(f) = old.status
    <3>1. log'[p] = log[p]
      BY <2>2 DEF Observe
    <3>2. CASE Establishes(f)
      BY <1>2, <1>3, <2>2, <3>1, <3>2 DEF Tells, Resolved
    <3>3. CASE ~Establishes(f)
      <4>1. old.status = "WITHDRAWN"
        BY <2>2, <3>3 DEF Resolved
      <4>2. Coalesce(old.reason, Automatic) = old.reason
        BY <1>2, <4>1 DEF Tells, Coalesce
      <4> QED BY <1>2, <1>3, <2>2, <3>1, <3>3, <4>1, <4>2 DEF Tells
    <3> QED BY <3>2, <3>3
  <2> QED BY <2>1, <2>2
<1> QED
  BY <1>4

LEMMA LogWithdrawEvidence ==
    ASSUME LogBase, NEW p \in Pair, NEW e \in Evidence, NEW r \in CallerReason,
           NEW by \in Actor, WithdrawEvidence(p, e, r, by)
    PROVE  Tells(link'[p], log'[p])
<1> DEFINE f == [ev[p] EXCEPT ![e] = "withdrawn"]
           old == link[p]
<1>1. /\ link'[p] = Reduced(old, f, r, by)
      /\ old \in Link /\ old.status \in State
  BY DEF WithdrawEvidence, LogBase, Base, TypeOK, Link
<1>2. Tells(old, log[p])
  BY DEF LogBase, LinkLog
<1>3. old.status = Resolved(ev[p]) /\ old.status # "none"
  <2>1. ev[p][e] # "none"
    BY DEF WithdrawEvidence, Confidence
  <2> QED BY <2>1 DEF LogBase, Base, Empty, RowFollowsEvidence
<1>4. Establishes(f) => Establishes(ev[p])
  BY OwnerLinksAssumption DEF Establishes, LogBase, Base, TypeOK
<1>5. Tells(link'[p], log'[p])
  <2>1. CASE Establishes(f)
    <3>1. old.status = "ACTIVE" /\ log'[p] = log[p]
      BY <1>3, <1>4, <2>1 DEF Resolved, WithdrawEvidence
    <3>2. /\ link'[p].status = "ACTIVE" /\ link'[p].reason = old.reason
          /\ link'[p].decidedBy = old.decidedBy
      BY <1>1, <2>1 DEF Reduced, Link
    <3> QED BY <1>2, <3>1, <3>2 DEF Tells
  <2>2. CASE ~Establishes(f)
    <3>1. link'[p].status = "WITHDRAWN" /\ link'[p].reason = Coalesce(old.reason, r)
      BY <1>1, <2>2 DEF Reduced
    <3>2. CASE old.status = "ACTIVE"
      <4>1. log'[p] = [state |-> "WITHDRAWN", reason |-> r, actor |-> by]
        BY <2>2, <3>2 DEF WithdrawEvidence, LogBase, Base, TypeOK
      <4>2. old.reason = "none"
        BY <1>2, <3>2 DEF Tells
      <4> QED BY <3>1, <4>1, <4>2 DEF Tells, Coalesce, CallerReason
    <3>3. CASE old.status = "WITHDRAWN"
      <4>1. log'[p] = log[p]
        BY <3>3 DEF WithdrawEvidence
      <4>2. old.reason # "none"
        BY <1>2, <3>3 DEF Tells
      <4> QED BY <1>2, <3>1, <3>3, <4>1, <4>2 DEF Tells, Coalesce
    <3> QED BY <1>1, <1>3, <3>2, <3>3 DEF State
  <2> QED BY <2>1, <2>2
<1> QED
  BY <1>5

LEMMA LogWithdrawLink ==
    ASSUME LogBase, NEW p \in Pair, NEW r \in CallerReason, NEW by \in Actor,
           NEW keep \in BOOLEAN, WithdrawLink(p, r, by, keep)
    PROVE  Tells(link'[p], log'[p])
BY DEF WithdrawLink, LogBase, Base, TypeOK, Tells, CallerReason

LEMMA LogStep ==
    ASSUME LogBase, [Next]_vars
    PROVE  LinkLog'
<1>1. ASSUME NEW p \in Pair, Writer(p)
      PROVE  LinkLog'
  <2>1. Tells(link'[p], log'[p])
    BY <1>1, LogCreate, LogObserve, LogWithdrawEvidence, LogWithdrawLink DEF Writer
  <2>2. \A q \in Pair : q # p => link'[q] = link[q] /\ log'[q] = log[q]
    <3>1. \A q \in Pair : q # p => link'[q] = link[q]
      BY <1>1, WriterEffect DEF Effect, LogBase, Base
    <3>2. log' = log \/ \E n : log' = [log EXCEPT ![p] = n]
      BY <1>1 DEF Writer, CreateLink, Observe, WithdrawEvidence, WithdrawLink
    <3> QED BY <3>1, <3>2 DEF LogBase, Base, TypeOK
  <2>3. ASSUME NEW q \in Pair
        PROVE  Tells(link'[q], log'[q])
    <3>1. CASE q = p
      BY <2>1, <3>1
    <3>2. CASE q # p
      BY <2>2, <3>2 DEF LogBase, LinkLog
    <3> QED BY <3>1, <3>2
  <2> QED BY <2>3 DEF LinkLog, Tells
<1>2. CASE UNCHANGED store
  BY <1>2 DEF store, LogBase, LinkLog, Tells
<1>3. CASE UNCHANGED vars
  BY <1>2, <1>3 DEF vars
<1> QED
  BY <1>1, <1>2, <1>3, NextCases, ReaderEffect

\* The newest events of a link and of its evidence rows are the present state,
\* unless a withdrawn link may keep its evidence.
THEOREM LogAlwaysTells == ~KeepsEvidence => (Spec => []LogTells)
<1> SUFFICES ASSUME ~KeepsEvidence PROVE Spec => []LogTells
  OBVIOUS
<1>1. Init => LogBase
  BY BaseInit, RowsInit, LogInit DEF LogBase
<1>2. LogBase /\ [Next]_vars => LogBase'
  BY BaseStep, RowsStep, LogStep DEF LogBase
<1>3. LogBase /\ EvidenceLogTells => LogTells
  BY DEF LogBase, LinkLog, Tells, LogTells
<1> QED
  BY <1>1, <1>2, <1>3, EvidenceLogAlwaysTells, PTL DEF Spec
=============================================================================
