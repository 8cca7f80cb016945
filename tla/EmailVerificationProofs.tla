---------------------- MODULE EmailVerificationProofs ----------------------
(***************************************************************************)
(* The safety properties of EmailVerification, for any accounts, addresses *)
(* and requests and any lifetimes.  A change of address that voids revokes *)
(* what is outstanding in its own transaction, so a code that is still     *)
(* live when a verify consumes it was mailed to the address the account    *)
(* has, unless the account has slipped; and nothing takes an account out   *)
(* of slipped but such a change.                                           *)
(***************************************************************************)
EXTENDS EmailVerification, TLAPS

\* Requests and challenges belong to accounts that have signed up.
SignedUp ==
    /\ \A v \in Request : req[v].pc # "idle" => email[req[v].account] # NoEmail
    /\ \A c \in Challenge : Issued(c) => email[row[c].account] # NoEmail

\* A verify holds a code that has left, and past the look-up its own.
HoldsMailed ==
    \A v \in Request :
        /\ req[v].pc \in Verifying => req[v].code \in delivered
        /\ req[v].pc \in {"stamp", "consume"} =>
               /\ row[req[v].code].account = req[v].account
               /\ row[req[v].code].email = req[v].email

IInv == TypeOK /\ OneLiveCode /\ VerifiedIsWhole /\ FingerprintWasMailed /\ SignedUp /\ HoldsMailed

\* While the code of a verify is live and its account has not slipped, the
\* session's address is current.
LiveIsCurrent ==
    \A v \in Request :
        /\ req[v].pc \in Verifying
        /\ Live(req[v].code) /\ row[req[v].code].account = req[v].account
        /\ req[v].account \notin slipped
        => email[req[v].account] = req[v].email

SInv == IInv /\ MarkerProvesEmail /\ LiveIsCurrent

Table == [Challenge -> Row \cup {NoRow}]

-----------------------------------------------------------------------------
LEMMA RevokedFacts ==
    ASSUME TypeOK, NEW a \in Account, NEW c \in Challenge
    PROVE  /\ Revoked(a) \in Table
           /\ ~Live(c) \/ row[c].account # a => Revoked(a)[c] = row[c]
           /\ Live(c) /\ row[c].account = a => Revoked(a)[c] = [row[c] EXCEPT !.revoked = TRUE]
  BY DEF Revoked, Of, Live, Stored, Issued, Outstanding, TypeOK, Table, Row

LEMMA RevokedOneFacts ==
    ASSUME TypeOK, NEW d \in Challenge, NEW c \in Challenge
    PROVE  /\ RevokedOne(d) \in Table
           /\ ~Live(c) \/ c # d => RevokedOne(d)[c] = row[c]
           /\ Live(c) /\ c = d => RevokedOne(d)[c] = [row[c] EXCEPT !.revoked = TRUE]
  BY DEF RevokedOne, Live, Stored, Issued, TypeOK, Table, Row

LEMMA ConsumedFacts ==
    ASSUME TypeOK, NEW d \in Challenge, NEW t \in Time, NEW c \in Challenge
    PROVE  /\ Consumed(d, t) \in Table
           /\ ~Consumable(d, t) \/ c # d => Consumed(d, t)[c] = row[c]
           /\ Consumable(d, t) => Live(d)
           /\ Consumable(d, t) /\ c = d => Consumed(d, t)[c] = [row[c] EXCEPT !.consumed = t]
  <1>1. row \in Table /\ (Live(d) => row[d] \in Row)
    BY DEF TypeOK, Table, Live, Stored, Issued
  <1>2. Live(d) => [row[d] EXCEPT !.consumed = t] \in Row
    BY <1>1 DEF Row
  <1>3. Consumable(d, t) => Live(d)
    BY DEF Consumable
  <1> QED
    BY <1>1, <1>2, <1>3 DEF Consumed, Table

\* The new row is one, live and for the account and the address given.
LEMMA NewFacts ==
    ASSUME NEW a \in Account, NEW e \in Email, NEW t \in Time
    PROVE  New(a, e, t) \in Row /\ New(a, e, t) # NoRow
  <1>1. New(a, e, t) \in Row
    BY DEF New, Row
  <1> QED
    BY <1>1, NoRowIsNoChallenge

-----------------------------------------------------------------------------
LEMMA InitType == Init => TypeOK
  <1> SUFFICES ASSUME Init PROVE TypeOK
    OBVIOUS
  <1>1. IdleReq \in Req
    BY DEF IdleReq, Req, Pc
  <1>2. 0 \in Time
    BY EmailVerificationAssumption DEF Time
  <1>3. req \in [Request -> Req] /\ \A v \in Request : req[v].pc = "idle"
    BY <1>1 DEF Init, IdleReq
  <1> QED
    BY <1>2, <1>3 DEF Init, TypeOK, Verifying

\* What a label promises of a request, over a table of challenges.
Typed(q, table) ==
    /\ q \in Req
    /\ q.pc # "idle" => q.account \in Account /\ q.email \in Email
    /\ q.pc \in {"dispatch"} \cup Verifying => q.code \in Challenge /\ table[q.code] # NoRow
    /\ q.pc \in {"issue", "consume"} => q.stamp \in Time

\* One request takes the next record, the others keep theirs, and no row goes.
LEMMA OneRequest ==
    ASSUME TypeOK, NEW v \in Request, NEW q, Typed(q, row'), req' = [req EXCEPT ![v] = q],
           \A c \in Challenge : row[c] # NoRow => row'[c] # NoRow
    PROVE  /\ req' \in [Request -> Req]
           /\ \A w \in Request : Typed(req'[w], row')
  <1>1. \A w \in Request : w # v => req'[w] = req[w]
    BY DEF TypeOK
  <1>2. \A w \in Request : w # v => Typed(req'[w], row')
    BY <1>1 DEF TypeOK, Typed, Issued
  <1>3. req'[v] = q
    BY DEF TypeOK
  <1>4. req' \in [Request -> Req]
    BY DEF TypeOK, Typed
  <1> QED
    BY <1>2, <1>3, <1>4 DEF Typed

\* What each kind of step leaves of the table.
LEMMA NothingGoes ==
    ASSUME TypeOK
    PROVE  /\ \A a \in Account : \A c \in Challenge : row[c] # NoRow => Revoked(a)[c] # NoRow
           /\ \A d \in Challenge : \A c \in Challenge : row[c] # NoRow => RevokedOne(d)[c] # NoRow
           /\ \A d \in Challenge, t \in Time : \A c \in Challenge :
                  row[c] # NoRow => Consumed(d, t)[c] # NoRow
  <1>1. \A x \in Row : x # NoRow
    BY NoRowIsNoChallenge
  <1>2. \A c \in Challenge : row[c] # NoRow => row[c] \in Row
    BY DEF TypeOK
  <1>4. ASSUME NEW a \in Account, NEW c \in Challenge, row[c] # NoRow PROVE Revoked(a)[c] # NoRow
    <2>1. CASE ~Live(c) \/ row[c].account # a
      BY <1>4, <2>1, RevokedFacts
    <2>2. CASE Live(c) /\ row[c].account = a
      <3>1. Revoked(a)[c] = [row[c] EXCEPT !.revoked = TRUE]
        BY <2>2, RevokedFacts
      <3>2. [row[c] EXCEPT !.revoked = TRUE] \in Row
        BY <1>2, <1>4 DEF Row
      <3> QED
        BY <1>1, <3>1, <3>2
    <2> QED
      BY <2>1, <2>2
  <1>5. ASSUME NEW d \in Challenge, NEW c \in Challenge, row[c] # NoRow
        PROVE  RevokedOne(d)[c] # NoRow
    <2>1. CASE ~Live(c) \/ c # d
      BY <1>5, <2>1, RevokedOneFacts
    <2>2. CASE Live(c) /\ c = d
      <3>1. RevokedOne(d)[c] = [row[c] EXCEPT !.revoked = TRUE]
        BY <2>2, RevokedOneFacts
      <3>2. [row[c] EXCEPT !.revoked = TRUE] \in Row
        BY <1>2, <1>5 DEF Row
      <3> QED
        BY <1>1, <3>1, <3>2
    <2> QED
      BY <2>1, <2>2
  <1>6. ASSUME NEW d \in Challenge, NEW t \in Time, NEW c \in Challenge, row[c] # NoRow
        PROVE  Consumed(d, t)[c] # NoRow
    <2>1. CASE ~Consumable(d, t) \/ c # d
      BY <1>6, <2>1, ConsumedFacts
    <2>2. CASE Consumable(d, t) /\ c = d
      <3>1. Consumed(d, t)[c] = [row[c] EXCEPT !.consumed = t]
        BY <2>2, ConsumedFacts
      <3>2. [row[c] EXCEPT !.consumed = t] \in Row
        BY <1>2, <1>6 DEF Row
      <3> QED
        BY <1>1, <3>1, <3>2
    <2> QED
      BY <2>1, <2>2
  <1> QED
    BY <1>4, <1>5, <1>6

\* Only a consume and an edit touch slipped, for their own account.
LEMMA SlippedStep ==
    ASSUME TypeOK, [Next]_vars
    PROVE  slipped' \subseteq Account
  <1>1. ASSUME NEW v \in Request, VerifyConsume(v) \/ EditWrite(v)
        PROVE  slipped' \subseteq Account
    <2>1. req[v].account \in Account /\ slipped \subseteq Account
      BY <1>1 DEF TypeOK, VerifyConsume, EditWrite, Editing
    <2>2. \/ slipped' = slipped \/ slipped' = slipped \cup {req[v].account}
          \/ slipped' = slipped \ {req[v].account}
      BY <1>1 DEF VerifyConsume, EditWrite
    <2> QED
      BY <2>1, <2>2
  <1>2. CASE \E v \in Request, a \in Account :
                  \/ SendSession(v, a)
                  \/ \E e \in Email : SignUp(v, a, e) \/ EditSession(v, a, e)
                  \/ \E c \in Challenge : VerifySession(v, a, c)
    BY <1>2 DEF SendSession, SignUp, EditSession, VerifySession, TypeOK
  <1>3. CASE \E v \in Request :
                  \/ SendMarker(v) \/ SendLimits(v) \/ SendIssue(v)
                  \/ MailLeaves(v) \/ Accepted(v) \/ DeliveryFails(v)
                  \/ VerifyFind(v) \/ VerifyStamp(v) \/ VerifyBusy(v) \/ VerifyConsume(v)
                  \/ EditWrite(v) \/ Dropped(v)
    BY <1>1, <1>3
       DEF SendMarker, SendLimits, SendIssue, MailLeaves, Accepted, DeliveryFails, VerifyFind,
           VerifyStamp, VerifyBusy, Dropped, TypeOK
  <1>4. CASE (\E c \in Challenge : Prune(c)) \/ Tick \/ UNCHANGED vars
    BY <1>4 DEF Prune, Tick, vars, TypeOK
  <1> QED
    BY <1>2, <1>3, <1>4 DEF Next

LEMMA TypeStep == TypeOK /\ [Next]_vars => TypeOK'
  <1> SUFFICES ASSUME TypeOK, [Next]_vars PROVE TypeOK'
    OBVIOUS
  <1> DEFINE Requests == req' \in [Request -> Req] /\ \A w \in Request : Typed(req'[w], row')
             Stays == \A c \in Challenge : row[c] # NoRow => row'[c] # NoRow
             Marks == /\ verified' \in [Account -> BOOLEAN]
                      /\ fingerprint' \in [Account -> Email \cup {NoEmail}]
             Sets == /\ pruned' \subseteq Challenge /\ delivered' \subseteq Challenge
                     /\ \A c \in pruned' \cup delivered' : row'[c] # NoRow
  <1>0. /\ row \in Table /\ req \in [Request -> Req] /\ \A w \in Request : Typed(req[w], row)
        /\ \A w \in Request : req[w] \in Req
    BY DEF TypeOK, Table, Typed, Issued
  <1>1. ASSUME NEW v \in Request, Done(v), Stays PROVE Requests
    <2>1. Typed(IdleReq, row')
      BY DEF Typed, IdleReq, Req, Pc, Verifying
    <2> QED
      BY <1>1, <2>1, OneRequest DEF Done
  <1>2. ASSUME NEW v \in Request, NEW a \in Account, NEW pc \in {"marker", "find", "keep", "change"},
               NEW e \in Email, NEW c \in Challenge \cup {NoCode}, Session(v, a, pc, e, c), row' = row,
               pc = "find" => c \in delivered
        PROVE  Requests
    <2> DEFINE q == [req[v] EXCEPT !.pc = pc, !.account = a, !.email = e, !.code = c]
    <2>1. Typed(q, row')
      BY <1>0, <1>2 DEF Typed, Req, Pc, Sending, Verifying, Editing, TypeOK, Issued
    <2>2. req' = [req EXCEPT ![v] = q] /\ Stays
      BY <1>2 DEF Session
    <2> HIDE DEF q
    <2> QED
      BY <2>1, <2>2, OneRequest
  <1>3. ASSUME row' = row, req' = req PROVE Requests
    BY <1>0, <1>3 DEF Typed, Issued
  <1>4. ASSUME row' = row PROVE Stays
    BY <1>4
  <1>5. ASSUME UNCHANGED <<pruned, delivered>>, Stays PROVE Sets
    BY <1>5 DEF TypeOK, Issued
  <1>6. ASSUME UNCHANGED <<verified, fingerprint>> PROVE Marks
    BY <1>6 DEF TypeOK
  <1>7. now \in Time /\ email \in [Account -> Email \cup {NoEmail}]
    BY DEF TypeOK
  <1> HIDE DEF Requests, Stays, Marks, Sets
  <1> SUFFICES /\ email' \in [Account -> Email \cup {NoEmail}]
               /\ row' \in Table /\ Marks /\ Sets /\ Requests /\ now' \in Time
    BY SlippedStep DEF TypeOK, Table, Marks, Sets, Requests, Typed, Issued
  <1>8. ASSUME NEW v \in Request, NEW a \in Account, NEW e \in Email, SignUp(v, a, e)
        PROVE  /\ email' \in [Account -> Email \cup {NoEmail}]
               /\ row' \in Table /\ Marks /\ Sets /\ Requests /\ now' \in Time
    <2>1. CASE UNCHANGED <<row, req>>
      BY <1>0, <1>3, <1>4, <1>5, <1>6, <1>7, <1>8, <2>1 DEF SignUp
    <2>2. ASSUME NEW c \in Challenge, ~Issued(c), row' = [row EXCEPT ![c] = New(a, e, now)],
                 req' = [req EXCEPT ![v] = [@ EXCEPT !.pc = "dispatch", !.account = a,
                                                     !.email = e, !.code = c]]
          PROVE  row' \in Table /\ Stays /\ Requests
      <3>1. row' \in Table /\ Stays /\ row'[c] # NoRow
        BY <1>0, <1>7, <2>2, NewFacts DEF Table, Stays
      <3> DEFINE q == [req[v] EXCEPT !.pc = "dispatch", !.account = a, !.email = e, !.code = c]
      <3>2. Typed(q, row')
        BY <1>0, <3>1 DEF Typed, Req, Pc, Sending, Verifying, Issued
      <3>3. req' = [req EXCEPT ![v] = q]
        BY <2>2
      <3> HIDE DEF q
      <3> QED
        BY <3>1, <3>2, <3>3, OneRequest DEF Requests, Stays
    <2> QED
      BY <1>5, <1>6, <1>7, <1>8, <2>1, <2>2 DEF SignUp
  <1>9. ASSUME NEW v \in Request, NEW a \in Account, SendSession(v, a)
        PROVE  Requests
    <2>1. email[a] \in Email
      BY <1>7, <1>9 DEF SendSession, Session
    <2> QED
      BY <1>2, <1>9, <2>1 DEF SendSession
  <1>10. ASSUME NEW v \in Request, NEW a \in Account, NEW c \in Challenge, VerifySession(v, a, c)
         PROVE  Requests
    <2>1. email[a] \in Email
      BY <1>7, <1>10 DEF VerifySession, Session
    <2> QED
      BY <1>2, <1>10, <2>1 DEF VerifySession
  <1>11. ASSUME NEW v \in Request, NEW a \in Account, NEW e \in Email, EditSession(v, a, e)
         PROVE  Requests
    BY <1>2, <1>11 DEF EditSession
  <1>12. ASSUME NEW v \in Request,
                SendMarker(v) \/ SendLimits(v) \/ VerifyFind(v) \/ VerifyStamp(v) \/ VerifyBusy(v)
         PROVE  Requests
    <2> DEFINE q(pc, t) == [req[v] EXCEPT !.pc = pc, !.stamp = t]
               p(pc) == [req[v] EXCEPT !.pc = pc]
    <2>1. row' = row /\ Stays
      BY <1>4, <1>12 DEF SendMarker, SendLimits, VerifyFind, VerifyStamp, VerifyBusy
    <2>2. req[v] \in Req /\ Typed(req[v], row) /\ now \in Time
      BY <1>0, <1>7
    <2>3. CASE Done(v)
      BY <1>1, <2>1, <2>3
    <2>4. CASE SendMarker(v) /\ req' = [req EXCEPT ![v].pc = "limits"]
      <3>1. Typed(p("limits"), row')
        BY <2>1, <2>2, <2>4 DEF Typed, Req, Pc, Sending, Verifying, SendMarker, Issued
      <3>2. req' = [req EXCEPT ![v] = p("limits")]
        BY <2>4
      <3> HIDE DEF p
      <3> QED
        BY <2>1, <3>1, <3>2, OneRequest DEF Requests, Stays
    <2>5. CASE SendLimits(v) /\ req' = [req EXCEPT ![v].pc = "issue", ![v].stamp = now]
      <3>1. Typed(q("issue", now), row')
        BY <2>1, <2>2, <2>5 DEF Typed, Req, Pc, Sending, Verifying, SendLimits, Issued
      <3>2. req' = [req EXCEPT ![v] = q("issue", now)]
        BY <1>0, <2>5
      <3> HIDE DEF q
      <3> QED
        BY <2>1, <3>1, <3>2, OneRequest DEF Requests, Stays
    <2>6. CASE VerifyFind(v) /\ req' = [req EXCEPT ![v].pc = "stamp"]
      <3>1. Typed(p("stamp"), row')
        BY <2>1, <2>2, <2>6 DEF Typed, Req, Pc, Sending, Verifying, VerifyFind, Issued
      <3>2. req' = [req EXCEPT ![v] = p("stamp")]
        BY <2>6
      <3> HIDE DEF p
      <3> QED
        BY <2>1, <3>1, <3>2, OneRequest DEF Requests, Stays
    <2>7. CASE VerifyStamp(v)
      <3>1. Typed(q("consume", now), row')
        BY <2>1, <2>2, <2>7 DEF Typed, Req, Pc, Sending, Verifying, VerifyStamp, Issued
      <3>2. req' = [req EXCEPT ![v] = q("consume", now)]
        BY <1>0, <2>7 DEF VerifyStamp
      <3> HIDE DEF q
      <3> QED
        BY <2>1, <3>1, <3>2, OneRequest DEF Requests, Stays
    <2>8. CASE VerifyBusy(v)
      <3>1. Typed(q("stamp", Never), row')
        BY <2>1, <2>2, <2>8 DEF Typed, Req, Pc, Sending, Verifying, VerifyBusy, Issued
      <3>2. req' = [req EXCEPT ![v] = q("stamp", Never)]
        BY <1>0, <2>8 DEF VerifyBusy
      <3> HIDE DEF q
      <3> QED
        BY <2>1, <3>1, <3>2, OneRequest DEF Requests, Stays
    <2> QED
      BY <1>12, <2>3, <2>4, <2>5, <2>6, <2>7, <2>8 DEF SendMarker, SendLimits, VerifyFind
  <1>13. ASSUME NEW v \in Request, SendIssue(v)
         PROVE  row' \in Table /\ Stays /\ Requests
    <2> DEFINE a == req[v].account
    <2>1. /\ a \in Account /\ req[v].email \in Email /\ req[v].stamp \in Time
          /\ req[v] \in Req
      BY <1>0, <1>13 DEF Typed, SendIssue
    <2>2. PICK c \in Challenge :
             /\ ~Issued(c)
             /\ row' = [Revoked(a) EXCEPT ![c] = New(a, req[v].email, req[v].stamp)]
             /\ req' = [req EXCEPT ![v].pc = "dispatch", ![v].code = c]
      BY <1>13 DEF SendIssue, Superseded
    <2>3. Revoked(a) \in Table /\ \A d \in Challenge : row[d] # NoRow => Revoked(a)[d] # NoRow
      BY <2>1, RevokedFacts, NothingGoes
    <2>4. row' \in Table /\ Stays /\ row'[c] # NoRow
      BY <2>1, <2>2, <2>3, NewFacts DEF Table, Stays
    <2> DEFINE q == [req[v] EXCEPT !.pc = "dispatch", !.code = c]
    <2>5. Typed(q, row')
      BY <2>1, <2>4 DEF Typed, Req, Pc, Sending, Verifying, Issued
    <2>6. req' = [req EXCEPT ![v] = q]
      BY <1>0, <2>2
    <2> HIDE DEF q
    <2> QED
      BY <2>4, <2>5, <2>6, OneRequest DEF Requests, Stays
  <1>14. ASSUME NEW v \in Request, MailLeaves(v) PROVE Sets /\ Requests /\ row' = row
    <2>1. req[v].code \in Challenge /\ row[req[v].code] # NoRow
      BY <1>0, <1>14 DEF MailLeaves, Typed, Issued
    <2>2. Requests /\ row' = row
      BY <1>3, <1>14 DEF MailLeaves
    <2>3. /\ pruned' = pruned /\ delivered' = delivered \cup {req[v].code}
      BY <1>14 DEF MailLeaves
    <2>4. \A c \in pruned \cup delivered : row[c] # NoRow
      BY DEF TypeOK, Issued
    <2>5. pruned \subseteq Challenge /\ delivered \subseteq Challenge
      BY DEF TypeOK
    <2>6. Sets
      BY <2>1, <2>2, <2>3, <2>4, <2>5 DEF Sets
    <2> QED
      BY <2>2, <2>6
  <1>15. ASSUME NEW v \in Request, DeliveryFails(v) PROVE row' \in Table /\ Stays /\ Requests
    <2>1. req[v].code \in Challenge
      BY <1>0, <1>15 DEF DeliveryFails, Typed
    <2>2. row' \in Table /\ Stays
      BY <1>15, <2>1, RevokedOneFacts, NothingGoes DEF DeliveryFails, Stays
    <2> QED
      BY <1>1, <1>15, <2>2 DEF DeliveryFails
  <1>16. ASSUME NEW v \in Request, VerifyConsume(v)
         PROVE  row' \in Table /\ Stays /\ Requests /\ Marks
    <2>1. req[v].code \in Challenge /\ req[v].stamp \in Time /\ req[v].email \in Email
      BY <1>0, <1>16 DEF VerifyConsume, Typed, Verifying
    <2>2. row' = Consumed(req[v].code, req[v].stamp)
      BY <1>16 DEF VerifyConsume
    <2>4. row' \in Table
      BY <2>1, <2>2, ConsumedFacts
    <2>5. Stays
      BY <2>1, <2>2, NothingGoes DEF Stays
    <2>3. Marks
      BY <1>16, <2>1 DEF VerifyConsume, Marks, TypeOK
    <2> QED
      BY <1>1, <1>16, <2>3, <2>4, <2>5 DEF VerifyConsume
  <1>17. ASSUME NEW v \in Request, EditWrite(v)
         PROVE  /\ row' \in Table /\ Stays /\ Requests /\ Marks
                /\ email' \in [Account -> Email \cup {NoEmail}]
    <2>1. req[v].account \in Account /\ req[v].email \in Email
      BY <1>0, <1>17 DEF EditWrite, Editing, Typed
    <2>2. row' \in Table /\ Stays
      <3>1. CASE row' = row
        BY <1>0, <1>4, <3>1
      <3>2. CASE row' = Revoked(req[v].account)
        <4>1. Revoked(req[v].account) \in Table
          <5>1. CASE Challenge = {}
            BY <5>1 DEF Revoked, Table
          <5>2. CASE Challenge # {}
            BY <2>1, <5>2, RevokedFacts
          <5> QED
            BY <5>1, <5>2
        <4>2. \A c \in Challenge : row[c] # NoRow => Revoked(req[v].account)[c] # NoRow
          BY <2>1, NothingGoes
        <4> QED
          BY <3>2, <4>1, <4>2 DEF Stays
      <3> QED
        BY <1>17, <3>1, <3>2 DEF EditWrite, Voided
    <2>3. Marks /\ email' \in [Account -> Email \cup {NoEmail}]
      BY <1>17, <2>1 DEF EditWrite, Unproved, Marks, TypeOK
    <2> QED
      BY <1>1, <1>17, <2>2, <2>3 DEF EditWrite
  <1>18. ASSUME NEW c \in Challenge, Prune(c) PROVE Sets /\ Requests /\ row' = row
    BY <1>3, <1>18 DEF Prune, Sets, Stored, TypeOK, Issued
  <1>19. CASE Tick
    <2>1. now' \in Time
      BY <1>7, <1>19, EmailVerificationAssumption DEF Tick, Time
    <2> QED
      BY <1>0, <1>3, <1>4, <1>5, <1>6, <1>7, <1>19, <2>1 DEF Tick
  <1>20. CASE UNCHANGED vars
    BY <1>0, <1>3, <1>4, <1>5, <1>6, <1>7, <1>20 DEF vars
  <1>21. ASSUME NEW v \in Request, Accepted(v) \/ Dropped(v) PROVE Requests /\ row' = row
    BY <1>1, <1>4, <1>21 DEF Accepted, Dropped
  <1>22. CASE \E v \in Request, a \in Account :
                  \/ SendSession(v, a)
                  \/ \E e \in Email : SignUp(v, a, e) \/ EditSession(v, a, e)
                  \/ \E c \in Challenge : VerifySession(v, a, c)
    BY <1>0, <1>4, <1>5, <1>6, <1>7, <1>8, <1>9, <1>10, <1>11, <1>22
       DEF SendSession, EditSession, VerifySession
  <1>23. CASE \E v \in Request :
                  \/ SendMarker(v) \/ SendLimits(v) \/ SendIssue(v)
                  \/ MailLeaves(v) \/ Accepted(v) \/ DeliveryFails(v)
                  \/ VerifyFind(v) \/ VerifyStamp(v) \/ VerifyBusy(v) \/ VerifyConsume(v)
                  \/ EditWrite(v) \/ Dropped(v)
    BY <1>0, <1>4, <1>5, <1>6, <1>7, <1>12, <1>13, <1>14, <1>15, <1>16, <1>17, <1>21, <1>23
       DEF SendMarker, SendLimits, SendIssue, MailLeaves, Accepted, DeliveryFails, VerifyFind,
           VerifyStamp, VerifyBusy, VerifyConsume, EditWrite, Dropped
  <1>24. CASE \E c \in Challenge : Prune(c)
    BY <1>0, <1>6, <1>7, <1>18, <1>24 DEF Prune
  <1> QED
    BY <1>19, <1>20, <1>22, <1>23, <1>24 DEF Next

-----------------------------------------------------------------------------
\* What a step does to the table of challenges.
LEMMA TableStep ==
    ASSUME TypeOK, [Next]_vars
    PROVE  /\ \/ row' = row
              \/ \E v \in Request, a \in Account, e \in Email : \E c \in Challenge :
                     SignUp(v, a, e) /\ ~Issued(c) /\ row' = [row EXCEPT ![c] = New(a, e, now)]
              \/ \E v \in Request : SendIssue(v)
              \/ \E v \in Request : DeliveryFails(v)
              \/ \E v \in Request : VerifyConsume(v)
              \/ \E v \in Request : EditWrite(v) /\ row' = Revoked(req[v].account)
           /\ pruned \subseteq pruned' /\ delivered \subseteq delivered'
  <1>1. CASE \E v \in Request, a \in Account :
                  \/ SendSession(v, a)
                  \/ \E e \in Email : SignUp(v, a, e) \/ EditSession(v, a, e)
                  \/ \E c \in Challenge : VerifySession(v, a, c)
    <2>1. ASSUME NEW v \in Request, NEW a \in Account, NEW e \in Email, SignUp(v, a, e)
          PROVE  \/ row' = row
                 \/ \E c \in Challenge : ~Issued(c) /\ row' = [row EXCEPT ![c] = New(a, e, now)]
      BY <2>1 DEF SignUp
    <2>2. pruned' = pruned /\ delivered' = delivered
      BY <1>1 DEF SendSession, SignUp, EditSession, VerifySession
    <2>3. \/ row' = row
          \/ \E v \in Request, a \in Account, e \in Email : SignUp(v, a, e)
      BY <1>1 DEF SendSession, EditSession, VerifySession
    <2> QED
      BY <2>1, <2>2, <2>3
  <1>2. CASE \E v \in Request :
                  \/ SendMarker(v) \/ SendLimits(v) \/ SendIssue(v)
                  \/ MailLeaves(v) \/ Accepted(v) \/ DeliveryFails(v)
                  \/ VerifyFind(v) \/ VerifyStamp(v) \/ VerifyBusy(v) \/ VerifyConsume(v)
                  \/ EditWrite(v) \/ Dropped(v)
    BY <1>2 DEF SendMarker, SendLimits, SendIssue, MailLeaves, Accepted, DeliveryFails, VerifyFind,
                VerifyStamp, VerifyBusy, VerifyConsume, EditWrite, Dropped, Voided
  <1>3. CASE (\E c \in Challenge : Prune(c)) \/ Tick \/ UNCHANGED vars
    BY <1>3 DEF Prune, Tick, vars
  <1> QED
    BY <1>1, <1>2, <1>3 DEF Next

\* A row is issued once; then it may be revoked or consumed while it is live,
\* and what it was issued for never changes.
LEMMA RowStep ==
    ASSUME TypeOK, [Next]_vars, NEW c \in Challenge
    PROVE  \/ row'[c] = row[c]
           \/ ~Issued(c) /\ row'[c] \in Row
           \/ Live(c) /\ row'[c] = [row[c] EXCEPT !.revoked = TRUE]
           \/ Live(c) /\ \E t \in Time : row'[c] = [row[c] EXCEPT !.consumed = t]
  <1>0. \A w \in Request : Typed(req[w], row)
    BY DEF TypeOK, Typed, Issued
  <1>00. now \in Time /\ row \in Table
    BY DEF TypeOK, Table
  <1>1. ASSUME NEW v \in Request, NEW a \in Account, NEW e \in Email, NEW d \in Challenge,
               ~Issued(d), row' = [row EXCEPT ![d] = New(a, e, now)]
        PROVE  row'[c] = row[c] \/ (~Issued(c) /\ row'[c] \in Row)
    BY <1>00, <1>1, NewFacts DEF Table
  <1>2. ASSUME NEW v \in Request, SendIssue(v)
        PROVE  \/ row'[c] = row[c]
               \/ ~Issued(c) /\ row'[c] \in Row
               \/ Live(c) /\ row'[c] = [row[c] EXCEPT !.revoked = TRUE]
    <2> DEFINE a == req[v].account
    <2>1. a \in Account /\ req[v].email \in Email /\ req[v].stamp \in Time
      BY <1>0, <1>2 DEF SendIssue, Typed
    <2>2. PICK d \in Challenge :
             ~Issued(d) /\ row' = [Revoked(a) EXCEPT ![d] = New(a, req[v].email, req[v].stamp)]
      BY <1>2 DEF SendIssue, Superseded
    <2> DEFINE n == New(a, req[v].email, req[v].stamp)
    <2>3. n \in Row /\ Revoked(a) \in Table
      BY <2>1, NewFacts, RevokedFacts
    <2>4. CASE c = d
      BY <2>2, <2>3, <2>4 DEF Table
    <2>5. CASE c # d
      <3>1. row'[c] = Revoked(a)[c]
        BY <2>2, <2>3, <2>5 DEF Table
      <3> QED
        BY <2>1, <3>1, RevokedFacts
    <2> QED
      BY <2>4, <2>5
  <1>3. ASSUME NEW v \in Request, DeliveryFails(v)
        PROVE  \/ row'[c] = row[c]
               \/ Live(c) /\ row'[c] = [row[c] EXCEPT !.revoked = TRUE]
    BY <1>0, <1>3, RevokedOneFacts DEF DeliveryFails, Typed
  <1>4. ASSUME NEW v \in Request, VerifyConsume(v)
        PROVE  \/ row'[c] = row[c]
               \/ Live(c) /\ \E t \in Time : row'[c] = [row[c] EXCEPT !.consumed = t]
    <2>1. req[v].code \in Challenge /\ req[v].stamp \in Time
      BY <1>0, <1>4 DEF VerifyConsume, Typed, Verifying
    <2>2. row' = Consumed(req[v].code, req[v].stamp)
      BY <1>4 DEF VerifyConsume
    <2>3. CASE Consumable(req[v].code, req[v].stamp) /\ c = req[v].code
      <3>1. Live(c) /\ Consumed(req[v].code, req[v].stamp)[c] = [row[c] EXCEPT !.consumed = req[v].stamp]
        BY <2>1, <2>3, ConsumedFacts
      <3>2. row'[c] = [row[c] EXCEPT !.consumed = req[v].stamp]
        BY <2>2, <3>1
      <3> QED
        BY <2>1, <3>1, <3>2
    <2>4. CASE ~(Consumable(req[v].code, req[v].stamp) /\ c = req[v].code)
      <3>1. Consumed(req[v].code, req[v].stamp)[c] = row[c]
        BY <2>1, <2>4, ConsumedFacts
      <3> QED
        BY <2>2, <3>1
    <2> QED
      BY <2>3, <2>4
  <1>5. ASSUME NEW v \in Request, EditWrite(v), row' = Revoked(req[v].account)
        PROVE  \/ row'[c] = row[c]
               \/ Live(c) /\ row'[c] = [row[c] EXCEPT !.revoked = TRUE]
    <2>1. req[v].account \in Account
      BY <1>0, <1>5 DEF EditWrite, Editing, Typed
    <2> QED
      BY <1>5, <2>1, RevokedFacts
  <1> QED
    BY <1>1, <1>2, <1>3, <1>4, <1>5, TableStep

\* What every later argument takes from it.
LEMMA RowKept ==
    ASSUME TypeOK, TypeOK', [Next]_vars, NEW c \in Challenge, Issued(c)
    PROVE  /\ Issued(c)'
           /\ row'[c].account = row[c].account /\ row'[c].email = row[c].email
           /\ ~Outstanding(c) => row'[c] = row[c]
           /\ Live(c)' => Live(c)
           /\ row[c].consumed # Never => row'[c].consumed # Never
  <1>1. row[c] \in Row /\ row'[c] \in Row \cup {NoRow}
    BY DEF TypeOK, Issued
  <1>2. CASE row'[c] = row[c]
    BY <1>2, TableStep DEF Issued, Live, Stored, Outstanding
  <1>3. CASE Live(c) /\ row'[c] = [row[c] EXCEPT !.revoked = TRUE]
    <2>1. row'[c] \in Row
      BY <1>1, <1>3 DEF Row
    <2> QED
      BY <1>1, <1>3, <2>1, NoRowIsNoChallenge DEF Live, Stored, Issued, Outstanding, Row
  <1>4. CASE Live(c) /\ \E t \in Time : row'[c] = [row[c] EXCEPT !.consumed = t]
    <2>1. PICK t \in Time : row'[c] = [row[c] EXCEPT !.consumed = t]
      BY <1>4
    <2>2. row'[c] \in Row
      BY <1>1, <2>1 DEF Row
    <2> QED
      BY <1>1, <1>4, <2>1, <2>2, NoRowIsNoChallenge DEF Live, Stored, Issued, Outstanding, Row
  <1> QED
    BY <1>2, <1>3, <1>4, RowStep

LEMMA OneLiveStep ==
    ASSUME TypeOK, TypeOK', OneLiveCode, SignedUp, [Next]_vars
    PROVE  OneLiveCode'
  <1> SUFFICES ASSUME NEW c \in Challenge, NEW d \in Challenge,
                      Live(c)', Live(d)', row'[c].account = row'[d].account, Issued(d) \/ ~Issued(c)
               PROVE  c = d
    BY DEF OneLiveCode
  <1>1. CASE Issued(c) /\ Issued(d)
    BY <1>1, RowKept DEF OneLiveCode
  <1>2. CASE ~Issued(c)
    <2>0. row'[c] # row[c]
      BY <1>2 DEF Live, Stored, Issued
    <2>1. ASSUME NEW v \in Request, NEW a \in Account, NEW e \in Email, NEW f \in Challenge,
                 SignUp(v, a, e), ~Issued(f), row' = [row EXCEPT ![f] = New(a, e, now)]
          PROVE  c = d
      <3>1. c = f /\ row'[c] = New(a, e, now)
        BY <2>0, <2>1 DEF TypeOK
      <3>2. row'[d].account = a
        BY <3>1 DEF New
      <3>3. CASE d # f
        <4>1. row'[d] = row[d]
          BY <2>1, <3>3 DEF TypeOK
        <4> QED
          BY <2>1, <3>2, <4>1 DEF SignUp, SignedUp, Live, Stored, Issued
      <3> QED
        BY <3>1, <3>3
    <2>2. ASSUME NEW v \in Request, SendIssue(v) PROVE c = d
      <3> DEFINE a == req[v].account
      <3>1. a \in Account /\ req[v].email \in Email /\ req[v].stamp \in Time
        BY <2>2 DEF SendIssue, TypeOK
      <3>2. PICK f \in Challenge :
               ~Issued(f) /\ row' = [Revoked(a) EXCEPT ![f] = New(a, req[v].email, req[v].stamp)]
        BY <2>2 DEF SendIssue, Superseded
      <3>3. Revoked(a) \in Table
        BY <3>1, RevokedFacts
      <3>4. \A g \in Challenge : g # f => row'[g] = Revoked(a)[g]
        BY <3>2, <3>3 DEF Table
      <3>5. c = f
        <4>1. ~Live(c)
          BY <1>2 DEF Live, Stored
        <4>2. Revoked(a)[c] = row[c]
          BY <3>1, <4>1, RevokedFacts
        <4> QED
          BY <2>0, <3>4, <4>2
      <3>6. row'[d].account = a
        BY <3>2, <3>3, <3>5 DEF New, Table
      <3>7. CASE d # f
        <4>1. row'[d] = Revoked(a)[d]
          BY <3>4, <3>7
        <4>2. CASE Live(d) /\ row[d].account = a
          <5>1. row'[d] = [row[d] EXCEPT !.revoked = TRUE] /\ row[d] \in Row
            BY <3>1, <4>1, <4>2, RevokedFacts DEF TypeOK, Live, Stored, Issued
          <5> QED
            BY <5>1 DEF Live, Outstanding, Row
        <4>3. CASE ~(Live(d) /\ row[d].account = a)
          <5>1. row'[d] = row[d]
            BY <3>1, <4>1, <4>3, RevokedFacts
          <5>2. pruned' = pruned
            BY <2>2 DEF SendIssue
          <5> QED
            BY <3>6, <4>3, <5>1, <5>2 DEF Live, Stored, Issued, Outstanding
        <4> QED
          BY <4>2, <4>3
      <3> QED
        BY <3>5, <3>7
    <2>3. ~((\E v \in Request : DeliveryFails(v)) \/ (\E v \in Request : VerifyConsume(v))
                \/ (\E v \in Request : EditWrite(v) /\ row' = Revoked(req[v].account)))
      <3>1. ~Live(c)
        BY <1>2 DEF Live, Stored
      <3>2. \A v \in Request : ~DeliveryFails(v)
        <4> SUFFICES ASSUME NEW v \in Request, DeliveryFails(v) PROVE FALSE
          OBVIOUS
        <4>1. req[v].code \in Challenge /\ row' = RevokedOne(req[v].code)
          BY DEF DeliveryFails, TypeOK
        <4> QED
          BY <2>0, <3>1, <4>1, RevokedOneFacts
      <3>3. \A v \in Request : ~VerifyConsume(v)
        <4> SUFFICES ASSUME NEW v \in Request, VerifyConsume(v) PROVE FALSE
          OBVIOUS
        <4>1. /\ req[v].code \in Challenge /\ req[v].stamp \in Time
              /\ row' = Consumed(req[v].code, req[v].stamp)
          BY DEF VerifyConsume, Verifying, TypeOK
        <4>2. CASE c = req[v].code
          BY <2>0, <3>1, <4>1, <4>2, ConsumedFacts
        <4>3. CASE c # req[v].code
          BY <2>0, <4>1, <4>3, ConsumedFacts
        <4> QED
          BY <4>2, <4>3
      <3>4. \A v \in Request : ~(EditWrite(v) /\ row' = Revoked(req[v].account))
        <4> SUFFICES ASSUME NEW v \in Request, EditWrite(v), row' = Revoked(req[v].account) PROVE FALSE
          OBVIOUS
        <4>1. req[v].account \in Account
          BY DEF EditWrite, Editing, TypeOK
        <4> QED
          BY <2>0, <3>1, <4>1, RevokedFacts
      <3> QED
        BY <3>2, <3>3, <3>4
    <2>4. row' # row
      BY <2>0
    <2> QED
      BY <2>1, <2>2, <2>3, <2>4, TableStep
  <1> QED
    BY <1>1, <1>2

-----------------------------------------------------------------------------
\* What a step does to a request.
LEMMA RequestStep ==
    ASSUME TypeOK, [Next]_vars, NEW w \in Request
    PROVE  \/ req'[w] = req[w]
           \/ req'[w].pc = "idle"
           \/ \E a \in Account, e \in Email :
                  SignUp(w, a, e) /\ req'[w].pc = "dispatch" /\ req'[w].account = a
           \/ \E a \in Account :
                  SendSession(w, a) /\ req'[w].pc = "marker" /\ req'[w].account = a
           \/ \E a \in Account, c \in Challenge :
                  /\ VerifySession(w, a, c)
                  /\ req'[w].pc = "find" /\ req'[w].account = a
                  /\ req'[w].email = email[a] /\ req'[w].code = c
           \/ \E a \in Account, e \in Email :
                  /\ EditSession(w, a, e)
                  /\ req'[w].pc = IF email[a] = e THEN "keep" ELSE "change"
                  /\ req'[w].account = a /\ req'[w].email = e
           \/ /\ req[w].pc \in Sending /\ req'[w].pc \in Sending
              /\ req'[w].account = req[w].account
           \/ /\ VerifyFind(w)
              /\ MostRecent(req[w].code, req[w].account) /\ Verifiable(req[w].code, req[w].email)
              /\ req'[w] = [req[w] EXCEPT !.pc = "stamp"]
           \/ VerifyStamp(w) /\ req'[w] = [req[w] EXCEPT !.pc = "consume", !.stamp = now]
           \/ VerifyBusy(w) /\ req'[w] = [req[w] EXCEPT !.pc = "stamp", !.stamp = Never]
  <1>0. req \in [Request -> Req]
    BY DEF TypeOK
  <1>1. ASSUME NEW v \in Request, Done(v) PROVE req'[w] = req[w] \/ req'[w].pc = "idle"
    BY <1>0, <1>1 DEF Done, IdleReq
  <1>2. ASSUME NEW v \in Request, NEW q, req' = [req EXCEPT ![v] = q], v # w PROVE req'[w] = req[w]
    BY <1>0, <1>2
  <1>21. ASSUME NEW v \in Request, NEW a, NEW pc, NEW e, NEW c, Session(v, a, pc, e, c)
         PROVE  \/ req'[w] = req[w]
                \/ /\ v = w /\ req'[w].pc = pc /\ req'[w].account = a
                   /\ req'[w].email = e /\ req'[w].code = c
    <2> DEFINE q == [req[v] EXCEPT !.pc = pc, !.account = a, !.email = e, !.code = c]
    <2>1. req' = [req EXCEPT ![v] = q]
      BY <1>21 DEF Session
    <2>2. q.pc = pc /\ q.account = a /\ q.email = e /\ q.code = c
      BY <1>0 DEF Req
    <2> HIDE DEF q
    <2> QED
      BY <1>0, <2>1, <2>2
  <1>3. CASE \E v \in Request, a \in Account : SendSession(v, a)
    <2>1. PICK v \in Request : \E a \in Account : SendSession(v, a)
      BY <1>3
    <2>2. PICK a \in Account : SendSession(v, a)
      BY <2>1
    <2>9. QED
      <3>1. Session(v, a, "marker", email[a], NoCode)
        BY <2>2 DEF SendSession
      <3> QED
        BY <2>2, <3>1, <1>21
  <1>4. CASE \E v \in Request, a \in Account : \E e \in Email : SignUp(v, a, e)
    <2>1. PICK v \in Request : \E a \in Account : \E e \in Email : SignUp(v, a, e)
      BY <1>4
    <2>2. PICK a \in Account : \E e \in Email : SignUp(v, a, e)
      BY <2>1
    <2>3. PICK e \in Email : SignUp(v, a, e)
      BY <2>2
    <2>4. \/ req' = req
          \/ \E c \in Challenge :
                req' = [req EXCEPT ![v] = [req[v] EXCEPT !.pc = "dispatch", !.account = a,
                                                         !.email = e, !.code = c]]
      BY <2>3 DEF SignUp
    <2>5. ASSUME NEW c \in Challenge,
                 req' = [req EXCEPT ![v] = [req[v] EXCEPT !.pc = "dispatch", !.account = a,
                                                          !.email = e, !.code = c]]
          PROVE  req'[w] = req[w] \/ (v = w /\ req'[w].pc = "dispatch" /\ req'[w].account = a)
      BY <1>0, <2>5 DEF Req
    <2>6. req'[w] = req[w] \/ (v = w /\ req'[w].pc = "dispatch" /\ req'[w].account = a)
      BY <2>4, <2>5
    <2> QED
      BY <2>3, <2>6
  <1>5. CASE \E v \in Request, a \in Account : \E c \in Challenge : VerifySession(v, a, c)
    <2>1. PICK v \in Request : \E a \in Account : \E c \in Challenge : VerifySession(v, a, c)
      BY <1>5
    <2>2. PICK a \in Account : \E c \in Challenge : VerifySession(v, a, c)
      BY <2>1
    <2>3. PICK c \in Challenge : VerifySession(v, a, c)
      BY <2>2
    <2>9. QED
      <3>1. Session(v, a, "find", email[a], c)
        BY <2>3 DEF VerifySession
      <3> QED
        BY <2>3, <3>1, <1>21
  <1>6. CASE \E v \in Request, a \in Account : \E e \in Email : EditSession(v, a, e)
    <2>1. PICK v \in Request : \E a \in Account : \E e \in Email : EditSession(v, a, e)
      BY <1>6
    <2>2. PICK a \in Account : \E e \in Email : EditSession(v, a, e)
      BY <2>1
    <2>3. PICK e \in Email : EditSession(v, a, e)
      BY <2>2
    <2>9. QED
      <3>1. Session(v, a, IF email[a] = e THEN "keep" ELSE "change", e, NoCode)
        BY <2>3 DEF EditSession
      <3> QED
        BY <2>3, <3>1, <1>21
  <1>7. ASSUME NEW v \in Request, SendMarker(v) \/ SendLimits(v) \/ SendIssue(v)
        PROVE  \/ req'[w] = req[w]
               \/ req'[w].pc = "idle"
               \/ /\ req[w].pc \in Sending /\ req'[w].pc \in Sending
                  /\ req'[w].account = req[w].account
    <2>1. CASE SendMarker(v)
      BY <1>0, <1>1, <2>1 DEF SendMarker, Req, Sending
    <2>2. CASE SendLimits(v)
      BY <1>0, <1>1, <2>2 DEF SendLimits, Req, Sending
    <2>3. CASE SendIssue(v)
      BY <1>0, <2>3 DEF SendIssue, Req, Sending
    <2> QED
      BY <1>7, <2>1, <2>2, <2>3
  <1>8. ASSUME NEW v \in Request, VerifyFind(v)
        PROVE  \/ req'[w] = req[w]
               \/ req'[w].pc = "idle"
               \/ /\ v = w
                  /\ MostRecent(req[w].code, req[w].account) /\ Verifiable(req[w].code, req[w].email)
                  /\ req'[w] = [req[w] EXCEPT !.pc = "stamp"]
    <2>1. CASE Done(v)
      BY <1>1, <2>1
    <2>2. CASE ~Done(v)
      BY <1>0, <1>8, <2>2 DEF VerifyFind
    <2> QED
      BY <2>1, <2>2
  <1>9. ASSUME NEW v \in Request, VerifyStamp(v)
        PROVE  \/ req'[w] = req[w]
               \/ v = w /\ req'[w] = [req[w] EXCEPT !.pc = "consume", !.stamp = now]
    BY <1>0, <1>9 DEF VerifyStamp
  <1>10. ASSUME NEW v \in Request, VerifyBusy(v)
         PROVE  \/ req'[w] = req[w]
                \/ v = w /\ req'[w] = [req[w] EXCEPT !.pc = "stamp", !.stamp = Never]
    BY <1>0, <1>10 DEF VerifyBusy
  <1>11. ASSUME NEW v \in Request,
                Accepted(v) \/ DeliveryFails(v) \/ VerifyConsume(v) \/ EditWrite(v) \/ Dropped(v)
         PROVE  req'[w] = req[w] \/ req'[w].pc = "idle"
    <2>1. Done(v)
      BY <1>11 DEF Accepted, DeliveryFails, VerifyConsume, EditWrite, Dropped
    <2> QED
      BY <1>1, <2>1
  <1>12. CASE \/ \E v \in Request : MailLeaves(v)
              \/ \E c \in Challenge : Prune(c)
              \/ Tick \/ UNCHANGED vars
    BY <1>12 DEF MailLeaves, Prune, Tick, vars
  <1> QED
    BY <1>3, <1>4, <1>5, <1>6, <1>7, <1>8, <1>9, <1>10, <1>11, <1>12 DEF Next

-----------------------------------------------------------------------------
\* What a step does to the address, the marker and the fingerprint.
LEMMA MarksStep ==
    ASSUME TypeOK, [Next]_vars, NEW a \in Account
    PROVE  \/ /\ email'[a] = email[a] /\ (a \in slipped' <=> a \in slipped)
              /\ verified'[a] = verified[a] /\ fingerprint'[a] = fingerprint[a]
           \/ \E v \in Request, e \in Email :
                  /\ SignUp(v, a, e) /\ email'[a] = e /\ (a \in slipped' <=> a \in slipped)
                  /\ verified'[a] = verified[a] /\ fingerprint'[a] = fingerprint[a]
           \/ \E v \in Request :
                  /\ VerifyConsume(v) /\ req[v].account = a
                  /\ Stored(req[v].code) /\ row'[req[v].code].consumed = req[v].stamp
                  /\ email'[a] = email[a] /\ verified'[a] = TRUE
                  /\ fingerprint'[a] = req[v].email
                  /\ \/ Consumable(req[v].code, req[v].stamp) \/ a \in slipped'
                     \/ fingerprint[a] = req[v].email
                  /\ a \in slipped => a \in slipped'
           \/ \E v \in Request :
                  /\ EditWrite(v) /\ req[v].account = a /\ email'[a] = req[v].email
                  /\ \/ /\ row' = Revoked(a)
                        /\ verified'[a] = FALSE /\ fingerprint'[a] = NoEmail
                     \/ /\ email[a] # req[v].email \/ a \in slipped => a \in slipped'
                        /\ verified'[a] = verified[a] /\ fingerprint'[a] = fingerprint[a]
  <1>0. /\ email \in [Account -> Email \cup {NoEmail}]
        /\ verified \in [Account -> BOOLEAN] /\ fingerprint \in [Account -> Email \cup {NoEmail}]
    BY DEF TypeOK
  <1>1. ASSUME NEW v \in Request, NEW b \in Account, NEW e \in Email, SignUp(v, b, e)
        PROVE  /\ verified'[a] = verified[a] /\ fingerprint'[a] = fingerprint[a] /\ slipped' = slipped
               /\ email'[a] = email[a] \/ (a = b /\ email'[a] = e)
    BY <1>0, <1>1 DEF SignUp
  <1>2. ASSUME NEW v \in Request, VerifyConsume(v)
        PROVE  \/ /\ email'[a] = email[a] /\ (a \in slipped' <=> a \in slipped)
                  /\ verified'[a] = verified[a] /\ fingerprint'[a] = fingerprint[a]
               \/ /\ req[v].account = a
                  /\ Stored(req[v].code) /\ row'[req[v].code].consumed = req[v].stamp
                  /\ email'[a] = email[a] /\ verified'[a] = TRUE
                  /\ fingerprint'[a] = req[v].email
                  /\ \/ Consumable(req[v].code, req[v].stamp) \/ a \in slipped'
                     \/ fingerprint[a] = req[v].email
                  /\ a \in slipped => a \in slipped'
    <2> DEFINE hit == /\ Stored(req[v].code)
                      /\ Consumed(req[v].code, req[v].stamp)[req[v].code].consumed = req[v].stamp
               lapse == /\ hit /\ ~Consumable(req[v].code, req[v].stamp)
                        /\ fingerprint[req[v].account] # req[v].email
    <2>1. /\ verified' = [verified EXCEPT ![req[v].account] = @ \/ hit]
          /\ fingerprint' = [fingerprint EXCEPT ![req[v].account] = IF hit THEN req[v].email ELSE @]
          /\ row' = Consumed(req[v].code, req[v].stamp) /\ email' = email
          /\ slipped' = IF lapse THEN slipped \cup {req[v].account} ELSE slipped
      BY <1>2 DEF VerifyConsume
    <2>2. hit => Stored(req[v].code) /\ row'[req[v].code].consumed = req[v].stamp
      BY <2>1
    <2>6. /\ lapse => hit /\ ~Consumable(req[v].code, req[v].stamp)
          /\ hit /\ ~lapse => \/ Consumable(req[v].code, req[v].stamp)
                             \/ fingerprint[req[v].account] = req[v].email
      OBVIOUS
    <2> HIDE DEF hit, lapse
    <2>3. CASE a # req[v].account
      BY <1>0, <2>1, <2>3
    <2>4. CASE a = req[v].account /\ hit
      <3>1. verified'[a] = TRUE
        BY <1>0, <2>1, <2>4
      <3>2. fingerprint'[a] = req[v].email /\ email'[a] = email[a]
        BY <1>0, <2>1, <2>4
      <3>3. \/ Consumable(req[v].code, req[v].stamp) \/ a \in slipped'
            \/ fingerprint[a] = req[v].email
        BY <2>1, <2>4, <2>6
      <3>4. a \in slipped => a \in slipped'
        BY <2>1
      <3> QED
        BY <2>2, <2>4, <3>1, <3>2, <3>3, <3>4
    <2>5. CASE a = req[v].account /\ ~hit
      <3>1. verified'[a] = verified[a]
        BY <1>0, <2>1, <2>5, Zenon
      <3>2. fingerprint'[a] = fingerprint[a] /\ email'[a] = email[a] /\ slipped' = slipped
        BY <1>0, <2>1, <2>5, <2>6
      <3> QED
        BY <3>1, <3>2
    <2> QED
      BY <2>3, <2>4, <2>5
  <1>3. ASSUME NEW v \in Request, EditWrite(v)
        PROVE  \/ /\ email'[a] = email[a] /\ (a \in slipped' <=> a \in slipped)
                  /\ verified'[a] = verified[a] /\ fingerprint'[a] = fingerprint[a]
               \/ /\ req[v].account = a /\ email'[a] = req[v].email
                  /\ \/ /\ row' = Revoked(a)
                        /\ verified'[a] = FALSE /\ fingerprint'[a] = NoEmail
                     \/ /\ email[a] # req[v].email \/ a \in slipped => a \in slipped'
                        /\ verified'[a] = verified[a] /\ fingerprint'[a] = fingerprint[a]
    <2>1. CASE a # req[v].account
      BY <1>0, <1>3, <2>1 DEF EditWrite, Unproved
    <2>2. CASE a = req[v].account
      <3>1. email'[a] = req[v].email
        BY <1>0, <1>3, <2>2 DEF EditWrite
      <3>2. CASE /\ verified' = [verified EXCEPT ![req[v].account] = FALSE]
                 /\ row' = Voided(req[v].account) /\ fingerprint' = Unproved(req[v].account)
        <4>1. verified'[a] = FALSE /\ fingerprint'[a] = NoEmail
          BY <1>0, <2>2, <3>2 DEF Unproved
        <4> QED
          BY <2>2, <3>1, <3>2, <4>1 DEF Voided
      <3>3. CASE /\ UNCHANGED <<verified, row, fingerprint>>
                 /\ slipped' = IF email[req[v].account] # req[v].email
                               THEN slipped \cup {req[v].account} ELSE slipped
        BY <2>2, <3>1, <3>3
      <3> QED
        BY <1>3, <3>2, <3>3 DEF EditWrite
    <2> QED
      BY <2>1, <2>2
  <1>4. CASE \E v \in Request, b \in Account :
                  \/ SendSession(v, b)
                  \/ \E e \in Email : SignUp(v, b, e) \/ EditSession(v, b, e)
                  \/ \E c \in Challenge : VerifySession(v, b, c)
    <2>1. \/ email' = email /\ verified' = verified /\ fingerprint' = fingerprint /\ slipped' = slipped
          \/ \E v \in Request, b \in Account, e \in Email : SignUp(v, b, e)
      BY <1>4 DEF SendSession, EditSession, VerifySession
    <2> QED
      BY <1>1, <2>1
  <1>5. CASE \E v \in Request :
                  \/ SendMarker(v) \/ SendLimits(v) \/ SendIssue(v)
                  \/ MailLeaves(v) \/ Accepted(v) \/ DeliveryFails(v)
                  \/ VerifyFind(v) \/ VerifyStamp(v) \/ VerifyBusy(v) \/ VerifyConsume(v)
                  \/ EditWrite(v) \/ Dropped(v)
    <2>1. \/ email' = email /\ verified' = verified /\ fingerprint' = fingerprint /\ slipped' = slipped
          \/ \E v \in Request : VerifyConsume(v)
          \/ \E v \in Request : EditWrite(v)
      BY <1>5 DEF SendMarker, SendLimits, SendIssue, MailLeaves, Accepted, DeliveryFails, VerifyFind,
                  VerifyStamp, VerifyBusy, Dropped
    <2> QED
      BY <1>2, <1>3, <2>1
  <1>6. CASE (\E c \in Challenge : Prune(c)) \/ Tick \/ UNCHANGED vars
    BY <1>6 DEF Prune, Tick, vars
  <1> QED
    BY <1>4, <1>5, <1>6 DEF Next

LEMMA WholeStep ==
    ASSUME TypeOK, VerifiedIsWhole, [Next]_vars
    PROVE  VerifiedIsWhole'
  <1> SUFFICES ASSUME NEW a \in Account PROVE verified'[a] <=> fingerprint'[a] # NoEmail
    BY DEF VerifiedIsWhole
  <1>1. \A v \in Request : VerifyConsume(v) => req[v].email # NoEmail
    BY EmailVerificationAssumption DEF VerifyConsume, TypeOK
  <1>2. \/ verified'[a] = verified[a] /\ fingerprint'[a] = fingerprint[a]
        \/ verified'[a] = TRUE /\ \E v \in Request : VerifyConsume(v) /\ fingerprint'[a] = req[v].email
        \/ verified'[a] = FALSE /\ fingerprint'[a] = NoEmail
    BY MarksStep
  <1>3. verified[a] <=> fingerprint[a] # NoEmail
    BY DEF VerifiedIsWhole
  <1> QED
    BY <1>1, <1>2, <1>3, Zenon

LEMMA MailedStep ==
    ASSUME TypeOK, TypeOK', FingerprintWasMailed, HoldsMailed, [Next]_vars
    PROVE  FingerprintWasMailed'
  <1> SUFFICES ASSUME NEW a \in Account, fingerprint'[a] # NoEmail
               PROVE  \E c \in delivered' : /\ row'[c].account = a /\ row'[c].email = fingerprint'[a]
                                             /\ row'[c].consumed # Never
    BY DEF FingerprintWasMailed
  <1>0. delivered \subseteq delivered' /\ delivered \subseteq Challenge
        /\ \A c \in delivered : Issued(c)
    BY TableStep DEF TypeOK
  <1>1. CASE fingerprint'[a] = fingerprint[a]
    <2>1. PICK c \in delivered : /\ row[c].account = a /\ row[c].email = fingerprint[a]
                                 /\ row[c].consumed # Never
      BY <1>1 DEF FingerprintWasMailed
    <2> QED
      BY <1>0, <1>1, <2>1, RowKept
  <1>2. ASSUME NEW v \in Request, VerifyConsume(v), req[v].account = a,
               row'[req[v].code].consumed = req[v].stamp, fingerprint'[a] = req[v].email
        PROVE  \E c \in delivered' : /\ row'[c].account = a /\ row'[c].email = fingerprint'[a]
                                      /\ row'[c].consumed # Never
    <2>1. req[v].code \in delivered /\ row[req[v].code].account = a
          /\ row[req[v].code].email = req[v].email
      BY <1>2 DEF VerifyConsume, HoldsMailed, Verifying
    <2>2. req[v].stamp # Never
      BY <1>2, EmailVerificationAssumption DEF VerifyConsume, TypeOK, Time, Never
    <2>3. row'[req[v].code].account = a /\ row'[req[v].code].email = req[v].email
      BY <1>0, <2>1, RowKept
    <2> QED
      BY <1>0, <1>2, <2>1, <2>2, <2>3
  <1> QED
    <2>1. \/ fingerprint'[a] = fingerprint[a] \/ fingerprint'[a] = NoEmail
          \/ \E v \in Request :
                /\ VerifyConsume(v) /\ req[v].account = a
                /\ row'[req[v].code].consumed = req[v].stamp /\ fingerprint'[a] = req[v].email
      BY MarksStep
    <2> QED
      BY <1>1, <1>2, <2>1

\* An address is never taken away again.
LEMMA EmailStays ==
    ASSUME TypeOK, [Next]_vars, NEW a \in Account, email[a] # NoEmail
    PROVE  email'[a] # NoEmail
  <1>1. \A v \in Request : EditWrite(v) => req[v].email # NoEmail
    BY EmailVerificationAssumption DEF EditWrite, Editing, TypeOK
  <1>2. \/ email'[a] = email[a]
        \/ \E v \in Request, e \in Email : email'[a] = e
        \/ \E v \in Request : EditWrite(v) /\ email'[a] = req[v].email
    BY MarksStep
  <1> QED
    BY <1>1, <1>2, EmailVerificationAssumption

LEMMA SignedUpStep ==
    ASSUME TypeOK, TypeOK', SignedUp, [Next]_vars
    PROVE  SignedUp'
  <1>1. ASSUME NEW w \in Request, req'[w].pc # "idle" PROVE email'[req'[w].account] # NoEmail
    <2>0. ASSUME req[w].pc # "idle", req'[w].account = req[w].account
          PROVE  email'[req'[w].account] # NoEmail
      <3>1. req[w].account \in Account /\ email[req[w].account] # NoEmail
        BY <2>0 DEF TypeOK, SignedUp
      <3> QED
        BY <2>0, <3>1, EmailStays
    <2>1. CASE req'[w] = req[w]
      BY <1>1, <2>0, <2>1
    <2>2. ASSUME NEW a \in Account, NEW e \in Email, SignUp(w, a, e), req'[w].account = a
          PROVE  email'[req'[w].account] # NoEmail
      BY <2>2, EmailVerificationAssumption DEF SignUp, TypeOK
    <2>3. ASSUME NEW a \in Account, email[a] # NoEmail, req'[w].account = a
          PROVE  email'[req'[w].account] # NoEmail
      BY <2>3, EmailStays
    <2>4. CASE req[w].pc \in Sending /\ req'[w].account = req[w].account
      BY <2>0, <2>4 DEF Sending
    <2>5. CASE \/ VerifyFind(w) /\ req'[w] = [req[w] EXCEPT !.pc = "stamp"]
               \/ VerifyStamp(w) /\ req'[w] = [req[w] EXCEPT !.pc = "consume", !.stamp = now]
               \/ VerifyBusy(w) /\ req'[w] = [req[w] EXCEPT !.pc = "stamp", !.stamp = Never]
      <3>1. req[w].pc # "idle" /\ req[w] \in Req
        BY <2>5 DEF VerifyFind, VerifyStamp, VerifyBusy, TypeOK
      <3>2. req'[w].account = req[w].account
        BY <2>5, <3>1 DEF Req
      <3> QED
        BY <2>0, <3>1, <3>2
    <2>6. \A a \in Account : SendSession(w, a) => email[a] # NoEmail
      BY DEF SendSession, Session
    <2>7. \A a \in Account, c \in Challenge : VerifySession(w, a, c) => email[a] # NoEmail
      BY DEF VerifySession, Session
    <2>8. \A a \in Account, e \in Email : EditSession(w, a, e) => email[a] # NoEmail
      BY DEF EditSession, Session
    <2> QED
      BY <1>1, <2>1, <2>2, <2>3, <2>4, <2>5, <2>6, <2>7, <2>8, RequestStep
  <1>2. ASSUME NEW c \in Challenge, row'[c] # NoRow PROVE email'[row'[c].account] # NoEmail
    <2>1. CASE Issued(c)
      <3>1. row[c].account \in Account /\ email[row[c].account] # NoEmail
        BY <2>1 DEF SignedUp, TypeOK, Issued, Row
      <3> QED
        BY <2>1, <3>1, EmailStays, RowKept
    <2>2. CASE ~Issued(c)
      <3>0. row'[c] # row[c] /\ ~Live(c)
        BY <1>2, <2>2 DEF Issued, Live, Stored
      <3>1. ASSUME NEW v \in Request, NEW a \in Account, NEW e \in Email, NEW f \in Challenge,
                   SignUp(v, a, e), ~Issued(f), row' = [row EXCEPT ![f] = New(a, e, now)]
            PROVE  email'[row'[c].account] # NoEmail
        <4>1. row'[c] = New(a, e, now)
          BY <3>0, <3>1 DEF TypeOK
        <4> QED
          <5>1. row'[c].account = a
            BY <4>1 DEF New
          <5>2. email'[a] = e /\ e # NoEmail
            BY <3>1, EmailVerificationAssumption DEF SignUp, TypeOK
          <5> QED
            BY <5>1, <5>2
      <3>2. ASSUME NEW v \in Request, SendIssue(v) PROVE email'[row'[c].account] # NoEmail
        <4> DEFINE a == req[v].account
        <4>1. a \in Account /\ email[a] # NoEmail
          BY <3>2 DEF SendIssue, TypeOK, SignedUp
        <4>2. PICK f \in Challenge :
                 ~Issued(f) /\ row' = [Revoked(a) EXCEPT ![f] = New(a, req[v].email, req[v].stamp)]
          BY <3>2 DEF SendIssue, Superseded
        <4>3. Revoked(a) \in Table /\ Revoked(a)[c] = row[c]
          BY <3>0, <4>1, RevokedFacts
        <4>4. row'[c] = New(a, req[v].email, req[v].stamp)
          BY <3>0, <4>2, <4>3 DEF Table
        <4> QED
          BY <4>1, <4>4, EmailStays DEF New
      <3>3. ASSUME NEW v \in Request,
                   DeliveryFails(v) \/ VerifyConsume(v) \/ (EditWrite(v) /\ row' = Revoked(req[v].account))
            PROVE  FALSE
        <4>1. CASE DeliveryFails(v)
          <5>1. req[v].code \in Challenge /\ row' = RevokedOne(req[v].code)
            BY <4>1 DEF DeliveryFails, TypeOK
          <5> QED
            BY <3>0, <5>1, RevokedOneFacts
        <4>2. CASE VerifyConsume(v)
          <5>1. /\ req[v].code \in Challenge /\ req[v].stamp \in Time
                /\ row' = Consumed(req[v].code, req[v].stamp)
            BY <4>2 DEF VerifyConsume, Verifying, TypeOK
          <5>2. Consumed(req[v].code, req[v].stamp)[c] = row[c]
            BY <3>0, <5>1, ConsumedFacts
          <5> QED
            BY <3>0, <5>1, <5>2
        <4>3. CASE EditWrite(v) /\ row' = Revoked(req[v].account)
          <5>1. req[v].account \in Account
            BY <4>3 DEF EditWrite, Editing, TypeOK
          <5> QED
            BY <3>0, <4>3, <5>1, RevokedFacts
        <4> QED
          BY <3>3, <4>1, <4>2, <4>3
      <3> QED
        BY <3>0, <3>1, <3>2, <3>3, TableStep
    <2> QED
      BY <2>1, <2>2
  <1> QED
    BY <1>1, <1>2 DEF SignedUp, Issued

LEMMA HoldsMailedStep ==
    ASSUME TypeOK, TypeOK', HoldsMailed, [Next]_vars
    PROVE  HoldsMailed'
  <1> SUFFICES ASSUME NEW w \in Request
               PROVE  /\ req'[w].pc \in Verifying => req'[w].code \in delivered'
                      /\ req'[w].pc \in {"stamp", "consume"} =>
                             /\ row'[req'[w].code].account = req'[w].account
                             /\ row'[req'[w].code].email = req'[w].email
    BY DEF HoldsMailed
  <1>0. delivered \subseteq delivered' /\ req[w] \in Req
    BY TableStep DEF TypeOK
  <1>1. CASE req'[w] = req[w]
    <2>1. req[w].pc \in Verifying => req[w].code \in Challenge /\ Issued(req[w].code)
      BY DEF TypeOK
    <2> QED
      BY <1>0, <1>1, <2>1, RowKept DEF HoldsMailed, Verifying
  <1>2. CASE req'[w].pc \in {"idle", "dispatch", "marker", "keep", "change"} \cup Sending
    BY <1>2 DEF Verifying, Sending
  <1>3. ASSUME NEW a \in Account, NEW c \in Challenge, VerifySession(w, a, c),
               req'[w].pc = "find", req'[w].code = c
        PROVE  req'[w].code \in delivered'
    BY <1>0, <1>3 DEF VerifySession
  <1>4. ASSUME req[w].pc \in Verifying, req'[w].code = req[w].code, req'[w].account = req[w].account,
               req'[w].email = req[w].email, row[req[w].code].account = req[w].account,
               row[req[w].code].email = req[w].email
        PROVE  /\ req'[w].code \in delivered'
               /\ row'[req'[w].code].account = req'[w].account
               /\ row'[req'[w].code].email = req'[w].email
    <2>1. req[w].code \in Challenge /\ Issued(req[w].code) /\ req[w].code \in delivered
      BY <1>4 DEF TypeOK, HoldsMailed
    <2> QED
      BY <1>0, <1>4, <2>1, RowKept
  <1>5. CASE /\ VerifyFind(w)
             /\ MostRecent(req[w].code, req[w].account) /\ Verifiable(req[w].code, req[w].email)
             /\ req'[w] = [req[w] EXCEPT !.pc = "stamp"]
    <2>1. /\ req'[w].code = req[w].code /\ req'[w].account = req[w].account
          /\ req'[w].email = req[w].email
      BY <1>0, <1>5 DEF Req
    <2> QED
      BY <1>4, <1>5, <2>1 DEF VerifyFind, Verifying, MostRecent, Of, Verifiable
  <1>6. CASE \/ VerifyStamp(w) /\ req'[w] = [req[w] EXCEPT !.pc = "consume", !.stamp = now]
             \/ VerifyBusy(w) /\ req'[w] = [req[w] EXCEPT !.pc = "stamp", !.stamp = Never]
    <2>1. /\ req'[w].code = req[w].code /\ req'[w].account = req[w].account
          /\ req'[w].email = req[w].email
      BY <1>0, <1>6 DEF Req
    <2>2. req[w].pc \in {"stamp", "consume"}
      BY <1>6 DEF VerifyStamp, VerifyBusy
    <2> QED
      BY <1>4, <2>1, <2>2 DEF Verifying, HoldsMailed
  <1>7. req'[w].pc = "find" => req'[w].pc \notin {"stamp", "consume"}
    OBVIOUS
  <1>8. ASSUME NEW a \in Account, NEW e \in Email,
               req'[w].pc = IF email[a] = e THEN "keep" ELSE "change"
        PROVE  req'[w].pc \in {"keep", "change"}
    BY <1>8
  <1> QED
    BY <1>1, <1>2, <1>3, <1>5, <1>6, <1>7, <1>8, RequestStep

-----------------------------------------------------------------------------
LEMMA InitIInv == Init => IInv
  <1> SUFFICES ASSUME Init PROVE IInv
    OBVIOUS
  <1>1. TypeOK
    BY InitType
  <1>2. \A v \in Request : req[v].pc = "idle"
    BY DEF Init, IdleReq
  <1>3. \A c \in Challenge : ~Issued(c)
    BY DEF Init, Issued
  <1>4. \A a \in Account : verified[a] = FALSE /\ fingerprint[a] = NoEmail
    BY DEF Init
  <1>5. VerifiedIsWhole /\ FingerprintWasMailed
    BY <1>4 DEF VerifiedIsWhole, FingerprintWasMailed
  <1>6. OneLiveCode
    BY <1>3 DEF OneLiveCode, Live, Stored
  <1> QED
    BY <1>1, <1>2, <1>3, <1>5, <1>6 DEF IInv, SignedUp, HoldsMailed, Verifying

LEMMA StepIInv == IInv /\ [Next]_vars => IInv'
  BY TypeStep, OneLiveStep, WholeStep, MailedStep, SignedUpStep, HoldsMailedStep DEF IInv

LEMMA InvariantIInv == Spec => []IInv
  <1> QED
    BY InitIInv, StepIInv, PTL DEF Spec

\* Every column keeps its type, and a request holds what its label says it
\* has read.
THEOREM TypeCorrect == Spec => []TypeOK
  <1>1. IInv => TypeOK
    BY DEF IInv
  <1> QED
    BY <1>1, InvariantIInv, PTL

\* However many sends and sign-ups run at once, an account has one code
\* outstanding at most.
THEOREM OneLiveCodeAlways == Spec => []OneLiveCode
  <1>1. IInv => OneLiveCode
    BY DEF IInv
  <1> QED
    BY <1>1, InvariantIInv, PTL

\* The marker is set exactly while there is a fingerprint.
THEOREM VerifiedIsAlwaysWhole == Spec => []VerifiedIsWhole
  <1>1. IInv => VerifiedIsWhole
    BY DEF IInv
  <1> QED
    BY <1>1, InvariantIInv, PTL

\* A fingerprint is of an address whose code was mailed and consumed.
THEOREM FingerprintAlwaysMailed == Spec => []FingerprintWasMailed
  <1>1. IInv => FingerprintWasMailed
    BY DEF IInv
  <1> QED
    BY <1>1, InvariantIInv, PTL

\* A consumed or revoked code is never touched again.
THEOREM SettledNeverChanges == Spec => SettledStays
  <1>1. ASSUME IInv, IInv', [Next]_vars
        PROVE  \A c \in Challenge : Issued(c) /\ ~Outstanding(c) => row'[c] = row[c]
    BY <1>1, RowKept DEF IInv
  <1> QED
    BY <1>1, InvariantIInv, PTL DEF Spec, SettledStays

-----------------------------------------------------------------------------
\* The marker is of the current address.

LEMMA LiveCurrentStep ==
    ASSUME IInv, IInv', LiveIsCurrent, [Next]_vars
    PROVE  LiveIsCurrent'
  <1> SUFFICES ASSUME NEW w \in Request, NEW k \in Challenge, req'[w].pc \in Verifying,
                      req'[w].code = k, Live(k)', row'[k].account = req'[w].account,
                      req'[w].account \notin slipped'
               PROVE  email'[req'[w].account] = req'[w].email
    BY DEF LiveIsCurrent, Live, Stored, Issued, Outstanding, IInv, TypeOK
  <1>0. TypeOK /\ TypeOK' /\ req[w] \in Req
    BY DEF IInv, TypeOK
  \* A live code's account keeps its address: a change revokes the code or slips.
  <1>1. ASSUME NEW c \in Challenge, Issued(c), Live(c)', row[c].account \notin slipped'
        PROVE  email'[row[c].account] = email[row[c].account] /\ row[c].account \notin slipped
    <2>1. PICK a \in Account : a = row[c].account /\ Live(c) /\ email[a] # NoEmail
      BY <1>0, <1>1, RowKept DEF IInv, SignedUp, TypeOK, Issued, Row
    <2>2. row' # Revoked(a)
      <3> SUFFICES ASSUME row' = Revoked(a) PROVE FALSE
        OBVIOUS
      <3>1. row'[c] = [row[c] EXCEPT !.revoked = TRUE]
        BY <1>0, <2>1, RevokedFacts
      <3>2. row[c] \in Row
        BY <1>0, <1>1 DEF TypeOK, Issued
      <3> QED
        BY <1>1, <3>1, <3>2 DEF Live, Outstanding, Row
    <2>3. \A v \in Request, e \in Email : ~SignUp(v, a, e)
      BY <2>1 DEF SignUp
    <2> QED
      BY <1>0, <1>1, <2>1, <2>2, <2>3, MarksStep
  <1>2. ASSUME req[w].pc \in Verifying, req'[w].code = req[w].code,
               req'[w].account = req[w].account, req'[w].email = req[w].email
        PROVE  email'[req'[w].account] = req'[w].email
    <2>1. req[w].code = k /\ Issued(k)
      BY <1>0, <1>2 DEF TypeOK
    <2>2. Live(k) /\ row[k].account = req[w].account
      BY <1>0, <1>2, <2>1, RowKept
    <2>3. email'[req[w].account] = email[req[w].account] /\ req[w].account \notin slipped
      BY <1>1, <1>2, <2>1, <2>2
    <2> QED
      BY <1>2, <2>1, <2>2, <2>3 DEF LiveIsCurrent
  <1>3. CASE req'[w] = req[w]
    BY <1>2, <1>3
  <1>4. ASSUME NEW a \in Account, NEW c \in Challenge, VerifySession(w, a, c),
               req'[w].account = a, req'[w].email = email[a]
        PROVE  email'[req'[w].account] = req'[w].email
    BY <1>4 DEF VerifySession
  <1>5. CASE \/ VerifyFind(w) /\ req'[w] = [req[w] EXCEPT !.pc = "stamp"]
             \/ VerifyStamp(w) /\ req'[w] = [req[w] EXCEPT !.pc = "consume", !.stamp = now]
             \/ VerifyBusy(w) /\ req'[w] = [req[w] EXCEPT !.pc = "stamp", !.stamp = Never]
    <2>1. /\ req'[w].code = req[w].code /\ req'[w].account = req[w].account
          /\ req'[w].email = req[w].email
      BY <1>0, <1>5 DEF Req
    <2>2. req[w].pc \in Verifying
      BY <1>5 DEF VerifyFind, VerifyStamp, VerifyBusy, Verifying
    <2> QED
      BY <1>2, <2>1, <2>2
  <1>6. req'[w].pc \notin {"idle", "dispatch", "marker", "keep", "change"} \cup Sending
    BY DEF Verifying, Sending
  <1>7. \A a \in Account, e \in Email :
            req'[w].pc # IF email[a] = e THEN "keep" ELSE "change"
    BY <1>6
  <1> QED
    BY <1>0, <1>3, <1>4, <1>5, <1>6, <1>7, RequestStep

LEMMA MarkerStep ==
    ASSUME IInv, MarkerProvesEmail, LiveIsCurrent, [Next]_vars
    PROVE  MarkerProvesEmail'
  <1> SUFFICES ASSUME NEW a \in Account, a \notin slipped', verified'[a]
               PROVE  fingerprint'[a] = email'[a]
    BY DEF MarkerProvesEmail
  <1>0. TypeOK
    BY DEF IInv
  <1>1. CASE /\ email'[a] = email[a] /\ (a \in slipped' <=> a \in slipped)
             /\ verified'[a] = verified[a] /\ fingerprint'[a] = fingerprint[a]
    BY <1>1 DEF MarkerProvesEmail
  <1>2. ASSUME NEW v \in Request, NEW e \in Email, SignUp(v, a, e), verified'[a] = verified[a],
               a \in slipped' <=> a \in slipped
        PROVE  FALSE
    BY <1>2 DEF SignUp, MarkerProvesEmail, IInv, VerifiedIsWhole
  <1>3. ASSUME NEW v \in Request, VerifyConsume(v), req[v].account = a,
               email'[a] = email[a], fingerprint'[a] = req[v].email,
               Consumable(req[v].code, req[v].stamp) \/ fingerprint[a] = req[v].email,
               a \in slipped => a \in slipped'
        PROVE  fingerprint'[a] = email'[a]
    <2> DEFINE c == req[v].code
    <2>1. /\ c \in Challenge /\ req[v].pc = "consume" /\ row[c].account = a
          /\ req[v].email \in Email /\ a \notin slipped
      BY <1>0, <1>3 DEF VerifyConsume, TypeOK, Verifying, IInv, HoldsMailed
    <2>2. CASE Consumable(c, req[v].stamp)
      <3>1. Live(c)
        BY <2>2 DEF Consumable
      <3> QED
        BY <1>3, <2>1, <3>1 DEF LiveIsCurrent, Verifying
    <2>3. CASE fingerprint[a] = req[v].email
      <3>1. verified[a]
        BY <2>1, <2>3, EmailVerificationAssumption DEF IInv, VerifiedIsWhole
      <3> QED
        BY <1>3, <2>1, <2>3, <3>1 DEF MarkerProvesEmail
    <2> QED
      BY <1>3, <2>2, <2>3
  <1>4. ASSUME NEW v \in Request, EditWrite(v), req[v].account = a, email'[a] = req[v].email,
               email[a] # req[v].email \/ a \in slipped => a \in slipped',
               verified'[a] = verified[a], fingerprint'[a] = fingerprint[a]
        PROVE  fingerprint'[a] = email'[a]
    BY <1>4 DEF MarkerProvesEmail
  <1>5. verified'[a] # FALSE
    OBVIOUS
  <1> QED
    BY <1>0, <1>1, <1>2, <1>3, <1>4, <1>5, MarksStep

LEMMA InitSInv == Init => SInv
  <1> SUFFICES ASSUME Init PROVE SInv
    OBVIOUS
  <1>1. \A v \in Request : req[v].pc = "idle"
    BY DEF Init, IdleReq
  <1>2. \A a \in Account : verified[a] = FALSE
    BY DEF Init
  <1> QED
    BY <1>1, <1>2, InitIInv DEF SInv, MarkerProvesEmail, LiveIsCurrent, Verifying

LEMMA StepSInv == SInv /\ [Next]_vars => SInv'
  <1> SUFFICES ASSUME SInv, [Next]_vars PROVE SInv'
    OBVIOUS
  <1>1. IInv'
    BY StepIInv DEF SInv
  <1> QED
    BY <1>1, LiveCurrentStep, MarkerStep DEF SInv

\* An account that reads as verified has proved the address it has now, unless
\* a slip has left its address unproved since one was last voided.
THEOREM MarkerAlwaysProves == Spec => []MarkerProvesEmail
  <1>1. SInv => MarkerProvesEmail
    BY DEF SInv
  <1> QED
    BY <1>1, InitSInv, StepSInv, PTL DEF Spec

-----------------------------------------------------------------------------
\* The refinement of AddressProof.
LEMMA LiveCodesAre ==
    ASSUME NEW a
    PROVE  \A k : k \in LiveCodes(a) <=>
               \E c \in Challenge : Live(c) /\ row[c].account = a /\ k = <<c, row[c].email>>
  BY DEF LiveCodes

\* Codes that stay as they are, none dying and none new, of one account.
LEMMA SameCodes ==
    ASSUME NEW a,
           \A c \in Challenge :
               /\ (Live(c) /\ row[c].account = a)' <=> Live(c) /\ row[c].account = a
               /\ Live(c) => row'[c].email = row[c].email
    PROVE  LiveCodes(a)' = LiveCodes(a)
  BY DEF LiveCodes

LEMMA NoCodes ==
    ASSUME NEW a, \A c \in Challenge : ~(Live(c) /\ row[c].account = a)
    PROVE  LiveCodes(a) = {}
  BY DEF LiveCodes

LEMMA NoCodesNext ==
    ASSUME NEW a, \A c \in Challenge : ~(Live(c) /\ row[c].account = a)'
    PROVE  LiveCodes(a)' = {}
  BY DEF LiveCodes

LEMMA OneCodeNext ==
    ASSUME NEW a, NEW c \in Challenge, (Live(c) /\ row[c].account = a)',
           \A d \in Challenge : (Live(d) /\ row[d].account = a)' => d = c
    PROVE  LiveCodes(a)' = {<<c, row'[c].email>>}
  BY DEF LiveCodes

lc == [a \in Account |-> LiveCodes(a)]

\* An unissued code is fresh: it is in no mail and in no account's hands.
LEMMA UnissuedIsFresh ==
    ASSUME TypeOK, NEW c \in Challenge, ~Issued(c)
    PROVE  Promise!Fresh(c)
  <1>1. c \notin delivered
    BY DEF TypeOK
  <1>2. ASSUME NEW a \in Account, NEW k \in LiveCodes(a)
        PROVE  k[1] # c
    BY <1>2 DEF LiveCodes, Live, Stored
  <1> QED
    BY <1>1, <1>2 DEF Promise!Fresh

\* One account's codes change, those of the others stay.
LEMMA OthersCodes ==
    ASSUME TypeOK, NEW a \in Account, NEW S, LiveCodes(a)' = S,
           \A b \in Account \ {a} : LiveCodes(b)' = LiveCodes(b)
    PROVE  lc' = [lc EXCEPT ![a] = S]
  BY DEF lc

\* An account whose live code dies has none left.
LEMMA CodeDies ==
    ASSUME TypeOK, OneLiveCode, NEW c \in Challenge, Live(c), ~Live(c)',
           NEW a \in Account, row[c].account = a,
           \A d \in Challenge : d # c => row'[d] = row[d] /\ (d \in pruned' <=> d \in pruned)
    PROVE  lc' = [lc EXCEPT ![a] = {}]
  <1>1. \A d \in Challenge : d # c => (Live(d)' <=> Live(d)) /\ row'[d] = row[d]
    BY DEF Live, Stored, Issued, Outstanding
  <1>2. LiveCodes(a)' = {}
    <2>1. \A d \in Challenge : ~(Live(d) /\ row[d].account = a)'
      BY <1>1 DEF OneLiveCode
    <2> QED
      BY <2>1, NoCodesNext
  <1>3. ASSUME NEW b \in Account \ {a}
        PROVE  LiveCodes(b)' = LiveCodes(b)
    <2>1. \A d \in Challenge :
              /\ (Live(d) /\ row[d].account = b)' <=> Live(d) /\ row[d].account = b
              /\ Live(d) /\ row[d].account = b => row'[d].email = row[d].email
      BY <1>1
    <2> QED
      BY <2>1 DEF LiveCodes
  <1> QED
    BY <1>2, <1>3, OthersCodes

\* The rows stay: so do the codes.
LEMMA CodesStay ==
    ASSUME row' = row, pruned' = pruned
    PROVE  lc' = lc
  BY DEF lc, LiveCodes, Live, Stored, Issued, Outstanding

LEMMA CodesRevoked ==
    ASSUME TypeOK, NEW a \in Account, row' = Revoked(a), pruned' = pruned
    PROVE  lc' = [lc EXCEPT ![a] = {}]
  <1>1. ASSUME NEW c \in Challenge, Live(c), row[c].account = a
        PROVE  ~Live(c)'
    <2>1. row[c] \in Row /\ row'[c] = [row[c] EXCEPT !.revoked = TRUE]
      BY <1>1, RevokedFacts DEF TypeOK, Live, Stored, Issued
    <2> QED
      BY <2>1 DEF Live, Outstanding, Row
  <1>2. ASSUME NEW c \in Challenge, ~(Live(c) /\ row[c].account = a)
        PROVE  row'[c] = row[c] /\ (Live(c)' <=> Live(c))
    <2>1. row'[c] = row[c]
      BY <1>2, RevokedFacts
    <2> QED
      BY <2>1 DEF Live, Stored, Issued, Outstanding
  <1>3. LiveCodes(a)' = {}
    <2>1. \A c \in Challenge : ~(Live(c) /\ row[c].account = a)'
      BY <1>1, <1>2
    <2> QED
      BY <2>1, NoCodesNext
  <1>4. ASSUME NEW b \in Account \ {a}
        PROVE  LiveCodes(b)' = LiveCodes(b)
    <2>1. ASSUME NEW c \in Challenge, Live(c), row[c].account = a
          PROVE  row'[c].account = a
      <3>1. row[c] \in Row /\ row'[c] = [row[c] EXCEPT !.revoked = TRUE]
        BY <2>1, RevokedFacts DEF TypeOK, Live, Stored, Issued
      <3> QED
        BY <2>1, <3>1 DEF Row
    <2>2. \A c \in Challenge :
              /\ (Live(c) /\ row[c].account = b)' <=> Live(c) /\ row[c].account = b
              /\ Live(c) /\ row[c].account = b => row'[c].email = row[c].email
      BY <1>2, <2>1
    <2> QED
      BY <2>2 DEF LiveCodes
  <1> QED
    BY <1>3, <1>4, OthersCodes

\* A new row over a table in which the account has no live code.
LEMMA CodeHanded ==
    ASSUME TypeOK, NEW a \in Account, NEW e \in Email, NEW t \in Time,
           NEW c \in Challenge, ~Issued(c), pruned' = pruned,
           NEW T \in Table, row' = [T EXCEPT ![c] = New(a, e, t)],
           \A d \in Challenge :
               \/ T[d] = row[d] /\ ~(Live(d) /\ row[d].account = a)
               \/ Live(d) /\ row[d].account = a /\ T[d].revoked = TRUE /\ T[d].account = a
    PROVE  lc' = [lc EXCEPT ![a] = {<<c, e>>}]
  <1>0. c \notin pruned
    BY DEF TypeOK
  <1>1. /\ row'[c] = New(a, e, t)
        /\ \A d \in Challenge : d # c => row'[d] = T[d]
    BY DEF Table
  <1>2. (Live(c) /\ row[c].account = a)' /\ row'[c].email = e
    BY <1>0, <1>1, NewFacts DEF Live, Stored, Issued, Outstanding, New
  <1>3. ASSUME NEW d \in Challenge, d # c, Live(d), row[d].account = a
        PROVE  ~Live(d)' /\ row'[d].account = a
    <2>1. row'[d].revoked /\ row'[d].account = a
      BY <1>1, <1>3
    <2> QED
      BY <2>1 DEF Live, Outstanding
  <1>4. ASSUME NEW d \in Challenge, d # c, ~(Live(d) /\ row[d].account = a)
        PROVE  row'[d] = row[d] /\ (Live(d)' <=> Live(d))
    <2>1. row'[d] = row[d]
      BY <1>1, <1>4
    <2> QED
      BY <2>1 DEF Live, Stored, Issued, Outstanding
  <1>5. LiveCodes(a)' = {<<c, e>>}
    <2>1. \A d \in Challenge : (Live(d) /\ row[d].account = a)' => d = c
      BY <1>3, <1>4
    <2> QED
      BY <1>2, <2>1, OneCodeNext
  <1>6. ASSUME NEW b \in Account \ {a}
        PROVE  LiveCodes(b)' = LiveCodes(b)
    <2>1. ~Live(c) /\ row'[c].account # b
      BY <1>2 DEF Live, Stored
    <2>2. \A d \in Challenge :
              /\ (Live(d) /\ row[d].account = b)' <=> Live(d) /\ row[d].account = b
              /\ Live(d) /\ row[d].account = b => row'[d].email = row[d].email
      BY <1>3, <1>4, <2>1
    <2> QED
      BY <2>2 DEF LiveCodes
  <1> QED
    BY <1>5, <1>6, OthersCodes

\* What a step that touches no account, row or mail is to the promise.
Stutter == UNCHANGED <<email, ProvedAddress, lc, delivered, slipped>>

LEMMA QuietIsStutter ==
    ASSUME UNCHANGED <<email, verified, fingerprint, row, pruned, delivered, slipped>>
    PROVE  Stutter
  <1>1. lc' = lc
    BY CodesStay
  <1> QED
    BY <1>1 DEF Stutter, ProvedAddress

LEMMA RefineSignUp ==
    ASSUME SInv, NEW v \in Request, NEW a \in Account, NEW e \in Email, SignUp(v, a, e)
    PROVE  Promise!Register(a, e)
  <1>0. TypeOK /\ SignedUp
    BY DEF SInv, IInv
  <1>1. email[a] = NoEmail /\ Promise!Free(e, a)
    BY DEF SignUp, Taken, Promise!Free
  <1>2. email' = [email EXCEPT ![a] = e] /\ UNCHANGED <<verified, fingerprint, delivered, pruned, slipped>>
    BY DEF SignUp
  <1>3. CASE row' = row
    BY <1>1, <1>2, <1>3, CodesStay DEF Promise!Register, ProvedAddress, lc
  <1>4. ASSUME NEW c \in Challenge, ~Issued(c), row' = [row EXCEPT ![c] = New(a, e, now)]
        PROVE  Promise!Register(a, e)
    <2>1. \A d \in Challenge : ~(Live(d) /\ row[d].account = a)
      BY <1>0, <1>1 DEF SignedUp, Live, Stored
    <2>2. row \in Table /\ now \in Time
      BY <1>0 DEF TypeOK, Table
    <2>3. lc' = [lc EXCEPT ![a] = {<<c, e>>}]
      BY <1>0, <1>2, <1>4, <2>1, <2>2, CodeHanded
    <2>4. Promise!Hand(a, e)
      BY <1>0, <1>4, <2>3, UnissuedIsFresh DEF Promise!Hand, lc
    <2> QED
      BY <1>1, <1>2, <2>4 DEF Promise!Register, ProvedAddress
  <1> QED
    BY <1>3, <1>4 DEF SignUp

LEMMA RefineIssue ==
    ASSUME SInv, NEW v \in Request, SendIssue(v)
    PROVE  \E a \in Account, e \in Email : Promise!Issue(a, e)
  <1>0. TypeOK /\ SignedUp
    BY DEF SInv, IInv
  <1>1. PICK a \in Account, e \in Email, t \in Time :
            a = req[v].account /\ e = req[v].email /\ t = req[v].stamp
    BY <1>0 DEF SendIssue, TypeOK
  <1>2. PICK c \in Challenge : ~Issued(c) /\ row' = [Revoked(a) EXCEPT ![c] = New(a, e, t)]
    BY <1>1 DEF SendIssue, Superseded
  <1>3. email[a] # NoEmail
    BY <1>0, <1>1 DEF SignedUp, SendIssue
  <1>4. UNCHANGED <<email, verified, fingerprint, delivered, pruned, slipped>>
    BY DEF SendIssue
  <1>5. lc' = [lc EXCEPT ![a] = {<<c, e>>}]
    <2>1. PICK T \in Table : T = Revoked(a)
      BY <1>0, <1>2, RevokedFacts
    <2>2. ASSUME NEW d \in Challenge
          PROVE  \/ T[d] = row[d] /\ ~(Live(d) /\ row[d].account = a)
                 \/ Live(d) /\ row[d].account = a /\ T[d].revoked = TRUE /\ T[d].account = a
      <3>1. CASE Live(d) /\ row[d].account = a
        <4>1. row[d] \in Row /\ T[d] = [row[d] EXCEPT !.revoked = TRUE]
          BY <1>0, <2>1, <3>1, RevokedFacts DEF TypeOK, Live, Stored, Issued
        <4> QED
          BY <3>1, <4>1 DEF Row
      <3>2. CASE ~(Live(d) /\ row[d].account = a)
        BY <1>0, <2>1, <3>2, RevokedFacts
      <3> QED
        BY <3>1, <3>2
    <2>3. row' = [T EXCEPT ![c] = New(a, e, t)] /\ pruned' = pruned /\ ~Issued(c)
      BY <1>2, <1>4, <2>1
    <2> QED
      BY <1>0, <2>2, <2>3, CodeHanded
  <1>6. Promise!Hand(a, e)
    BY <1>0, <1>2, <1>5, UnissuedIsFresh DEF Promise!Hand, lc
  <1>7. Promise!Issue(a, e)
    BY <1>3, <1>4, <1>6 DEF Promise!Issue, ProvedAddress
  <1> QED
    BY <1>7

\* A delivery that fails or a row that is pruned takes at most one live code.
LEMMA RefineVoid ==
    ASSUME SInv, (\E v \in Request : DeliveryFails(v)) \/ (\E c \in Challenge : Prune(c))
    PROVE  Stutter \/ \E a \in Account : Promise!Void(a)
  <1>0. TypeOK /\ OneLiveCode
    BY DEF SInv, IInv
  <1>1. UNCHANGED <<email, verified, fingerprint, delivered, slipped>>
    BY DEF DeliveryFails, Prune
  <1>2. ASSUME NEW c \in Challenge, Live(c), ~Live(c)',
               \A d \in Challenge : d # c => row'[d] = row[d] /\ (d \in pruned' <=> d \in pruned)
        PROVE  \E a \in Account : Promise!Void(a)
    <2>1. PICK a \in Account : a = row[c].account
      BY <1>0, <1>2 DEF TypeOK, Live, Stored, Issued, Row
    <2>2. lc' = [lc EXCEPT ![a] = {}]
      BY <1>0, <1>2, <2>1, CodeDies
    <2>3. Promise!Void(a)
      BY <1>1, <2>2 DEF Promise!Void, ProvedAddress, lc
    <2> QED
      BY <2>3
  <1>3. ASSUME NEW v \in Request, DeliveryFails(v)
        PROVE  Stutter \/ \E a \in Account : Promise!Void(a)
    <2>1. PICK c \in Challenge : c = req[v].code
      BY <1>0, <1>3 DEF DeliveryFails, TypeOK
    <2>2. row' = RevokedOne(c) /\ pruned' = pruned
      BY <1>3, <2>1 DEF DeliveryFails
    <2>3. CASE Live(c)
      <3>1. row[c] \in Row /\ row'[c] = [row[c] EXCEPT !.revoked = TRUE]
        BY <1>0, <2>2, <2>3, RevokedOneFacts DEF TypeOK, Live, Stored, Issued
      <3>2. ~Live(c)'
        BY <3>1 DEF Live, Outstanding, Row
      <3> QED
        BY <1>0, <1>2, <2>2, <2>3, <3>2, RevokedOneFacts
    <2>4. CASE ~Live(c)
      <3>1. row' = row
        BY <2>2, <2>4 DEF RevokedOne
      <3> QED
        BY <1>1, <2>2, <3>1, QuietIsStutter
    <2> QED
      BY <2>3, <2>4
  <1>4. ASSUME NEW c \in Challenge, Prune(c)
        PROVE  Stutter \/ \E a \in Account : Promise!Void(a)
    <2>1. row' = row /\ pruned' = pruned \cup {c}
      BY <1>4 DEF Prune
    <2>2. CASE Live(c)
      BY <1>2, <2>1, <2>2 DEF Live, Stored
    <2>3. CASE ~Live(c)
      <3>1. \A d \in Challenge : (Live(d)' <=> Live(d)) /\ row'[d] = row[d]
        BY <2>1, <2>3 DEF Live, Stored, Issued, Outstanding
      <3>2. lc' = lc
        BY <3>1 DEF lc, LiveCodes
      <3> QED
        BY <1>1, <3>2 DEF Stutter, ProvedAddress
    <2> QED
      BY <2>2, <2>3
  <1> QED
    BY <1>3, <1>4

\* An attempt that finds its code live uses it up for the address its account
\* has, unless the account has slipped before; one that finds only its own
\* instant on the row changes nothing, or slips.
LEMMA RefineConsume ==
    ASSUME SInv, NEW v \in Request, VerifyConsume(v)
    PROVE  Stutter \/ \E a \in Account : Promise!Prove(a) \/ Promise!Slip(a)
  <1>0. TypeOK /\ OneLiveCode /\ HoldsMailed /\ LiveIsCurrent /\ SignedUp /\ VerifiedIsWhole
    BY DEF SInv, IInv
  <1>1. PICK a \in Account, e \in Email, c \in Challenge, t \in Time :
            a = req[v].account /\ e = req[v].email /\ c = req[v].code /\ t = req[v].stamp
    BY <1>0 DEF VerifyConsume, Verifying, TypeOK
  <1> DEFINE hit == Stored(c) /\ Consumed(c, t)[c].consumed = t
  <1>2. /\ row' = Consumed(c, t)
        /\ verified' = [verified EXCEPT ![a] = @ \/ hit]
        /\ fingerprint' = [fingerprint EXCEPT ![a] = IF hit THEN e ELSE @]
        /\ UNCHANGED <<email, pruned, delivered>>
        /\ slipped' = IF hit /\ ~Consumable(c, t) /\ fingerprint[a] # e
                      THEN slipped \cup {a} ELSE slipped
    BY <1>1 DEF VerifyConsume
  <1>3. c \in delivered /\ row[c].account = a /\ row[c].email = e /\ email[a] # NoEmail
    BY <1>0, <1>1 DEF VerifyConsume, HoldsMailed, Verifying, SignedUp
  <1>6. ASSUME hit PROVE ProvedAddress' = [ProvedAddress EXCEPT ![a] = e]
    <2>1. /\ verified' = [verified EXCEPT ![a] = TRUE]
          /\ fingerprint' = [fingerprint EXCEPT ![a] = e]
      BY <1>2, <1>6
    <2> QED
      BY <1>0, <2>1 DEF ProvedAddress, TypeOK
  <1>4. CASE Consumable(c, t)
    <2>1. Live(c) /\ row[c] \in Row
      BY <1>0, <1>4 DEF Consumable, TypeOK, Live, Stored, Issued
    <2>2. row'[c] = [row[c] EXCEPT !.consumed = t]
      BY <1>0, <1>2, <1>4, ConsumedFacts
    <2>3. \A d \in Challenge : d # c => row'[d] = row[d]
      BY <1>0, <1>2, ConsumedFacts
    <2>4. row'[c].consumed = t /\ t # Never
      BY <2>1, <2>2 DEF Row, Time, Never
    <2>5. ~Live(c)'
      BY <2>4 DEF Live, Outstanding
    <2>6. lc' = [lc EXCEPT ![a] = {}]
      BY <1>0, <1>2, <1>3, <2>1, <2>3, <2>5, CodeDies
    <2>7. hit
      BY <1>2, <2>1, <2>4 DEF Live
    <2>8. slipped' = slipped /\ ProvedAddress' = [ProvedAddress EXCEPT ![a] = e]
      BY <1>2, <1>4, <1>6, <2>7
    <2>9. CASE a \notin slipped
      <3>1. email[a] = e
        BY <1>0, <1>1, <1>3, <2>1, <2>9 DEF LiveIsCurrent, VerifyConsume, Verifying
      <3>2. <<c, email[a]>> \in LiveCodes(a)
        BY <1>3, <2>1, <3>1, LiveCodesAre
      <3>3. Promise!Prove(a)
        BY <1>2, <1>3, <2>6, <2>8, <3>1, <3>2 DEF Promise!Prove, lc
      <3> QED
        BY <3>3
    <2>10. CASE a \in slipped
      <3>1. slipped' = slipped \cup {a}
        BY <2>8, <2>10
      <3>2. Promise!Slip(a)
        BY <1>2, <1>3, <2>6, <2>8, <3>1 DEF Promise!Slip, lc
      <3> QED
        BY <3>2
    <2> QED
      BY <2>9, <2>10
  <1>5. CASE ~Consumable(c, t)
    <2>1. row' = row
      BY <1>2, <1>5 DEF Consumed
    <2>2. CASE ~hit
      <3>1. verified' = verified /\ fingerprint' = fingerprint /\ slipped' = slipped
        BY <1>0, <1>2, <2>2 DEF TypeOK
      <3> QED
        BY <1>2, <2>1, <3>1, QuietIsStutter
    <2>3. CASE hit /\ fingerprint[a] = e
      <3>1. verified[a] = TRUE
        BY <1>0, <2>3, EmailVerificationAssumption DEF VerifiedIsWhole, TypeOK
      <3>2. ProvedAddress[a] = e
        BY <2>3, <3>1 DEF ProvedAddress
      <3>3. ProvedAddress' = ProvedAddress
        BY <1>6, <2>3, <3>2 DEF ProvedAddress
      <3> QED
        BY <1>2, <2>1, <2>3, <3>3, CodesStay DEF Stutter
    <2>4. CASE hit /\ fingerprint[a] # e
      <3>1. slipped' = slipped \cup {a} /\ ProvedAddress' = [ProvedAddress EXCEPT ![a] = e]
        BY <1>2, <1>5, <1>6, <2>4
      <3>2. lc' = lc
        BY <1>2, <2>1, CodesStay
      <3>3. Promise!Slip(a)
        BY <1>2, <1>3, <3>1, <3>2 DEF Promise!Slip, lc
      <3> QED
        BY <3>3
    <2> QED
      BY <2>2, <2>3, <2>4
  <1> QED
    BY <1>4, <1>5

LEMMA RefineEdit ==
    ASSUME SInv, NEW v \in Request, EditWrite(v)
    PROVE  \/ Stutter
           \/ \E a \in Account, e \in Email : Promise!Move(a, e)
           \/ \E a \in Account : Promise!Slip(a)
  <1>0. TypeOK /\ SignedUp
    BY DEF SInv, IInv
  <1>1. PICK a \in Account, e \in Email : a = req[v].account /\ e = req[v].email
    BY <1>0 DEF EditWrite, Editing, TypeOK
  <1>2. /\ email' = [email EXCEPT ![a] = e] /\ Promise!Free(e, a)
        /\ UNCHANGED <<pruned, delivered>>
    BY <1>1 DEF EditWrite, Taken, Promise!Free
  <1>3. email[a] # NoEmail
    BY <1>0, <1>1 DEF SignedUp, EditWrite, Editing
  <1>4. CASE /\ verified' = [verified EXCEPT ![a] = FALSE]
             /\ row' = Voided(a) /\ fingerprint' = Unproved(a) /\ slipped' = slipped \ {a}
    <2>1. row' = Revoked(a) /\ fingerprint' = [fingerprint EXCEPT ![a] = NoEmail]
      BY <1>4 DEF Voided, Unproved
    <2>2. lc' = [lc EXCEPT ![a] = {}]
      BY <1>0, <1>2, <2>1, CodesRevoked
    <2>3. ProvedAddress' = [ProvedAddress EXCEPT ![a] = NoEmail]
      BY <1>0, <1>4, <2>1 DEF ProvedAddress, TypeOK
    <2>4. Promise!Move(a, e)
      BY <1>2, <1>3, <1>4, <2>2, <2>3 DEF Promise!Move, lc
    <2> QED
      BY <2>4
  <1>5. CASE /\ UNCHANGED <<verified, row, fingerprint>>
             /\ slipped' = IF email[a] # e THEN slipped \cup {a} ELSE slipped
    <2>1. lc' = lc /\ ProvedAddress' = ProvedAddress
      BY <1>2, <1>5, CodesStay DEF ProvedAddress
    <2>2. CASE email[a] = e
      <3>1. email' = email
        BY <1>0, <1>2, <2>2 DEF TypeOK
      <3> QED
        BY <1>2, <1>5, <2>1, <2>2, <3>1 DEF Stutter
    <2>3. CASE email[a] # e
      <3>1. Promise!Slip(a)
        BY <1>2, <1>3, <1>5, <2>1, <2>3 DEF Promise!Slip, lc
      <3> QED
        BY <3>1
    <2> QED
      BY <2>2, <2>3
  <1> QED
    BY <1>1, <1>4, <1>5 DEF EditWrite

LEMMA RefineStep ==
    ASSUME SInv, [Next]_vars
    PROVE  Stutter \/ Promise!Next
  <1>1. ASSUME NEW v \in Request, NEW a \in Account,
               \/ SendSession(v, a)
               \/ \E e \in Email : EditSession(v, a, e)
               \/ \E c \in Challenge : VerifySession(v, a, c)
        PROVE  Stutter
    BY <1>1, QuietIsStutter DEF SendSession, EditSession, VerifySession
  <1>2. ASSUME NEW v \in Request, NEW a \in Account, NEW e \in Email, SignUp(v, a, e)
        PROVE  Promise!Next
    BY <1>2, RefineSignUp DEF Promise!Next
  <1>3. ASSUME NEW v \in Request,
               \/ SendMarker(v) \/ SendLimits(v) \/ Accepted(v)
               \/ VerifyFind(v) \/ VerifyStamp(v) \/ VerifyBusy(v) \/ Dropped(v)
        PROVE  Stutter
    BY <1>3, QuietIsStutter
       DEF SendMarker, SendLimits, Accepted, VerifyFind, VerifyStamp, VerifyBusy, Dropped
  <1>4. ASSUME NEW v \in Request, SendIssue(v)
        PROVE  Promise!Next
    BY <1>4, RefineIssue DEF Promise!Next
  <1>5. ASSUME NEW v \in Request, MailLeaves(v)
        PROVE  Promise!Next
    <2>1. PICK c \in Challenge : c = req[v].code
      BY <1>5 DEF MailLeaves, SInv, IInv, TypeOK
    <2>2. lc' = lc
      BY <1>5, CodesStay DEF MailLeaves
    <2>3. Promise!Mail(c)
      BY <1>5, <2>1, <2>2 DEF MailLeaves, Promise!Mail, ProvedAddress, lc
    <2> QED
      BY <2>3 DEF Promise!Next
  <1>6. ASSUME (\E v \in Request : DeliveryFails(v)) \/ (\E c \in Challenge : Prune(c))
        PROVE  Stutter \/ Promise!Next
    BY <1>6, RefineVoid DEF Promise!Next
  <1>7. ASSUME NEW v \in Request, VerifyConsume(v)
        PROVE  Stutter \/ Promise!Next
    BY <1>7, RefineConsume DEF Promise!Next
  <1>8. ASSUME NEW v \in Request, EditWrite(v)
        PROVE  Stutter \/ Promise!Next
    BY <1>8, RefineEdit DEF Promise!Next
  <1>9. CASE Tick \/ UNCHANGED vars
    BY <1>9, QuietIsStutter DEF Tick, vars
  <1> QED
    BY <1>1, <1>2, <1>3, <1>4, <1>5, <1>6, <1>7, <1>8, <1>9 DEF Next

\* Refinement: however the requests interleave, together they do what
\* AddressProof says, which leaves an account alone while it has slipped.
THEOREM AddressAlwaysProved == Spec => AddressIsProved
  <1>1. Init => Promise!Init
    <2> SUFFICES ASSUME Init PROVE Promise!Init
      OBVIOUS
    <2>1. ASSUME NEW a \in Account PROVE LiveCodes(a) = {}
      BY NoCodes DEF Init, Live, Stored, Issued
    <2> QED
      BY <2>1 DEF Init, Promise!Init, ProvedAddress
  <1>2. SInv /\ [Next]_vars => [Promise!Next]_(Promise!vars)
    BY RefineStep DEF Stutter, lc, Promise!vars
  <1> QED
    BY InitSInv, StepSInv, <1>1, <1>2, PTL DEF Spec, AddressIsProved, Promise!Spec
=============================================================================
