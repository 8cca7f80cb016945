------------------------- MODULE ReportRoomsProofs -------------------------
(***************************************************************************)
(* The safety properties of ReportRooms, for any accounts, reports, rooms, *)
(* identities and requests, whatever runs together.  Each has its own      *)
(* strengthening: a row is in no room or in that of its report's check     *)
(* (RoomsInv), an account under deletion owns nothing unless something was *)
(* written for it (AccountsInv), a request that saves has seen no owner    *)
(* but its own (OwnersInv), and what is captured is attributed to an       *)
(* account (LinksInv).                                                     *)
(***************************************************************************)
EXTENDS ReportRooms, TLAPS

Table == [Report -> Row \cup {NoRow}]
AccountStates == {"live", "reports", "identities", "stopped", "gone"}

\* A row stays in the room of its report's check, or in none.
RoomsOfCheck == \A r \in Report : Exists(r) => row[r].room \in {NoRoom, RoomOf[r]}

RoomsInv == TypeOK /\ RoomsOfCheck /\ OneReportPerRoom

\* Past its first statement the deletion of an account left it no report, and
\* an account that is gone owns none at all.
NothingOwned ==
    \A a \in Account :
        \/ account[a] \in {"live", "stopped"}
        \/ account[a] # "gone" /\ a \in late
        \/ \A r \in Report : Exists(r) => row[r].owner # a

AccountsInv == TypeOK /\ NothingOwned /\ NothingOutlivesAccount

\* A request has seen no owner but its own account, and one that does not
\* resave has seen none.
OwnSeen(q) == q.seen # NoOwner => q.pc = "resave" /\ q.seen = q.account
SeenOwn == \A v \in Request : OwnSeen(req[v])

OwnersInv == TypeOK /\ SeenOwn

\* What is captured is attributed to an account.
CapturedForAccount == \A i \in Identity : identity[i] # Free => identity[i].account \in Account

LinksInv == TypeOK /\ CapturedForAccount /\ LinkedIdentityHasReport

-----------------------------------------------------------------------------
\* A save touches its own report only: it makes a row in the room, or gives
\* the row the session's owner.
LEMMA SavedFacts ==
    ASSUME NEW table \in Table, NEW v \in Request, NEW k \in Room \cup {NoRoom},
           req[v].account \in Account, req[v].report \in Report
    PROVE  LET r == req[v].report
               new == Saved(table, v, k)
           IN  /\ new \in Table
               /\ \A s \in Report : s # r => new[s] = table[s]
               /\ new[r] \in Row /\ new[r] # NoRow
               /\ new[r].owner = req[v].account
               /\ table[r] = NoRow => new[r].room = k /\ new[r].identity = NoIdentity
               /\ table[r] # NoRow =>
                      new[r].room = table[r].room /\ new[r].identity = table[r].identity
  <1>1. \A x \in Row : x # NoRow
    BY NoRowNotARow
  <1> QED
    BY <1>1 DEF Saved, Table, Row

LEMMA WithoutFacts ==
    ASSUME TypeOK, NEW r \in Report
    PROVE  /\ WithoutRow(r) \in Table /\ WithoutRow(r)[r] = NoRow
           /\ \A s \in Report : s # r => WithoutRow(r)[s] = row[s]
  BY DEF WithoutRow, Table, TypeOK

LEMMA InitType == Init => TypeOK
  <1> SUFFICES ASSUME Init PROVE TypeOK
    OBVIOUS
  <1>1. row \in [Report -> Row \cup {NoRow}]
    BY DEF Init, Row
  <1>2. identity \in [Identity -> Captured]
    BY DEF Init, Captured, Free
  <1>3. IdleReq \in Req
    BY DEF Req, IdleReq, Pc
  <1>4. /\ req \in [Request -> Req]
        /\ \A v \in Request : req[v].pc = "idle"
    BY <1>3 DEF Init, IdleReq
  <1> QED
    BY <1>1, <1>2, <1>4, ReportRoomsAssumption DEF Init, TypeOK, Saving, Deferred

\* What a step makes of one request keeps the requests typed.
Typed(q) ==
    /\ q \in Req
    /\ q.pc \in Saving \cup Deferred \cup {"deleting"} => q.report \in Report
    /\ q.pc \in Saving \cup {"deferred"} => q.account \in Account
    /\ q.pc \in {"captured", "cleaning"} => q.identity \in Identity

LEMMA OneRequest ==
    ASSUME TypeOK, NEW v \in Request, NEW q, Typed(q), req' = [req EXCEPT ![v] = q]
    PROVE  req' \in [Request -> Req] /\ \A w \in Request : Typed(req'[w])
  BY DEF TypeOK, Typed

\* Requests and histories, whatever else a step changes.
LEMMA HistoryType ==
    ASSUME TypeOK, NEW a \in Account
    PROVE  /\ Wrote(a) => late' \subseteq Account
           /\ \A moved : doubled \cup Crowded(a, moved) \subseteq Account \X Room
  BY DEF TypeOK, Wrote, Crowded

LEMMA TypeStep == TypeOK /\ [Next]_vars => TypeOK'
  <1> SUFFICES ASSUME TypeOK, [Next]_vars PROVE TypeOK'
    OBVIOUS
  <1> DEFINE Requests == req' \in [Request -> Req] /\ \A w \in Request : Typed(req'[w])
             History == /\ doubled' \subseteq Account \X Room /\ late' \subseteq Account
                        /\ stranded' \subseteq Identity /\ over' \subseteq Report
             Accounts == account' \in [Account -> AccountStates]
             Identities == identity' \in [Identity -> Captured]
  <1>0. /\ row \in Table /\ identity \in [Identity -> Captured]
        /\ req \in [Request -> Req] /\ \A w \in Request : Typed(req[w])
        /\ account \in [Account -> AccountStates]
        /\ doubled \subseteq Account \X Room /\ late \subseteq Account
        /\ stranded \subseteq Identity /\ over \subseteq Report
        /\ Typed(IdleReq) /\ Free \in Captured
    BY DEF TypeOK, Table, Typed, IdleReq, Free, Pc, Req, Captured, Saving, Deferred, AccountStates
  <1>1. ASSUME NEW v \in Request, Goto(v, "deferred"), req[v].pc \in Saving
        PROVE  Requests
    <2> DEFINE q == [req[v] EXCEPT !.pc = "deferred"]
    <2>1. Typed(q)
      BY <1>0, <1>1 DEF Typed, Req, Pc, Saving, Deferred, Deleting
    <2>2. req' = [req EXCEPT ![v] = q]
      BY <1>1 DEF Goto
    <2> HIDE DEF q
    <2> QED
      BY <2>1, <2>2, OneRequest
  <1>2. ASSUME NEW v \in Request, Done(v) PROVE Requests
    BY <1>0, <1>2, OneRequest DEF Done
  <1>3. ASSUME NEW i PROVE WithoutIdentity(i) \in [Identity -> Captured]
    BY <1>0 DEF WithoutIdentity
  <1>4. ASSUME NEW v \in Request, req[v].pc \in Saving
        PROVE  /\ req[v].report \in Report /\ req[v].account \in Account
               /\ RoomOf[req[v].report] \in Room
    BY <1>0, <1>4, ReportRoomsAssumption DEF Typed, Saving
  <1>5. ASSUME req' = req PROVE Requests
    BY <1>0, <1>5
  <1> HIDE DEF Requests
  <1> SUFFICES Accounts /\ row' \in Table /\ Requests /\ Identities /\ History
    BY DEF TypeOK, Table, Requests, Typed, AccountStates
  <1>6. ASSUME NEW v \in Request, NEW a \in Account, NEW r \in Report, ReadReport(v, a, r)
        PROVE  Requests
    <2> DEFINE p == [req[v] EXCEPT !.pc = "first", !.account = a, !.report = r]
               q == [req[v] EXCEPT !.pc = "resave", !.account = a, !.report = r,
                                   !.seen = row[r].owner]
    <2>1. req[v] \in Req
      BY <1>0
    <2>2. CASE req' = [req EXCEPT ![v] = p]
      <3>1. Typed(p)
        BY <2>1 DEF Typed, Req, Pc, Saving, Deferred
      <3> QED
        BY <2>2, <3>1, OneRequest DEF Requests
    <2>3. CASE Exists(r) /\ req' = [req EXCEPT ![v] = q]
      <3>1. row[r].owner \in Account \cup {NoOwner}
        BY <1>0, <2>3 DEF Exists, Table, Row
      <3>2. Typed(q)
        BY <2>1, <3>1 DEF Typed, Req, Pc, Saving, Deferred
      <3> QED
        BY <2>3, <3>2, OneRequest DEF Requests
    <2> QED
      BY <1>6, <2>2, <2>3 DEF ReadReport
  <1>7. ASSUME NEW v \in Request, ClaimFails(v) \/ DeferredEnds(v) PROVE Requests
    BY <1>2, <1>7 DEF ClaimFails, DeferredEnds
  <1>8. ASSUME NEW v \in Request, ClaimVacant(v)
        PROVE  row' \in Table /\ Requests /\ History
    BY <1>0, <1>1, <1>4, <1>8, SavedFacts, HistoryType DEF ClaimVacant, Saving
  <1>9. ASSUME NEW v \in Request, ClaimExpired(v)
        PROVE  row' \in Table /\ Requests /\ Identities /\ History
    BY <1>0, <1>1, <1>3, <1>4, <1>9, SavedFacts, WithoutFacts, HistoryType
       DEF ClaimExpired, Cleaned, Saving
  <1>10. ASSUME NEW v \in Request, Resave(v)
         PROVE  row' \in Table /\ Requests /\ History
    <2>1. NoRoom \in Room \cup {NoRoom}
      OBVIOUS
    <2>2. row' \in Table
      BY <1>0, <1>4, <1>10, <2>1, SavedFacts DEF Resave, Saving
    <2>3. Requests
      BY <1>2, <1>10 DEF Resave
    <2>4. req[v].account \in Account
      BY <1>4, <1>10 DEF Resave, Saving
    <2>5. late' \subseteq Account
      BY <1>0, <1>10, <2>4, HistoryType DEF Resave
    <2>6. doubled' \subseteq Account \X Room
      BY <1>0, <1>10, <2>4, HistoryType DEF Resave
    <2> QED
      BY <1>0, <1>10, <2>2, <2>3, <2>5, <2>6 DEF Resave
  <1>11. ASSUME NEW v \in Request, Capture(v)
         PROVE  Requests /\ Identities /\ History
    <2>1. /\ req[v] \in Req /\ req[v].report \in Report /\ req[v].account \in Account
      BY <1>0, <1>11 DEF Capture, Typed, Deferred
    <2>2. PICK i \in Identity :
              /\ identity' = [identity EXCEPT ![i].account = req[v].account]
              /\ req' = [req EXCEPT ![v] = [@ EXCEPT !.pc = "captured", !.account = NoOwner,
                                                     !.identity = i]]
              /\ stranded' = stranded \ {i}
      BY <1>11 DEF Capture
    <2> DEFINE q == [req[v] EXCEPT !.pc = "captured", !.account = NoOwner, !.identity = i]
    <2>3. Typed(q)
      BY <2>1 DEF Typed, Req, Pc, Deferred, Saving
    <2>4. req' = [req EXCEPT ![v] = q]
      BY <1>0, <2>2
    <2>5. Requests
      BY <2>3, <2>4, OneRequest DEF Requests
    <2>6. identity[i] \in Captured
      BY <1>0
    <2>7. [identity[i] EXCEPT !.account = req[v].account] \in Captured
      BY <2>1, <2>6 DEF Captured
    <2>8. Identities
      BY <1>0, <2>2, <2>7
    <2> QED
      BY <1>0, <1>11, <2>1, <2>2, <2>5, <2>8, HistoryType DEF Capture
  <1>12. ASSUME NEW v \in Request, Link(v)
         PROVE  row' \in Table /\ Requests /\ Identities /\ History
    <2>1. req[v].identity \in Identity /\ req[v].report \in Report
      BY <1>0, <1>12 DEF Link, Typed, Deferred
    <2>2. CASE Exists(req[v].report) /\ identity[req[v].identity] # Free
      <3> DEFINE i == req[v].identity
      <3>1. identity[i] \in Captured
        BY <1>0, <2>1
      <3>2. [identity[i] EXCEPT !.linked = TRUE] \in Captured
        BY <3>1 DEF Captured
      <3>3. Identities
        BY <1>0, <1>12, <2>2, <3>2 DEF Link
      <3>4. row' \in Table
        BY <1>0, <1>12, <2>1, <2>2 DEF Link, Table, Exists, Row
      <3> QED
        BY <1>0, <1>2, <1>12, <2>2, <3>3, <3>4 DEF Link
    <2> QED
      BY <1>0, <1>2, <1>12, <2>2 DEF Link
  <1>13. ASSUME NEW v \in Request, NEW r \in Report, SelectOwned(v, r)
         PROVE  Requests
    <2>1. row[r] \in Row /\ req[v] \in Req
      BY <1>0, <1>13 DEF SelectOwned, Exists, Table
    <2> DEFINE q == [req[v] EXCEPT !.pc = "deleting", !.account = row[r].owner,
                                   !.report = r, !.identity = row[r].identity]
    <2>2. Typed(q)
      BY <2>1 DEF Typed, Req, Row, Pc, Deleting, Saving, Deferred
    <2>3. req' = [req EXCEPT ![v] = q]
      BY <1>13 DEF SelectOwned
    <2> QED
      BY <2>2, <2>3, OneRequest DEF Requests
  <1>14. ASSUME NEW v \in Request, DeleteRow(v)
         PROVE  row' \in Table /\ Requests /\ History
    <2> DEFINE i == req[v].identity
               q == IF i = NoIdentity THEN IdleReq
                    ELSE [IdleReq EXCEPT !.pc = "cleaning", !.identity = i]
    <2>1. i \in Identity \cup {NoIdentity} /\ req[v].report \in Report
      BY <1>0, <1>14 DEF DeleteRow, Typed, Req
    <2>2. Typed(q)
      BY <1>0, <2>1 DEF Typed, IdleReq, Req, Pc, Deleting, Saving, Deferred
    <2>3. req' = [req EXCEPT ![v] = q]
      BY <1>14 DEF DeleteRow
    <2> HIDE DEF q
    <2>4. Requests
      BY <2>2, <2>3, OneRequest DEF Requests
    <2> QED
      BY <1>0, <1>14, <2>1, <2>4, WithoutFacts DEF DeleteRow
  <1>15. ASSUME NEW v \in Request, DeleteDocument(v)
         PROVE  row' \in Table /\ Requests /\ Identities
    BY <1>0, <1>2, <1>3, <1>15 DEF DeleteDocument, Table, Exists, Row
  <1>16. ASSUME NEW a \in Account, ClaimAnonymous(a)
         PROVE  row' \in Table /\ History
    <2>1. row' \in Table
      BY <1>0, <1>16 DEF ClaimAnonymous, Anonymous, Table, Exists, Row
    <2> QED
      BY <1>0, <1>16, <2>1, HistoryType DEF ClaimAnonymous
  <1>17. ASSUME NEW a \in Account, DeleteReports(a)
         PROVE  row' \in Table /\ Accounts /\ History
    BY <1>0, <1>17 DEF DeleteReports, Table, AccountStates
  <1>18. ASSUME NEW a \in Account, DeleteIdentities(a)
         PROVE  row' \in Table /\ Accounts /\ Identities
    <2>1. row' \in Table
      BY <1>0, <1>18 DEF DeleteIdentities, Table, Exists, Row
    <2> QED
      BY <1>0, <1>18, <2>1 DEF DeleteIdentities, AccountStates
  <1>19. ASSUME NEW a \in Account, DeleteUser(a)
         PROVE  row' \in Table /\ Accounts
    BY <1>0, <1>19 DEF DeleteUser, Table, Exists, Row, AccountStates
  <1>20. ASSUME NEW a \in Account, DeletionStops(a) PROVE Accounts
    BY <1>0, <1>20 DEF DeletionStops, AccountStates
  <1>21. ASSUME NEW r \in Report, CycleEnds(r) PROVE History
    BY <1>0, <1>21 DEF CycleEnds, history
  <1>22. CASE UNCHANGED vars
    BY <1>0, <1>5, <1>22 DEF vars
  <1>23. CASE \E v \in Request : \/ \E a \in Account, r \in Report : ReadReport(v, a, r)
                                 \/ ClaimFails(v) \/ DeferredEnds(v)
                                 \/ \E r \in Report : SelectOwned(v, r)
    BY <1>0, <1>6, <1>7, <1>13, <1>23
       DEF ReadReport, ClaimFails, DeferredEnds, SelectOwned, db, history
  <1>24. CASE \E v \in Request : ClaimVacant(v) \/ ClaimExpired(v) \/ Resave(v) \/ Capture(v)
    BY <1>0, <1>8, <1>9, <1>10, <1>11, <1>24 DEF ClaimVacant, ClaimExpired, Resave, Capture
  <1>25. CASE \E v \in Request : Link(v) \/ DeleteRow(v) \/ DeleteDocument(v)
    BY <1>0, <1>12, <1>14, <1>15, <1>25 DEF Link, DeleteRow, DeleteDocument, history
  <1>26. CASE \E a \in Account : ClaimAnonymous(a) \/ DeleteReports(a) \/ DeleteIdentities(a)
                                  \/ DeleteUser(a) \/ DeletionStops(a)
    BY <1>0, <1>5, <1>16, <1>17, <1>18, <1>19, <1>20, <1>26
       DEF ClaimAnonymous, DeleteReports, DeleteIdentities, DeleteUser, DeletionStops, history
  <1>27. CASE \E r \in Report : CycleEnds(r)
    BY <1>0, <1>5, <1>21, <1>27 DEF CycleEnds, history
  <1> HIDE DEF Accounts, Identities, History
  <1>28. CASE Next
    BY <1>23, <1>24, <1>25, <1>26, <1>27, <1>28 DEF Next
  <1> QED
    BY <1>22, <1>28
-----------------------------------------------------------------------------
\* Most steps leave every row in its place, with its owner and its room.
InPlace ==
    \A r \in Report :
        /\ row'[r] = NoRow <=> row[r] = NoRow
        /\ Exists(r) => /\ row'[r].owner = row[r].owner
                        /\ row'[r].room = row[r].room

Unmoving ==
    \/ \E v \in Request :
           \/ \E a \in Account, r \in Report : ReadReport(v, a, r)
           \/ ClaimFails(v) \/ Capture(v) \/ Link(v) \/ DeferredEnds(v) \/ DeleteDocument(v)
           \/ \E r \in Report : SelectOwned(v, r)
    \/ \E a \in Account : DeleteIdentities(a) \/ DeletionStops(a)
    \/ \E r \in Report : CycleEnds(r)
    \/ UNCHANGED vars

LEMMA InPlaceSteps == ASSUME TypeOK, Unmoving PROVE InPlace
  <1>0. row \in Table /\ \A x \in Row : x # NoRow
    BY NoRowNotARow DEF TypeOK, Table
  <1>1. CASE row' = row
    BY <1>1 DEF InPlace
  <1>2. ASSUME NEW v \in Request, Link(v) PROVE InPlace
    <2>1. req[v].identity \in Identity \cup {NoIdentity}
      BY DEF TypeOK, Req
    <2>2. CASE Exists(req[v].report) /\ row' = [row EXCEPT ![req[v].report].identity = req[v].identity]
      <3>1. \A r \in Report : row[r] # NoRow =>
                /\ [row[r] EXCEPT !.identity = req[v].identity] \in Row
                /\ [row[r] EXCEPT !.identity = req[v].identity].owner = row[r].owner
                /\ [row[r] EXCEPT !.identity = req[v].identity].room = row[r].room
        BY <1>0, <2>1 DEF Table, Row
      <3> QED
        BY <1>0, <2>2, <3>1 DEF InPlace, Exists, Table
    <2> QED
      BY <1>1, <1>2, <2>2 DEF Link
  <1>3. ASSUME NEW v \in Request, DeleteDocument(v) PROVE InPlace
    BY <1>0, <1>3 DEF DeleteDocument, InPlace, Exists, Table, Row
  <1>4. ASSUME NEW a \in Account, DeleteIdentities(a) PROVE InPlace
    BY <1>0, <1>4 DEF DeleteIdentities, InPlace, Exists, Table, Row
  <1>5. ASSUME \/ \E v \in Request :
                      \/ \E a \in Account, r \in Report : ReadReport(v, a, r)
                      \/ ClaimFails(v) \/ Capture(v) \/ DeferredEnds(v)
                      \/ \E r \in Report : SelectOwned(v, r)
               \/ \E a \in Account : DeletionStops(a)
               \/ \E r \in Report : CycleEnds(r)
               \/ UNCHANGED vars
        PROVE  InPlace
    BY <1>1, <1>5 DEF ReadReport, ClaimFails, Capture, DeferredEnds, SelectOwned, DeletionStops,
       CycleEnds, vars, db
  <1> QED
    BY <1>2, <1>3, <1>4, <1>5 DEF Unmoving

\* What the two claims of a room, a resave and a login do to the table.
LEMMA ClaimVacantFacts ==
    ASSUME TypeOK, NEW v \in Request, ClaimVacant(v)
    PROVE  LET r == req[v].report
               a == req[v].account
           IN  /\ r \in Report /\ a \in Account /\ RoomOf[r] \in Room
               /\ Occupants(a, RoomOf[r]) = {}
               /\ \A s \in Report : s # r => row'[s] = row[s]
               /\ row'[r] # NoRow /\ row'[r].owner = a
               /\ ~Exists(r) => row'[r].room = RoomOf[r] /\ row'[r].identity = NoIdentity
               /\ Exists(r) => row'[r].room = row[r].room /\ row'[r].identity = row[r].identity
  <1>1. /\ req[v].report \in Report /\ req[v].account \in Account
        /\ RoomOf[req[v].report] \in Room /\ row \in Table
    BY ReportRoomsAssumption DEF TypeOK, ClaimVacant, Saving, Table
  <1> QED
    BY <1>1, SavedFacts DEF ClaimVacant, Vacant, Exists

LEMMA ClaimExpiredFacts ==
    ASSUME TypeOK, NEW v \in Request, ClaimExpired(v)
    PROVE  LET r == req[v].report
               a == req[v].account
           IN  /\ r \in Report /\ a \in Account /\ RoomOf[r] \in Room
               /\ row'[r] # NoRow /\ row'[r].owner = a
               /\ \E o \in Occupants(a, RoomOf[r]) :
                      /\ o \in over
                      /\ o # r => row'[o] = NoRow
                      /\ \A s \in Report : s # r /\ s # o => row'[s] = row[s]
                      /\ ~Exists(r) \/ o = r =>
                             row'[r].room = RoomOf[r] /\ row'[r].identity = NoIdentity
                      /\ Exists(r) /\ o # r =>
                             row'[r].room = row[r].room /\ row'[r].identity = row[r].identity
                      /\ identity' = WithoutIdentity(row[o].identity)
  <1> DEFINE r == req[v].report
             a == req[v].account
  <1>1. r \in Report /\ a \in Account /\ RoomOf[r] \in Room /\ row \in Table
    BY ReportRoomsAssumption DEF TypeOK, ClaimExpired, Saving, Table
  <1>2. PICK o \in Report : /\ Newest(o, a, RoomOf[r]) /\ CycleOver(o)
                            /\ row' = Saved(WithoutRow(o), v, RoomOf[r])
                            /\ identity' = WithoutIdentity(row[o].identity)
    BY DEF ClaimExpired, Cleaned
  <1>3. o \in Occupants(a, RoomOf[r]) /\ o \in over
    BY <1>2 DEF Newest, CycleOver
  <1>4. /\ WithoutRow(o) \in Table /\ WithoutRow(o)[o] = NoRow
        /\ \A s \in Report : s # o => WithoutRow(o)[s] = row[s]
    BY WithoutFacts
  <1>5. /\ \A s \in Report : s # r => row'[s] = WithoutRow(o)[s]
        /\ row'[r] # NoRow /\ row'[r].owner = a
        /\ WithoutRow(o)[r] = NoRow => row'[r].room = RoomOf[r] /\ row'[r].identity = NoIdentity
        /\ WithoutRow(o)[r] # NoRow => /\ row'[r].room = WithoutRow(o)[r].room
                                       /\ row'[r].identity = WithoutRow(o)[r].identity
    BY <1>1, <1>2, <1>4, SavedFacts
  <1> HIDE DEF r, a
  <1>6. /\ row'[r] # NoRow /\ row'[r].owner = a
        /\ o # r => row'[o] = NoRow
        /\ \A s \in Report : s # r /\ s # o => row'[s] = row[s]
        /\ ~Exists(r) \/ o = r => row'[r].room = RoomOf[r] /\ row'[r].identity = NoIdentity
        /\ Exists(r) /\ o # r =>
               row'[r].room = row[r].room /\ row'[r].identity = row[r].identity
    BY <1>1, <1>4, <1>5 DEF Exists
  <1> QED
    BY <1>1, <1>2, <1>3, <1>6 DEF r, a

LEMMA ResaveFacts ==
    ASSUME TypeOK, NEW v \in Request, Resave(v)
    PROVE  LET r == req[v].report
               a == req[v].account
           IN  /\ r \in Report /\ a \in Account
               /\ \A s \in Report : s # r => row'[s] = row[s]
               /\ \/ row'[r] = row[r]
                  \/ /\ row'[r] # NoRow /\ row'[r].owner = a
                     /\ account[a] # "gone" /\ Wrote(a)
                     /\ ~Exists(r) => row'[r].room = NoRoom
                     /\ Exists(r) => /\ row'[r].room = row[r].room
                                     /\ row'[r].identity = row[r].identity
                                     /\ Crowded(a, {r}) \subseteq doubled'
  <1>1. req[v].report \in Report /\ req[v].account \in Account /\ row \in Table
    BY DEF TypeOK, Resave, Saving, Table
  <1>2. NoRoom \in Room \cup {NoRoom}
    OBVIOUS
  <1> DEFINE r == req[v].report
             a == req[v].account
             new == Saved(row, v, NoRoom)
  <1>3. /\ \A s \in Report : s # r => new[s] = row[s]
        /\ new[r] # NoRow /\ new[r].owner = a
        /\ row[r] = NoRow => new[r].room = NoRoom
        /\ row[r] # NoRow => new[r].room = row[r].room /\ new[r].identity = row[r].identity
    BY <1>1, <1>2, SavedFacts
  <1> HIDE DEF r, a, new
  <1>4. CASE row' = row
    BY <1>1, <1>4 DEF r, a
  <1>5. CASE row' # row
    <2>1. /\ row' = new /\ account[a] # "gone" /\ Wrote(a)
          /\ doubled' = doubled \cup Crowded(a, {r} \cap {s \in Report : Exists(s)})
      BY <1>5 DEF Resave, r, a, new
    <2>2. Exists(r) => {r} \cap {s \in Report : Exists(s)} = {r}
      BY <1>1 DEF r
    <2> QED
      BY <1>1, <1>3, <2>1, <2>2 DEF r, a, Exists
  <1> QED
    BY <1>4, <1>5

LEMMA ClaimAnonymousFacts ==
    ASSUME TypeOK, NEW a \in Account, ClaimAnonymous(a)
    PROVE  \A r \in Report :
               /\ row'[r] = NoRow <=> row[r] = NoRow
               /\ r \in Anonymous => /\ row'[r].owner = a /\ row'[r].room = row[r].room
                                     /\ row'[r].identity = row[r].identity
               /\ r \notin Anonymous => row'[r] = row[r]
  <1>1. row \in Table /\ \A x \in Row : x # NoRow
    BY NoRowNotARow DEF TypeOK, Table
  <1>2. ASSUME NEW r \in Report, r \in Anonymous
        PROVE  /\ row[r] \in Row /\ row'[r] \in Row
               /\ row'[r].owner = a /\ row'[r].room = row[r].room
               /\ row'[r].identity = row[r].identity
    <2>1. row[r] \in Row
      BY <1>1, <1>2 DEF Anonymous, Exists, Table
    <2>2. row'[r] = [row[r] EXCEPT !.owner = a]
      BY <1>2 DEF ClaimAnonymous
    <2> QED
      BY <2>1, <2>2 DEF Row
  <1>3. ASSUME NEW r \in Report, r \notin Anonymous PROVE row'[r] = row[r]
    BY <1>3 DEF ClaimAnonymous
  <1> QED
    BY <1>1, <1>2, <1>3

\* The owner of what is left of a deleted account is cleared.
LEMMA DeleteUserFacts ==
    ASSUME TypeOK, NEW a \in Account, DeleteUser(a)
    PROVE  \A r \in Report :
               /\ row'[r] = NoRow <=> row[r] = NoRow
               /\ Exists(r) => /\ row'[r].room = row[r].room /\ row'[r].identity = row[r].identity
                               /\ row[r].owner = a => row'[r].owner = NoOwner
                               /\ row[r].owner # a => row'[r].owner = row[r].owner
  <1>1. row \in Table /\ \A x \in Row : x # NoRow
    BY NoRowNotARow DEF TypeOK, Table
  <1>2. ASSUME NEW r \in Report, Exists(r), row[r].owner = a
        PROVE  /\ row[r] # NoRow /\ row'[r] # NoRow /\ row'[r].owner = NoOwner
               /\ row'[r].room = row[r].room /\ row'[r].identity = row[r].identity
    <2>1. row[r] \in Row
      BY <1>1, <1>2 DEF Exists, Table
    <2>2. row'[r] = [row[r] EXCEPT !.owner = NoOwner]
      BY <1>2 DEF DeleteUser
    <2>3. [row[r] EXCEPT !.owner = NoOwner] \in Row
      BY <2>1 DEF Row
    <2> QED
      BY <1>1, <2>1, <2>2, <2>3 DEF Row
  <1>3. ASSUME NEW r \in Report, ~(Exists(r) /\ row[r].owner = a) PROVE row'[r] = row[r]
    BY <1>3 DEF DeleteUser
  <1> QED
    BY <1>2, <1>3 DEF Exists

\* Spec's type invariant (saved_reports, document_identities, the requests of
\* POST /api/reports and DELETE /api/reports/[id]).
THEOREM TypeCorrect == Spec => []TypeOK
  BY InitType, TypeStep, PTL DEF Spec

\* No room claim removes an active report: only DELETE by its owner and the
\* deletion of its owner's account do (insertReportWithRoomCheck).
THEOREM ActiveReportNeverDisplaced == Spec => ActiveReportKept
  <1> DEFINE Kept == \A r \in Report : Exists(r) /\ r \notin over /\ row'[r] = NoRow =>
                 \/ \E v \in About(r) : req[v].pc = "deleting" /\ req[v].account = row[r].owner
                 \/ row[r].owner # NoOwner /\ account'[row[r].owner] = "reports"
  <1>1. TypeOK /\ [Next]_vars => Kept
    <2> SUFFICES ASSUME TypeOK, [Next]_vars, NEW r \in Report,
                        Exists(r), r \notin over, row'[r] = NoRow
                 PROVE  \/ \E v \in About(r) : req[v].pc = "deleting" /\ req[v].account = row[r].owner
                        \/ row[r].owner # NoOwner /\ account'[row[r].owner] = "reports"
      OBVIOUS
    <2>1. CASE Unmoving
      BY <2>1, InPlaceSteps DEF InPlace, Exists
    <2>2. ASSUME NEW v \in Request, ClaimVacant(v) PROVE FALSE
      BY <2>2, ClaimVacantFacts DEF Exists
    <2>3. ASSUME NEW v \in Request, ClaimExpired(v) PROVE FALSE
      BY <2>3, ClaimExpiredFacts DEF Exists
    <2>4. ASSUME NEW v \in Request, Resave(v) PROVE FALSE
      BY <2>4, ResaveFacts DEF Exists
    <2>5. ASSUME NEW v \in Request, DeleteRow(v)
          PROVE  v \in About(r) /\ req[v].pc = "deleting" /\ req[v].account = row[r].owner
      BY <2>5 DEF DeleteRow, WithoutRow, Exists, About, TypeOK
    <2>6. ASSUME NEW a \in Account, ClaimAnonymous(a) PROVE FALSE
      BY <2>6, ClaimAnonymousFacts DEF Exists
    <2>7. ASSUME NEW a \in Account, DeleteReports(a)
          PROVE  row[r].owner # NoOwner /\ account'[row[r].owner] = "reports"
      BY <2>7, ReportRoomsAssumption DEF DeleteReports, TypeOK, Exists
    <2>8. ASSUME NEW a \in Account, DeleteUser(a) PROVE FALSE
      BY <2>8, DeleteUserFacts DEF Exists
    <2> QED
      BY <2>1, <2>2, <2>3, <2>4, <2>5, <2>6, <2>7, <2>8 DEF Next, Unmoving
  <1> QED
    BY <1>1, TypeCorrect, PTL DEF Spec, ActiveReportKept

-----------------------------------------------------------------------------
\* A step after which an account's occupants of a room are no more than before,
\* or no more than one, keeps one report in each room.
LEMMA RoomsByOccupants ==
    ASSUME OneReportPerRoom, doubled \subseteq doubled',
           \A a \in Account, k \in Room : <<a, k>> \notin doubled' =>
               \A r, s \in Report :
                   r \in Occupants(a, k)' /\ s \in Occupants(a, k)' /\ r # s =>
                       r \in Occupants(a, k) /\ s \in Occupants(a, k)
    PROVE  OneReportPerRoom'
  <1>1. \A a \in Account, k \in Room : Occupants(a, k)' \subseteq Report
    BY DEF Occupants
  <1>2. ASSUME NEW a \in Account, NEW k \in Room, <<a, k>> \notin doubled',
               NEW r \in Occupants(a, k)', NEW s \in Occupants(a, k)'
        PROVE  r = s
    <2>1. r \in Report /\ s \in Report /\ <<a, k>> \notin doubled
      BY <1>1, <1>2
    <2> QED
      BY <1>2, <2>1 DEF OneReportPerRoom
  <1> QED
    BY <1>2 DEF OneReportPerRoom

LEMMA OccupantsMember ==
    \A a \in Account, k \in Room, r \in Report :
        /\ r \in Occupants(a, k) <=> row[r] # NoRow /\ row[r].owner = a /\ row[r].room = k
        /\ r \in Occupants(a, k)' <=> row'[r] # NoRow /\ row'[r].owner = a /\ row'[r].room = k
  BY DEF Occupants, Exists

LEMMA CrowdedMember ==
    ASSUME NEW a \in Account, NEW k \in Room, NEW moved, NEW r \in moved,
           NEW s \in moved \cup Occupants(a, k),
           r # s, Exists(s), row[r].room = k, row[s].room = k
    PROVE  <<a, k>> \in Crowded(a, moved)
  BY DEF Crowded

LEMMA RoomsStep == RoomsInv /\ [Next]_vars => RoomsInv'
  <1> SUFFICES ASSUME RoomsInv, [Next]_vars PROVE RoomsInv'
    OBVIOUS
  <1> USE DEF RoomsInv
  <1>0. TypeOK'
    BY TypeStep
  <1>1. CASE Unmoving
    <2>1. InPlace
      BY <1>1, InPlaceSteps
    <2>2. doubled' = doubled
      BY <1>1 DEF Unmoving, ReadReport, ClaimFails, Capture, Link, DeferredEnds, DeleteDocument,
         SelectOwned, DeleteIdentities, DeletionStops, CycleEnds, vars, history
    <2>3. RoomsOfCheck'
      BY <2>1 DEF RoomsOfCheck, InPlace, Exists
    <2>4. OneReportPerRoom'
      BY <2>1, <2>2, OccupantsMember, RoomsByOccupants DEF InPlace, Exists
    <2> QED
      BY <1>0, <2>3, <2>4
  <1>2. ASSUME NEW v \in Request, ClaimVacant(v) PROVE RoomsInv'
    <2> DEFINE r == req[v].report
               a == req[v].account
    <2>1. /\ r \in Report /\ a \in Account /\ RoomOf[r] \in Room
          /\ Occupants(a, RoomOf[r]) = {}
          /\ \A s \in Report : s # r => row'[s] = row[s]
          /\ row'[r] # NoRow /\ row'[r].owner = a
          /\ ~Exists(r) => row'[r].room = RoomOf[r]
          /\ Exists(r) => row'[r].room = row[r].room
      BY <1>2, ClaimVacantFacts
    <2>2. doubled' = doubled
      BY <1>2 DEF ClaimVacant
    <2> HIDE DEF r, a
    <2>3. row'[r].room \in {NoRoom, RoomOf[r]}
      BY <2>1 DEF RoomsOfCheck
    <2>4. RoomsOfCheck'
      BY <2>1, <2>3 DEF RoomsOfCheck, Exists
    <2>5. OneReportPerRoom'
      BY <2>1, <2>2, <2>3, OccupantsMember, RoomsByOccupants, ReportRoomsAssumption
    <2> QED
      BY <1>0, <2>4, <2>5
  <1>3. ASSUME NEW v \in Request, ClaimExpired(v) PROVE RoomsInv'
    <2> DEFINE r == req[v].report
               a == req[v].account
    <2>1. /\ r \in Report /\ a \in Account /\ RoomOf[r] \in Room
          /\ row'[r] # NoRow /\ row'[r].owner = a
      BY <1>3, ClaimExpiredFacts
    <2> Occupants(a, RoomOf[r]) \subseteq Report
      BY DEF Occupants
    <2>2. PICK o \in Report :
              /\ o \in Occupants(a, RoomOf[r])
              /\ o # r => row'[o] = NoRow
              /\ \A s \in Report : s # r /\ s # o => row'[s] = row[s]
              /\ ~Exists(r) \/ o = r => row'[r].room = RoomOf[r]
              /\ Exists(r) /\ o # r => row'[r].room = row[r].room
      BY <1>3, ClaimExpiredFacts
    <2>3. doubled' = doubled
      BY <1>3 DEF ClaimExpired
    <2> HIDE DEF r, a
    <2>4. row'[r].room \in {NoRoom, RoomOf[r]}
      BY <2>1, <2>2 DEF RoomsOfCheck
    <2>5. RoomsOfCheck'
      BY <2>1, <2>2, <2>4 DEF RoomsOfCheck, Exists
    <2>6. <<a, RoomOf[r]>> \notin doubled =>
              \A s \in Report : s \in Occupants(a, RoomOf[r]) => s = o
      BY <2>1, <2>2 DEF OneReportPerRoom
    <2>7. OneReportPerRoom'
      BY <2>1, <2>2, <2>3, <2>4, <2>6, OccupantsMember, RoomsByOccupants, ReportRoomsAssumption
    <2> QED
      BY <1>0, <2>5, <2>7
  <1>4. ASSUME NEW v \in Request, Resave(v) PROVE RoomsInv'
    <2> DEFINE r == req[v].report
               a == req[v].account
    <2>1. /\ r \in Report /\ a \in Account
          /\ \A s \in Report : s # r => row'[s] = row[s]
          /\ \/ row'[r] = row[r]
             \/ /\ row'[r] # NoRow /\ row'[r].owner = a
                /\ ~Exists(r) => row'[r].room = NoRoom
                /\ Exists(r) => row'[r].room = row[r].room /\ Crowded(a, {r}) \subseteq doubled'
      BY <1>4, ResaveFacts
    <2>2. doubled \subseteq doubled'
      BY <1>4 DEF Resave
    <2> HIDE DEF r, a
    <2>3. RoomsOfCheck'
      BY <2>1 DEF RoomsOfCheck, Exists
    <2>4. ASSUME NEW b \in Account, NEW k \in Room, <<b, k>> \notin doubled',
                 NEW s \in Report, s \in Occupants(b, k)', s # r, r \in Occupants(b, k)'
          PROVE  r \in Occupants(b, k)
      <3>1. s \in Occupants(b, k) /\ row[s] # NoRow /\ row[s].room = k
        BY <2>1, <2>4, OccupantsMember
      <3>2. CASE row'[r] # row[r]
        <4>1. b = a /\ row'[r].room = k
          BY <2>1, <2>4, <3>2, OccupantsMember
        <4>2. Exists(r) /\ row[r].room = k /\ Crowded(a, {r}) \subseteq doubled'
          BY <2>1, <3>2, <4>1, ReportRoomsAssumption
        <4>3. <<a, k>> \in Crowded(a, {r})
          BY <2>1, <2>4, <3>1, <4>1, <4>2, CrowdedMember DEF Exists
        <4> QED
          BY <2>4, <4>1, <4>2, <4>3
      <3> QED
        BY <2>1, <2>4, <3>2, OccupantsMember
    <2>5. OneReportPerRoom'
      BY <2>1, <2>2, <2>4, OccupantsMember, RoomsByOccupants
    <2> QED
      BY <1>0, <2>3, <2>5
  <1>5. ASSUME NEW v \in Request, DeleteRow(v) PROVE RoomsInv'
    <2>1. \A s \in Report : row'[s] = row[s] \/ row'[s] = NoRow
      BY <1>5 DEF DeleteRow, WithoutRow, TypeOK
    <2>2. doubled' = doubled
      BY <1>5 DEF DeleteRow
    <2> QED
      BY <1>0, <2>1, <2>2, OccupantsMember, RoomsByOccupants DEF RoomsOfCheck, Exists
  <1>6. ASSUME NEW a \in Account, ClaimAnonymous(a) PROVE RoomsInv'
    <2>1. \A r \in Report :
               /\ row'[r] = NoRow <=> row[r] = NoRow
               /\ r \in Anonymous => row'[r].owner = a /\ row'[r].room = row[r].room
               /\ r \notin Anonymous => row'[r] = row[r]
      BY <1>6, ClaimAnonymousFacts
    <2>2. doubled \subseteq doubled' /\ Crowded(a, Anonymous) \subseteq doubled'
      BY <1>6 DEF ClaimAnonymous
    <2>3. RoomsOfCheck'
      BY <2>1 DEF RoomsOfCheck, Exists
    <2>4. ASSUME NEW b \in Account, NEW k \in Room, <<b, k>> \notin doubled',
                 NEW r \in Report, NEW s \in Report,
                 r \in Occupants(b, k)', s \in Occupants(b, k)', r # s
          PROVE  r \in Occupants(b, k)
      <3>1. CASE r \in Anonymous
        <4>1. b = a /\ row[r].room = k /\ row[s].room = k /\ Exists(s)
          BY <2>1, <2>4, <3>1, OccupantsMember DEF Exists
        <4>2. s \in Anonymous \cup Occupants(a, k)
          BY <2>1, <2>4, <4>1, OccupantsMember
        <4>3. <<a, k>> \in Crowded(a, Anonymous)
          BY <2>4, <3>1, <4>1, <4>2, CrowdedMember
        <4> QED
          BY <2>2, <2>4, <4>1, <4>3
      <3> QED
        BY <2>1, <2>4, <3>1, OccupantsMember
    <2>5. OneReportPerRoom'
      BY <2>2, <2>4, RoomsByOccupants
    <2> QED
      BY <1>0, <2>3, <2>5
  <1>7. ASSUME NEW a \in Account, DeleteReports(a) PROVE RoomsInv'
    <2>1. \A s \in Report : row'[s] = row[s] \/ row'[s] = NoRow
      BY <1>7 DEF DeleteReports
    <2>2. doubled' = doubled
      BY <1>7 DEF DeleteReports
    <2> QED
      BY <1>0, <2>1, <2>2, OccupantsMember, RoomsByOccupants DEF RoomsOfCheck, Exists
  <1>8. ASSUME NEW a \in Account, DeleteUser(a) PROVE RoomsInv'
    <2>1. \A r \in Report :
               /\ row'[r] = NoRow <=> row[r] = NoRow
               /\ Exists(r) => /\ row'[r].room = row[r].room
                               /\ row'[r].owner = NoOwner \/ row'[r].owner = row[r].owner
      BY <1>8, DeleteUserFacts
    <2>2. doubled' = doubled
      BY <1>8 DEF DeleteUser, history
    <2>3. OneReportPerRoom'
      BY <2>1, <2>2, OccupantsMember, RoomsByOccupants, ReportRoomsAssumption DEF Exists
    <2> QED
      BY <1>0, <2>1, <2>3 DEF RoomsOfCheck, Exists
  <1> QED
    BY <1>1, <1>2, <1>3, <1>4, <1>5, <1>6, <1>7, <1>8 DEF Next, Unmoving

\* A room holds one report, whatever first saves, resaves, logins and deletions
\* run together, unless a resave or a login has put a second one there.
THEOREM RoomsHoldOneReport == Spec => []OneReportPerRoom
  <1>1. Init => RoomsInv
    <2> SUFFICES ASSUME Init PROVE RoomsInv
      OBVIOUS
    <2>1. \A r \in Report : Exists(r) => row[r].room = NoRoom
      BY DEF Init, Exists
    <2>2. \A a \in Account, k \in Room : Occupants(a, k) = {}
      BY <2>1, ReportRoomsAssumption DEF Occupants
    <2> QED
      BY <2>1, <2>2, InitType DEF RoomsInv, RoomsOfCheck, OneReportPerRoom
  <1>2. RoomsInv => OneReportPerRoom
    BY DEF RoomsInv
  <1> QED
    BY <1>1, <1>2, RoomsStep, PTL DEF Spec

-----------------------------------------------------------------------------
LEMMA OneSeen ==
    ASSUME OwnersInv, NEW v \in Request, NEW q, OwnSeen(q), req' = [req EXCEPT ![v] = q]
    PROVE  SeenOwn'
  BY DEF OwnersInv, TypeOK, SeenOwn, OwnSeen

LEMMA OwnersStep == OwnersInv /\ [Next]_vars => OwnersInv'
  <1> SUFFICES ASSUME OwnersInv, [Next]_vars PROVE SeenOwn'
    BY TypeStep DEF OwnersInv
  <1>0. /\ req \in [Request -> Req] /\ IdleReq.seen = NoOwner
        /\ \A v \in Request : req[v].pc # "resave" => req[v].seen = NoOwner
    BY DEF OwnersInv, TypeOK, SeenOwn, OwnSeen, IdleReq
  <1>1. ASSUME req' = req PROVE SeenOwn'
    BY <1>1 DEF OwnersInv, SeenOwn, OwnSeen
  <1>3. ASSUME NEW v \in Request, Done(v) PROVE SeenOwn'
    BY <1>0, <1>3, OneSeen DEF Done, OwnSeen
  <1>4. ASSUME NEW v \in Request, Goto(v, "deferred"), req[v].pc = "first" PROVE SeenOwn'
    <2> DEFINE q == [req[v] EXCEPT !.pc = "deferred"]
    <2>1. req[v] \in Req /\ req[v].seen = NoOwner
      BY <1>0, <1>4
    <2>2. OwnSeen(q)
      BY <2>1 DEF Req, OwnSeen
    <2>3. req' = [req EXCEPT ![v] = q]
      BY <1>4 DEF Goto
    <2> QED
      BY OneSeen, <2>2, <2>3
  <1>5. ASSUME NEW v \in Request, NEW a \in Account, NEW r \in Report, ReadReport(v, a, r)
        PROVE  SeenOwn'
    <2> DEFINE p == [req[v] EXCEPT !.pc = "first", !.account = a, !.report = r]
               q == [req[v] EXCEPT !.pc = "resave", !.account = a, !.report = r,
                                   !.seen = row[r].owner]
    <2>1. req[v] \in Req /\ req[v].seen = NoOwner
      BY <1>0, <1>5 DEF ReadReport
    <2>2. CASE req' = [req EXCEPT ![v] = p]
      <3>1. OwnSeen(p)
        BY <2>1 DEF Req, OwnSeen
      <3> QED
        BY OneSeen, <2>2, <3>1
    <2>3. CASE MayWrite(a, r) /\ req' = [req EXCEPT ![v] = q]
      <3>1. q.pc = "resave" /\ q.seen = row[r].owner /\ q.account = a
        BY <2>1 DEF Req
      <3>2. OwnSeen(q)
        BY <2>3, <3>1 DEF MayWrite, OwnSeen
      <3> HIDE DEF q
      <3> QED
        BY <2>3, <3>2, OneSeen
    <2> QED
      BY <1>5, <2>2, <2>3 DEF ReadReport
  <1>6. ASSUME NEW v \in Request, Capture(v) PROVE SeenOwn'
    <2>1. req[v] \in Req /\ req[v].seen = NoOwner
      BY <1>0, <1>6 DEF Capture
    <2>2. PICK i \in Identity :
              req' = [req EXCEPT ![v] = [@ EXCEPT !.pc = "captured", !.account = NoOwner,
                                                  !.identity = i]]
      BY <1>6 DEF Capture
    <2> DEFINE q == [req[v] EXCEPT !.pc = "captured", !.account = NoOwner, !.identity = i]
    <2>3. OwnSeen(q)
      BY <2>1 DEF Req, OwnSeen
    <2>4. req' = [req EXCEPT ![v] = q]
      BY <1>0, <2>2
    <2> QED
      BY OneSeen, <2>3, <2>4
  <1>7. ASSUME NEW v \in Request, NEW r \in Report, SelectOwned(v, r) PROVE SeenOwn'
    <2> DEFINE q == [req[v] EXCEPT !.pc = "deleting", !.account = row[r].owner,
                                   !.report = r, !.identity = row[r].identity]
    <2>1. req[v] \in Req /\ req[v].seen = NoOwner
      BY <1>0, <1>7 DEF SelectOwned
    <2>2. OwnSeen(q)
      BY <2>1 DEF Req, OwnSeen
    <2>3. req' = [req EXCEPT ![v] = q]
      BY <1>7 DEF SelectOwned
    <2> QED
      BY OneSeen, <2>2, <2>3
  <1>8. ASSUME NEW v \in Request, DeleteRow(v) PROVE SeenOwn'
    <2> DEFINE i == req[v].identity
               q == IF i = NoIdentity THEN IdleReq
                    ELSE [IdleReq EXCEPT !.pc = "cleaning", !.identity = i]
    <2>1. OwnSeen(q)
      BY DEF IdleReq, OwnSeen
    <2>2. req' = [req EXCEPT ![v] = q]
      BY <1>8 DEF DeleteRow
    <2> QED
      BY OneSeen, <2>1, <2>2
  <1>9. ASSUME NEW v \in Request,
               \/ ClaimFails(v) \/ Resave(v) \/ Link(v) \/ DeferredEnds(v) \/ DeleteDocument(v)
               \/ ClaimVacant(v) \/ ClaimExpired(v)
        PROVE  SeenOwn'
    BY <1>3, <1>4, <1>9 DEF ClaimFails, Resave, Link, DeferredEnds, DeleteDocument, ClaimVacant,
       ClaimExpired
  <1>10. CASE \/ \E a \in Account : \/ ClaimAnonymous(a) \/ DeleteReports(a)
                                    \/ DeleteIdentities(a) \/ DeleteUser(a) \/ DeletionStops(a)
              \/ \E r \in Report : CycleEnds(r)
              \/ UNCHANGED vars
    BY <1>1, <1>10 DEF ClaimAnonymous, DeleteReports, DeleteIdentities, DeleteUser, DeletionStops,
       CycleEnds, vars
  <1> QED
    BY <1>5, <1>6, <1>7, <1>8, <1>9, <1>10 DEF Next

\* The ownership check of POST /api/reports: an account loses a report it has
\* only to a save that read the row before it was the account's, or with its
\* own users row.
THEOREM OwnerNeverTaken == Spec => OwnerKept
  <1> DEFINE Kept == \A r \in Report : Exists(r) /\ row'[r] # NoRow /\ row[r].owner # NoOwner =>
                 \/ row'[r].owner = row[r].owner
                 \/ row'[r].owner = NoOwner /\ account'[row[r].owner] = "gone"
                 \/ \E v \in About(r) : /\ req[v].pc \in Saving
                                        /\ req[v].account = row'[r].owner
                                        /\ req[v].seen # row[r].owner
  <1>1. Init => OwnersInv
    BY InitType DEF OwnersInv, Init, SeenOwn, OwnSeen, IdleReq
  <1>2. OwnersInv /\ [Next]_vars => Kept
    <2> SUFFICES ASSUME OwnersInv, [Next]_vars, NEW r \in Report,
                        Exists(r), row'[r] # NoRow, row[r].owner # NoOwner,
                        row'[r].owner # row[r].owner
                 PROVE  \/ row'[r].owner = NoOwner /\ account'[row[r].owner] = "gone"
                        \/ \E v \in About(r) : /\ req[v].pc \in Saving
                                               /\ req[v].account = row'[r].owner
                                               /\ req[v].seen # row[r].owner
      OBVIOUS
    <2>0. TypeOK /\ SeenOwn
      BY DEF OwnersInv
    <2>1. CASE Unmoving
      BY <2>0, <2>1, InPlaceSteps DEF InPlace
    <2>2. ASSUME NEW v \in Request, req[v].pc \in Saving, req[v].report = r,
                 row'[r].owner = req[v].account
          PROVE  v \in About(r) /\ req[v].seen # row[r].owner
      BY <2>0, <2>2 DEF SeenOwn, OwnSeen, About
    <2>3. ASSUME NEW v \in Request, ClaimVacant(v)
          PROVE  req[v].pc \in Saving /\ req[v].report = r /\ row'[r].owner = req[v].account
      BY <2>0, <2>3, ClaimVacantFacts DEF ClaimVacant, Saving
    <2>4. ASSUME NEW v \in Request, ClaimExpired(v)
          PROVE  req[v].pc \in Saving /\ req[v].report = r /\ row'[r].owner = req[v].account
      <3>1. req[v].pc \in Saving
        BY <2>4 DEF ClaimExpired, Saving
      <3> QED
        BY <2>0, <2>4, <3>1, ClaimExpiredFacts
    <2>5. ASSUME NEW v \in Request, Resave(v)
          PROVE  req[v].pc \in Saving /\ req[v].report = r /\ row'[r].owner = req[v].account
      <3>1. req[v].pc \in Saving
        BY <2>5 DEF Resave, Saving
      <3> QED
        BY <2>0, <2>5, <3>1, ResaveFacts
    <2>6. ASSUME NEW v \in Request, DeleteRow(v) PROVE FALSE
      BY <2>0, <2>6 DEF DeleteRow, WithoutRow, TypeOK
    <2>7. ASSUME NEW a \in Account, ClaimAnonymous(a) PROVE FALSE
      BY <2>0, <2>7, ClaimAnonymousFacts DEF Anonymous
    <2>8. ASSUME NEW a \in Account, DeleteReports(a) PROVE FALSE
      BY <2>8 DEF DeleteReports
    <2>9. ASSUME NEW a \in Account, DeleteUser(a)
          PROVE  row'[r].owner = NoOwner /\ account'[row[r].owner] = "gone"
      <3>1. row[r].owner = a
        BY <2>0, <2>9, DeleteUserFacts
      <3> QED
        BY <2>0, <2>9, <3>1, DeleteUserFacts DEF DeleteUser, TypeOK
    <2> QED
      BY <2>1, <2>2, <2>3, <2>4, <2>5, <2>6, <2>7, <2>8, <2>9 DEF Next, Unmoving
  <1> QED
    BY <1>1, <1>2, OwnersStep, PTL DEF Spec, OwnerKept

-----------------------------------------------------------------------------
\* What is written for an account whose deletion runs is recorded.
LEMMA WroteFacts ==
    ASSUME NEW a \in Account, Wrote(a)
    PROVE  /\ late \subseteq late'
           /\ account[a] \in {"reports", "identities"} => a \in late'
           /\ \A b \in late' : b \in late \/ b = a
  BY DEF Wrote

\* A step that gives no account a report it had not, and ends no deletion of an
\* account, keeps the accounts under deletion without any.
LEMMA AccountsByOwner ==
    ASSUME AccountsInv, late \subseteq late', UNCHANGED account,
           \A r \in Report : row'[r] # NoRow =>
               \/ row[r] # NoRow /\ row'[r].owner = row[r].owner
               \/ \E a \in Account :
                      /\ row'[r].owner = a /\ account[a] # "gone"
                      /\ account[a] \in {"reports", "identities"} => a \in late',
           \A i \in Identity, a \in Account :
               identity'[i].account = a =>
                   \/ identity[i].account = a
                   \/ /\ account[a] # "gone"
                      /\ account[a] = "identities" => a \in late'
    PROVE  NothingOwned' /\ NothingOutlivesAccount'
  <1>0. TypeOK /\ NothingOwned /\ NothingOutlivesAccount
    BY DEF AccountsInv
  <1>1. \A a \in Account : account[a] \in {"live", "reports", "identities", "stopped", "gone"}
    BY <1>0 DEF TypeOK
  <1>2. NothingOwned'
    BY <1>0, <1>1 DEF NothingOwned, Exists
  <1>3. \A a \in Account : a \notin late' /\ account[a] \in {"identities", "gone"} =>
            \A i \in Identity : identity'[i].account # a
    BY <1>0 DEF NothingOutlivesAccount
  <1>4. ASSUME NEW r \in Report, row'[r] # NoRow, row'[r].owner = NoOwner, r \notin Legacy
        PROVE  \E a \in late' : account[a] = "gone"
    <2>1. r \in Anonymous \ Legacy
      BY <1>4, ReportRoomsAssumption DEF Anonymous, Exists
    <2> QED
      BY <1>0, <2>1 DEF NothingOutlivesAccount
  <1>5. \A r \in Anonymous' \ Legacy : \E a \in late' : account[a] = "gone"
    BY <1>4 DEF Anonymous, Exists
  <1> QED
    BY <1>2, <1>3, <1>5 DEF NothingOutlivesAccount

LEMMA AccountsStep == AccountsInv /\ [Next]_vars => AccountsInv'
  <1> SUFFICES ASSUME AccountsInv, [Next]_vars PROVE NothingOwned' /\ NothingOutlivesAccount'
    BY TypeStep DEF AccountsInv
  <1>0. /\ TypeOK /\ NothingOwned /\ NothingOutlivesAccount
        /\ NoOwner \notin Account /\ Free.account = NoOwner
    BY ReportRoomsAssumption DEF AccountsInv, Free
  <1>1. ASSUME NEW i PROVE \A j \in Identity, a \in Account :
                               WithoutIdentity(i)[j].account = a => identity[j].account = a
    BY <1>0 DEF WithoutIdentity
  <1>2. CASE Unmoving
    <2>1. \A r \in Report : row'[r] # NoRow => row[r] # NoRow /\ row'[r].owner = row[r].owner
      BY <1>0, <1>2, InPlaceSteps DEF InPlace, Exists
    <2>2. CASE UNCHANGED <<account, identity, late>>
      BY <2>1, <2>2, AccountsByOwner
    <2>3. ASSUME NEW v \in Request, Capture(v) PROVE NothingOwned' /\ NothingOutlivesAccount'
      <3>1. PICK i \in Identity : identity' = [identity EXCEPT ![i].account = req[v].account]
        BY <2>3 DEF Capture
      <3>2. /\ req[v].account \in Account /\ account[req[v].account] # "gone"
            /\ Wrote(req[v].account) /\ account' = account
        BY <1>0, <2>3 DEF Capture, TypeOK
      <3>3. \A j \in Identity : \/ identity'[j].account = identity[j].account
                                \/ identity'[j].account = req[v].account
        BY <1>0, <3>1 DEF TypeOK, Captured
      <3>4. \A j \in Identity, a \in Account :
                identity'[j].account = a =>
                    \/ identity[j].account = a
                    \/ /\ account[a] # "gone"
                       /\ account[a] = "identities" => a \in late'
        BY <3>2, <3>3, WroteFacts
      <3>5. late \subseteq late'
        BY <3>2, WroteFacts
      <3> QED
        BY <2>1, <3>2, <3>4, <3>5, AccountsByOwner
    <2>4. ASSUME NEW v \in Request, Link(v) PROVE NothingOwned' /\ NothingOutlivesAccount'
      <3>1. \A j \in Identity : identity'[j].account = identity[j].account
        BY <1>0, <2>4 DEF Link, TypeOK, Captured
      <3> QED
        BY <2>1, <2>4, <3>1, AccountsByOwner DEF Link
    <2>5. ASSUME NEW v \in Request, DeleteDocument(v)
          PROVE  NothingOwned' /\ NothingOutlivesAccount'
      BY <1>1, <2>1, <2>5, AccountsByOwner DEF DeleteDocument, history
    <2>6. ASSUME NEW a \in Account, DeleteIdentities(a)
          PROVE  NothingOwned' /\ NothingOutlivesAccount'
      <3>1. /\ account[a] = "reports" /\ account' = [account EXCEPT ![a] = "identities"]
            /\ identity' = [i \in Identity |-> IF i \in Attributed(a) THEN Free ELSE identity[i]]
            /\ late' = late
        BY <2>6 DEF DeleteIdentities, history
      <3>2. /\ account'[a] = "identities"
            /\ \A b \in Account : b # a => account'[b] = account[b]
        BY <1>0, <3>1 DEF TypeOK
      <3>3. NothingOwned'
        BY <1>0, <2>1, <3>1, <3>2 DEF NothingOwned, Exists
      <3>4. \A i \in Identity : /\ identity'[i].account # a
                                /\ identity'[i].account \in {NoOwner, identity[i].account}
        BY <1>0, <3>1, <2>6 DEF Attributed
      <3>5. \A b \in Account \ late' :
                account'[b] \in {"identities", "gone"} => \A i \in Identity : identity'[i].account # b
        BY <1>0, <3>1, <3>2, <3>4 DEF NothingOutlivesAccount
      <3>6. Anonymous' \subseteq Anonymous
        BY <2>1 DEF Anonymous, Exists
      <3>7. \A r \in Anonymous' \ Legacy : \E b \in late' : account'[b] = "gone"
        BY <1>0, <3>1, <3>2, <3>6 DEF NothingOutlivesAccount, TypeOK
      <3> QED
        BY <3>3, <3>5, <3>7 DEF NothingOutlivesAccount
    <2>7. ASSUME NEW a \in Account, DeletionStops(a)
          PROVE  NothingOwned' /\ NothingOutlivesAccount'
      <3>1. /\ account[a] \in {"reports", "identities"}
            /\ account' = [account EXCEPT ![a] = IF @ = "reports" THEN "stopped" ELSE "live"]
            /\ late' = late /\ identity' = identity
        BY <2>7 DEF DeletionStops, history
      <3>2. /\ account'[a] \in {"live", "stopped"}
            /\ \A b \in Account : b # a => account'[b] = account[b]
        BY <1>0, <3>1 DEF TypeOK
      <3>3. NothingOwned'
        BY <1>0, <2>1, <3>1, <3>2 DEF NothingOwned, Exists
      <3>4. Anonymous' \subseteq Anonymous
        BY <2>1 DEF Anonymous, Exists
      <3>5. \A r \in Anonymous' \ Legacy : \E b \in late' : account'[b] = "gone"
        BY <1>0, <3>1, <3>2, <3>4 DEF NothingOutlivesAccount, TypeOK
      <3>6. \A b \in Account \ late' :
                account'[b] \in {"identities", "gone"} => \A i \in Identity : identity'[i].account # b
        BY <1>0, <3>1, <3>2 DEF NothingOutlivesAccount
      <3> QED
        BY <3>3, <3>5, <3>6 DEF NothingOutlivesAccount
    <2>8. CASE \/ \E v \in Request :
                     \/ \E a \in Account, r \in Report : ReadReport(v, a, r)
                     \/ ClaimFails(v) \/ DeferredEnds(v)
                     \/ \E r \in Report : SelectOwned(v, r)
               \/ \E r \in Report : CycleEnds(r)
               \/ UNCHANGED vars
      BY <2>2, <2>8 DEF ReadReport, ClaimFails, DeferredEnds, SelectOwned, CycleEnds, vars, db,
         history
    <2> QED
      BY <1>2, <2>3, <2>4, <2>5, <2>6, <2>7, <2>8 DEF Unmoving
  <1>3. ASSUME NEW v \in Request, ClaimVacant(v) PROVE NothingOwned' /\ NothingOutlivesAccount'
    <2>1. /\ account[req[v].account] # "gone" /\ Wrote(req[v].account)
          /\ UNCHANGED <<account, identity>>
      BY <1>3 DEF ClaimVacant
    <2>2. /\ req[v].account \in Account
          /\ \A s \in Report : s # req[v].report => row'[s] = row[s]
          /\ row'[req[v].report].owner = req[v].account
      BY <1>0, <1>3, ClaimVacantFacts
    <2> QED
      BY <2>1, <2>2, WroteFacts, AccountsByOwner
  <1>4. ASSUME NEW v \in Request, ClaimExpired(v) PROVE NothingOwned' /\ NothingOutlivesAccount'
    <2>1. account[req[v].account] # "gone" /\ Wrote(req[v].account) /\ UNCHANGED account
      BY <1>4 DEF ClaimExpired
    <2>2. /\ req[v].account \in Account
          /\ row'[req[v].report].owner = req[v].account
      BY <1>0, <1>4, ClaimExpiredFacts
    <2>3. PICK o \in Occupants(req[v].account, RoomOf[req[v].report]) :
              /\ o # req[v].report => row'[o] = NoRow
              /\ \A s \in Report : s # req[v].report /\ s # o => row'[s] = row[s]
              /\ identity' = WithoutIdentity(row[o].identity)
      BY <1>0, <1>4, ClaimExpiredFacts
    <2>4. \A j \in Identity, a \in Account : identity'[j].account = a => identity[j].account = a
      BY <1>1, <2>3
    <2>5. \A r \in Report : row'[r] # NoRow =>
              \/ row[r] # NoRow /\ row'[r].owner = row[r].owner
              \/ row'[r].owner = req[v].account
      BY <2>2, <2>3
    <2> QED
      BY <2>1, <2>2, <2>4, <2>5, WroteFacts, AccountsByOwner
  <1>5. ASSUME NEW v \in Request, Resave(v) PROVE NothingOwned' /\ NothingOutlivesAccount'
    <2>1. UNCHANGED <<account, identity>> /\ (row' # row => Wrote(req[v].account))
          /\ late \subseteq late'
      BY <1>5, <1>0 DEF Resave, Wrote
    <2>2. /\ req[v].account \in Account /\ req[v].report \in Report
          /\ \A s \in Report : s # req[v].report => row'[s] = row[s]
          /\ \/ row'[req[v].report] = row[req[v].report]
             \/ /\ row'[req[v].report].owner = req[v].account
                /\ account[req[v].account] # "gone" /\ Wrote(req[v].account)
      BY <1>0, <1>5, ResaveFacts
    <2> QED
      BY <2>1, <2>2, WroteFacts, AccountsByOwner
  <1>6. ASSUME NEW v \in Request, DeleteRow(v) PROVE NothingOwned' /\ NothingOutlivesAccount'
    <2>1. \A r \in Report : row'[r] = row[r] \/ row'[r] = NoRow
      BY <1>0, <1>6 DEF DeleteRow, WithoutRow, TypeOK
    <2>2. UNCHANGED <<account, identity, late>>
      BY <1>6 DEF DeleteRow
    <2> QED
      BY <2>1, <2>2, AccountsByOwner
  <1>7. ASSUME NEW a \in Account, ClaimAnonymous(a) PROVE NothingOwned' /\ NothingOutlivesAccount'
    <2>1. \A r \in Report : row'[r] # NoRow =>
              \/ row[r] # NoRow /\ row'[r].owner = row[r].owner
              \/ row'[r].owner = a
      BY <1>0, <1>7, ClaimAnonymousFacts
    <2>2. account[a] # "gone" /\ Wrote(a) /\ UNCHANGED <<account, identity>>
      BY <1>7 DEF ClaimAnonymous
    <2> QED
      BY <2>1, <2>2, WroteFacts, AccountsByOwner
  <1>8. ASSUME NEW a \in Account, DeleteReports(a) PROVE NothingOwned' /\ NothingOutlivesAccount'
    <2>1. /\ account[a] \in {"live", "stopped"} /\ account' = [account EXCEPT ![a] = "reports"]
          /\ late' = late \ {a} /\ identity' = identity
      BY <1>8 DEF DeleteReports, Undisturbed
    <2>2. /\ account'[a] = "reports"
          /\ \A b \in Account : b # a => account'[b] = account[b]
      BY <1>0, <2>1 DEF TypeOK
    <2>3. \A r \in Report : row'[r] # NoRow =>
              row[r] # NoRow /\ row'[r] = row[r] /\ row[r].owner # a
      BY <1>8 DEF DeleteReports, Exists
    <2>4. NothingOwned'
      BY <1>0, <2>1, <2>2, <2>3 DEF NothingOwned, Exists
    <2>5. \A b \in Account \ late' :
              account'[b] \in {"identities", "gone"} => \A i \in Identity : identity'[i].account # b
      BY <1>0, <2>1, <2>2 DEF NothingOutlivesAccount
    <2>6. Anonymous' \subseteq Anonymous
      BY <2>3 DEF Anonymous, Exists
    <2>7. \A r \in Anonymous' \ Legacy : \E b \in late' : account'[b] = "gone"
      BY <1>0, <2>1, <2>2, <2>6 DEF NothingOutlivesAccount, TypeOK
    <2> QED
      BY <2>4, <2>5, <2>7 DEF NothingOutlivesAccount
  <1>9. ASSUME NEW a \in Account, DeleteUser(a) PROVE NothingOwned' /\ NothingOutlivesAccount'
    <2>1. /\ account[a] = "identities" /\ account' = [account EXCEPT ![a] = "gone"]
          /\ late' = late /\ identity' = identity
      BY <1>9 DEF DeleteUser, history
    <2>2. /\ account'[a] = "gone"
          /\ \A b \in Account : b # a => account'[b] = account[b]
      BY <1>0, <2>1 DEF TypeOK
    <2>3. \A r \in Report : row'[r] # NoRow =>
              /\ row[r] # NoRow
              /\ row[r].owner = a => row'[r].owner = NoOwner
              /\ row[r].owner # a => row'[r].owner = row[r].owner
      BY <1>0, <1>9, DeleteUserFacts DEF Exists
    <2>4. NothingOwned'
      BY <1>0, <2>1, <2>2, <2>3 DEF NothingOwned, Exists
    <2>5. \A b \in Account \ late' :
              account'[b] \in {"identities", "gone"} => \A i \in Identity : identity'[i].account # b
      BY <1>0, <2>1, <2>2 DEF NothingOutlivesAccount
    <2>6. ASSUME NEW r \in Anonymous' \ Legacy PROVE \E b \in late' : account'[b] = "gone"
      <3>1. r \in Report /\ row'[r] # NoRow /\ row'[r].owner = NoOwner
        BY <2>6 DEF Anonymous, Exists
      <3>2. CASE row[r].owner = a
        BY <1>0, <2>1, <2>2, <2>3, <3>1, <3>2 DEF NothingOwned, Exists
      <3>3. CASE row[r].owner # a
        <4>1. r \in Anonymous \ Legacy
          BY <2>3, <2>6, <3>1, <3>3 DEF Anonymous, Exists
        <4> QED
          BY <1>0, <2>1, <2>2, <4>1 DEF NothingOutlivesAccount, TypeOK
      <3> QED
        BY <3>2, <3>3
    <2> QED
      BY <2>4, <2>5, <2>6 DEF NothingOutlivesAccount
  <1> QED
    BY <1>2, <1>3, <1>4, <1>5, <1>6, <1>7, <1>8, <1>9 DEF Next, Unmoving

\* Account deletion, stopped and repeated or not, leaves of the account only
\* what something has written for it since the deletion began.
THEOREM DeletionLeavesNothing == Spec => []NothingOutlivesAccount
  <1>1. Init => AccountsInv
    <2> SUFFICES ASSUME Init PROVE AccountsInv
      OBVIOUS
    <2>1. \A a \in Account : account[a] = "live"
      BY DEF Init
    <2>2. Anonymous \ Legacy = {}
      BY DEF Init, Anonymous, Exists
    <2> QED
      BY <2>1, <2>2, InitType DEF AccountsInv, NothingOwned, NothingOutlivesAccount
  <1>2. AccountsInv => NothingOutlivesAccount
    BY DEF AccountsInv
  <1> QED
    BY <1>1, <1>2, AccountsStep, PTL DEF Spec

-----------------------------------------------------------------------------
\* What keeps a linked identity from outliving its report.
Held(i) ==
    \/ \E r \in Report : Exists(r) /\ row[r].identity = i
    \/ \E v \in Request : req[v].pc = "cleaning" /\ req[v].identity = i
    \/ account[identity[i].account] \in {"reports", "stopped"}

\* A step that leaves an identity alone keeps what holds it, if it keeps the
\* name, the request that cleans and the deletion on its way.
LEMMA LinksByHolder ==
    ASSUME LinksInv, NEW i \in Identity, i \notin stranded, identity'[i] = identity[i],
           \A r \in Report : row[r] # NoRow /\ row[r].identity = i =>
               \/ \E s \in Report : row'[s] # NoRow /\ row'[s].identity = i
               \/ \E v \in Request : req'[v].pc = "cleaning" /\ req'[v].identity = i
               \/ account'[identity[i].account] \in {"reports", "stopped"},
           \A v \in Request : req[v].pc = "cleaning" /\ req[v].identity = i =>
               req'[v].pc = "cleaning" /\ req'[v].identity = i,
           account[identity[i].account] \in {"reports", "stopped"} /\ identity[i].account \in Account =>
               account'[identity[i].account] \in {"reports", "stopped"}
    PROVE  identity'[i].linked => Held(i)'
  <1> SUFFICES ASSUME identity[i].linked PROVE Held(i)'
    OBVIOUS
  <1>1. identity[i].account \in Account
    BY DEF LinksInv, CapturedForAccount, Free
  <1>2. Held(i)
    BY DEF LinksInv, LinkedIdentityHasReport, Held
  <1> QED
    BY <1>1, <1>2 DEF Held, Exists

\* A request that is not cleaning is the only one a step changes.
LEMMA Cleaners ==
    ASSUME TypeOK, NEW v \in Request, NEW q, req[v].pc # "cleaning", req' = [req EXCEPT ![v] = q]
    PROVE  \A w \in Request : req[w].pc = "cleaning" => req'[w] = req[w]
  BY DEF TypeOK

LEMMA CapturedStep == TypeOK /\ CapturedForAccount /\ [Next]_vars => CapturedForAccount'
  <1> SUFFICES ASSUME TypeOK, CapturedForAccount, [Next]_vars, NEW i \in Identity
               PROVE  \/ identity'[i] = Free \/ identity'[i] = identity[i]
                      \/ identity'[i].account \in Account
    BY DEF CapturedForAccount
  <1>0. identity[i] \in Captured /\ identity \in [Identity -> Captured]
    BY DEF TypeOK
  <1>1. ASSUME NEW v \in Request, ClaimExpired(v) \/ DeleteDocument(v)
        PROVE  identity'[i] \in {Free, identity[i]}
    BY <1>1 DEF ClaimExpired, DeleteDocument, Cleaned, WithoutIdentity
  <1>2. ASSUME NEW v \in Request, Capture(v)
        PROVE  identity'[i] = identity[i] \/ identity'[i].account \in Account
    BY <1>0, <1>2 DEF Capture, TypeOK, Captured
  <1>3. ASSUME NEW v \in Request, Link(v)
        PROVE  identity'[i] = identity[i] \/ identity'[i].account \in Account
    <2>1. \A j \in Identity : identity[j] # Free => identity[j].account \in Account
      BY DEF CapturedForAccount
    <2> QED
      BY <1>0, <1>3, <2>1 DEF Link, Captured
  <1>4. ASSUME NEW a \in Account, DeleteIdentities(a)
        PROVE  identity'[i] \in {Free, identity[i]}
    BY <1>4 DEF DeleteIdentities
  <1>5. CASE identity' = identity
    BY <1>5
  <1> QED
    BY <1>1, <1>2, <1>3, <1>4, <1>5 DEF Next, ReadReport, ClaimVacant, ClaimFails, Resave,
       DeferredEnds, SelectOwned, DeleteRow, ClaimAnonymous, DeleteReports, DeleteUser,
       DeletionStops, CycleEnds, vars, db

LEMMA LinksStep == LinksInv /\ [Next]_vars => LinksInv'
  <1> DEFINE Kept(i) == i \notin stranded' => (identity'[i].linked => Held(i)')
  <1> SUFFICES ASSUME LinksInv, [Next]_vars, NEW i \in Identity PROVE Kept(i)
    BY TypeStep, CapturedStep DEF LinksInv, LinkedIdentityHasReport, Held
  <1>0. /\ TypeOK /\ row \in Table /\ ~Free.linked /\ identity[i] \in Captured
    BY DEF LinksInv, TypeOK, Free, Table
  <1>1. ASSUME NEW x PROVE WithoutIdentity(x)[i] = IF i = x THEN Free ELSE identity[i]
    BY DEF WithoutIdentity
  <1>2. \A x \in Row : x # NoRow
    BY NoRowNotARow
  \* A step that changes neither the identity nor the accounts.
  <1>3. ASSUME UNCHANGED <<identity, account, row, stranded>>,
               \A w \in Request : req[w].pc = "cleaning" => req'[w] = req[w]
        PROVE  Kept(i)
    BY <1>0, <1>3, LinksByHolder
  <1>4. CASE \/ \E v \in Request :
                    \/ \E a \in Account, r \in Report : ReadReport(v, a, r)
                    \/ ClaimFails(v) \/ DeferredEnds(v)
                    \/ \E r \in Report : SelectOwned(v, r)
             \/ \E r \in Report : CycleEnds(r)
             \/ UNCHANGED vars
    <2>1. UNCHANGED <<identity, account, row, stranded>>
      BY <1>4 DEF ReadReport, ClaimFails, DeferredEnds, SelectOwned, CycleEnds, vars, db, history
    <2>2. \A w \in Request : req[w].pc = "cleaning" => req'[w] = req[w]
      BY <1>0, <1>4, Cleaners DEF ReadReport, ClaimFails, DeferredEnds, SelectOwned, CycleEnds,
         vars, Done, Deferred
    <2> QED
      BY <1>3, <2>1, <2>2
  <1>5. ASSUME NEW v \in Request, ClaimVacant(v)
        PROVE  Kept(i)
    <2>1. /\ \A s \in Report : s # req[v].report => row'[s] = row[s]
          /\ row'[req[v].report] # NoRow /\ req[v].report \in Report
          /\ Exists(req[v].report) =>
                 row'[req[v].report].identity = row[req[v].report].identity
      BY <1>0, <1>5, ClaimVacantFacts
    <2>2. \A s \in Report : row[s] # NoRow =>
              row'[s] # NoRow /\ row'[s].identity = row[s].identity
      BY <2>1 DEF Exists
    <2>3. \A w \in Request : req[w].pc = "cleaning" => req'[w] = req[w]
      BY <1>0, <1>5 DEF ClaimVacant, Goto, TypeOK
    <2>4. UNCHANGED <<account, identity, stranded>>
      BY <1>5 DEF ClaimVacant
    <2> QED
      BY <1>0, <2>2, <2>3, <2>4, LinksByHolder
  <1>6. ASSUME NEW v \in Request, ClaimExpired(v)
        PROVE  Kept(i)
    <2>1. /\ row'[req[v].report] # NoRow /\ req[v].report \in Report
      BY <1>0, <1>6, ClaimExpiredFacts
    <2>2. PICK o \in Occupants(req[v].account, RoomOf[req[v].report]) :
              /\ o # req[v].report => row'[o] = NoRow
              /\ \A s \in Report : s # req[v].report /\ s # o => row'[s] = row[s]
              /\ Exists(req[v].report) /\ o # req[v].report =>
                     row'[req[v].report].identity = row[req[v].report].identity
              /\ identity' = WithoutIdentity(row[o].identity)
      BY <1>0, <1>6, ClaimExpiredFacts
    <2>3. \A s \in Report : row[s] # NoRow /\ s # o =>
              row'[s] # NoRow /\ row'[s].identity = row[s].identity
      BY <2>1, <2>2 DEF Exists
    <2>4. \A w \in Request : req[w].pc = "cleaning" => req'[w] = req[w]
      BY <1>0, <1>6 DEF ClaimExpired, Goto, TypeOK
    <2>5. UNCHANGED <<account, stranded>>
      BY <1>6 DEF ClaimExpired
    <2>6. CASE row[o].identity = i
      BY <1>0, <1>1, <2>2, <2>6
    <2>7. CASE row[o].identity # i
      <3>1. identity'[i] = identity[i]
        BY <1>1, <2>2, <2>7
      <3> QED
        BY <1>0, <2>3, <2>4, <2>5, <2>7, <3>1, LinksByHolder
    <2> QED
      BY <2>6, <2>7
  <1>7. ASSUME NEW v \in Request, Resave(v)
        PROVE  Kept(i)
    <2>1. /\ \A s \in Report : s # req[v].report => row'[s] = row[s]
          /\ \/ row'[req[v].report] = row[req[v].report]
             \/ /\ row'[req[v].report] # NoRow
                /\ Exists(req[v].report) =>
                       row'[req[v].report].identity = row[req[v].report].identity
      BY <1>0, <1>7, ResaveFacts
    <2>2. \A s \in Report : row[s] # NoRow =>
              row'[s] # NoRow /\ row'[s].identity = row[s].identity
      BY <2>1 DEF Exists
    <2>3. \A w \in Request : req[w].pc = "cleaning" => req'[w] = req[w]
      BY <1>0, <1>7, Cleaners DEF Resave, Done
    <2>4. UNCHANGED <<account, identity, stranded>>
      BY <1>7 DEF Resave
    <2> QED
      BY <1>0, <2>2, <2>3, <2>4, LinksByHolder
  <1>8. ASSUME NEW v \in Request, Capture(v)
        PROVE  Kept(i)
    <2>1. PICK j \in Identity :
              /\ identity[j] = Free
              /\ identity' = [identity EXCEPT ![j].account = req[v].account]
              /\ req' = [req EXCEPT ![v] = [@ EXCEPT !.pc = "captured", !.account = NoOwner,
                                                     !.identity = j]]
              /\ stranded' = stranded \ {j}
      BY <1>8 DEF Capture
    <2>2. UNCHANGED <<account, row>> /\ req[v].pc = "deferred"
      BY <1>8 DEF Capture
    <2>3. \A w \in Request : req[w].pc = "cleaning" => req'[w] = req[w]
      BY <1>0, <2>1, <2>2 DEF TypeOK
    <2>4. CASE i = j
      <3>1. ~identity'[i].linked
        BY <1>0, <2>1, <2>4 DEF TypeOK, Captured
      <3> QED
        BY <3>1
    <2>5. CASE i # j
      <3>1. identity'[i] = identity[i] /\ (i \notin stranded' => i \notin stranded)
        BY <1>0, <2>1, <2>5 DEF TypeOK
      <3> QED
        BY <1>0, <2>2, <2>3, <3>1, LinksByHolder
    <2> QED
      BY <2>4, <2>5
  <1>9. ASSUME NEW v \in Request, Link(v)
        PROVE  Kept(i)
    <2> DEFINE r == req[v].report
               j == req[v].identity
    <2>1. \A w \in Request : req[w].pc = "cleaning" => req'[w] = req[w]
      BY <1>0, <1>9, Cleaners DEF Link, Done
    <2>2. CASE UNCHANGED <<row, identity, stranded>>
      BY <1>3, <1>9, <2>1, <2>2 DEF Link
    <2>3. CASE /\ Exists(r) /\ identity[j] # Free
               /\ row' = [row EXCEPT ![r].identity = j]
               /\ identity' = [identity EXCEPT ![j].linked = TRUE]
               /\ stranded' = stranded \cup ({row[r].identity} \cap Identity)
      <3>1. r \in Report /\ j \in Identity /\ row[r] \in Row /\ identity[j] \in Captured
        BY <1>0, <1>9, <2>3 DEF Link, TypeOK, Deferred, Exists, Table
      <3>2. row'[r] # NoRow /\ row'[r].identity = j
        <4>1. [row[r] EXCEPT !.identity = j] \in Row
          BY <3>1 DEF Row
        <4> QED
          BY <1>0, <1>2, <2>3, <3>1, <4>1 DEF Table, Row
      <3>3. \A s \in Report : s # r => row'[s] = row[s]
        BY <1>0, <2>3 DEF Table
      <3>4. CASE i = j
        BY <3>1, <3>2, <3>4 DEF Held, Exists
      <3>5. CASE i # j
        <4>1. identity'[i] = identity[i]
          BY <1>0, <2>3, <3>5 DEF TypeOK
        <4>2. i \notin stranded' => i \notin stranded /\ row[r].identity # i
          BY <2>3
        <4>3. account' = account
          BY <1>9 DEF Link
        <4> QED
          BY <1>0, <2>1, <3>3, <4>1, <4>2, <4>3, LinksByHolder
      <3> QED
        BY <3>4, <3>5
    <2> QED
      BY <1>9, <2>2, <2>3 DEF Link
  <1>10. ASSUME NEW v \in Request, DeleteRow(v) PROVE Kept(i)
    <2> DEFINE r == req[v].report
               j == req[v].identity
               q == IF j = NoIdentity THEN IdleReq
                    ELSE [IdleReq EXCEPT !.pc = "cleaning", !.identity = j]
    <2>1. req[v].pc = "deleting" /\ req' = [req EXCEPT ![v] = q]
          /\ UNCHANGED <<account, identity>> /\ stranded \subseteq stranded'
      BY <1>10 DEF DeleteRow
    <2> HIDE DEF q
    <2>2. \A w \in Request : req[w].pc = "cleaning" => req'[w] = req[w]
      BY <1>0, <2>1, Cleaners
    <2>3. ASSUME NEW s \in Report, row[s] # NoRow, row[s].identity = i, i \notin stranded'
          PROVE  \/ row'[s] # NoRow /\ row'[s].identity = i
                 \/ \E w \in Request : req'[w].pc = "cleaning" /\ req'[w].identity = i
      <3>1. CASE row'[s] = row[s]
        BY <2>3, <3>1
      <3>2. CASE row'[s] # row[s]
        <4>1. s = r /\ stranded' = stranded \cup (({row[r].identity} \ {j}) \cap Identity)
          BY <1>0, <1>10, <3>2 DEF DeleteRow, WithoutRow, Table
        <4>2. i = j
          BY <2>3, <4>1
        <4>3. i # NoIdentity
          BY ReportRoomsAssumption
        <4>4. q.pc = "cleaning" /\ q.identity = i
          BY <4>2, <4>3 DEF q, IdleReq
        <4>5. req'[v] = q
          BY <1>0, <2>1 DEF TypeOK
        <4> QED
          BY <4>4, <4>5
      <3> QED
        BY <3>1, <3>2
    <2> QED
      BY <2>1, <2>2, <2>3, LinksByHolder
  <1>11. ASSUME NEW v \in Request, DeleteDocument(v) PROVE Kept(i)
    <2> DEFINE j == req[v].identity
    <2>1. CASE i = j
      BY <1>0, <1>1, <1>11, <2>1 DEF DeleteDocument
    <2>2. CASE i # j
      <3>1. identity'[i] = identity[i] /\ UNCHANGED <<account, stranded>>
        BY <1>1, <1>11, <2>2 DEF DeleteDocument, history
      <3>2. \A s \in Report : row[s].identity = i => row'[s] = row[s]
        BY <1>11, <2>2 DEF DeleteDocument
      <3>3. \A w \in Request : req[w].identity = i => req'[w] = req[w]
        BY <1>0, <1>11, <2>2 DEF DeleteDocument, Done, TypeOK
      <3> QED
        BY <3>1, <3>2, <3>3, LinksByHolder
    <2> QED
      BY <2>1, <2>2
  <1>12. ASSUME NEW a \in Account, ClaimAnonymous(a) PROVE Kept(i)
    <2>1. \A s \in Report : row[s] # NoRow =>
              row'[s] # NoRow /\ row'[s].identity = row[s].identity
      BY <1>0, <1>12, ClaimAnonymousFacts
    <2>2. UNCHANGED <<account, identity, req, stranded>>
      BY <1>12 DEF ClaimAnonymous
    <2> QED
      BY <2>1, <2>2, LinksByHolder
  <1>13. ASSUME NEW a \in Account, DeleteReports(a) PROVE Kept(i)
    <2>1. /\ UNCHANGED <<identity, req>> /\ stranded \subseteq stranded'
          /\ account'[a] = "reports" /\ \A b \in Account : b # a => account'[b] = account[b]
      BY <1>0, <1>13 DEF DeleteReports, TypeOK
    <2>2. ASSUME NEW s \in Report, row[s] # NoRow, row[s].identity = i, i \notin stranded'
          PROVE  \/ row'[s] # NoRow /\ row'[s].identity = i
                 \/ account'[identity[i].account] \in {"reports", "stopped"}
      BY <1>13, <2>1, <2>2 DEF DeleteReports, Exists
    <2> QED
      BY <2>1, <2>2, LinksByHolder
  <1>14. ASSUME NEW a \in Account, DeleteIdentities(a) PROVE Kept(i)
    <2>1. /\ UNCHANGED <<req, stranded>>
          /\ \A b \in Account : b # a => account'[b] = account[b]
      BY <1>0, <1>14 DEF DeleteIdentities, TypeOK, history
    <2>2. CASE identity[i].account = a
      BY <1>0, <1>14, <2>2 DEF DeleteIdentities, Attributed
    <2>3. CASE identity[i].account # a
      <3>1. identity'[i] = identity[i]
        BY <1>14, <2>3 DEF DeleteIdentities, Attributed
      <3>2. \A s \in Report : row[s].identity = i => row'[s] = row[s]
        BY <1>14, <2>3 DEF DeleteIdentities, Attributed
      <3> QED
        BY <2>1, <2>3, <3>1, <3>2, LinksByHolder
    <2> QED
      BY <2>2, <2>3
  <1>15. ASSUME NEW a \in Account, DeleteUser(a) \/ DeletionStops(a) PROVE Kept(i)
    <2>1. /\ UNCHANGED <<identity, req, stranded>>
          /\ \A b \in Account :
                 account[b] \in {"reports", "stopped"} => account'[b] \in {"reports", "stopped"}
      BY <1>0, <1>15 DEF DeleteUser, DeletionStops, TypeOK, history
    <2>2. \A s \in Report : row[s] # NoRow =>
              row'[s] # NoRow /\ row'[s].identity = row[s].identity
      BY <1>0, <1>15, DeleteUserFacts DEF DeletionStops, Exists
    <2> QED
      BY <2>1, <2>2, LinksByHolder
  <1> QED
    BY <1>4, <1>5, <1>6, <1>7, <1>8, <1>9, <1>10, <1>11, <1>12, <1>13, <1>14, <1>15 DEF Next

\* An identity that was linked does not outlive its report, unless a step took
\* the name from the row unseen (deleteReportDocumentData and its callers).
THEOREM LinkedIdentityKeepsReport == Spec => []LinkedIdentityHasReport
  <1>1. Init => LinksInv
    BY InitType DEF LinksInv, CapturedForAccount, LinkedIdentityHasReport, Init, Free
  <1>2. LinksInv => LinkedIdentityHasReport
    BY DEF LinksInv
  <1> QED
    BY <1>1, <1>2, LinksStep, PTL DEF Spec
=============================================================================
