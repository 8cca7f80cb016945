---------------------------- MODULE ReportRooms ----------------------------
(***************************************************************************)
(* Who owns a saved report, which room it holds, and what is left when it  *)
(* is gone: POST /api/reports (the claim of a room, room reuse, resaves),  *)
(* the deferred capture of the document identity, DELETE of one report,    *)
(* the claim of anonymous reports at login, and the deletion of an account *)
(* statement by statement.                                                 *)
(*                                                                         *)
(* A report id is made by one check, which fixes the room its saves name   *)
(* and the time its 24-hour cycle ends; any session that is valid may send *)
(* a save of it, the first or a later one, because a browser may switch    *)
(* accounts under an open tab.  Whether the admission of an expired report *)
(* is terminal is the subject of ReportAdmission, and any answer here; the *)
(* daily quota is a count the source itself calls racy, and may refuse any *)
(* first save.                                                             *)
(*                                                                         *)
(* Three history variables, which no step reads, name what the code leaves *)
(* to chance: doubled, late and stranded.                                  *)
(***************************************************************************)
EXTENDS Naturals

CONSTANTS
    Account,
    Report,
    Room,
    Identity,    \* bound of the model: document_identities rows
    Request,     \* concurrent requests, with their deferred runs
    Leaving,     \* bound of the model: accounts that may be deleted
    RoomOf,      \* the room of a report's check
    Legacy,      \* reports saved before accounts were required
    NoOwner, NoRoom, NoIdentity, NoRow, NoReport

ASSUME ReportRoomsAssumption ==
    /\ RoomOf \in [Report -> Room]
    /\ Legacy \subseteq Report /\ Leaving \subseteq Account
    /\ NoOwner \notin Account /\ NoRoom \notin Room
    /\ NoIdentity \notin Identity /\ NoReport \notin Report

Row == [owner : Account \cup {NoOwner}, room : Room \cup {NoRoom},
        identity : Identity \cup {NoIdentity}]

ASSUME NoRowNotARow == NoRow \notin Row

Deferred == {"deferred", "captured"}
Deleting == {"deleting", "cleaning"}
Saving == {"first", "resave"}
Pc == {"idle"} \cup Saving \cup Deferred \cup Deleting

VARIABLES
    account,   \* where the deletion of each account stands; "gone": no users row
    row,       \* saved_reports
    over,      \* reports whose cycle has ended
    identity,  \* document_identities: captured for which account, linked once, or free
    req,       \* each request: label, session, report, the owner and identity it read
    doubled,   \* history: rooms of an account where a resave or a login put a report
               \* beside another
    late,      \* history: accounts for which something was written while they were deleted
    stranded   \* history: identities whose last name a step took from a row unseen

db == <<account, row, over, identity>>
history == <<doubled, late, stranded>>
vars == <<account, row, over, identity, req, doubled, late, stranded>>

Free == [account |-> NoOwner, linked |-> FALSE]

IdleReq == [pc |-> "idle", account |-> NoOwner, report |-> NoReport, seen |-> NoOwner,
            identity |-> NoIdentity]

Init ==
    /\ account = [a \in Account |-> "live"]
    /\ row = [r \in Report |->
                 IF r \in Legacy
                 THEN [owner |-> NoOwner, room |-> NoRoom, identity |-> NoIdentity]
                 ELSE NoRow]
    /\ over = Legacy
    /\ identity = [i \in Identity |-> Free]
    /\ req = [v \in Request |-> IdleReq]
    /\ doubled = {} /\ late = {} /\ stranded = {}

Exists(r) == row[r] # NoRow
Occupants(a, k) == {r \in Report : Exists(r) /\ row[r].owner = a /\ row[r].room = k}

Anonymous == {r \in Report : Exists(r) /\ row[r].owner = NoOwner}

\* Requests about a report that are running.
About(r) == {v \in Request : req[v].report = r}

\* Something is written for an account.
Wrote(a) == late' = IF account[a] \in {"reports", "identities"} THEN late \cup {a} ELSE late

\* No deletion of the account is running.
Undisturbed(a) == account[a] \in {"live", "stopped"}

\* What a row's disappearance leaves of the table and of the identities.
WithoutRow(r) == [row EXCEPT ![r] = NoRow]
WithoutIdentity(i) == [j \in Identity |-> IF j = i THEN Free ELSE identity[j]]

Goto(v, pc) == req' = [req EXCEPT ![v].pc = pc]
Done(v) == req' = [req EXCEPT ![v] = IdleReq]

-----------------------------------------------------------------------------
\* POST /api/reports.

\* A mutant: whoever is logged in may write.
MayWrite_AnySession(a, r) == TRUE

\* A report with an owner answers 404 to every other account.
MayWrite(a, r) == row[r].owner \in {NoOwner, a}

\* The row is read once, at the start; the session was valid then.
ReadReport(v, a, r) ==
    /\ req[v].pc = "idle"
    /\ account[a] # "gone"
    /\ \/ /\ ~Exists(r)
          /\ req' = [req EXCEPT ![v] = [@ EXCEPT !.pc = "first", !.account = a, !.report = r]]
       \/ /\ Exists(r) /\ MayWrite(a, r)
          /\ req' = [req EXCEPT ![v] = [@ EXCEPT !.pc = "resave", !.account = a, !.report = r,
                                                 !.seen = row[r].owner]]
    /\ UNCHANGED <<db, history>>

\* A mutant: owner and room are bound in the other order.
Saved_Swapped(table, v, k) ==
    LET r == req[v].report
    IN  [table EXCEPT ![r] =
            IF @ = NoRow
            THEN [owner |-> k, room |-> req[v].account, identity |-> NoIdentity]
            ELSE [@ EXCEPT !.owner = req[v].account]]

\* SAVE_REPORT_SQL: an insert, or on conflict an update that keeps the room and
\* sets the owner without looking at the one before.
Saved(table, v, k) ==
    LET r == req[v].report
    IN  [table EXCEPT ![r] =
            IF @ = NoRow
            THEN [owner |-> req[v].account, room |-> k, identity |-> NoIdentity]
            ELSE [@ EXCEPT !.owner = req[v].account]]

\* The newest occupant of the room, if any.
Newest(r, a, k) ==
    /\ r \in Occupants(a, k)
    /\ r \in over => Occupants(a, k) \subseteq over

\* A mutant: the room was free when the request looked.
Vacant_Always(a, k) == TRUE

Vacant(a, k) == Occupants(a, k) = {}

\* insertReportWithRoomCheck, one write transaction: an empty room is taken.
ClaimVacant(v) ==
    LET a == req[v].account
        k == RoomOf[req[v].report]
    IN  /\ req[v].pc = "first"
        /\ account[a] # "gone"
        /\ Vacant(a, k)
        /\ row' = Saved(row, v, k)
        /\ Wrote(a)
        /\ Goto(v, "deferred")
        /\ UNCHANGED <<account, over, identity, doubled, stranded>>

\* A mutant: any occupant whose admission is over gives way.
CycleOver_Ignored(r) == TRUE

CycleOver(r) == r \in over

\* A mutant: the replaced report's identity stays.
Cleaned_RowOnly(o) == identity

\* deleteReportDocumentData of the replaced report.
Cleaned(o) == WithoutIdentity(row[o].identity)

\* An expired occupant, found safe inside the transaction, is replaced.
ClaimExpired(v) ==
    LET a == req[v].account
        k == RoomOf[req[v].report]
    IN  /\ req[v].pc = "first"
        /\ account[a] # "gone"
        /\ \E o \in Report :
               /\ Newest(o, a, k) /\ CycleOver(o)
               /\ row' = Saved(WithoutRow(o), v, k)
               /\ identity' = Cleaned(o)
        /\ Wrote(a)
        /\ Goto(v, "deferred")
        /\ UNCHANGED <<account, over, doubled, stranded>>

\* The daily quota, 409 for an active occupant, 503 for an unsafe one, before
\* or in the transaction, and a foreign-key error when the account is gone.
ClaimFails(v) ==
    /\ req[v].pc = "first"
    /\ Done(v)
    /\ UNCHANGED <<db, history>>

\* The rooms of an account in which reports of a set, once they are its own,
\* stand beside another of its reports.
Crowded(a, moved) ==
    {<<a, k>> : k \in {c \in Room :
        \E r \in moved, s \in moved \cup Occupants(a, c) :
            r # s /\ Exists(s) /\ row[r].room = c /\ row[s].room = c}}

\* A resave writes without the room check; it inserts when the row is gone.
Resave(v) ==
    LET r == req[v].report
        a == req[v].account
    IN  /\ req[v].pc = "resave"
        /\ IF account[a] = "gone" THEN UNCHANGED <<row, late, doubled>>
           ELSE /\ row' = Saved(row, v, NoRoom)
                /\ doubled' = doubled \cup Crowded(a, {r} \cap {s \in Report : Exists(s)})
                /\ Wrote(a)
        /\ Done(v)
        /\ UNCHANGED <<account, over, identity, stranded>>

-----------------------------------------------------------------------------
\* The deferred run of a first save: two statements.

\* captureDocumentIdentityAndFamily, attributed to the account.
Capture(v) ==
    /\ req[v].pc = "deferred"
    /\ account[req[v].account] # "gone"
    /\ \E i \in Identity :
           /\ identity[i] = Free
           /\ \A w \in Request : req[w].identity # i
           /\ identity' = [identity EXCEPT ![i].account = req[v].account]
           /\ req' = [req EXCEPT ![v] = [@ EXCEPT !.pc = "captured", !.account = NoOwner,
                                                  !.identity = i]]
           /\ stranded' = stranded \ {i}
    /\ Wrote(req[v].account)
    /\ UNCHANGED <<account, row, over, doubled>>

\* The row, if it is still there, names the identity, if it is still there.
Link(v) ==
    LET r == req[v].report
        i == req[v].identity
    IN  /\ req[v].pc = "captured"
        /\ IF Exists(r) /\ identity[i] # Free
           THEN /\ row' = [row EXCEPT ![r].identity = i]
                /\ identity' = [identity EXCEPT ![i].linked = TRUE]
                /\ stranded' = stranded \cup ({row[r].identity} \cap Identity)
           ELSE UNCHANGED <<row, identity, stranded>>
        /\ Done(v)
        /\ UNCHANGED <<account, over, doubled, late>>

\* The process ends, or the capture throws, between two statements.
DeferredEnds(v) ==
    /\ req[v].pc \in Deferred
    /\ Done(v)
    /\ UNCHANGED <<db, history>>

-----------------------------------------------------------------------------
\* DELETE /api/reports/[id]: the owner's read, the row, its document data.  A
\* report without owner is deleted by a request without session.

SelectOwned(v, r) ==
    /\ req[v].pc = "idle"
    /\ Exists(r)
    /\ req' = [req EXCEPT ![v] = [@ EXCEPT !.pc = "deleting", !.account = row[r].owner,
                                           !.report = r, !.identity = row[r].identity]]
    /\ UNCHANGED <<db, history>>

\* The row goes, whatever identity it names by now.
DeleteRow(v) ==
    LET r == req[v].report
        i == req[v].identity
    IN  /\ req[v].pc = "deleting"
        /\ IF Exists(r) /\ row[r].owner = req[v].account
           THEN /\ row' = WithoutRow(r)
                /\ stranded' = stranded \cup (({row[r].identity} \ {i}) \cap Identity)
           ELSE UNCHANGED <<row, stranded>>
        /\ req' = [req EXCEPT ![v] =
               IF i = NoIdentity THEN IdleReq ELSE [IdleReq EXCEPT !.pc = "cleaning", !.identity = i]]
        /\ UNCHANGED <<account, over, identity, doubled, late>>

\* deleteReportDocumentData of the identity the first statement read.  No row
\* is left that names it: the foreign key would clear the name.
DeleteDocument(v) ==
    /\ req[v].pc = "cleaning"
    /\ identity' = WithoutIdentity(req[v].identity)
    /\ row' = [r \in Report |->
                  IF Exists(r) /\ row[r].identity = req[v].identity
                  THEN [row[r] EXCEPT !.identity = NoIdentity] ELSE row[r]]
    /\ Done(v)
    /\ UNCHANGED <<account, over, history>>

-----------------------------------------------------------------------------
\* claimAnonymousReports at login or signup, one UPDATE.
ClaimAnonymous(a) ==
    /\ account[a] # "gone" /\ Anonymous # {}
    /\ row' = [r \in Report |->
                  IF r \in Anonymous THEN [row[r] EXCEPT !.owner = a] ELSE row[r]]
    /\ doubled' = doubled \cup Crowded(a, Anonymous)
    /\ Wrote(a)
    /\ UNCHANGED <<account, over, identity, req, stranded>>

\* DELETE /api/auth/me: the reports, the identities, then sessions and user.
DeleteReports(a) ==
    LET mine == {r \in Report : Exists(r) /\ row[r].owner = a}
    IN  /\ a \in Leaving /\ Undisturbed(a)
        /\ row' = [r \in Report |-> IF r \in mine THEN NoRow ELSE row[r]]
        /\ account' = [account EXCEPT ![a] = "reports"]
        /\ late' = late \ {a}
        /\ stranded' = stranded \cup
               {i \in Identity : identity[i].account # a /\ \E r \in mine : row[r].identity = i}
        /\ UNCHANGED <<over, identity, req, doubled>>

\* A mutant: only the identities that a report names are found.
Attributed_ByLink(a) ==
    {i \in Identity : identity[i].account = a /\ \E r \in Report : Exists(r) /\ row[r].identity = i}

\* document_identities.account_id finds them, linked or not.
Attributed(a) == {i \in Identity : identity[i].account = a}

DeleteIdentities(a) ==
    /\ account[a] = "reports"
    /\ identity' = [i \in Identity |-> IF i \in Attributed(a) THEN Free ELSE identity[i]]
    /\ row' = [r \in Report |->
                  IF Exists(r) /\ row[r].identity \in Attributed(a)
                  THEN [row[r] EXCEPT !.identity = NoIdentity] ELSE row[r]]
    /\ account' = [account EXCEPT ![a] = "identities"]
    /\ UNCHANGED <<over, req, history>>

\* ON DELETE SET NULL on both tables; `account` of an identity is kept here as
\* the record of whose text it is.
DeleteUser(a) ==
    /\ account[a] = "identities"
    /\ row' = [r \in Report |->
                  IF Exists(r) /\ row[r].owner = a THEN [row[r] EXCEPT !.owner = NoOwner]
                  ELSE row[r]]
    /\ account' = [account EXCEPT ![a] = "gone"]
    /\ UNCHANGED <<over, identity, req, history>>

\* A deletion dies between its statements, and may be repeated from the first;
\* the developer's reset of the rooms ends before the user's row.
DeletionStops(a) ==
    /\ account[a] \in {"reports", "identities"}
    /\ account' = [account EXCEPT ![a] = IF @ = "reports" THEN "stopped" ELSE "live"]
    /\ UNCHANGED <<row, over, identity, req, history>>

\* Twenty-four hours after the report's createdAt, which its saves carry.
CycleEnds(r) ==
    /\ r \notin over
    /\ over' = over \cup {r}
    /\ UNCHANGED <<account, row, identity, req, history>>

Next ==
    \/ \E v \in Request :
           \/ \E a \in Account, r \in Report : ReadReport(v, a, r)
           \/ ClaimVacant(v) \/ ClaimExpired(v) \/ ClaimFails(v) \/ Resave(v)
           \/ Capture(v) \/ Link(v) \/ DeferredEnds(v)
           \/ \E r \in Report : SelectOwned(v, r)
           \/ DeleteRow(v) \/ DeleteDocument(v)
    \/ \E a \in Account :
           \/ ClaimAnonymous(a)
           \/ DeleteReports(a) \/ DeleteIdentities(a) \/ DeleteUser(a) \/ DeletionStops(a)
    \/ \E r \in Report : CycleEnds(r)

Spec == Init /\ [][Next]_vars

-----------------------------------------------------------------------------
Req == [pc : Pc, account : Account \cup {NoOwner}, report : Report \cup {NoReport},
        seen : Account \cup {NoOwner}, identity : Identity \cup {NoIdentity}]

Captured == [account : Account \cup {NoOwner}, linked : BOOLEAN]

\* Every variable has the type of the column or local variable it stands for;
\* a running request is about a report, and has a session when it saves.
TypeOK ==
    /\ account \in [Account -> {"live", "reports", "identities", "stopped", "gone"}]
    /\ row \in [Report -> Row \cup {NoRow}]
    /\ over \subseteq Report
    /\ identity \in [Identity -> Captured]
    /\ req \in [Request -> Req]
    /\ doubled \subseteq Account \X Room /\ late \subseteq Account /\ stranded \subseteq Identity
    /\ \A v \in Request :
           /\ req[v].pc \in Saving \cup Deferred \cup {"deleting"} => req[v].report \in Report
           /\ req[v].pc \in Saving \cup {"deferred"} => req[v].account \in Account
           /\ req[v].pc \in {"captured", "cleaning"} => req[v].identity \in Identity

\* lib/report-rooms.ts: a room of an account holds at most one report, although
\* first saves race for it, also for one report under two accounts, and expired
\* reports are replaced in it; only a resave or a login, which do not look at
\* rooms, can put a second one there.
OneReportPerRoom ==
    \A a \in Account, k \in Room : <<a, k>> \notin doubled =>
        \A r, s \in Occupants(a, k) : r = s

\* A report whose cycle runs is only ever removed by its owner: no room claim,
\* however late its view of the room, takes its place.
ActiveReportKept ==
    [][\A r \in Report : Exists(r) /\ r \notin over /\ row'[r] = NoRow =>
           \/ \E v \in About(r) : req[v].pc = "deleting" /\ req[v].account = row[r].owner
           \/ row[r].owner # NoOwner /\ account'[row[r].owner] = "reports"]_vars

\* An account loses a report it has to nobody, except to a save in flight that
\* read the row before it was the account's (the ownership check of POST
\* /api/reports), or to no one when the account itself goes.
OwnerKept ==
    [][\A r \in Report : Exists(r) /\ row'[r] # NoRow /\ row[r].owner # NoOwner =>
           \/ row'[r].owner = row[r].owner
           \/ row'[r].owner = NoOwner /\ account'[row[r].owner] = "gone"
           \/ \E v \in About(r) : /\ req[v].pc \in Saving
                                  /\ req[v].account = row'[r].owner
                                  /\ req[v].seen # row[r].owner]_vars

\* An identity that was ever linked to its report does not outlive it: each way
\* of removing the row finds the link, unless a deletion is on its way to it or
\* died before it.  The exceptions are a name that changed after DELETE had read
\* it, a name written over by a second run of the same report, and a report
\* deleted with an account other than the one its text was captured for.
LinkedIdentityHasReport ==
    \A i \in Identity \ stranded : identity[i].linked =>
        \/ \E r \in Report : Exists(r) /\ row[r].identity = i
        \/ \E v \in Request : req[v].pc = "cleaning" /\ req[v].identity = i
        \/ account[identity[i].account] \in {"reports", "stopped"}

\* Account deletion leaves nothing of the account: no text captured for it,
\* linked or not, and no report that ends without an owner; only what a save, a
\* login or a capture has written since the deletion began may stay
\* (lib/account-deletion.ts, whose statements may be repeated after a crash).
NothingOutlivesAccount ==
    /\ \A a \in Account \ late :
           account[a] \in {"identities", "gone"} => \A i \in Identity : identity[i].account # a
    /\ \A r \in Anonymous \ Legacy : \E a \in late : account[a] = "gone"
=============================================================================
