------------------------- MODULE EmailVerification -------------------------
(***************************************************************************)
(* Verification of an account's e-mail address by a six-digit code: the    *)
(* first code with the sign-up, POST email-verification/send, the mail     *)
(* that carries a code or fails, POST email-verification/verify, and the   *)
(* change of address by PATCH /api/auth/me.  Each request is split where   *)
(* it awaits a statement; a batch is one transaction and one step.         *)
(*                                                                         *)
(* A code is the identity of its challenge: digests mix the random id in,  *)
(* so a code matches no other row.  Codes are only typed once they have    *)
(* left in a mail (guessing is what the attempt limit is for), which may   *)
(* happen although the provider reports a failure.  The clock is a counter *)
(* that advances at any time.  The limits per address and per account of   *)
(* lib/rate-limit.ts may refuse any request and are left out; so is the    *)
(* deletion of an account, which removes its rows with it.                 *)
(*                                                                         *)
(* Every route first probes users for the marker's column, and reads a     *)
(* probe that throws as a schema without it: sign-up then issues no code,  *)
(* send and verify refuse, and a change of address voids nothing.  That,   *)
(* an unchanged address written over a change that overtook it, and two    *)
(* attempts on one code in the same millisecond are how an account can get *)
(* an address it has not proved; the history variable slipped, which no    *)
(* step reads, names the accounts this has happened to.                    *)
(***************************************************************************)
EXTENDS Integers, FiniteSets

CONSTANTS
    Account, Email, Request,
    Challenge,      \* bound of the model: challenges ever issued
    NoAccount, NoEmail, NoRow, NoCode,
    Ttl,            \* a code's life, in ticks
    Cooldown,       \* between two codes of one account
    Window,         \* at most MaxIssued codes of one account in a window
    MaxIssued,
    StaleAge,       \* dead rows are pruned this long after they expired
    MaxTime         \* bound of the model

ASSUME EmailVerificationAssumption ==
    /\ Ttl \in Nat /\ Cooldown \in Nat /\ Window \in Nat /\ MaxIssued \in Nat
    /\ StaleAge \in Nat /\ MaxTime \in Nat
    /\ NoAccount \notin Account /\ NoEmail \notin Email /\ NoCode \notin Challenge

Never == -1
Time == 0 .. MaxTime

Row == [account : Account, email : Email, created : Time,
        consumed : Time \cup {Never}, revoked : BOOLEAN]

ASSUME NoRowIsNoChallenge == NoRow \notin Row

Sending == {"marker", "limits", "issue", "dispatch"}
Verifying == {"find", "stamp", "consume"}
Editing == {"keep", "change"}
Pc == {"idle"} \cup Sending \cup Verifying \cup Editing

VARIABLES
    email,        \* users.email; NoEmail before the sign-up
    verified,     \* users.email_verified_at is set
    fingerprint,  \* the address of the VERIFIED_EMAIL fingerprint, or NoEmail
    row,          \* email_verification_challenges
    pruned,       \* challenges whose row has been deleted again
    delivered,    \* challenges whose code has left in a mail
    now,
    req,          \* each request: its label, session and what it holds
    slipped       \* history: accounts with an address that a slip has left unproved

vars == <<email, verified, fingerprint, row, pruned, delivered, now, req, slipped>>

IdleReq == [pc |-> "idle", account |-> NoAccount, email |-> NoEmail,
            code |-> NoCode, stamp |-> Never]

Init ==
    /\ email = [a \in Account |-> NoEmail]
    /\ verified = [a \in Account |-> FALSE]
    /\ fingerprint = [a \in Account |-> NoEmail]
    /\ row = [c \in Challenge |-> NoRow]
    /\ pruned = {} /\ delivered = {}
    /\ now = 0
    /\ req = [v \in Request |-> IdleReq]
    /\ slipped = {}

Issued(c) == row[c] # NoRow
Stored(c) == Issued(c) /\ c \notin pruned
Of(a) == {c \in Challenge : Stored(c) /\ row[c].account = a}
Outstanding(c) == row[c].consumed = Never /\ ~row[c].revoked
Live(c) == Stored(c) /\ Outstanding(c)

\* ORDER BY created_at DESC LIMIT 1: any of the latest.
MostRecent(c, a) ==
    /\ c \in Of(a)
    /\ \A d \in Of(a) : row[d].created <= row[c].created

Taken(e, a) == \E b \in Account \ {a} : email[b] = e

Done(v) == req' = [req EXCEPT ![v] = IdleReq]

\* A mutant: a session without the join on users.
Session_Unjoined(v, a, pc, e, c) ==
    /\ req[v].pc = "idle"
    /\ req' = [req EXCEPT ![v] = [@ EXCEPT !.pc = pc, !.account = a, !.email = e, !.code = c]]

\* The session user: the account and its address, read once per request.
Session(v, a, pc, e, c) ==
    /\ req[v].pc = "idle"
    /\ email[a] # NoEmail
    /\ req' = [req EXCEPT ![v] = [@ EXCEPT !.pc = pc, !.account = a, !.email = e, !.code = c]]

-----------------------------------------------------------------------------
\* Statements on the challenges.

New(a, e, t) == [account |-> a, email |-> e, created |-> t, consumed |-> Never, revoked |-> FALSE]

\* revokeOutstandingEmailVerificationChallengesStatement
Revoked(a) ==
    [c \in Challenge |->
        IF c \in Of(a) /\ Outstanding(c) THEN [row[c] EXCEPT !.revoked = TRUE] ELSE row[c]]

\* revokeEmailVerificationChallengeByIdStatement
RevokedOne(c) ==
    IF Live(c) THEN [row EXCEPT ![c].revoked = TRUE] ELSE row

\* A mutant: any row that has not expired can be consumed.
Consumable_Again(c, t) == Stored(c) /\ row[c].created + Ttl > t

Consumable(c, t) == Live(c) /\ row[c].created + Ttl > t

\* consumeEmailVerificationChallengeStatement
Consumed(c, t) ==
    IF Consumable(c, t) THEN [row EXCEPT ![c].consumed = t] ELSE row

-----------------------------------------------------------------------------
\* Sign-up: account and first code in one batch; the code is left out while
\* verification is not configured.
SignUp(v, a, e) ==
    /\ req[v].pc = "idle"
    /\ email[a] = NoEmail /\ ~Taken(e, a)
    /\ email' = [email EXCEPT ![a] = e]
    /\ \/ \E c \in Challenge :
            /\ ~Issued(c)
            /\ row' = [row EXCEPT ![c] = New(a, e, now)]
            /\ req' = [req EXCEPT ![v] = [@ EXCEPT !.pc = "dispatch", !.account = a,
                                                   !.email = e, !.code = c]]
       \/ UNCHANGED <<row, req>>
    /\ UNCHANGED <<verified, fingerprint, pruned, delivered, now, slipped>>

-----------------------------------------------------------------------------
\* POST /api/auth/email-verification/send

SendSession(v, a) ==
    /\ Session(v, a, "marker", email[a], NoCode)
    /\ UNCHANGED <<email, verified, fingerprint, row, pruned, delivered, now, slipped>>

SendMarker(v) ==
    /\ req[v].pc = "marker"
    /\ IF verified[req[v].account] THEN Done(v)
       ELSE req' = [req EXCEPT ![v].pc = "limits"]
    /\ UNCHANGED <<email, verified, fingerprint, row, pruned, delivered, now, slipped>>

CoolingDown(a) == \E c \in Challenge : MostRecent(c, a) /\ now - row[c].created < Cooldown
WindowFull(a) == Cardinality({c \in Of(a) : row[c].created >= now - Window}) >= MaxIssued

\* The instant read here is the creation time of the challenge.
SendLimits(v) ==
    /\ req[v].pc = "limits"
    /\ IF CoolingDown(req[v].account) \/ WindowFull(req[v].account) THEN Done(v)
       ELSE req' = [req EXCEPT ![v].pc = "issue", ![v].stamp = now]
    /\ UNCHANGED <<email, verified, fingerprint, row, pruned, delivered, now, slipped>>

\* A mutant: earlier codes stay outstanding.
Superseded_Kept(a) == row

Superseded(a) == Revoked(a)

SendIssue(v) ==
    /\ req[v].pc = "issue"
    /\ \E c \in Challenge :
          /\ ~Issued(c)
          /\ row' = [Superseded(req[v].account) EXCEPT
                        ![c] = New(req[v].account, req[v].email, req[v].stamp)]
          /\ req' = [req EXCEPT ![v].pc = "dispatch", ![v].code = c]
    /\ UNCHANGED <<email, verified, fingerprint, pruned, delivered, now, slipped>>

\* pruneExpiredEmailVerificationChallenges, not awaited.
Prune(c) ==
    /\ Stored(c)
    /\ row[c].created + Ttl < now - StaleAge
    /\ pruned' = pruned \cup {c}
    /\ UNCHANGED <<email, verified, fingerprint, row, delivered, now, req, slipped>>

\* dispatchEmailVerificationMessage: the mail leaves before the answer comes.
MailLeaves(v) ==
    /\ req[v].pc = "dispatch"
    /\ delivered' = delivered \cup {req[v].code}
    /\ UNCHANGED <<email, verified, fingerprint, row, pruned, now, req, slipped>>

Accepted(v) ==
    /\ req[v].pc = "dispatch"
    /\ req[v].code \in delivered
    /\ Done(v)
    /\ UNCHANGED <<email, verified, fingerprint, row, pruned, delivered, now, slipped>>

\* The provider throws: this challenge is revoked, by its id.
DeliveryFails(v) ==
    /\ req[v].pc = "dispatch"
    /\ row' = RevokedOne(req[v].code)
    /\ Done(v)
    /\ UNCHANGED <<email, verified, fingerprint, pruned, delivered, now, slipped>>

-----------------------------------------------------------------------------
\* POST /api/auth/email-verification/verify

VerifySession(v, a, c) ==
    /\ c \in delivered
    /\ Session(v, a, "find", email[a], c)
    /\ UNCHANGED <<email, verified, fingerprint, row, pruned, delivered, now, slipped>>

\* A mutant: the address the code was sent to is not compared.
Verifiable_AnyAddress(c, e) == Outstanding(c) /\ row[c].created + Ttl > now

\* classifyEmailVerificationChallenge finds no reason to reject.
Verifiable(c, e) ==
    /\ Outstanding(c)
    /\ row[c].created + Ttl > now
    /\ row[c].email = e

\* The account's most recent challenge must be good, and the code its own.
VerifyFind(v) ==
    /\ req[v].pc = "find"
    /\ \/ /\ MostRecent(req[v].code, req[v].account)
          /\ Verifiable(req[v].code, req[v].email)
          /\ req' = [req EXCEPT ![v].pc = "stamp"]
       \/ /\ Of(req[v].account) = {}
          /\ Done(v)
       \/ \E c \in Challenge :
             /\ MostRecent(c, req[v].account)
             /\ ~(c = req[v].code /\ Verifiable(c, req[v].email))
             /\ Done(v)
    /\ UNCHANGED <<email, verified, fingerprint, row, pruned, delivered, now, slipped>>

\* Date.now() of one attempt at the write.
VerifyStamp(v) ==
    /\ req[v].pc = "stamp"
    /\ req' = [req EXCEPT ![v].pc = "consume", ![v].stamp = now]
    /\ UNCHANGED <<email, verified, fingerprint, row, pruned, delivered, now, slipped>>

\* SQLITE_BUSY: the next attempt takes a new instant.
VerifyBusy(v) ==
    /\ req[v].pc = "consume"
    /\ req' = [req EXCEPT ![v].pc = "stamp", ![v].stamp = Never]
    /\ UNCHANGED <<email, verified, fingerprint, row, pruned, delivered, now, slipped>>

\* One batch: consume, then the marker and the fingerprint, each only where
\* the challenge now reads as consumed at this very instant, be it by another
\* attempt of the same millisecond.
VerifyConsume(v) ==
    LET c == req[v].code
        a == req[v].account
        e == req[v].email
        t == req[v].stamp
        hit == Stored(c) /\ Consumed(c, t)[c].consumed = t
    IN  /\ req[v].pc = "consume"
        /\ row' = Consumed(c, t)
        /\ verified' = [verified EXCEPT ![a] = @ \/ hit]
        /\ fingerprint' = [fingerprint EXCEPT ![a] = IF hit THEN e ELSE @]
        /\ slipped' = IF hit /\ ~Consumable(c, t) /\ fingerprint[a] # e
                      THEN slipped \cup {a} ELSE slipped
        /\ Done(v)
        /\ UNCHANGED <<email, pruned, delivered, now>>

-----------------------------------------------------------------------------
\* PATCH /api/auth/me: the form carries the address, changed or not.

\* Whether the address changes is decided against the session read here.
EditSession(v, a, e) ==
    /\ Session(v, a, IF email[a] = e THEN "keep" ELSE "change", e, NoCode)
    /\ UNCHANGED <<email, verified, fingerprint, row, pruned, delivered, now, slipped>>

\* A mutant: codes survive a change of address.
Voided_KeepsCodes(a) == row

Voided(a) == Revoked(a)
Unproved(a) == [fingerprint EXCEPT ![a] = NoEmail]

\* One batch.  The statements that void are left out for an address that was
\* not changed when the session was read, and where the probe throws.
EditWrite(v) ==
    LET a == req[v].account
        e == req[v].email
    IN  /\ req[v].pc \in Editing
        /\ ~Taken(e, a)
        /\ email' = [email EXCEPT ![a] = e]
        /\ \/ /\ req[v].pc = "change"
              /\ verified' = [verified EXCEPT ![a] = FALSE]
              /\ row' = Voided(a)
              /\ fingerprint' = Unproved(a)
              /\ slipped' = slipped \ {a}
           \/ /\ UNCHANGED <<verified, row, fingerprint>>
              /\ slipped' = IF email[a] # e THEN slipped \cup {a} ELSE slipped
        /\ Done(v)
        /\ UNCHANGED <<pruned, delivered, now>>

-----------------------------------------------------------------------------
\* A request is lost, refused by a rate limit, or rejected by UNIQUE(email).
Dropped(v) ==
    /\ req[v].pc # "idle"
    /\ Done(v)
    /\ UNCHANGED <<email, verified, fingerprint, row, pruned, delivered, now, slipped>>

Tick ==
    /\ now < MaxTime
    /\ now' = now + 1
    /\ UNCHANGED <<email, verified, fingerprint, row, pruned, delivered, req, slipped>>

Next ==
    \/ \E v \in Request, a \in Account :
          \/ SendSession(v, a)
          \/ \E e \in Email : SignUp(v, a, e) \/ EditSession(v, a, e)
          \/ \E c \in Challenge : VerifySession(v, a, c)
    \/ \E v \in Request :
          \/ SendMarker(v) \/ SendLimits(v) \/ SendIssue(v)
          \/ MailLeaves(v) \/ Accepted(v) \/ DeliveryFails(v)
          \/ VerifyFind(v) \/ VerifyStamp(v) \/ VerifyBusy(v) \/ VerifyConsume(v)
          \/ EditWrite(v) \/ Dropped(v)
    \/ \E c \in Challenge : Prune(c)
    \/ Tick

Spec == Init /\ [][Next]_vars

-----------------------------------------------------------------------------
Req == [pc : Pc, account : Account \cup {NoAccount}, email : Email \cup {NoEmail},
        code : Challenge \cup {NoCode}, stamp : Time \cup {Never}]

\* Every variable has the type of the column or the local variable it stands
\* for, and a request holds what its label says it has read.
TypeOK ==
    /\ email \in [Account -> Email \cup {NoEmail}]
    /\ verified \in [Account -> BOOLEAN]
    /\ fingerprint \in [Account -> Email \cup {NoEmail}]
    /\ row \in [Challenge -> Row \cup {NoRow}]
    /\ pruned \subseteq Challenge /\ delivered \subseteq Challenge
    /\ \A c \in pruned \cup delivered : Issued(c)
    /\ now \in Time
    /\ req \in [Request -> Req]
    /\ slipped \subseteq Account
    /\ \A v \in Request :
           /\ req[v].pc # "idle" => req[v].account \in Account /\ req[v].email \in Email
           /\ req[v].pc \in {"dispatch"} \cup Verifying =>
                  req[v].code \in Challenge /\ Issued(req[v].code)
           /\ req[v].pc \in {"issue", "consume"} => req[v].stamp \in Time

\* An account never has two codes outstanding, however many sends run at once
\* (send/route.ts: revoke and insert in one transaction).
OneLiveCode ==
    \A c, d \in Challenge : Live(c) /\ Live(d) /\ row[c].account = row[d].account => c = d

\* The marker and the fingerprint come and go together: verification is all
\* or nothing, whichever requests race (verify/route.ts, me/route.ts).
VerifiedIsWhole == \A a \in Account : verified[a] <=> fingerprint[a] # NoEmail

\* An account that reads as verified has proved the address it has now, and
\* not one it had before (me/route.ts, the batch of an e-mail change), unless
\* one of the three slips has happened since an address was last voided.
MarkerProvesEmail ==
    \A a \in Account \ slipped : verified[a] => fingerprint[a] = email[a]

\* A fingerprint is only ever of an address a consumed code of that account
\* was mailed to (EMAIL_CHANGED in classifyEmailVerificationChallenge).
FingerprintWasMailed ==
    \A a \in Account : fingerprint[a] # NoEmail =>
        \E c \in delivered : /\ row[c].account = a /\ row[c].email = fingerprint[a]
                             /\ row[c].consumed # Never

\* A code is used once and for all, or revoked once and for all: no later
\* verify, resend, failed delivery or edit touches it again.
SettledStays ==
    [][\A c \in Challenge : Issued(c) /\ ~Outstanding(c) => row'[c] = row[c]]_vars

\* What an account has proved, and its live codes with the address each is for.
ProvedAddress == [a \in Account |-> IF verified[a] THEN fingerprint[a] ELSE NoEmail]
LiveCodes(a) ==
    {<<c, row[c].email>> : c \in {d \in Challenge : Live(d) /\ row[d].account = a}}

\* The abstract promise: an account proves an address only by using up a live
\* code that was mailed to it while it is the account's own, and loses proof and
\* code with the address, however the requests interleave; a slip is the only
\* exception, for its account, until a change of address voids what it left.
Promise ==
    INSTANCE AddressProof WITH
        Code <- Challenge, address <- email, proved <- ProvedAddress,
        live <- [a \in Account |-> LiveCodes(a)], mailed <- delivered,
        astray <- slipped

AddressIsProved == Promise!Spec
=============================================================================
