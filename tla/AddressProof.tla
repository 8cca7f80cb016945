---------------------------- MODULE AddressProof ----------------------------
(***************************************************************************)
(* What the verification of e-mail addresses promises of an account        *)
(* (lib/email-verification.ts and its routes), without requests, clock or  *)
(* rows: an address belongs to one account; an account has at most one     *)
(* live code, which is for one address; the only step that proves an       *)
(* address uses up a live code that has left in a mail and is for the very *)
(* address the account has now; and a move to another address takes proof  *)
(* and code along.  An account may go astray, in a single step that is     *)
(* none of these; nothing is promised of its proof until it moves to       *)
(* another address properly.  EmailVerification refines this               *)
(* specification.                                                          *)
(***************************************************************************)

CONSTANTS Account, Email, Code, NoEmail

VARIABLES
    address,    \* of each account, or NoEmail
    proved,     \* the address each account has proved, or NoEmail
    live,       \* live codes of each account, each with the address it is for
    mailed,     \* codes that have left
    astray      \* accounts whose proof need not be of their address

vars == <<address, proved, live, mailed, astray>>

Init ==
    /\ address = [a \in Account |-> NoEmail]
    /\ proved = [a \in Account |-> NoEmail]
    /\ live = [a \in Account |-> {}]
    /\ mailed = {}
    /\ astray = {}

Free(e, a) == \A b \in Account \ {a} : address[b] # e

Fresh(c) == c \notin mailed /\ \A a \in Account : \A k \in live[a] : k[1] # c

\* A new code, which replaces the one before it.
Hand(a, e) ==
    \E c \in Code : Fresh(c) /\ live' = [live EXCEPT ![a] = {<<c, e>>}]

Register(a, e) ==
    /\ address[a] = NoEmail /\ Free(e, a)
    /\ address' = [address EXCEPT ![a] = e]
    /\ Hand(a, e) \/ UNCHANGED live
    /\ UNCHANGED <<proved, mailed, astray>>

\* The address is the one a request has read, no longer always the present one.
Issue(a, e) ==
    /\ address[a] # NoEmail
    /\ Hand(a, e)
    /\ UNCHANGED <<address, proved, mailed, astray>>

Mail(c) ==
    /\ mailed' = mailed \cup {c}
    /\ UNCHANGED <<address, proved, live, astray>>

\* Delivery failed, or the code was cleared away.
Void(a) ==
    /\ live' = [live EXCEPT ![a] = {}]
    /\ UNCHANGED <<address, proved, mailed, astray>>

Prove(a) ==
    /\ \E c \in mailed : <<c, address[a]>> \in live[a]
    /\ proved' = [proved EXCEPT ![a] = address[a]]
    /\ live' = [live EXCEPT ![a] = {}]
    /\ UNCHANGED <<address, mailed, astray>>

Move(a, e) ==
    /\ address[a] # NoEmail /\ Free(e, a)
    /\ address' = [address EXCEPT ![a] = e]
    /\ proved' = [proved EXCEPT ![a] = NoEmail]
    /\ live' = [live EXCEPT ![a] = {}]
    /\ astray' = astray \ {a}
    /\ UNCHANGED mailed

\* The address moves without its proof, or a proof comes without a code of its
\* own for the present address.
Slip(a) ==
    /\ address[a] # NoEmail
    /\ astray' = astray \cup {a}
    /\ \/ /\ \E e \in Email : Free(e, a) /\ address' = [address EXCEPT ![a] = e]
          /\ UNCHANGED <<proved, live>>
       \/ /\ \E e \in Email : proved' = [proved EXCEPT ![a] = e]
          /\ live' \in {live, [live EXCEPT ![a] = {}]}
          /\ UNCHANGED address
    /\ UNCHANGED mailed

Next ==
    \/ \E a \in Account :
          \/ Void(a) \/ Prove(a) \/ Slip(a)
          \/ \E e \in Email : Register(a, e) \/ Issue(a, e) \/ Move(a, e)
    \/ \E c \in Code : Mail(c)

Spec == Init /\ [][Next]_vars
=============================================================================
