--------------------------- MODULE AdmittedCorpus ---------------------------
(***************************************************************************)
(* What the admission of texts promises those who read the shared corpus   *)
(* and those whose reports are saved (lib/corpus-admission-gate.ts,        *)
(* lib/corpus-admission-report-integration.ts), without jobs, claims or    *)
(* workers: only an admissible text whose family is not active gets in; an *)
(* administrator may withdraw it and, while no other copy is active, put   *)
(* it back; it leaves only while its owner's DELETE of the report is       *)
(* running; and a report that is owed a decision keeps its room until      *)
(* there is one, or its owner deletes it.  A report that has gone may be   *)
(* saved, and be owed a decision, again.  ReportAdmission refines this     *)
(* specification.                                                          *)
(***************************************************************************)

CONSTANTS
    Report, Text,
    TextOf, FamilyOf, Admissible,
    Deletable,     \* reports their owners may remove
    Entry          \* ids of decisions

VARIABLES
    known,         \* reports that were saved at some point
    held,          \* saved reports
    owed,          \* reports that are owed a decision
    leaving,       \* reports whose owners' DELETE is running
    active,        \* accepted texts: an id and the report it came with
    withdrawn,     \* those an administrator has taken out
    refused        \* decisions against a text, likewise

reports   == <<known, held, owed, leaving>>
decisions == <<active, withdrawn, refused>>
vars      == <<reports, decisions>>

Init ==
    /\ known = {} /\ held = {} /\ owed = {} /\ leaving = {}
    /\ active = {} /\ withdrawn = {} /\ refused = {}

Decided == active \cup withdrawn \cup refused

TextIn(x) == TextOf[x[2]]

\* The decisions xs without those about s.
Without(xs, s) == {x \in xs : x[2] # s}

Hold(n) ==
    /\ known' = known \cup {n}
    /\ held' = held \cup {n}
    /\ UNCHANGED <<owed, leaving, decisions>>

\* The report is the room's next; what was accepted of the old one stays.
Replace(s, n) ==
    /\ s \in held \ owed
    /\ known' = known \cup {n}
    /\ held' = (held \ {s}) \cup {n}
    /\ refused' \in {refused, Without(refused, s)}
    /\ UNCHANGED <<owed, leaving, active, withdrawn>>

Enter(s) ==
    /\ s \in known
    /\ owed' = owed \cup {s}
    /\ UNCHANGED <<known, held, leaving, decisions>>

\* The debt ends with a decision about the report.
Settle(s) ==
    /\ \E x \in Decided : x[2] = s
    /\ owed' = owed \ {s}
    /\ UNCHANGED <<known, held, leaving, decisions>>

Refuse(s, e) ==
    /\ s \in known
    /\ \A x \in Decided : x[1] # e
    /\ refused' = refused \cup {<<e, s>>}
    /\ UNCHANGED <<reports, active, withdrawn>>

Admit(s, e) ==
    /\ s \in known
    /\ TextOf[s] \in Admissible
    /\ \A x \in active : FamilyOf[TextIn(x)] # FamilyOf[TextOf[s]]
    /\ \A x \in Decided : x[1] # e
    /\ active' = active \cup {<<e, s>>}
    /\ UNCHANGED <<reports, withdrawn, refused>>

Withdraw(x) ==
    /\ x \in active
    /\ active' = active \ {x}
    /\ withdrawn' = withdrawn \cup {x}
    /\ UNCHANGED <<reports, refused>>

Restore(x) ==
    /\ x \in withdrawn
    /\ \A y \in active : TextIn(y) # TextIn(x)
    /\ active' = active \cup {x}
    /\ withdrawn' = withdrawn \ {x}
    /\ UNCHANGED <<reports, refused>>

\* The owner's DELETE: the report goes ...
Remove(s) ==
    /\ s \in known \cap Deletable
    /\ held' = held \ {s}
    /\ leaving' = leaving \cup {s}
    /\ UNCHANGED <<known, owed, decisions>>

\* ... then it is owed nothing any more ...
Release(s) ==
    /\ s \in leaving
    /\ owed' = owed \ {s}
    /\ leaving' \in {leaving, leaving \ {s}}
    /\ UNCHANGED <<known, held, decisions>>

\* ... and then the decisions about it go.  If it was saved again meanwhile it
\* may be owed another.
Forget(s) ==
    /\ s \in leaving
    /\ active' = Without(active, s)
    /\ withdrawn' = Without(withdrawn, s)
    /\ refused' = Without(refused, s)
    /\ owed' \in {owed, owed \cup {s}}
    /\ leaving' \in {leaving, leaving \ {s}}
    /\ UNCHANGED <<known, held>>

\* A DELETE ends, or stops in the middle.
EndDelete(s) ==
    /\ s \in leaving
    /\ leaving' = leaving \ {s}
    /\ UNCHANGED <<known, held, owed, decisions>>

Next ==
    \/ \E s \in Report :
          \/ Hold(s) \/ Enter(s) \/ Settle(s)
          \/ Remove(s) \/ Release(s) \/ Forget(s) \/ EndDelete(s)
          \/ \E n \in Report : Replace(s, n)
          \/ \E e \in Entry : Admit(s, e) \/ Refuse(s, e)
    \/ \E x \in active : Withdraw(x)
    \/ \E x \in withdrawn : Restore(x)

Spec == Init /\ [][Next]_vars
=============================================================================
