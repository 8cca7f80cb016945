------------------------ MODULE MatchSnapshotProofs ------------------------
(***************************************************************************)
(* Proofs about MatchSnapshot, for every set of backings, representations  *)
(* and concurrent resolutions.  Three invariants carry them: what a row or *)
(* a resolution holds was promoted (AllPromoted), ripe (AllRipe) and       *)
(* complete (AllCovered) under the generation it is stamped with; a change *)
(* of what is promoted is a change of generation (Generations); and no     *)
(* stamp is ahead of the generation (Stamps).  So whoever read a           *)
(* generation no newer than the stamp may take the row: nothing was bumped *)
(* between its own read and the read the stamp stands for.                 *)
(***************************************************************************)
EXTENDS MatchSnapshot, TLAPS

\* What is written is a stored status, not the NONE of a running resolution.
Writing == \A c \in Caller : call[c].pc = "write" => call[c].status \in Status

Pcs == {"idle", "clock", "generation", "row", "window", "search", "fallback",
        "confirm", "classify", "write", "done"}

-----------------------------------------------------------------------------
\* The records of the resolutions keep their types.
LEMMA BecomeType ==
    ASSUME call \in [Caller -> Call], NEW c \in Caller, NEW next \in Call,
           Become(c, next)
    PROVE  /\ call' \in [Caller -> Call]
           /\ call'[c] = next
           /\ \A d \in Caller \ {c} : call'[d] = call[d]
  BY DEF Become

LEMMA IdleType == NoRow \in Row /\ Idle \in Call
<1>1. NoRow \in Row
  BY DEF NoRow, Row, Status
<1> QED
  BY <1>1 DEF Idle, Call, Status

LEMMA FoundType ==
    ASSUME NEW x \in Call, NEW p \in Pcs, NEW f \in SUBSET Rep
    PROVE  [x EXCEPT !.pc = p, !.found = f] \in Call
  BY DEF Call, Pcs

LEMMA SettleType ==
    ASSUME NEW x \in Call, NEW f \in SUBSET Rep, NEW q \in BOOLEAN, NEW st \in Status
    PROVE  /\ [x EXCEPT !.pc = "write", !.found = f, !.partial = q, !.status = st] \in Call
           /\ [x EXCEPT !.pc = "write", !.found = f, !.partial = q, !.status = st].status = st
  BY DEF Call

LEMMA ReturnType ==
    ASSUME TypeOK, NEW c \in Caller, NEW st, NEW f \in SUBSET Rep,
           NEW q \in BOOLEAN, Return(c, st, f, q)
    PROVE  /\ call' \in [Caller -> Call]
           /\ call'[c].pc = "done"
           /\ call'[c].found = Shown(f)
           /\ call'[c].status = Answer(st, f)
           /\ call'[c].partial = q
           /\ \A d \in Caller \ {c} : call'[d] = call[d]
<1> DEFINE s == Shown(f)
           a == Answer(st, f)
           next == [Idle EXCEPT !.pc = "done", !.found = s, !.status = a, !.partial = q]
<1>1. s \in SUBSET Rep
  BY DEF Shown
<1>2. a \in Status \cup {"NONE", "UNAVAILABLE"}
  BY DEF Answer, Status
<1>3. Become(c, next)
  BY DEF Return
<1> HIDE DEF s, a
<1>4. next \in Call /\ next.pc = "done" /\ next.found = s /\ next.status = a /\ next.partial = q
  BY <1>1, <1>2, IdleType DEF Call
<1> HIDE DEF next
<1>5. call' \in [Caller -> Call] /\ call'[c] = next /\ \A d \in Caller \ {c} : call'[d] = call[d]
  BY <1>3, <1>4, BecomeType DEF TypeOK
<1> QED
  BY <1>4, <1>5 DEF s, a

-----------------------------------------------------------------------------
\* What each step does to the resolution that takes it.
LEMMA StartEffect ==
    ASSUME TypeOK, NEW c \in Caller, Start(c)
    PROVE  /\ call[c].pc \in {"idle", "done"}
           /\ call' \in [Caller -> Call]
           /\ \A d \in Caller \ {c} : call'[d] = call[d]
           /\ call'[c].pc = "clock"
           /\ call'[c].flag = flag
<1> DEFINE next == [Idle EXCEPT !.pc = "clock", !.flag = flag]
<1>2. Become(c, next) /\ call[c].pc \in {"idle", "done"}
  BY DEF Start, At
<1>3. next \in Call /\ next.pc = "clock" /\ next.flag = flag
  BY IdleType DEF TypeOK, Call, Status, Idle
<1> HIDE DEF next
<1>5. call' \in [Caller -> Call] /\ call'[c] = next /\ \A d \in Caller \ {c} : call'[d] = call[d]
  BY <1>2, <1>3, BecomeType DEF TypeOK
<1> QED
  BY <1>2, <1>3, <1>5

LEMMA ReadClockEffect ==
    ASSUME TypeOK, NEW c \in Caller, ReadClock(c)
    PROVE  /\ call[c].pc = "clock"
           /\ call' \in [Caller -> Call]
           /\ \A d \in Caller \ {c} : call'[d] = call[d]
           /\ call'[c].pc = "generation"
           /\ call'[c].asOf = now
           /\ call'[c].flag = call[c].flag
           /\ call'[c].gen = call[c].gen
           /\ call'[c].row = call[c].row
           /\ call'[c].found = call[c].found
           /\ call'[c].status = call[c].status
           /\ call'[c].partial = call[c].partial
<1> DEFINE next == [call[c] EXCEPT !.pc = "generation", !.asOf = now]
<1>2. Become(c, next) /\ call[c].pc = "clock"
  BY DEF ReadClock, At
<1>3. next \in Call /\ next.pc = "generation" /\ next.asOf = now
  BY IdleType DEF TypeOK, Call, Status
<1>4. next.flag = call[c].flag /\ next.gen = call[c].gen /\ next.row = call[c].row /\ next.found = call[c].found /\ next.status = call[c].status /\ next.partial = call[c].partial
  BY IdleType DEF TypeOK, Call, Status
<1> HIDE DEF next
<1>5. call' \in [Caller -> Call] /\ call'[c] = next /\ \A d \in Caller \ {c} : call'[d] = call[d]
  BY <1>2, <1>3, BecomeType DEF TypeOK
<1> QED
  BY <1>2, <1>3, <1>4, <1>5

LEMMA ReadGenerationEffect ==
    ASSUME TypeOK, NEW c \in Caller, ReadGeneration(c)
    PROVE  /\ call[c].pc = "generation"
           /\ call' \in [Caller -> Call]
           /\ \A d \in Caller \ {c} : call'[d] = call[d]
           /\ call'[c].pc = "row"
           /\ call'[c].gen = gen
           /\ call'[c].flag = call[c].flag
           /\ call'[c].asOf = call[c].asOf
           /\ call'[c].row = call[c].row
           /\ call'[c].found = call[c].found
           /\ call'[c].status = call[c].status
           /\ call'[c].partial = call[c].partial
<1> DEFINE next == [call[c] EXCEPT !.pc = "row", !.gen = gen]
<1>2. Become(c, next) /\ call[c].pc = "generation"
  BY DEF ReadGeneration, At
<1>3. next \in Call /\ next.pc = "row" /\ next.gen = gen
  BY IdleType DEF TypeOK, Call, Status
<1>4. next.flag = call[c].flag /\ next.asOf = call[c].asOf /\ next.row = call[c].row /\ next.found = call[c].found /\ next.status = call[c].status /\ next.partial = call[c].partial
  BY IdleType DEF TypeOK, Call, Status
<1> HIDE DEF next
<1>5. call' \in [Caller -> Call] /\ call'[c] = next /\ \A d \in Caller \ {c} : call'[d] = call[d]
  BY <1>2, <1>3, BecomeType DEF TypeOK
<1> QED
  BY <1>2, <1>3, <1>4, <1>5

LEMMA SearchEffect ==
    ASSUME TypeOK, NEW c \in Caller, Search(c)
    PROVE  /\ call[c].pc = "search"
           /\ call' \in [Caller -> Call]
           /\ \A d \in Caller \ {c} : call'[d] = call[d]
           /\ call'[c].pc = "fallback"
           /\ call'[c].found = (Ordinary \cup Eligible(call[c].asOf)) \ Exact
           /\ call'[c].flag = call[c].flag
           /\ call'[c].asOf = call[c].asOf
           /\ call'[c].gen = call[c].gen
           /\ call'[c].row = call[c].row
           /\ call'[c].status = call[c].status
           /\ call'[c].partial = call[c].partial
<1> DEFINE f == (Ordinary \cup Eligible(call[c].asOf)) \ Exact
           next == [call[c] EXCEPT !.pc = "fallback", !.found = f]
<1>1. f \in SUBSET Rep
  BY SnapshotAssumption DEF Eligible, TypeOK, Call
<1>2. Become(c, next) /\ call[c].pc = "search"
  BY DEF Search, At
<1> HIDE DEF f
<1>3. next \in Call /\ next.pc = "fallback" /\ next.found = f
  BY <1>1, IdleType DEF TypeOK, Call, Status
<1>4. next.flag = call[c].flag /\ next.asOf = call[c].asOf /\ next.gen = call[c].gen /\ next.row = call[c].row /\ next.status = call[c].status /\ next.partial = call[c].partial
  BY <1>1, IdleType DEF TypeOK, Call, Status
<1> HIDE DEF next
<1>5. call' \in [Caller -> Call] /\ call'[c] = next /\ \A d \in Caller \ {c} : call'[d] = call[d]
  BY <1>2, <1>3, BecomeType DEF TypeOK
<1> QED
  BY <1>2, <1>3, <1>4, <1>5 DEF f

LEMMA SearchTimesOutEffect ==
    ASSUME TypeOK, NEW c \in Caller, SearchTimesOut(c)
    PROVE  /\ call[c].pc = "search"
           /\ call' \in [Caller -> Call]
           /\ \A d \in Caller \ {c} : call'[d] = call[d]
           /\ call'[c].pc = "classify"
           /\ call'[c].partial = TRUE
           /\ call'[c].flag = call[c].flag
           /\ call'[c].asOf = call[c].asOf
           /\ call'[c].gen = call[c].gen
           /\ call'[c].row = call[c].row
           /\ call'[c].found = {}
           /\ call'[c].status = call[c].status
<1> DEFINE next == [call[c] EXCEPT !.pc = "classify", !.found = {}, !.partial = TRUE]
<1>2. Become(c, next) /\ call[c].pc = "search"
  BY DEF SearchTimesOut, At
<1>3. next \in Call /\ next.pc = "classify" /\ next.found = {} /\ next.partial = TRUE
  BY IdleType DEF TypeOK, Call, Status
<1>4. next.flag = call[c].flag /\ next.asOf = call[c].asOf /\ next.gen = call[c].gen /\ next.row = call[c].row /\ next.status = call[c].status
  BY IdleType DEF TypeOK, Call, Status
<1> HIDE DEF next
<1>5. call' \in [Caller -> Call] /\ call'[c] = next /\ \A d \in Caller \ {c} : call'[d] = call[d]
  BY <1>2, <1>3, BecomeType DEF TypeOK
<1> QED
  BY <1>2, <1>3, <1>4, <1>5

LEMMA FallbackEffect ==
    ASSUME TypeOK, NEW c \in Caller, Fallback(c)
    PROVE  /\ call[c].pc = "fallback"
           /\ call' \in [Caller -> Call]
           /\ \A d \in Caller \ {c} : call'[d] = call[d]
           /\ call'[c].pc = "confirm"
           /\ call'[c].found = call[c].found \cup (Exact \cap (Ordinary \cup Eligible(call[c].asOf)))
           /\ call'[c].flag = call[c].flag
           /\ call'[c].asOf = call[c].asOf
           /\ call'[c].gen = call[c].gen
           /\ call'[c].row = call[c].row
           /\ call'[c].status = call[c].status
           /\ call'[c].partial = call[c].partial
<1> DEFINE f == call[c].found \cup (Exact \cap (Ordinary \cup Eligible(call[c].asOf)))
           next == [call[c] EXCEPT !.pc = "confirm", !.found = f]
<1>1. f \in SUBSET Rep
  BY SnapshotAssumption DEF Eligible, TypeOK, Call
<1>2. Become(c, next) /\ call[c].pc = "fallback"
  BY DEF Fallback, At
<1> HIDE DEF f
<1>3. next \in Call /\ next.pc = "confirm" /\ next.found = f
  BY <1>1, IdleType DEF TypeOK, Call, Status
<1>4. next.flag = call[c].flag /\ next.asOf = call[c].asOf /\ next.gen = call[c].gen /\ next.row = call[c].row /\ next.status = call[c].status /\ next.partial = call[c].partial
  BY <1>1, IdleType DEF TypeOK, Call, Status
<1> HIDE DEF next
<1>5. call' \in [Caller -> Call] /\ call'[c] = next /\ \A d \in Caller \ {c} : call'[d] = call[d]
  BY <1>2, <1>3, BecomeType DEF TypeOK
<1> QED
  BY <1>2, <1>3, <1>4, <1>5 DEF f

LEMMA ConfirmEffect ==
    ASSUME TypeOK, NEW c \in Caller, Confirm(c)
    PROVE  /\ call[c].pc = "confirm"
           /\ call' \in [Caller -> Call]
           /\ \A d \in Caller \ {c} : call'[d] = call[d]
           /\ call'[c].pc = "classify"
           /\ call'[c].found = {r \in call[c].found : r \in Exact => r \in Ordinary \cup ActivelyPromoted}
           /\ call'[c].flag = call[c].flag
           /\ call'[c].asOf = call[c].asOf
           /\ call'[c].gen = call[c].gen
           /\ call'[c].row = call[c].row
           /\ call'[c].status = call[c].status
           /\ call'[c].partial = call[c].partial
<1> DEFINE f == {r \in call[c].found : r \in Exact => r \in Ordinary \cup ActivelyPromoted}
           next == [call[c] EXCEPT !.pc = "classify", !.found = f]
<1>1. f \in SUBSET Rep
  BY SnapshotAssumption DEF Eligible, TypeOK, Call
<1>2. Become(c, next) /\ call[c].pc = "confirm"
  BY DEF Confirm, At
<1> HIDE DEF f
<1>3. next \in Call /\ next.pc = "classify" /\ next.found = f
  BY <1>1, IdleType DEF TypeOK, Call, Status
<1>4. next.flag = call[c].flag /\ next.asOf = call[c].asOf /\ next.gen = call[c].gen /\ next.row = call[c].row /\ next.status = call[c].status /\ next.partial = call[c].partial
  BY <1>1, IdleType DEF TypeOK, Call, Status
<1> HIDE DEF next
<1>5. call' \in [Caller -> Call] /\ call'[c] = next /\ \A d \in Caller \ {c} : call'[d] = call[d]
  BY <1>2, <1>3, BecomeType DEF TypeOK
<1> QED
  BY <1>2, <1>3, <1>4, <1>5 DEF f

LEMMA ComputationFailsEffect ==
    ASSUME TypeOK, NEW c \in Caller, ComputationFails(c)
    PROVE  /\ call[c].pc \in {"search", "fallback", "confirm", "classify"}
           /\ call' \in [Caller -> Call]
           /\ \A d \in Caller \ {c} : call'[d] = call[d]
           /\ call'[c].pc = "write"
           /\ call'[c].found = {}
           /\ call'[c].partial = FALSE
           /\ call'[c].status = "FAILED"
           /\ call'[c].flag = call[c].flag
           /\ call'[c].asOf = call[c].asOf
           /\ call'[c].gen = call[c].gen
           /\ call'[c].row = call[c].row
<1> DEFINE next == [call[c] EXCEPT !.pc = "write", !.found = {}, !.partial = FALSE, !.status = "FAILED"]
<1>2. Become(c, next) /\ call[c].pc \in {"search", "fallback", "confirm", "classify"}
  BY DEF ComputationFails, At
<1>3. next \in Call /\ next.pc = "write" /\ next.found = {} /\ next.partial = FALSE /\ next.status = "FAILED"
  BY IdleType DEF TypeOK, Call, Status
<1>4. next.flag = call[c].flag /\ next.asOf = call[c].asOf /\ next.gen = call[c].gen /\ next.row = call[c].row
  BY IdleType DEF TypeOK, Call, Status
<1> HIDE DEF next
<1>5. call' \in [Caller -> Call] /\ call'[c] = next /\ \A d \in Caller \ {c} : call'[d] = call[d]
  BY <1>2, <1>3, BecomeType DEF TypeOK
<1> QED
  BY <1>2, <1>3, <1>4, <1>5

LEMMA AbortEffect ==
    ASSUME TypeOK, NEW c \in Caller, Abort(c)
    PROVE  /\ call' \in [Caller -> Call]
           /\ \A d \in Caller \ {c} : call'[d] = call[d]
           /\ call'[c] = Idle /\ call'[c].pc = "idle"
  BY IdleType, BecomeType DEF Abort, TypeOK, Idle

LEMMA ReadRowEffect ==
    ASSUME TypeOK, NEW c \in Caller, ReadRow(c)
    PROVE  /\ call[c].pc = "row"
           /\ call' \in [Caller -> Call]
           /\ \A d \in Caller \ {c} : call'[d] = call[d]
           /\ call'[c].flag = call[c].flag
           /\ call'[c].asOf = call[c].asOf
           /\ call'[c].gen = call[c].gen
           /\ call'[c].found = call[c].found
           /\ call'[c].partial = call[c].partial
           /\ call'[c].status = call[c].status
           /\ \/ /\ SnapshotCurrent(row, call[c].gen)
                 /\ call'[c].pc = "window"
                 /\ call'[c].row = row
              \/ /\ call'[c].pc = "search"
                 /\ call'[c].row = call[c].row
<1> DEFINE hit == [call[c] EXCEPT !.pc = "window", !.row = row]
           miss == [call[c] EXCEPT !.pc = "search"]
<1>1. hit \in Call /\ hit.pc = "window" /\ hit.row = row
  BY DEF TypeOK, Call
<1>2. /\ hit.flag = call[c].flag /\ hit.asOf = call[c].asOf /\ hit.gen = call[c].gen
      /\ hit.found = call[c].found /\ hit.partial = call[c].partial /\ hit.status = call[c].status
  BY DEF TypeOK, Call
<1>3. miss \in Call /\ miss.pc = "search" /\ miss.row = call[c].row
  BY DEF TypeOK, Call
<1>4. /\ miss.flag = call[c].flag /\ miss.asOf = call[c].asOf /\ miss.gen = call[c].gen
      /\ miss.found = call[c].found /\ miss.partial = call[c].partial /\ miss.status = call[c].status
  BY DEF TypeOK, Call
<1>5. Become(c, IF SnapshotCurrent(row, call[c].gen) THEN hit ELSE miss) /\ call[c].pc = "row"
  BY DEF ReadRow, At
<1> HIDE DEF hit, miss
<1>6. CASE SnapshotCurrent(row, call[c].gen)
  BY <1>1, <1>2, <1>5, <1>6, BecomeType DEF TypeOK
<1>7. CASE ~SnapshotCurrent(row, call[c].gen)
  BY <1>3, <1>4, <1>5, <1>7, BecomeType DEF TypeOK
<1> QED
  BY <1>6, <1>7

LEMMA CheckWindowEffect ==
    ASSUME TypeOK, NEW c \in Caller, CheckWindow(c)
    PROVE  /\ call[c].pc = "window"
           /\ call' \in [Caller -> Call]
           /\ \A d \in Caller \ {c} : call'[d] = call[d]
           /\ \/ /\ call'[c].pc = "search"
                 /\ call'[c].flag = call[c].flag
                 /\ call'[c].asOf = call[c].asOf
                 /\ call'[c].gen = call[c].gen
                 /\ call'[c].found = call[c].found
                 /\ call'[c].partial = call[c].partial
                 /\ call'[c].status = call[c].status
              \/ /\ ~BackingMatured(call[c].row.asOf, call[c].asOf)
                 /\ call'[c].pc = "done"
                 /\ call'[c].found = Shown(call[c].row.found)
                 /\ call'[c].status = Answer(call[c].row.status, call[c].row.found)
                 /\ call'[c].partial = call[c].row.partial
<1> DEFINE next == [call[c] EXCEPT !.pc = "search", !.row = NoRow]
<1>1. next \in Call /\ next.pc = "search"
  BY IdleType DEF TypeOK, Call
<1>2. /\ next.flag = call[c].flag /\ next.asOf = call[c].asOf /\ next.gen = call[c].gen
      /\ next.found = call[c].found /\ next.partial = call[c].partial /\ next.status = call[c].status
  BY IdleType DEF TypeOK, Call
<1>3. call[c].pc = "window" /\ call[c].row \in Row
  BY DEF CheckWindow, At, TypeOK, Call
<1>4. CASE BackingMatured(call[c].row.asOf, call[c].asOf)
  <2>1. Become(c, next)
    BY <1>4 DEF CheckWindow
  <2> HIDE DEF next
  <2> QED
    BY <2>1, <1>1, <1>2, <1>3, BecomeType DEF TypeOK
<1>5. CASE ~BackingMatured(call[c].row.asOf, call[c].asOf)
  <2>1. Return(c, call[c].row.status, call[c].row.found, call[c].row.partial)
    BY <1>5 DEF CheckWindow
  <2>2. call[c].row.found \in SUBSET Rep /\ call[c].row.partial \in BOOLEAN
    BY <1>3 DEF Row
  <2> QED
    BY <2>1, <2>2, <1>3, <1>5, ReturnType
<1> QED
  BY <1>4, <1>5

LEMMA ClassifyEffect ==
    ASSUME TypeOK, NEW c \in Caller, Classify(c)
    PROVE  /\ call[c].pc = "classify"
           /\ call' \in [Caller -> Call]
           /\ \A d \in Caller \ {c} : call'[d] = call[d]
           /\ call'[c].pc = "write"
           /\ call'[c].flag = call[c].flag
           /\ call'[c].asOf = call[c].asOf
           /\ call'[c].gen = call[c].gen
           /\ call'[c].row = call[c].row
           /\ call'[c].found \subseteq call[c].found
           /\ call'[c].status \in Status
           /\ ~call'[c].partial => ~call[c].partial
           /\ ~call'[c].partial /\ call[c].flag => call'[c].found = call[c].found
           /\ ~call'[c].partial /\ ~call[c].flag => call'[c].found = call[c].found \cap Ordinary
           /\ call'[c].status \in {"MATCHED", "NO_MATCH", "DISABLED"}
           /\ call'[c].status = "DISABLED" => ~call[c].flag /\ call'[c].found = {}
           /\ ~call'[c].partial /\ ~call[c].flag /\ Ordinary = {} => call'[c].status = "DISABLED"
<1>1. PICK reached \in SUBSET call[c].found :
        LET kept == IF call[c].flag THEN reached ELSE reached \cap Ordinary
            partial == call[c].partial \/ reached # call[c].found
        IN Become(c, [call[c] EXCEPT
              !.pc = "write", !.found = kept, !.partial = partial,
              !.status = IF kept # {} THEN "MATCHED"
                         ELSE NoMatchStatus(call[c].flag, partial)])
  BY DEF Classify
<1> DEFINE kept == IF call[c].flag THEN reached ELSE reached \cap Ordinary
           partial == call[c].partial \/ reached # call[c].found
           status == IF kept # {} THEN "MATCHED" ELSE NoMatchStatus(call[c].flag, partial)
           next == [call[c] EXCEPT !.pc = "write", !.found = kept, !.partial = partial, !.status = status]
<1>2. Become(c, next) /\ call[c].pc = "classify" /\ call[c] \in Call
  BY <1>1 DEF Classify, At, TypeOK
<1>3. kept \in SUBSET Rep /\ partial \in BOOLEAN /\ status \in Status
  BY <1>2 DEF Call, Status, NoMatchStatus
<1>4. /\ kept \subseteq call[c].found
      /\ ~partial => ~call[c].partial
      /\ ~partial /\ call[c].flag => kept = call[c].found
      /\ ~partial /\ ~call[c].flag => kept = call[c].found \cap Ordinary
  OBVIOUS
<1>5. /\ status \in {"MATCHED", "NO_MATCH", "DISABLED"}
      /\ status = "DISABLED" => ~call[c].flag /\ kept = {}
      /\ ~partial /\ ~call[c].flag /\ Ordinary = {} => status = "DISABLED"
  BY DEF NoMatchStatus
<1> HIDE DEF kept, partial, status
<1>6. /\ next \in Call /\ next.pc = "write" /\ next.found = kept
      /\ next.partial = partial /\ next.status = status
  BY <1>2, <1>3 DEF Call
<1>7. next.flag = call[c].flag /\ next.asOf = call[c].asOf /\ next.gen = call[c].gen /\ next.row = call[c].row
  BY <1>2, <1>3 DEF Call
<1> HIDE DEF next
<1>8. call' \in [Caller -> Call] /\ call'[c] = next /\ \A d \in Caller \ {c} : call'[d] = call[d]
  BY <1>2, <1>6, BecomeType DEF TypeOK
<1> QED
  BY <1>2, <1>3, <1>4, <1>5, <1>6, <1>7, <1>8

LEMMA WriteEffect ==
    ASSUME TypeOK, NEW c \in Caller, Write(c)
    PROVE  /\ call[c].pc = "write"
           /\ call' \in [Caller -> Call]
           /\ \A d \in Caller \ {c} : call'[d] = call[d]
           /\ call'[c].pc = "done"
           /\ call'[c].found = Shown(call[c].found)
           /\ call'[c].status = Answer(call[c].status, call[c].found)
           /\ call'[c].partial = call[c].partial
           /\ row'.status = call[c].status
           /\ row'.found = call[c].found
           /\ row'.gen = call[c].gen
           /\ row'.asOf = call[c].asOf
           /\ row'.partial = call[c].partial
           /\ call[c].status \in Status => row' \in Row
<1>1. call[c] \in Call /\ Return(c, call[c].status, call[c].found, call[c].partial) /\ call[c].pc = "write"
  BY DEF Write, At, TypeOK
<1>2. call[c].found \in SUBSET Rep /\ call[c].partial \in BOOLEAN /\ call[c].gen \in Nat /\ call[c].asOf \in Nat
  BY <1>1 DEF Call
<1>3. row' = [status |-> call[c].status, found |-> call[c].found, gen |-> call[c].gen,
              asOf |-> call[c].asOf, partial |-> call[c].partial]
  BY DEF Write
<1>4. call[c].status \in Status => row' \in Row
  BY <1>2, <1>3 DEF Row
<1> QED
  BY <1>1, <1>2, <1>3, <1>4, ReturnType

-----------------------------------------------------------------------------
\* Type correctness.
LEMMA TypeStep == TypeOK /\ Writing /\ [Next]_vars => TypeOK' /\ Writing'
<1> SUFFICES ASSUME TypeOK, Writing, [Next]_vars PROVE TypeOK' /\ Writing'
  OBVIOUS
<1> USE SnapshotAssumption DEF TypeOK, corpus
<1>h. Observe => through' \in [Caller -> SUBSET Rep] /\ seen' \in [Caller -> SUBSET Rep]
  BY DEF Observe, Visible, Aged, ActivelyPromoted
<1>r. ASSUME UNCHANGED corpus, row' \in Row, Observe, call' \in [Caller -> Call],
             NEW c \in Caller, \A d \in Caller \ {c} : call'[d] = call[d],
             call'[c].pc = "write" => call'[c].status \in Status
      PROVE  TypeOK' /\ Writing'
  BY <1>r, <1>h DEF Writing
<1>1. ASSUME NEW c \in Caller, Start(c) PROVE TypeOK' /\ Writing'
  BY <1>1, <1>r, StartEffect DEF Start
<1>2. ASSUME NEW c \in Caller, ReadClock(c) PROVE TypeOK' /\ Writing'
  BY <1>2, <1>r, ReadClockEffect DEF ReadClock
<1>3. ASSUME NEW c \in Caller, ReadGeneration(c) PROVE TypeOK' /\ Writing'
  BY <1>3, <1>r, ReadGenerationEffect DEF ReadGeneration
<1>4. ASSUME NEW c \in Caller, ReadRow(c) PROVE TypeOK' /\ Writing'
  BY <1>4, <1>r, ReadRowEffect DEF ReadRow
<1>5. ASSUME NEW c \in Caller, CheckWindow(c) PROVE TypeOK' /\ Writing'
  BY <1>5, <1>r, CheckWindowEffect DEF CheckWindow
<1>6. ASSUME NEW c \in Caller, Search(c) PROVE TypeOK' /\ Writing'
  BY <1>6, <1>r, SearchEffect DEF Search
<1>7. ASSUME NEW c \in Caller, SearchTimesOut(c) PROVE TypeOK' /\ Writing'
  BY <1>7, <1>r, SearchTimesOutEffect DEF SearchTimesOut
<1>8. ASSUME NEW c \in Caller, Fallback(c) PROVE TypeOK' /\ Writing'
  BY <1>8, <1>r, FallbackEffect DEF Fallback
<1>9. ASSUME NEW c \in Caller, Confirm(c) PROVE TypeOK' /\ Writing'
  BY <1>9, <1>r, ConfirmEffect DEF Confirm
<1>10. ASSUME NEW c \in Caller, Classify(c) PROVE TypeOK' /\ Writing'
  BY <1>10, <1>r, ClassifyEffect DEF Classify
<1>11. ASSUME NEW c \in Caller, ComputationFails(c) PROVE TypeOK' /\ Writing'
  BY <1>11, <1>r, ComputationFailsEffect DEF ComputationFails, Status
<1>12. ASSUME NEW c \in Caller, Write(c) PROVE TypeOK' /\ Writing'
  BY <1>12, <1>r, WriteEffect DEF Writing, Write
<1>13. ASSUME NEW c \in Caller, Abort(c) PROVE TypeOK' /\ Writing'
  BY <1>13, <1>r, AbortEffect DEF Abort
<1>14. CASE Tick
  BY <1>14, <1>h DEF Tick, Writing
<1>15. CASE SetFlag
  BY <1>15, <1>h DEF SetFlag, Writing
<1>16. CASE DropSnapshot
  BY <1>16, <1>h, IdleType DEF DropSnapshot, Writing
<1>17. ASSUME NEW b \in Backing, Change(b) PROVE TypeOK' /\ Writing'
  BY <1>17, <1>h, IdleType DEF Change, Accept, Index, Deactivate, Reactivate, Exempt, Writing
<1>18. CASE UNCHANGED vars
  BY <1>18 DEF vars, Writing
<1> QED
  BY <1>1, <1>2, <1>3, <1>4, <1>5, <1>6, <1>7, <1>8, <1>9, <1>10, <1>11,
     <1>12, <1>13, <1>14, <1>15, <1>16, <1>17, <1>18 DEF Next, Resolve

LEMMA InitType == Init => TypeOK /\ Writing
  BY IdleType, SnapshotAssumption DEF Init, TypeOK, Writing, Idle, Never

\* The rows and the resolutions hold only what the code writes.
THEOREM TypeCorrect == Spec => []TypeOK
<1>1. Spec => [](TypeOK /\ Writing)
  BY InitType, TypeStep, PTL DEF Spec
<1> QED
  BY <1>1, PTL

-----------------------------------------------------------------------------
\* How a step of the system looks to the resolutions under way.

\* A resolution past its read of the generation; one that holds a result.
Reading(c) == call[c].pc \in {"row", "window", "search", "fallback", "confirm", "classify", "write"}
Holding(c) == call[c].pc \in {"fallback", "confirm", "classify", "write"}

LEMMA ObserveFacts ==
    ASSUME Observe, NEW c \in Caller
    PROVE  /\ Running(c) /\ call'[c].pc # "idle" =>
                  through'[c] = through[c] \cap Visible' /\ seen'[c] = seen[c] \cup ActivelyPromoted'
           /\ ~Running(c) /\ call'[c].pc \in {"idle", "done"} =>
                  through'[c] = through[c] /\ seen'[c] = seen[c]
           /\ ~Running(c) /\ call'[c].pc \notin {"idle", "done"} =>
                  through'[c] = Visible' /\ seen'[c] = ActivelyPromoted'
  BY DEF Observe, Running, Idle

LEMMA StepObserves == Next => Observe
  BY DEF Next, Resolve, Change, Start, ReadClock, ReadGeneration, ReadRow,
         CheckWindow, Search, SearchTimesOut, Fallback, Confirm, Classify,
         ComputationFails, Write, Abort, Tick, SetFlag, DropSnapshot, Accept,
         Index, Deactivate, Reactivate, Exempt

\* The resolutions leave the corpus alone, the rest of the system the calls.
LEMMA ResolveKeepsCorpus == \A c \in Caller : Resolve(c) => UNCHANGED corpus
  BY DEF Resolve, Start, ReadClock, ReadGeneration, ReadRow, CheckWindow, Search,
         SearchTimesOut, Fallback, Confirm, Classify, ComputationFails, Write, Abort

World == Tick \/ SetFlag \/ DropSnapshot \/ \E b \in Backing : Change(b)

LEMMA WorldKeepsCalls == World => call' = call /\ (row' = row \/ row' = NoRow)
  BY DEF World, Tick, SetFlag, DropSnapshot, Change, Accept, Index, Deactivate,
         Reactivate, Exempt, corpus

LEMMA NextIs == Next => World \/ \E c \in Caller : Resolve(c)
  BY DEF Next, World

\* A change of what is actively promoted is a change of generation.
LEMMA Generations ==
    ASSUME TypeOK, Next
    PROVE  gen' >= gen /\ (gen' = gen => ActivelyPromoted' = ActivelyPromoted)
<1>1. ASSUME NEW c \in Caller, Resolve(c) PROVE gen' >= gen /\ (gen' = gen => ActivelyPromoted' = ActivelyPromoted)
  BY <1>1, ResolveKeepsCorpus DEF corpus, TypeOK, ActivelyPromoted, Live
<1>2. CASE Tick \/ SetFlag \/ DropSnapshot
  BY <1>2 DEF Tick, SetFlag, DropSnapshot, corpus, TypeOK, ActivelyPromoted, Live
<1>3. ASSUME NEW b \in Backing, Change(b) PROVE gen' >= gen /\ (gen' = gen => ActivelyPromoted' = ActivelyPromoted)
  <2>1. gen' >= gen /\ (gen' = gen => \A x \in Backing : Live(x)' <=> Live(x))
    BY <1>3 DEF Change, Accept, Index, Deactivate, Reactivate, Exempt, TypeOK, Live
  <2> QED
    BY <2>1 DEF ActivelyPromoted
<1> QED
  BY <1>1, <1>2, <1>3 DEF Next

\* The clock does not go back.
LEMMA Clock == ASSUME TypeOK, Next PROVE now' >= now
<1>1. ASSUME NEW c \in Caller, Resolve(c) PROVE now' >= now
  BY <1>1, ResolveKeepsCorpus DEF corpus, TypeOK
<1>2. CASE World
  BY <1>2 DEF World, Tick, SetFlag, DropSnapshot, Change, Accept, Index,
              Deactivate, Reactivate, Exempt, corpus, TypeOK
<1> QED
  BY <1>1, <1>2, NextIs

\* Whoever runs after a step ran before it with the flag, the clock and the
\* generation it has, or is just starting or reading the generation.
LEMMA ReadingStep ==
    ASSUME TypeOK, Next, NEW c \in Caller
    PROVE  /\ Running(c)' => \/ Running(c) /\ call'[c].flag = call[c].flag
                             \/ ~Running(c) /\ call'[c].pc = "clock" /\ call'[c].flag = flag /\ flag' = flag
           /\ Reading(c)' => /\ Running(c) /\ call'[c].asOf = call[c].asOf
                             /\ \/ Reading(c) /\ call'[c].gen = call[c].gen
                                \/ /\ call[c].pc = "generation"
                                   /\ call'[c].gen = gen /\ gen' = gen
           /\ call'[c].pc = "generation" =>
                  \/ call[c].pc = "generation" /\ call'[c].asOf = call[c].asOf
                  \/ call[c].pc = "clock" /\ call'[c].asOf = now /\ now' = now
           /\ call'[c].pc = "idle" \/ ~Running(c) \/ Running(c)' \/ call'[c].pc = "done"
<1> DEFINE Goal ==
           /\ Running(c)' => \/ Running(c) /\ call'[c].flag = call[c].flag
                             \/ ~Running(c) /\ call'[c].pc = "clock" /\ call'[c].flag = flag /\ flag' = flag
           /\ Reading(c)' => /\ Running(c) /\ call'[c].asOf = call[c].asOf
                             /\ \/ Reading(c) /\ call'[c].gen = call[c].gen
                                \/ /\ call[c].pc = "generation"
                                   /\ call'[c].gen = gen /\ gen' = gen
           /\ call'[c].pc = "generation" =>
                  \/ call[c].pc = "generation" /\ call'[c].asOf = call[c].asOf
                  \/ call[c].pc = "clock" /\ call'[c].asOf = now /\ now' = now
           /\ call'[c].pc = "idle" \/ ~Running(c) \/ Running(c)' \/ call'[c].pc = "done"
<1> USE DEF Running, Reading
<1>0. call'[c] = call[c] => Goal
  OBVIOUS
<1>1. ASSUME NEW x \in Caller, Start(x) PROVE Goal
  BY <1>1, <1>0, StartEffect DEF Start, corpus
<1>2. ASSUME NEW x \in Caller, ReadClock(x) PROVE Goal
  BY <1>2, <1>0, ReadClockEffect DEF ReadClock, corpus
<1>3. ASSUME NEW x \in Caller, ReadGeneration(x) PROVE Goal
  BY <1>3, <1>0, ReadGenerationEffect DEF ReadGeneration, corpus
<1>4. ASSUME NEW x \in Caller, ReadRow(x) PROVE Goal
  BY <1>4, <1>0, ReadRowEffect DEF ReadRow, corpus
<1>5. ASSUME NEW x \in Caller, CheckWindow(x) PROVE Goal
  BY <1>5, <1>0, CheckWindowEffect DEF CheckWindow, corpus
<1>6. ASSUME NEW x \in Caller, Search(x) PROVE Goal
  BY <1>6, <1>0, SearchEffect DEF Search, corpus
<1>7. ASSUME NEW x \in Caller, SearchTimesOut(x) PROVE Goal
  BY <1>7, <1>0, SearchTimesOutEffect DEF SearchTimesOut, corpus
<1>8. ASSUME NEW x \in Caller, Fallback(x) PROVE Goal
  BY <1>8, <1>0, FallbackEffect DEF Fallback, corpus
<1>9. ASSUME NEW x \in Caller, Confirm(x) PROVE Goal
  BY <1>9, <1>0, ConfirmEffect DEF Confirm, corpus
<1>10. ASSUME NEW x \in Caller, Classify(x) PROVE Goal
  BY <1>10, <1>0, ClassifyEffect DEF Classify, corpus
<1>11. ASSUME NEW x \in Caller, ComputationFails(x) PROVE Goal
  BY <1>11, <1>0, ComputationFailsEffect DEF ComputationFails, corpus
<1>12. ASSUME NEW x \in Caller, Write(x) PROVE Goal
  BY <1>12, <1>0, WriteEffect DEF Write, corpus
<1>13. ASSUME NEW x \in Caller, Abort(x) PROVE Goal
  BY <1>13, <1>0, AbortEffect DEF Abort, corpus
<1>14. CASE World
  BY <1>14, <1>0, WorldKeepsCalls
<1> QED
  BY <1>1, <1>2, <1>3, <1>4, <1>5, <1>6, <1>7, <1>8, <1>9, <1>10, <1>11,
     <1>12, <1>13, <1>14, NextIs DEF Resolve

\* A row is held at the window check only by who has just read it.
LEMMA WindowStep ==
    ASSUME TypeOK, Next, NEW c \in Caller, call'[c].pc = "window"
    PROVE  call'[c] = call[c] \/ ReadRow(c)
<1>1. ASSUME NEW x \in Caller, Start(x) PROVE call'[c] = call[c] \/ ReadRow(c)
  BY <1>1, StartEffect
<1>2. ASSUME NEW x \in Caller, ReadClock(x) PROVE call'[c] = call[c] \/ ReadRow(c)
  BY <1>2, ReadClockEffect
<1>3. ASSUME NEW x \in Caller, ReadGeneration(x) PROVE call'[c] = call[c] \/ ReadRow(c)
  BY <1>3, ReadGenerationEffect
<1>4. ASSUME NEW x \in Caller, ReadRow(x) PROVE call'[c] = call[c] \/ ReadRow(c)
  BY <1>4, ReadRowEffect
<1>5. ASSUME NEW x \in Caller, CheckWindow(x) PROVE call'[c] = call[c] \/ ReadRow(c)
  BY <1>5, CheckWindowEffect
<1>6. ASSUME NEW x \in Caller, Search(x) PROVE call'[c] = call[c] \/ ReadRow(c)
  BY <1>6, SearchEffect
<1>7. ASSUME NEW x \in Caller, SearchTimesOut(x) PROVE call'[c] = call[c] \/ ReadRow(c)
  BY <1>7, SearchTimesOutEffect
<1>8. ASSUME NEW x \in Caller, Fallback(x) PROVE call'[c] = call[c] \/ ReadRow(c)
  BY <1>8, FallbackEffect
<1>9. ASSUME NEW x \in Caller, Confirm(x) PROVE call'[c] = call[c] \/ ReadRow(c)
  BY <1>9, ConfirmEffect
<1>10. ASSUME NEW x \in Caller, Classify(x) PROVE call'[c] = call[c] \/ ReadRow(c)
  BY <1>10, ClassifyEffect
<1>11. ASSUME NEW x \in Caller, ComputationFails(x) PROVE call'[c] = call[c] \/ ReadRow(c)
  BY <1>11, ComputationFailsEffect
<1>12. ASSUME NEW x \in Caller, Write(x) PROVE call'[c] = call[c] \/ ReadRow(c)
  BY <1>12, WriteEffect
<1>13. ASSUME NEW x \in Caller, Abort(x) PROVE call'[c] = call[c] \/ ReadRow(c)
  BY <1>13, AbortEffect
<1>14. CASE World
  BY <1>14, WorldKeepsCalls
<1> QED
  BY <1>1, <1>2, <1>3, <1>4, <1>5, <1>6, <1>7, <1>8, <1>9, <1>10, <1>11,
     <1>12, <1>13, <1>14, NextIs DEF Resolve

\* An answer is one given before, the row held at the window check, or what is
\* written.
LEMMA DoneStep ==
    ASSUME TypeOK, Next, NEW c \in Caller, call'[c].pc = "done"
    PROVE  \/ call'[c] = call[c]
           \/ /\ CheckWindow(c) /\ call[c].pc = "window"
              /\ ~BackingMatured(call[c].row.asOf, call[c].asOf)
              /\ call'[c].found = Shown(call[c].row.found)
              /\ call'[c].status = Answer(call[c].row.status, call[c].row.found)
              /\ call'[c].partial = call[c].row.partial
           \/ /\ Write(c) /\ call[c].pc = "write"
              /\ call'[c].found = Shown(call[c].found)
              /\ call'[c].status = Answer(call[c].status, call[c].found)
              /\ call'[c].partial = call[c].partial
<1> DEFINE Goal ==
           \/ call'[c] = call[c]
           \/ /\ CheckWindow(c) /\ call[c].pc = "window"
              /\ ~BackingMatured(call[c].row.asOf, call[c].asOf)
              /\ call'[c].found = Shown(call[c].row.found)
              /\ call'[c].status = Answer(call[c].row.status, call[c].row.found)
              /\ call'[c].partial = call[c].row.partial
           \/ /\ Write(c) /\ call[c].pc = "write"
              /\ call'[c].found = Shown(call[c].found)
              /\ call'[c].status = Answer(call[c].status, call[c].found)
              /\ call'[c].partial = call[c].partial
<1>1. ASSUME NEW x \in Caller, Start(x) PROVE Goal
  BY <1>1, StartEffect
<1>2. ASSUME NEW x \in Caller, ReadClock(x) PROVE Goal
  BY <1>2, ReadClockEffect
<1>3. ASSUME NEW x \in Caller, ReadGeneration(x) PROVE Goal
  BY <1>3, ReadGenerationEffect
<1>4. ASSUME NEW x \in Caller, ReadRow(x) PROVE Goal
  BY <1>4, ReadRowEffect
<1>5. ASSUME NEW x \in Caller, CheckWindow(x) PROVE Goal
  BY <1>5, CheckWindowEffect
<1>6. ASSUME NEW x \in Caller, Search(x) PROVE Goal
  BY <1>6, SearchEffect
<1>7. ASSUME NEW x \in Caller, SearchTimesOut(x) PROVE Goal
  BY <1>7, SearchTimesOutEffect
<1>8. ASSUME NEW x \in Caller, Fallback(x) PROVE Goal
  BY <1>8, FallbackEffect
<1>9. ASSUME NEW x \in Caller, Confirm(x) PROVE Goal
  BY <1>9, ConfirmEffect
<1>10. ASSUME NEW x \in Caller, Classify(x) PROVE Goal
  BY <1>10, ClassifyEffect
<1>11. ASSUME NEW x \in Caller, ComputationFails(x) PROVE Goal
  BY <1>11, ComputationFailsEffect
<1>12. ASSUME NEW x \in Caller, Write(x) PROVE Goal
  BY <1>12, WriteEffect
<1>13. ASSUME NEW x \in Caller, Abort(x) PROVE Goal
  BY <1>13, AbortEffect
<1>14. CASE World
  BY <1>14, WorldKeepsCalls
<1> QED
  BY <1>1, <1>2, <1>3, <1>4, <1>5, <1>6, <1>7, <1>8, <1>9, <1>10, <1>11,
     <1>12, <1>13, <1>14, NextIs DEF Resolve

\* What a resolution holds was found by it, or is part of what it held.
LEMMA HoldingStep ==
    ASSUME TypeOK, Next, NEW c \in Caller, Holding(c)'
    PROVE  \/ call'[c] = call[c]
           \/ Search(c)
           \/ Fallback(c)
           \/ Holding(c) /\ call'[c].gen = call[c].gen /\ call'[c].found \subseteq call[c].found
           \/ call'[c].found = {}
<1> DEFINE Goal ==
           \/ call'[c] = call[c]
           \/ Search(c)
           \/ Fallback(c)
           \/ Holding(c) /\ call'[c].gen = call[c].gen /\ call'[c].found \subseteq call[c].found
           \/ call'[c].found = {}
<1> USE DEF Holding
<1>1. ASSUME NEW x \in Caller, Start(x) PROVE Goal
  BY <1>1, StartEffect
<1>2. ASSUME NEW x \in Caller, ReadClock(x) PROVE Goal
  BY <1>2, ReadClockEffect
<1>3. ASSUME NEW x \in Caller, ReadGeneration(x) PROVE Goal
  BY <1>3, ReadGenerationEffect
<1>4. ASSUME NEW x \in Caller, ReadRow(x) PROVE Goal
  BY <1>4, ReadRowEffect
<1>5. ASSUME NEW x \in Caller, CheckWindow(x) PROVE Goal
  BY <1>5, CheckWindowEffect
<1>6. ASSUME NEW x \in Caller, Search(x) PROVE Goal
  BY <1>6, SearchEffect
<1>7. ASSUME NEW x \in Caller, SearchTimesOut(x) PROVE Goal
  BY <1>7, SearchTimesOutEffect
<1>8. ASSUME NEW x \in Caller, Fallback(x) PROVE Goal
  BY <1>8, FallbackEffect
<1>9. ASSUME NEW x \in Caller, Confirm(x) PROVE Goal
  BY <1>9, ConfirmEffect
<1>10. ASSUME NEW x \in Caller, Classify(x) PROVE Goal
  BY <1>10, ClassifyEffect
<1>11. ASSUME NEW x \in Caller, ComputationFails(x) PROVE Goal
  BY <1>11, ComputationFailsEffect
<1>12. ASSUME NEW x \in Caller, Write(x) PROVE Goal
  BY <1>12, WriteEffect
<1>13. ASSUME NEW x \in Caller, Abort(x) PROVE Goal
  BY <1>13, AbortEffect
<1>14. CASE World
  BY <1>14, WorldKeepsCalls
<1> QED
  BY <1>1, <1>2, <1>3, <1>4, <1>5, <1>6, <1>7, <1>8, <1>9, <1>10, <1>11,
     <1>12, <1>13, <1>14, NextIs DEF Resolve

\* The row is overwritten by a write only.
LEMMA RowStep ==
    ASSUME TypeOK, Next
    PROVE  row' = row \/ row' = NoRow \/ \E c \in Caller : Write(c)
  BY NextIs, WorldKeepsCalls DEF Resolve, Start, ReadClock, ReadGeneration, ReadRow,
     CheckWindow, Search, SearchTimesOut, Fallback, Confirm, Classify, ComputationFails, Abort

-----------------------------------------------------------------------------
\* Stamps. No stamp is ahead of the generation, no clock ahead of the time.
Stamps ==
    /\ row.gen <= gen /\ row.asOf <= now
    /\ \A c \in Caller : Reading(c) => call[c].gen <= gen
    /\ \A c \in Caller : Reading(c) \/ call[c].pc = "generation" => call[c].asOf <= now
    /\ \A c \in Caller : call[c].pc = "window" => call[c].row.asOf <= now

LEMMA StampsStep ==
    ASSUME TypeOK, TypeOK', Stamps, Next
    PROVE  Stamps'
<1>1. \A c \in Caller :
         /\ Reading(c)' => call'[c].gen <= gen'
         /\ Reading(c)' \/ call'[c].pc = "generation" => call'[c].asOf <= now'
  BY ReadingStep, Generations, Clock DEF Stamps, TypeOK, Call, Reading
<1>2. row'.gen <= gen' /\ row'.asOf <= now'
  <2>1. row' = row \/ row' = NoRow \/ \E c \in Caller : Write(c)
    BY RowStep
  <2>2. CASE row' = row
    BY <2>2, Generations, Clock DEF Stamps, TypeOK, Row
  <2>3. CASE row' = NoRow
    BY <2>3 DEF NoRow, TypeOK
  <2>4. ASSUME NEW c \in Caller, Write(c) PROVE row'.gen <= gen' /\ row'.asOf <= now'
    BY <2>4, WriteEffect DEF Stamps, Reading, Write, corpus
  <2> QED
    BY <2>1, <2>2, <2>3, <2>4
<1>3. \A c \in Caller : call'[c].pc = "window" => call'[c].row.asOf <= now'
  <2> SUFFICES ASSUME NEW c \in Caller, call'[c].pc = "window" PROVE call'[c].row.asOf <= now'
    OBVIOUS
  <2>1. CASE call'[c] = call[c]
    BY <2>1, Clock DEF Stamps, TypeOK, Call, Row
  <2>2. CASE ReadRow(c)
    BY <2>2, ReadRowEffect DEF Stamps, ReadRow, corpus
  <2> QED
    BY <2>1, <2>2, WindowStep
<1> QED
  BY <1>1, <1>2, <1>3 DEF Stamps, Reading

-----------------------------------------------------------------------------
\* No withdrawn match. What was found under the generation g is promoted as
\* long as no bump follows, and was promoted during every resolution that may
\* reuse it.
Promoted(g, f) ==
    /\ g = gen => f \subseteq Ordinary \cup ActivelyPromoted
    /\ \A c \in Caller :
          Reading(c) /\ g >= call[c].gen => f \subseteq Ordinary \cup seen[c]

AllPromoted ==
    /\ Promoted(row.gen, row.found)
    /\ \A c \in Caller : Holding(c) => Promoted(call[c].gen, call[c].found)
    /\ \A c \in Caller :
          call[c].pc = "window" => call[c].row.found \subseteq Ordinary \cup seen[c]

LEMMA SeenGrows ==
    ASSUME TypeOK, Next, NEW c \in Caller, Running(c), call'[c].pc # "idle"
    PROVE  seen[c] \subseteq seen'[c] /\ ActivelyPromoted' \subseteq seen'[c]
  BY StepObserves, ObserveFacts

LEMMA PromotedStep ==
    ASSUME TypeOK, Next, NEW g \in Nat, g <= gen, NEW f, Promoted(g, f)
    PROVE  /\ g = gen' => f \subseteq Ordinary \cup ActivelyPromoted'
           /\ \A c \in Caller :
                 Reading(c)' /\ g >= call'[c].gen => f \subseteq Ordinary \cup seen'[c]
<1>1. g = gen' => f \subseteq Ordinary \cup ActivelyPromoted'
  BY Generations DEF Promoted, TypeOK
<1>2. ASSUME NEW c \in Caller, Reading(c)', g >= call'[c].gen
      PROVE  f \subseteq Ordinary \cup seen'[c]
  <2>1. seen[c] \subseteq seen'[c] /\ ActivelyPromoted' \subseteq seen'[c]
    BY <1>2, ReadingStep, SeenGrows DEF Reading
  <2>2. CASE Reading(c) /\ call'[c].gen = call[c].gen
    BY <1>2, <2>1, <2>2 DEF Promoted
  <2>3. CASE call'[c].gen = gen /\ gen' = gen
    BY <1>1, <1>2, <2>1, <2>3 DEF TypeOK
  <2> QED
    BY <1>2, <2>2, <2>3, ReadingStep
<1> QED
  BY <1>1, <1>2

\* What is found now is promoted now, whatever its stamp.
LEMMA PromotedNow ==
    ASSUME TypeOK, Next, NEW f, f \subseteq Ordinary \cup ActivelyPromoted', NEW g
    PROVE  /\ g = gen' => f \subseteq Ordinary \cup ActivelyPromoted'
           /\ \A c \in Caller :
                 Reading(c)' /\ g >= call'[c].gen => f \subseteq Ordinary \cup seen'[c]
<1>1. ASSUME NEW c \in Caller, Reading(c)' PROVE f \subseteq Ordinary \cup seen'[c]
  BY <1>1, ReadingStep, SeenGrows DEF Reading
<1> QED
  BY <1>1

LEMMA EligibleIsPromoted == \A t : Eligible(t) \subseteq ActivelyPromoted
  BY DEF Eligible, ActivelyPromoted

LEMMA RowPromoted ==
    ASSUME TypeOK, TypeOK', Stamps, AllPromoted, Next
    PROVE  Promoted(row.gen, row.found)'
<1>1. CASE row' = row
  <2> DEFINE g == row.gen
             f == row.found
  <2>1. row'.gen = g /\ row'.found = f /\ g \in Nat /\ g <= gen /\ Promoted(g, f)
    BY <1>1 DEF AllPromoted, Stamps, TypeOK, Row
  <2> HIDE DEF g, f
  <2>2. /\ g = gen' => f \subseteq Ordinary \cup ActivelyPromoted'
        /\ \A d \in Caller :
              Reading(d)' /\ g >= call'[d].gen => f \subseteq Ordinary \cup seen'[d]
    BY <2>1, PromotedStep
  <2> QED
    BY <2>1, <2>2 DEF Promoted
<1>2. CASE row' = NoRow
  BY <1>2 DEF NoRow, Promoted
<1>3. ASSUME NEW c \in Caller, Write(c) PROVE Promoted(row.gen, row.found)'
  <2> DEFINE g == call[c].gen
             f == call[c].found
  <2>1. row'.gen = g /\ row'.found = f /\ g \in Nat /\ g <= gen /\ Promoted(g, f)
    BY <1>3, WriteEffect DEF AllPromoted, Holding, Reading, Stamps, TypeOK, Call
  <2> HIDE DEF g, f
  <2>2. /\ g = gen' => f \subseteq Ordinary \cup ActivelyPromoted'
        /\ \A d \in Caller :
              Reading(d)' /\ g >= call'[d].gen => f \subseteq Ordinary \cup seen'[d]
    BY <2>1, PromotedStep
  <2> QED
    BY <2>1, <2>2 DEF Promoted
<1> QED
  BY <1>1, <1>2, <1>3, RowStep

LEMMA HoldingPromoted ==
    ASSUME TypeOK, TypeOK', Stamps, AllPromoted, Next, NEW c \in Caller, Holding(c)'
    PROVE  Promoted(call[c].gen, call[c].found)'
<1> DEFINE g == call'[c].gen
           f == call'[c].found
<1> SUFFICES /\ g = gen' => f \subseteq Ordinary \cup ActivelyPromoted'
             /\ \A d \in Caller :
                   Reading(d)' /\ g >= call'[d].gen => f \subseteq Ordinary \cup seen'[d]
  BY DEF Promoted
<1>1. ASSUME Holding(c), g = call[c].gen
      PROVE  \A part \in SUBSET call[c].found :
                /\ g = gen' => part \subseteq Ordinary \cup ActivelyPromoted'
                /\ \A d \in Caller :
                      Reading(d)' /\ g >= call'[d].gen => part \subseteq Ordinary \cup seen'[d]
  <2>1. g \in Nat /\ g <= gen /\ Promoted(g, call[c].found)
    BY <1>1 DEF AllPromoted, Stamps, Holding, Reading, TypeOK, Call
  <2> HIDE DEF g
  <2> QED
    BY <2>1, PromotedStep
<1>2. CASE call'[c] = call[c]
  BY <1>1, <1>2 DEF Holding
<1>3. CASE Search(c)
  <2>1. f \subseteq Ordinary \cup ActivelyPromoted
    BY <1>3, SearchEffect, EligibleIsPromoted
  <2>2. ActivelyPromoted' = ActivelyPromoted
    BY <1>3 DEF Search, corpus, ActivelyPromoted, Live
  <2> HIDE DEF f, g
  <2> QED
    BY <2>1, <2>2, PromotedNow
<1>4. CASE Fallback(c)
  <2> DEFINE new == Exact \cap (Ordinary \cup Eligible(call[c].asOf))
  <2>1. Holding(c) /\ g = call[c].gen /\ f = call[c].found \cup new
    BY <1>4, FallbackEffect DEF Holding
  <2>2. new \subseteq Ordinary \cup ActivelyPromoted
    BY EligibleIsPromoted
  <2>3. ActivelyPromoted' = ActivelyPromoted
    BY <1>4 DEF Fallback, corpus, ActivelyPromoted, Live
  <2>4. /\ g = gen' => call[c].found \subseteq Ordinary \cup ActivelyPromoted'
        /\ \A d \in Caller : Reading(d)' /\ g >= call'[d].gen
              => call[c].found \subseteq Ordinary \cup seen'[d]
    BY <1>1, <2>1
  <2> HIDE DEF f, g, new
  <2>5. /\ g = gen' => new \subseteq Ordinary \cup ActivelyPromoted'
        /\ \A d \in Caller : Reading(d)' /\ g >= call'[d].gen
              => new \subseteq Ordinary \cup seen'[d]
    BY <2>2, <2>3, PromotedNow
  <2> QED
    BY <2>1, <2>4, <2>5
<1>5. CASE Holding(c) /\ g = call[c].gen /\ f \subseteq call[c].found
  BY <1>1, <1>5
<1>6. CASE f = {}
  BY <1>6
<1> QED
  BY <1>2, <1>3, <1>4, <1>5, <1>6, HoldingStep

LEMMA PromotedKept ==
    ASSUME TypeOK, TypeOK', Stamps, AllPromoted, NoWithdrawnMatch, Next
    PROVE  AllPromoted' /\ NoWithdrawnMatch'
<1>1. ASSUME NEW c \in Caller, call'[c].pc = "window"
      PROVE  call'[c].row.found \subseteq Ordinary \cup seen'[c]
  <2>1. CASE call'[c] = call[c]
    BY <1>1, <2>1, SeenGrows DEF AllPromoted, Running
  <2>2. CASE ReadRow(c)
    <3>1. row.found \subseteq Ordinary \cup seen[c] /\ call'[c].row = row
      BY <1>1, <2>2, ReadRowEffect DEF SnapshotCurrent, AllPromoted, Promoted, Reading
    <3> QED
      BY <1>1, <2>2, <3>1, ReadRowEffect, SeenGrows DEF Running
  <2> QED
    BY <1>1, <2>1, <2>2, WindowStep
<1>2. ASSUME NEW c \in Caller, call'[c].pc = "done"
      PROVE  call'[c].found \subseteq Ordinary \cup seen'[c]
  <2>1. CASE call'[c] = call[c]
    BY <1>2, <2>1, StepObserves, ObserveFacts DEF NoWithdrawnMatch, Running
  <2>2. CASE call[c].pc = "window" /\ call'[c].found = Shown(call[c].row.found)
    BY <1>2, <2>2, SeenGrows DEF AllPromoted, Shown, Running
  <2>3. CASE call[c].pc = "write" /\ call'[c].found = Shown(call[c].found)
    <3>1. call[c].found \subseteq Ordinary \cup seen[c]
      BY <2>3 DEF AllPromoted, Promoted, Holding, Reading, TypeOK, Call
    <3> QED
      BY <1>2, <2>3, <3>1, SeenGrows DEF Shown, Running
  <2> QED
    BY <1>2, <2>1, <2>2, <2>3, DoneStep
<1> QED
  BY <1>1, <1>2, RowPromoted, HoldingPromoted DEF AllPromoted, NoWithdrawnMatch, Holding

\* An answer never names a corpus source that was not actively promoted at
\* some moment of that very resolution, whatever resolutions, promotions,
\* deactivations, reactivations, exemptions and flag changes interleave.
THEOREM NoWithdrawnMatchHolds == Spec => []NoWithdrawnMatch
<1> DEFINE Inv == TypeOK /\ Writing /\ Stamps /\ AllPromoted /\ NoWithdrawnMatch
<1>1. Init => Inv
  BY InitType DEF Init, Stamps, AllPromoted, Promoted, NoWithdrawnMatch, Reading,
     Holding, Idle, NoRow
<1>2. Inv /\ [Next]_vars => Inv'
  <2> SUFFICES ASSUME Inv, [Next]_vars PROVE Inv'
    OBVIOUS
  <2>1. TypeOK' /\ Writing'
    BY TypeStep
  <2>2. CASE Next
    BY <2>1, <2>2, StampsStep, PromotedKept
  <2>3. CASE UNCHANGED vars
    BY <2>1, <2>3 DEF vars, corpus, Stamps, AllPromoted, Promoted, NoWithdrawnMatch,
       Reading, Holding, ActivelyPromoted, Live
  <2> QED
    BY <2>2, <2>3
<1> QED
  BY <1>1, <1>2, PTL DEF Spec

-----------------------------------------------------------------------------
\* No immature match. A backing that has served its delay has served it for
\* good; an exemption may end, but concerns accounts that are exempt at times.
Ripe == {RepOf[b] : b \in {x \in Backing :
            born[x] # Never /\ (born[x] <= now - Delay \/ x \in Exemptable)}}

AllRipe ==
    /\ exempt \subseteq Exemptable
    /\ \A b \in indexed : born[b] # Never
    /\ row.found \subseteq Ordinary \cup Ripe
    /\ \A c \in Caller : Holding(c) => call[c].found \subseteq Ordinary \cup Ripe
    /\ \A c \in Caller :
          call[c].pc = "window" => call[c].row.found \subseteq Ordinary \cup Ripe

LEMMA RipeGrows ==
    ASSUME TypeOK, Next
    PROVE  /\ Ripe \subseteq Ripe'
           /\ (\A b \in indexed : born[b] # Never) => \A b \in indexed' : born'[b] # Never
           /\ exempt \subseteq Exemptable => exempt' \subseteq Exemptable
<1> DEFINE Goal ==
          /\ \A b \in Backing :
                born[b] # Never /\ (born[b] <= now - Delay \/ b \in Exemptable) =>
                    born'[b] # Never /\ (born'[b] <= now' - Delay \/ b \in Exemptable)
          /\ (\A b \in indexed : born[b] # Never) => \A b \in indexed' : born'[b] # Never
          /\ exempt \subseteq Exemptable => exempt' \subseteq Exemptable
<1> USE SnapshotAssumption
<1>1. ASSUME NEW c \in Caller, Resolve(c) PROVE Goal
  BY <1>1, ResolveKeepsCorpus DEF corpus
<1>2. Tick => Goal
  BY DEF Tick, TypeOK, Never
<1>3. SetFlag \/ DropSnapshot => Goal
  BY DEF SetFlag, DropSnapshot, corpus
<1>4. ASSUME NEW b \in Backing, Accept(b) PROVE Goal
  BY <1>4 DEF Accept, TypeOK, Never
<1>5. ASSUME NEW b \in Backing, Index(b) PROVE Goal
  BY <1>5 DEF Index
<1>6. ASSUME NEW b \in Backing, Deactivate(b) \/ Reactivate(b) PROVE Goal
  BY <1>6 DEF Deactivate, Reactivate
<1>7. ASSUME NEW b \in Backing, Exempt(b) PROVE Goal
  BY <1>7 DEF Exempt
<1>8. Goal
  BY <1>1, <1>2, <1>3, <1>4, <1>5, <1>6, <1>7 DEF Next, Change
<1> QED
  BY <1>8 DEF Ripe

LEMMA EligibleIsRipe ==
    ASSUME TypeOK, \A b \in indexed : born[b] # Never, exempt \subseteq Exemptable,
           NEW t \in Nat, t <= now
    PROVE  Eligible(t) \subseteq Ripe
<1>1. \A b \in Backing : Live(b) /\ Mature(b, t) =>
          born[b] # Never /\ (born[b] <= now - Delay \/ b \in Exemptable)
  BY SnapshotAssumption DEF TypeOK, Live, Mature, Never
<1> QED
  BY <1>1 DEF Eligible, Ripe

LEMMA HoldingRipe ==
    ASSUME TypeOK, Stamps, AllRipe, Next, NEW c \in Caller, Holding(c)'
    PROVE  call'[c].found \subseteq Ordinary \cup Ripe'
<1>1. Ripe \subseteq Ripe'
  BY RipeGrows
<1>2. CASE call'[c] = call[c]
  BY <1>1, <1>2 DEF AllRipe, Holding
<1>3. CASE Search(c)
  <2>1. call'[c].found = (Ordinary \cup Eligible(call[c].asOf)) \ Exact
    BY <1>3, SearchEffect
  <2>2. call[c].asOf \in Nat /\ call[c].asOf <= now
    BY <1>3, SearchEffect DEF Stamps, Reading, TypeOK, Call
  <2>3. Eligible(call[c].asOf) \subseteq Ripe
    BY <2>2, EligibleIsRipe DEF AllRipe
  <2> QED
    BY <1>1, <2>1, <2>3
<1>4. CASE Fallback(c)
  <2>1. /\ call'[c].found = call[c].found \cup (Exact \cap (Ordinary \cup Eligible(call[c].asOf)))
        /\ call[c].found \subseteq Ordinary \cup Ripe
    BY <1>4, FallbackEffect DEF AllRipe, Holding
  <2>2. call[c].asOf \in Nat /\ call[c].asOf <= now
    BY <1>4, FallbackEffect DEF Stamps, Reading, TypeOK, Call
  <2>3. Eligible(call[c].asOf) \subseteq Ripe
    BY <2>2, EligibleIsRipe DEF AllRipe
  <2> QED
    BY <1>1, <2>1, <2>3
<1>5. CASE Holding(c) /\ call'[c].found \subseteq call[c].found
  BY <1>1, <1>5 DEF AllRipe
<1> QED
  BY <1>2, <1>3, <1>4, <1>5, HoldingStep

LEMMA RipeKept ==
    ASSUME TypeOK, Stamps, AllRipe, NoImmatureMatch, Next
    PROVE  AllRipe' /\ NoImmatureMatch'
<1>1. /\ Ripe \subseteq Ripe' /\ exempt' \subseteq Exemptable
      /\ \A b \in indexed' : born'[b] # Never
  BY RipeGrows DEF AllRipe
<1>2. row'.found \subseteq Ordinary \cup Ripe'
  <2>1. row' = row \/ row' = NoRow \/ \E c \in Caller : Write(c)
    BY RowStep
  <2>2. ASSUME NEW c \in Caller, Write(c) PROVE row'.found \subseteq Ordinary \cup Ripe'
    BY <1>1, <2>2, WriteEffect DEF AllRipe, Holding
  <2>3. CASE row' = NoRow
    BY <2>3 DEF NoRow
  <2>4. CASE row' = row
    BY <1>1, <2>4 DEF AllRipe
  <2> QED
    BY <2>1, <2>2, <2>3, <2>4
<1>3. ASSUME NEW c \in Caller, call'[c].pc = "window"
      PROVE  call'[c].row.found \subseteq Ordinary \cup Ripe'
  <2>1. CASE ReadRow(c)
    BY <1>1, <1>3, <2>1, ReadRowEffect DEF AllRipe
  <2>2. CASE call'[c] = call[c]
    BY <1>1, <1>3, <2>2 DEF AllRipe
  <2> QED
    BY <1>3, <2>1, <2>2, WindowStep
<1>4. ASSUME NEW c \in Caller, call'[c].pc = "done"
      PROVE  call'[c].found \subseteq Ordinary \cup Ripe'
  <2>1. CASE call'[c] = call[c]
    BY <1>1, <1>4, <2>1 DEF NoImmatureMatch, Ripe
  <2>2. CASE call[c].pc = "window" /\ call'[c].found = Shown(call[c].row.found)
    BY <1>1, <2>2 DEF AllRipe, Shown
  <2>3. CASE call[c].pc = "write" /\ call'[c].found = Shown(call[c].found)
    BY <1>1, <2>3 DEF AllRipe, Shown, Holding
  <2> QED
    BY <1>4, <2>1, <2>2, <2>3, DoneStep
<1> QED
  BY <1>1, <1>2, <1>3, <1>4, HoldingRipe DEF AllRipe, NoImmatureMatch, Ripe, Holding

\* An answer never names a corpus source none of whose backings has served the
\* activation delay or is of an account that developers exempt at times.
THEOREM NoImmatureMatchHolds == Spec => []NoImmatureMatch
<1> DEFINE Inv == TypeOK /\ Writing /\ Stamps /\ AllRipe /\ NoImmatureMatch
<1>1. Init => Inv
  BY InitType DEF Init, Stamps, AllRipe, NoImmatureMatch, Reading, Holding, Idle, NoRow
<1>2. Inv /\ [Next]_vars => Inv'
  <2> SUFFICES ASSUME Inv, [Next]_vars PROVE Inv'
    OBVIOUS
  <2>1. TypeOK' /\ Writing'
    BY TypeStep
  <2>2. CASE Next
    BY <2>1, <2>2, StampsStep, RipeKept
  <2>3. CASE UNCHANGED vars
    BY <2>1, <2>3 DEF vars, corpus, Stamps, AllRipe, NoImmatureMatch, Reading,
       Holding, Ripe
  <2> QED
    BY <2>2, <2>3
<1> QED
  BY <1>1, <1>2, PTL DEF Spec

-----------------------------------------------------------------------------
\* No missed match. At most one decision is active per text, so the backing by
\* which a text is eligible changes only through a state in which it is not.
Corpus ==
    /\ \A b \in indexed : born[b] # Never
    /\ \A x, y \in Backing :
          /\ RepOf[x] = RepOf[y]
          /\ born[x] # Never /\ x \notin revoked
          /\ born[y] # Never /\ y \notin revoked
          => x = y

\* The backings of the texts in S that are Delay old at t are all in f.
Covers(t, f, S) ==
    \A b \in Backing :
        Live(b) /\ RepOf[b] \in S /\ born[b] <= t - Delay => RepOf[b] \in f

\* What was found under the generation g and as of t is complete as long as no
\* bump follows, and complete for every resolution that may reuse it.
Covered(g, t, f) ==
    /\ g = gen => Covers(t, f, Rep)
    /\ \A c \in Caller : Reading(c) /\ g >= call[c].gen => Covers(t, f, through[c])

\* A result that will be reused; what the exact fallback still has to look up.
Reusable(status, partial) == status \in {"MATCHED", "NO_MATCH"} /\ ~partial

Usable(c) ==
    \/ call[c].pc \in {"fallback", "confirm"}
    \/ call[c].pc = "classify" /\ ~call[c].partial
    \/ call[c].pc = "write" /\ Reusable(call[c].status, call[c].partial)

Kept(c) == IF call[c].pc = "fallback" THEN call[c].found \cup Exact ELSE call[c].found

\* A corpus source visible all through a resolution was so when it read the
\* clock, and then the flag was on.
Stable ==
    /\ \A c \in Caller : Running(c) /\ ~(through[c] \subseteq Ordinary) => call[c].flag
    /\ \A c \in Caller :
          Reading(c) \/ call[c].pc = "generation"
             => through[c] \subseteq Ordinary \cup Aged(call[c].asOf)

AllCovered ==
    /\ Reusable(row.status, row.partial) => Covered(row.gen, row.asOf, row.found)
    /\ \A c \in Caller : Usable(c) => Covered(call[c].gen, call[c].asOf, Kept(c))
    /\ \A c \in Caller :
          call[c].pc = "window" =>
              /\ call[c].row.status # "DISABLED" /\ ~call[c].row.partial
              /\ call[c].row.status # "FAILED" =>
                    Covers(call[c].row.asOf, call[c].row.found, through[c])
    /\ \A c \in Caller : call[c].pc = "write" /\ call[c].status = "DISABLED" => ~call[c].flag

\* What other accounts submitted is in every result that will be reused or
\* shown, whatever the flag.
OrdinaryFound ==
    /\ Reusable(row.status, row.partial) => Ordinary \subseteq row.found
    /\ \A c \in Caller : Usable(c) => Ordinary \subseteq Kept(c)
    /\ \A c \in Caller :
          call[c].pc = "window" /\ call[c].row.status # "FAILED"
             => Ordinary \subseteq call[c].row.found
    /\ \A c \in Caller :
          call[c].pc = "write" /\ call[c].status = "DISABLED" /\ ~call[c].partial
             => Ordinary = {}

\* Where the flag does not change, resolutions run under the flag there is.
Steady == \A c \in Caller : ~FlagChanges /\ Running(c) => call[c].flag = flag

\* Results that lack the corpus are stored as DISABLED, or never looked through.
Sighted == Ordinary = {} \/ flag

LEMMA LiveStep ==
    ASSUME TypeOK, Next
    PROVE  /\ \/ \A b \in Backing : Live(b) => Live(b)'
              \/ \A b \in Backing : Live(b)' => Live(b)
           /\ \A b \in Backing : born[b] # Never => born'[b] = born[b]
           /\ gen' = gen => \A b \in Backing : Live(b)' <=> Live(b)
<1> DEFINE Goal ==
           /\ \/ \A b \in Backing : Live(b) => Live(b)'
              \/ \A b \in Backing : Live(b)' => Live(b)
           /\ \A b \in Backing : born[b] # Never => born'[b] = born[b]
           /\ gen' = gen => \A b \in Backing : Live(b)' <=> Live(b)
<1>1. ASSUME NEW c \in Caller, Resolve(c) PROVE Goal
  BY <1>1, ResolveKeepsCorpus DEF corpus, Live
<1>2. Tick \/ SetFlag \/ DropSnapshot => Goal
  BY DEF Tick, SetFlag, DropSnapshot, corpus, Live
<1>3. ASSUME NEW b \in Backing, Accept(b) PROVE Goal
  BY <1>3 DEF Accept, TypeOK, Live
<1>4. ASSUME NEW b \in Backing, Index(b) PROVE Goal
  BY <1>4 DEF Index, TypeOK, Live
<1>5. ASSUME NEW b \in Backing, Deactivate(b) PROVE Goal
  BY <1>5 DEF Deactivate, TypeOK, Live
<1>6. ASSUME NEW b \in Backing, Reactivate(b) PROVE Goal
  BY <1>6 DEF Reactivate, TypeOK, Live
<1>7. ASSUME NEW b \in Backing, Exempt(b) PROVE Goal
  BY <1>7 DEF Exempt, Live
<1> QED
  BY <1>1, <1>2, <1>3, <1>4, <1>5, <1>6, <1>7 DEF Next, Change

LEMMA CorpusStep ==
    ASSUME TypeOK, Corpus, Next
    PROVE  Corpus'
<1>1. \A b \in indexed' : born'[b] # Never
  <2>1. ASSUME NEW c \in Caller, Resolve(c) PROVE indexed' = indexed
    BY <2>1, ResolveKeepsCorpus DEF corpus
  <2>2. \A b \in indexed' : b \in indexed \/ Index(b)
    BY <2>1 DEF Next, Change, Tick, SetFlag, DropSnapshot, corpus, Accept, Index,
       Deactivate, Reactivate, Exempt
  <2> QED
    BY <2>2, LiveStep DEF Corpus, Index, TypeOK
<1> DEFINE Goal ==
          \A x, y \in Backing :
              /\ RepOf[x] = RepOf[y]
              /\ born'[x] # Never /\ x \notin revoked'
              /\ born'[y] # Never /\ y \notin revoked'
              => x = y
<1>2. ASSUME NEW c \in Caller, Resolve(c) PROVE Goal
  BY <1>2, ResolveKeepsCorpus DEF corpus, Corpus
<1>3. Tick \/ SetFlag \/ DropSnapshot => Goal
  BY DEF Tick, SetFlag, DropSnapshot, corpus, Corpus
<1>4. ASSUME NEW b \in Backing, Accept(b) PROVE Goal
  BY <1>4 DEF Accept, SameTextActive, TypeOK, Corpus
<1>5. ASSUME NEW b \in Backing, Index(b) PROVE Goal
  BY <1>5 DEF Index, Corpus
<1>6. ASSUME NEW b \in Backing, Deactivate(b) PROVE Goal
  BY <1>6 DEF Deactivate, Corpus
<1>7. ASSUME NEW b \in Backing, Reactivate(b) PROVE Goal
  BY <1>7 DEF Reactivate, SameTextActive, Corpus
<1>8. ASSUME NEW b \in Backing, Exempt(b) PROVE Goal
  BY <1>8 DEF Exempt, Corpus
<1>9. Goal
  BY <1>2, <1>3, <1>4, <1>5, <1>6, <1>7, <1>8 DEF Next, Change
<1> QED
  BY <1>1, <1>9 DEF Corpus

\* A text eligible before and after a step is so by the same backing.
LEMMA SameBacking ==
    ASSUME TypeOK, Corpus, Corpus', Next,
           NEW x \in Backing, NEW b \in Backing,
           Live(x), Live(b)', RepOf[x] = RepOf[b]
    PROVE  x = b /\ Live(b) /\ born'[b] = born[b]
<1>1. Live(x)' \/ Live(b)
  BY LiveStep
<1>2. x = b
  BY <1>1 DEF Corpus, Live
<1> QED
  BY <1>2, LiveStep DEF Corpus, Live

LEMMA ThroughShrinks ==
    ASSUME TypeOK, Next, NEW c \in Caller, Running(c), call'[c].pc # "idle"
    PROVE  through'[c] \subseteq through[c] /\ through'[c] \subseteq Visible'
  BY StepObserves, ObserveFacts

LEMMA StableStep ==
    ASSUME TypeOK, TypeOK', Corpus, Corpus', Stable, Next
    PROVE  Stable'
<1>1. ASSUME NEW c \in Caller, Running(c)', ~(through'[c] \subseteq Ordinary)
      PROVE  call'[c].flag
  <2>1. CASE Running(c) /\ call'[c].flag = call[c].flag
    BY <1>1, <2>1, ThroughShrinks DEF Stable, Running
  <2>2. CASE ~Running(c) /\ call'[c].flag = flag /\ flag' = flag
    <3>1. through'[c] = Visible'
      BY <1>1, <2>2, StepObserves, ObserveFacts DEF Running
    <3> QED
      BY <1>1, <2>2, <3>1 DEF Visible
  <2> QED
    BY <1>1, <2>1, <2>2, ReadingStep
<1>2. ASSUME NEW c \in Caller, Reading(c)' \/ call'[c].pc = "generation"
      PROVE  through'[c] \subseteq Ordinary \cup Aged(call[c].asOf)'
  <2>0. Running(c) /\ through'[c] \subseteq through[c] /\ through'[c] \subseteq Visible'
    BY <1>2, ReadingStep, ThroughShrinks DEF Running, Reading
  <2>1. CASE call'[c].asOf = now /\ now' = now
    BY <2>0, <2>1 DEF Visible
  <2>2. CASE call'[c].asOf = call[c].asOf /\ (Reading(c) \/ call[c].pc = "generation")
    <3> SUFFICES ASSUME NEW r \in through'[c], r \notin Ordinary
                 PROVE  r \in Aged(call[c].asOf)'
      OBVIOUS
    <3>1. PICK x \in Backing : Live(x) /\ RepOf[x] = r /\ born[x] <= call[c].asOf - Delay
      BY <2>0, <2>2 DEF Stable, Aged
    <3>2. PICK b \in Backing : Live(b)' /\ RepOf[b] = r
      BY <2>0 DEF Visible, Aged
    <3>3. x = b /\ born'[b] = born[b]
      BY <3>1, <3>2, SameBacking, LiveStep
    <3>4. born'[b] <= call'[c].asOf - Delay
      BY <2>2, <3>1, <3>3
    <3> QED
      BY <3>2, <3>4 DEF Aged
  <2> QED
    BY <1>2, <2>1, <2>2, ReadingStep DEF Reading
<1> QED
  BY <1>1, <1>2 DEF Stable, Reading, Running

\* Completeness for a resolution under way is kept by every step.
LEMMA CoversStep ==
    ASSUME TypeOK, Corpus, Corpus', Stable, Next, NEW c \in Caller,
           Reading(c), Running(c)', NEW t, NEW f, Covers(t, f, through[c])
    PROVE  \A b \in Backing : Live(b)' /\ RepOf[b] \in through'[c] /\ born'[b] <= t - Delay
              => RepOf[b] \in f
<1> SUFFICES ASSUME NEW b \in Backing, Live(b)', RepOf[b] \in through'[c], born'[b] <= t - Delay
             PROVE  RepOf[b] \in f
  OBVIOUS
<1>1. RepOf[b] \in through[c]
  BY ThroughShrinks DEF Running, Reading
<1>2. PICK x \in Backing : Live(x) /\ RepOf[x] = RepOf[b]
  BY <1>1, SnapshotAssumption DEF Stable, Aged
<1>3. Live(b) /\ born'[b] = born[b]
  BY <1>2, SameBacking
<1> QED
  BY <1>1, <1>3 DEF Covers

LEMMA CoveredStep ==
    ASSUME TypeOK, TypeOK', Corpus, Corpus', Stable, Stable', Next,
           NEW g \in Nat, g <= gen, NEW t, NEW f, Covered(g, t, f)
    PROVE  /\ g = gen' => \A b \in Backing : Live(b)' /\ born'[b] <= t - Delay => RepOf[b] \in f
           /\ \A c \in Caller : Reading(c)' /\ g >= call'[c].gen =>
                 \A b \in Backing : Live(b)' /\ RepOf[b] \in through'[c] /\ born'[b] <= t - Delay
                     => RepOf[b] \in f
<1>1. ASSUME g = gen', NEW b \in Backing, Live(b)', born'[b] <= t - Delay PROVE RepOf[b] \in f
  <2>1. g = gen /\ gen' = gen
    BY <1>1, Generations DEF TypeOK
  <2>2. Live(b) /\ born'[b] = born[b] /\ RepOf[b] \in Rep
    BY <1>1, <2>1, LiveStep, SnapshotAssumption DEF Corpus, Live
  <2> QED
    BY <1>1, <2>1, <2>2 DEF Covered, Covers
<1>2. ASSUME NEW c \in Caller, Reading(c)', g >= call'[c].gen,
             NEW b \in Backing, Live(b)', RepOf[b] \in through'[c], born'[b] <= t - Delay
      PROVE  RepOf[b] \in f
  <2>1. CASE Reading(c) /\ call'[c].gen = call[c].gen
    <3>1. Covers(t, f, through[c])
      BY <1>2, <2>1 DEF Covered
    <3> QED
      BY <1>2, <2>1, <3>1, CoversStep DEF Running, Reading
  <2>2. CASE call'[c].gen = gen /\ gen' = gen
    BY <1>1, <1>2, <2>2 DEF TypeOK
  <2> QED
    BY <1>2, <2>1, <2>2, ReadingStep
<1> QED
  BY <1>1, <1>2

\* What holds of everything live and ripe is complete whatever its stamp.
LEMMA CoveredNow ==
    ASSUME NEW g, NEW t, NEW f,
           \A b \in Backing : Live(b)' /\ born'[b] <= t - Delay => RepOf[b] \in f
    PROVE  \A c \in Caller : Reading(c)' /\ g >= call'[c].gen =>
                 \A b \in Backing : Live(b)' /\ RepOf[b] \in through'[c] /\ born'[b] <= t - Delay
                     => RepOf[b] \in f
  OBVIOUS

\* A resolution's result is usable after a step only if it was before, or if
\* the search has just produced it.
LEMMA UsableStep ==
    ASSUME TypeOK, Next, NEW c \in Caller, Usable(c)'
    PROVE  \/ call'[c] = call[c]
           \/ Search(c)
           \/ Fallback(c)
           \/ Confirm(c)
           \/ /\ Classify(c) /\ Usable(c)
              /\ IF call[c].flag THEN call'[c].found = call[c].found
                 ELSE call'[c].found = call[c].found \cap Ordinary /\ Ordinary # {}
<1> DEFINE Goal ==
           \/ call'[c] = call[c]
           \/ Search(c)
           \/ Fallback(c)
           \/ Confirm(c)
           \/ /\ Classify(c) /\ Usable(c)
              /\ IF call[c].flag THEN call'[c].found = call[c].found
                 ELSE call'[c].found = call[c].found \cap Ordinary /\ Ordinary # {}
<1> USE DEF Usable, Reusable
<1>1. ASSUME NEW x \in Caller, Start(x) PROVE Goal
  BY <1>1, StartEffect
<1>2. ASSUME NEW x \in Caller, ReadClock(x) PROVE Goal
  BY <1>2, ReadClockEffect
<1>3. ASSUME NEW x \in Caller, ReadGeneration(x) PROVE Goal
  BY <1>3, ReadGenerationEffect
<1>4. ASSUME NEW x \in Caller, ReadRow(x) PROVE Goal
  BY <1>4, ReadRowEffect
<1>5. ASSUME NEW x \in Caller, CheckWindow(x) PROVE Goal
  BY <1>5, CheckWindowEffect
<1>6. ASSUME NEW x \in Caller, Search(x) \/ Fallback(x) \/ Confirm(x) PROVE Goal
  BY <1>6, SearchEffect, FallbackEffect, ConfirmEffect
<1>7. ASSUME NEW x \in Caller, SearchTimesOut(x) PROVE Goal
  BY <1>7, SearchTimesOutEffect
<1>8. ASSUME NEW x \in Caller, Classify(x) PROVE Goal
  BY <1>8, ClassifyEffect DEF TypeOK, Call
<1>9. ASSUME NEW x \in Caller, ComputationFails(x) PROVE Goal
  BY <1>9, ComputationFailsEffect
<1>10. ASSUME NEW x \in Caller, Write(x) PROVE Goal
  BY <1>10, WriteEffect
<1>11. ASSUME NEW x \in Caller, Abort(x) PROVE Goal
  BY <1>11, AbortEffect
<1>12. CASE World
  BY <1>12, WorldKeepsCalls
<1> QED
  BY <1>1, <1>2, <1>3, <1>4, <1>5, <1>6, <1>7, <1>8, <1>9, <1>10, <1>11,
     <1>12, NextIs DEF Resolve

LEMMA UsableCovered ==
    ASSUME TypeOK, TypeOK', Sighted, Ordinary = {} \/ ~FlagChanges, Steady,
           Corpus, Corpus', Stable, Stable', Stamps, AllCovered, Next,
           NEW c \in Caller, Usable(c)'
    PROVE  Covered(call[c].gen, call[c].asOf, Kept(c))'
<1> DEFINE g == call'[c].gen
           t == call'[c].asOf
           f == Kept(c)'
<1> SUFFICES
       /\ g = gen' => \A b \in Backing : Live(b)' /\ born'[b] <= t - Delay => RepOf[b] \in f
       /\ \A d \in Caller : Reading(d)' /\ g >= call'[d].gen =>
             \A b \in Backing : Live(b)' /\ RepOf[b] \in through'[d] /\ born'[b] <= t - Delay
                 => RepOf[b] \in f
  BY DEF Covered, Covers
<1>1. ASSUME Usable(c), g = call[c].gen, t = call[c].asOf, NEW k, Kept(c) = k
      PROVE  /\ g = gen' => \A b \in Backing : Live(b)' /\ born'[b] <= t - Delay => RepOf[b] \in k
             /\ \A d \in Caller : Reading(d)' /\ g >= call'[d].gen =>
                   \A b \in Backing : Live(b)' /\ RepOf[b] \in through'[d] /\ born'[b] <= t - Delay
                       => RepOf[b] \in k
  <2>1. g \in Nat /\ g <= gen /\ Covered(g, t, k)
    BY <1>1 DEF AllCovered, Stamps, Usable, Reading, TypeOK, Call
  <2> HIDE DEF g, t
  <2> QED
    BY <2>1, CoveredStep
<1>2. CASE call'[c] = call[c]
  <2>1. Usable(c) /\ g = call[c].gen /\ t = call[c].asOf /\ Kept(c) = f
    BY <1>2 DEF Usable, Kept
  <2> HIDE DEF f, g, t
  <2> QED
    BY <1>1, <2>1
<1>3. CASE Search(c)
  <2>1. /\ t = call[c].asOf /\ Eligible(t) \cup Exact \subseteq f
    BY <1>3, SearchEffect DEF Kept
  <2>2. \A b \in Backing : Live(b)' /\ born'[b] <= t - Delay => RepOf[b] \in Eligible(t)
    BY <1>3 DEF Search, corpus, Live, Eligible, Mature
  <2> HIDE DEF f, g, t
  <2> QED
    BY <2>1, <2>2
<1>4. CASE Fallback(c)
  <2> DEFINE k == Kept(c)
  <2>1. /\ g = call[c].gen /\ t = call[c].asOf /\ Usable(c) /\ k = call[c].found \cup Exact
        /\ f = call[c].found \cup (Exact \cap (Ordinary \cup Eligible(t)))
    BY <1>4, FallbackEffect DEF Kept, Usable
  <2>2. \A b \in Backing : Live(b)' /\ born'[b] <= t - Delay => RepOf[b] \in Eligible(t)
    BY <1>4 DEF Fallback, corpus, Live, Eligible, Mature
  <2> HIDE DEF k
  <2>3. /\ g = gen' => \A b \in Backing : Live(b)' /\ born'[b] <= t - Delay => RepOf[b] \in k
        /\ \A d \in Caller : Reading(d)' /\ g >= call'[d].gen =>
              \A b \in Backing : Live(b)' /\ RepOf[b] \in through'[d] /\ born'[b] <= t - Delay
                  => RepOf[b] \in k
    BY <1>1, <2>1 DEF k
  <2> HIDE DEF f, g, t
  <2> QED
    BY <2>1, <2>2, <2>3
<1>5. CASE Confirm(c)
  <2> DEFINE k == Kept(c)
  <2>1. /\ g = call[c].gen /\ t = call[c].asOf /\ Usable(c) /\ k = call[c].found
        /\ f = {r \in k : r \in Exact => r \in Ordinary \cup ActivelyPromoted}
    BY <1>5, ConfirmEffect DEF Kept, Usable
  <2>2. \A b \in Backing : Live(b)' => RepOf[b] \in ActivelyPromoted
    BY <1>5 DEF Confirm, corpus, Live, ActivelyPromoted
  <2> HIDE DEF k
  <2>3. /\ g = gen' => \A b \in Backing : Live(b)' /\ born'[b] <= t - Delay => RepOf[b] \in k
        /\ \A d \in Caller : Reading(d)' /\ g >= call'[d].gen =>
              \A b \in Backing : Live(b)' /\ RepOf[b] \in through'[d] /\ born'[b] <= t - Delay
                  => RepOf[b] \in k
    BY <1>1, <2>1 DEF k
  <2> HIDE DEF f, g, t
  <2> QED
    BY <2>1, <2>2, <2>3
<1>6. CASE Classify(c) /\ Usable(c) /\ call'[c].found = call[c].found
  <2>1. g = call[c].gen /\ t = call[c].asOf /\ Kept(c) = f
    BY <1>6, ClassifyEffect DEF Kept
  <2> HIDE DEF f, g, t
  <2> QED
    BY <1>1, <1>6, <2>1
<1>7. ASSUME Classify(c), Usable(c) PROVE Ordinary = {} \/ call[c].flag
  BY <1>7, ClassifyEffect DEF Sighted, Steady, Running
<1> QED
  BY <1>2, <1>3, <1>4, <1>5, <1>6, <1>7, UsableStep

LEMMA RowCovered ==
    ASSUME TypeOK, TypeOK', Corpus, Corpus', Stable, Stable', Stamps,
           AllCovered, Next, Reusable(row.status, row.partial)'
    PROVE  Covered(row.gen, row.asOf, row.found)'
<1> DEFINE g == row'.gen
           t == row'.asOf
           f == row'.found
<1>1. g \in Nat /\ g <= gen /\ Covered(g, t, f)
  <2>1. CASE row' = row
    BY <2>1 DEF AllCovered, Stamps, TypeOK, Row, Reusable
  <2>2. CASE row' = NoRow
    BY <2>2 DEF NoRow, Reusable
  <2>3. ASSUME NEW c \in Caller, Write(c) PROVE g \in Nat /\ g <= gen /\ Covered(g, t, f)
    <3>1. /\ call[c].pc = "write" /\ g = call[c].gen /\ t = call[c].asOf /\ f = Kept(c)
          /\ Usable(c)
      BY <2>3, WriteEffect DEF Kept, Usable, Reusable
    <3> HIDE DEF f, g, t
    <3> QED
      BY <3>1 DEF AllCovered, Stamps, Reading, TypeOK, Call
  <2> QED
    BY <2>1, <2>2, <2>3, RowStep
<1> SUFFICES
       /\ g = gen' => \A b \in Backing : Live(b)' /\ born'[b] <= t - Delay => RepOf[b] \in f
       /\ \A d \in Caller : Reading(d)' /\ g >= call'[d].gen =>
             \A b \in Backing : Live(b)' /\ RepOf[b] \in through'[d] /\ born'[b] <= t - Delay
                 => RepOf[b] \in f
  BY DEF Covered, Covers
<1> HIDE DEF f, g, t
<1> QED
  BY <1>1, CoveredStep

\* A row taken for current is complete for the resolution that took it.
LEMMA WindowCovered ==
    ASSUME TypeOK, TypeOK', Corpus, Corpus', Stable, Stamps,
           AllCovered, Next, NEW c \in Caller, call'[c].pc = "window"
    PROVE  /\ call'[c].row.status # "DISABLED" /\ ~call'[c].row.partial
           /\ call'[c].row.status # "FAILED" =>
                 Covers(call[c].row.asOf, call[c].row.found, through[c])'
<1> DEFINE t == call'[c].row.asOf
           f == call'[c].row.found
<1>1. CASE call'[c] = call[c]
  <2>1. /\ call'[c].row.status # "DISABLED" /\ ~call'[c].row.partial
        /\ call'[c].row.status # "FAILED" => Covers(t, f, through[c])
    BY <1>1 DEF AllCovered
  <2>2. Reading(c) /\ Running(c)'
    BY <1>1 DEF Reading, Running
  <2>3. ASSUME call'[c].row.status # "FAILED"
        PROVE  \A b \in Backing : Live(b)' /\ RepOf[b] \in through'[c] /\ born'[b] <= t - Delay
                  => RepOf[b] \in f
    <3>1. Covers(t, f, through[c])
      BY <2>1, <2>3
    <3> HIDE DEF f, t
    <3> QED
      BY <2>2, <3>1, CoversStep
  <2> QED
    BY <2>1, <2>3 DEF Covers
<1>2. CASE ReadRow(c)
  <2>1. /\ SnapshotCurrent(row, call[c].gen) /\ call'[c].row = row /\ Reading(c) /\ Running(c)'
    BY <1>2, ReadRowEffect DEF Reading, Running
  <2>2. row.status \in {"MATCHED", "NO_MATCH", "FAILED"} /\ ~row.partial /\ row.gen >= call[c].gen
    BY <2>1 DEF SnapshotCurrent, TypeOK, Row, Status
  <2>3. ASSUME row.status # "FAILED"
        PROVE  \A b \in Backing : Live(b)' /\ RepOf[b] \in through'[c] /\ born'[b] <= t - Delay
                  => RepOf[b] \in f
    <3>1. Covers(t, f, through[c])
      BY <2>1, <2>2, <2>3 DEF AllCovered, Covered, Reusable
    <3> HIDE DEF f, t
    <3> QED
      BY <2>1, <3>1, CoversStep
  <2> QED
    BY <2>1, <2>2, <2>3 DEF Covers
<1> QED
  BY <1>1, <1>2, WindowStep

\* Only a classification makes a result DISABLED.
LEMMA DisabledSource ==
    ASSUME TypeOK, Next, NEW c \in Caller,
           call'[c].pc = "write", call'[c].status = "DISABLED"
    PROVE  call'[c] = call[c] \/ Classify(c)
<1>1. ASSUME NEW x \in Caller,
             \/ Start(x) \/ ReadClock(x) \/ ReadGeneration(x) \/ ReadRow(x)
             \/ CheckWindow(x) \/ Search(x) \/ SearchTimesOut(x) \/ Fallback(x)
      PROVE  call'[c] = call[c]
  BY <1>1, StartEffect, ReadClockEffect, ReadGenerationEffect, ReadRowEffect,
     CheckWindowEffect, SearchEffect, SearchTimesOutEffect, FallbackEffect
<1>2. ASSUME NEW x \in Caller, Confirm(x) \/ Write(x) \/ Abort(x) PROVE call'[c] = call[c]
  BY <1>2, ConfirmEffect, WriteEffect, AbortEffect
<1>3. ASSUME NEW x \in Caller, Classify(x) \/ ComputationFails(x)
      PROVE  call'[c] = call[c] \/ Classify(c)
  BY <1>3, ClassifyEffect, ComputationFailsEffect
<1>4. CASE World
  BY <1>4, WorldKeepsCalls
<1> QED
  BY <1>1, <1>2, <1>3, <1>4, NextIs DEF Resolve

\* It found nothing, and so it does only with the flag off.
LEMMA DisabledIsEmpty ==
    ASSUME TypeOK, NEW c \in Caller, Classify(c), ~call'[c].partial,
           call'[c].status = "DISABLED"
    PROVE  call[c].found \cap Ordinary = {}
<1>1. ~call[c].flag /\ call'[c].found = call[c].found \cap Ordinary
  BY ClassifyEffect
<1>2. call'[c].found = {}
  BY ClassifyEffect
<1> QED
  BY <1>1, <1>2

LEMMA DisabledStep ==
    ASSUME TypeOK, AllCovered, Next, NEW c \in Caller,
           call'[c].pc = "write", call'[c].status = "DISABLED"
    PROVE  ~call'[c].flag
  BY DisabledSource, ClassifyEffect DEF AllCovered

LEMMA OrdinaryKept ==
    ASSUME TypeOK, Writing, OrdinaryFound, Next
    PROVE  OrdinaryFound'
<1>1. ASSUME NEW c \in Caller, Usable(c)' PROVE Ordinary \subseteq Kept(c)'
  <2>1. CASE call'[c] = call[c]
    BY <1>1, <2>1 DEF OrdinaryFound, Usable, Kept
  <2>2. CASE Search(c)
    BY <2>2, SearchEffect DEF Kept
  <2>3. CASE Fallback(c)
    <3>1. /\ Usable(c) /\ Kept(c) = call[c].found \cup Exact
          /\ Kept(c)' = call[c].found \cup (Exact \cap (Ordinary \cup Eligible(call[c].asOf)))
      BY <2>3, FallbackEffect DEF Kept, Usable
    <3> QED
      BY <3>1 DEF OrdinaryFound
  <2>4. CASE Confirm(c)
    <3>1. /\ Usable(c) /\ Kept(c) = call[c].found
          /\ Kept(c)' = {r \in call[c].found : r \in Exact => r \in Ordinary \cup ActivelyPromoted}
      BY <2>4, ConfirmEffect DEF Kept, Usable
    <3> QED
      BY <3>1 DEF OrdinaryFound
  <2>5. CASE /\ Classify(c) /\ Usable(c)
             /\ IF call[c].flag THEN call'[c].found = call[c].found
                ELSE call'[c].found = call[c].found \cap Ordinary /\ Ordinary # {}
    <3>1. Kept(c) = call[c].found /\ Kept(c)' = call'[c].found
      BY <2>5, ClassifyEffect DEF Kept
    <3> QED
      BY <2>5, <3>1 DEF OrdinaryFound
  <2> QED
    BY <1>1, <2>1, <2>2, <2>3, <2>4, <2>5, UsableStep
<1>2. ASSUME Reusable(row.status, row.partial)' PROVE Ordinary \subseteq row'.found
  <2>1. row' = row \/ row' = NoRow => Ordinary \subseteq row'.found
    BY <1>2 DEF OrdinaryFound, NoRow, Reusable
  <2>2. ASSUME NEW c \in Caller, Write(c) PROVE Ordinary \subseteq row'.found
    <3>1. Usable(c) /\ row'.found = Kept(c)
      BY <1>2, <2>2, WriteEffect DEF Kept, Usable, Reusable
    <3> QED
      BY <3>1 DEF OrdinaryFound
  <2> QED
    BY <2>1, <2>2, RowStep
<1>3. ASSUME NEW c \in Caller, call'[c].pc = "window", call'[c].row.status # "FAILED"
      PROVE  Ordinary \subseteq call'[c].row.found
  <2>1. CASE call'[c] = call[c]
    BY <1>3, <2>1 DEF OrdinaryFound
  <2>2. CASE ReadRow(c)
    <3>1. SnapshotCurrent(row, call[c].gen) /\ call'[c].row = row
      BY <1>3, <2>2, ReadRowEffect
    <3>2. Reusable(row.status, row.partial)
      BY <1>3, <3>1 DEF SnapshotCurrent, Reusable, TypeOK, Row, Status
    <3> QED
      BY <3>1, <3>2 DEF OrdinaryFound
  <2> QED
    BY <1>3, <2>1, <2>2, WindowStep
<1>4. ASSUME NEW c \in Caller, call'[c].pc = "write", call'[c].status = "DISABLED",
             ~call'[c].partial
      PROVE  Ordinary = {}
  <2>1. CASE call'[c] = call[c]
    BY <1>4, <2>1 DEF OrdinaryFound
  <2>2. CASE Classify(c)
    <3>1. Usable(c) /\ Kept(c) = call[c].found /\ call[c].found \cap Ordinary = {}
      BY <1>4, <2>2, ClassifyEffect, DisabledIsEmpty DEF Usable, Kept
    <3> QED
      BY <3>1 DEF OrdinaryFound
  <2> QED
    BY <1>4, <2>1, <2>2, DisabledSource
<1> QED
  BY <1>1, <1>2, <1>3, <1>4 DEF OrdinaryFound

LEMMA SteadyStep ==
    ASSUME TypeOK, Steady, Next
    PROVE  Steady' /\ (~FlagChanges => flag' = flag)
<1>1. ~FlagChanges => flag' = flag
  <2>1. ASSUME NEW c \in Caller, Resolve(c) PROVE flag' = flag
    BY <2>1, ResolveKeepsCorpus DEF corpus
  <2>2. ASSUME World, ~FlagChanges PROVE flag' = flag
    BY <2>2 DEF World, Tick, SetFlag, DropSnapshot, Change, Accept, Index,
                Deactivate, Reactivate, Exempt, corpus
  <2> QED
    BY <2>1, <2>2, NextIs
<1>2. ASSUME NEW c \in Caller, ~FlagChanges, Running(c)' PROVE call'[c].flag = flag'
  BY <1>1, <1>2, ReadingStep DEF Steady
<1> QED
  BY <1>1, <1>2 DEF Steady

LEMMA OrdinaryAnswered ==
    ASSUME TypeOK, Writing, OrdinaryFound, NoMissedSubmission, Next,
           NEW c \in Caller, Settled(c)'
    PROVE  Ordinary \subseteq call'[c].found
<1>1. call'[c].pc = "done" /\ ~call'[c].partial /\ call'[c].status # "UNAVAILABLE"
  BY DEF Settled
<1>2. CASE call'[c] = call[c]
  BY <1>1, <1>2 DEF Settled, NoMissedSubmission
<1>3. CASE /\ call[c].pc = "window"
           /\ call'[c].found = Shown(call[c].row.found)
           /\ call'[c].status = Answer(call[c].row.status, call[c].row.found)
  <2>1. Ordinary \subseteq call[c].row.found
    BY <1>1, <1>3 DEF Answer, OrdinaryFound
  <2> QED
    BY <1>3, <2>1 DEF Shown
<1>4. CASE /\ call[c].pc = "write"
           /\ call'[c].found = Shown(call[c].found)
           /\ call'[c].status = Answer(call[c].status, call[c].found)
           /\ call'[c].partial = call[c].partial
  <2>1. CASE call[c].status = "DISABLED"
    <3>1. Ordinary = {}
      BY <1>1, <1>4, <2>1 DEF OrdinaryFound
    <3> QED
      BY <3>1
  <2>2. CASE call[c].status # "DISABLED"
    <3>1. call[c].status # "FAILED" /\ ~call[c].partial
      BY <1>1, <1>4 DEF Answer
    <3>2. Usable(c) /\ Kept(c) = call[c].found
      BY <1>4, <2>2, <3>1 DEF Usable, Reusable, Kept, Writing, Status
    <3>3. Ordinary \subseteq call[c].found
      BY <3>2 DEF OrdinaryFound
    <3> QED
      BY <1>4, <3>3 DEF Shown
  <2> QED
    BY <2>1, <2>2
<1> QED
  BY <1>1, <1>2, <1>3, <1>4, DoneStep

LEMMA AnswerComplete ==
    ASSUME TypeOK, TypeOK', Writing, Corpus, Stable, Stamps, OrdinaryFound,
           Sighted => AllCovered, NoMissedSubmission, NoMissedMatch, Next, NEW c \in Caller, Settled(c)',
           NEW r \in through'[c]
    PROVE  r \in call'[c].found
<1>1. call'[c].pc = "done" /\ ~call'[c].partial /\ call'[c].status # "UNAVAILABLE"
  BY DEF Settled
<1>2. CASE call'[c] = call[c]
  <2>1. Settled(c) /\ through'[c] = through[c]
    BY <1>1, <1>2, StepObserves, ObserveFacts DEF Settled, Running
  <2> QED
    BY <1>2, <2>1 DEF NoMissedMatch
<1>3. ASSUME Reading(c), flag' = flag, r \notin Ordinary
      PROVE  /\ flag /\ call[c].flag /\ AllCovered
             /\ \E b \in Backing : /\ Live(b) /\ RepOf[b] = r /\ RepOf[b] \in through[c]
                                    /\ born[b] \in Nat /\ born[b] <= call[c].asOf - Delay
  <2>1. r \in through[c] /\ r \in Visible'
    BY <1>1, <1>3, ThroughShrinks DEF Reading, Running
  <2>2. flag /\ call[c].flag /\ AllCovered
    BY <1>3, <2>1 DEF Visible, Stable, Reading, Running, Sighted
  <2>3. PICK b \in Backing : Live(b) /\ RepOf[b] = r /\ born[b] <= call[c].asOf - Delay
    BY <1>3, <2>1 DEF Stable, Aged
  <2>4. born[b] \in Nat /\ born[b] <= call[c].asOf - Delay
    BY <2>3 DEF Live, Corpus, TypeOK
  <2> QED
    BY <2>1, <2>2, <2>3, <2>4
<1>4. CASE /\ r \notin Ordinary /\ CheckWindow(c) /\ call[c].pc = "window"
           /\ ~BackingMatured(call[c].row.asOf, call[c].asOf)
           /\ call'[c].found = Shown(call[c].row.found)
           /\ call'[c].status = Answer(call[c].row.status, call[c].row.found)
  <2>1. Reading(c) /\ flag' = flag
    BY <1>4 DEF Reading, CheckWindow, corpus
  <2>2. PICK b \in Backing : /\ Live(b) /\ RepOf[b] = r /\ RepOf[b] \in through[c]
                             /\ born[b] \in Nat /\ born[b] <= call[c].asOf - Delay
    BY <1>3, <1>4, <2>1
  <2>3. born[b] <= call[c].row.asOf - Delay
    <3> DEFINE from == call[c].row.asOf
               to == call[c].asOf
    <3>1. from \in Nat /\ to \in Nat /\ Delay \in Nat
      BY SnapshotAssumption DEF TypeOK, Call, Row
    <3>2. ~BackingMatured(from, to) /\ b \in indexed
      BY <1>4, <2>2 DEF Live
    <3> HIDE DEF from, to
    <3>3. born[b] <= to - Delay => born[b] <= from - Delay
      BY <2>2, <3>1, <3>2 DEF BackingMatured
    <3> QED
      BY <2>2, <3>3 DEF from, to
  <2>4. Covers(call[c].row.asOf, call[c].row.found, through[c])
    <3>1. call[c].row.status # "FAILED"
      BY <1>1, <1>4 DEF Answer
    <3> QED
      BY <1>3, <1>4, <2>1, <3>1 DEF AllCovered
  <2>5. r \in call[c].row.found
    BY <2>2, <2>3, <2>4 DEF Covers
  <2> QED
    BY <1>3, <1>4, <2>1, <2>5 DEF Shown
<1>5. CASE /\ r \notin Ordinary /\ Write(c) /\ call[c].pc = "write"
           /\ call'[c].found = Shown(call[c].found)
           /\ call'[c].status = Answer(call[c].status, call[c].found)
           /\ call'[c].partial = call[c].partial
  <2>1. Reading(c) /\ flag' = flag
    BY <1>5 DEF Reading, Write, corpus
  <2>2. Usable(c)
    <3>1. call[c].status # "FAILED" /\ ~call[c].partial
      BY <1>1, <1>5 DEF Answer
    <3>2. call[c].status # "DISABLED"
      BY <1>3, <1>5, <2>1 DEF AllCovered
    <3> QED
      BY <1>5, <3>1, <3>2 DEF Usable, Reusable, Writing, Status
  <2>3. Covers(call[c].asOf, call[c].found, through[c])
    <3>0. AllCovered
      BY <1>3, <1>5, <2>1
    <3>1. Covered(call[c].gen, call[c].asOf, call[c].found)
      BY <1>5, <2>2, <3>0, Zenon DEF AllCovered, Kept
    <3>2. call[c].gen \in Nat
      BY DEF TypeOK, Call
    <3> QED
      BY <2>1, <3>1, <3>2 DEF Covered
  <2>4. r \in call[c].found
    BY <1>3, <1>5, <2>1, <2>3 DEF Covers
  <2> QED
    BY <1>3, <1>5, <2>1, <2>4 DEF Shown
<1>6. CASE r \in Ordinary
  BY <1>6, OrdinaryAnswered
<1> QED
  BY <1>1, <1>2, <1>4, <1>5, <1>6, DoneStep

LEMMA CoveredKept ==
    ASSUME TypeOK, TypeOK', Sighted, Ordinary = {} \/ ~FlagChanges, Steady,
           Corpus, Corpus', Stable, Stable', Stamps, AllCovered, Next
    PROVE  AllCovered'
<1>1. ASSUME Reusable(row.status, row.partial)' PROVE Covered(row.gen, row.asOf, row.found)'
  BY <1>1, RowCovered
<1>2. \A c \in Caller : Usable(c)' => Covered(call[c].gen, call[c].asOf, Kept(c))'
  BY UsableCovered
<1>3. \A c \in Caller : call'[c].pc = "window" =>
        /\ call'[c].row.status # "DISABLED" /\ ~call'[c].row.partial
        /\ call'[c].row.status # "FAILED" =>
              Covers(call[c].row.asOf, call[c].row.found, through[c])'
  BY WindowCovered
<1>4. \A c \in Caller : call'[c].pc = "write" /\ call'[c].status = "DISABLED" => ~call'[c].flag
  BY DisabledStep
<1> QED
  BY <1>1, <1>2, <1>3, <1>4 DEF AllCovered

\* An ordinary submission is in every settled answer, whatever runs together
\* and whatever the flag does.
THEOREM NoMissedSubmissionHolds == Spec => []NoMissedSubmission
<1> DEFINE Inv == TypeOK /\ Writing /\ OrdinaryFound /\ NoMissedSubmission
<1>1. Init => Inv
  BY InitType DEF Init, OrdinaryFound, NoMissedSubmission, Settled, Usable, Reusable, Idle, NoRow
<1>2. Inv /\ [Next]_vars => Inv'
  <2> SUFFICES ASSUME Inv, [Next]_vars PROVE Inv'
    OBVIOUS
  <2>1. TypeOK' /\ Writing'
    BY TypeStep
  <2>2. CASE Next
    BY <2>1, <2>2, OrdinaryKept, OrdinaryAnswered DEF NoMissedSubmission
  <2>3. CASE UNCHANGED vars
    BY <2>1, <2>3 DEF vars, OrdinaryFound, NoMissedSubmission, Settled, Usable, Kept, corpus
  <2> QED
    BY <2>2, <2>3
<1> QED
  BY <1>1, <1>2, PTL DEF Spec

\* A settled answer names every source that was visible all through its
\* resolution, whether it was computed or read from the cache, and whatever else
\* ran, aborted, was promoted, withdrawn or exempted meanwhile; in a corpus of
\* accepted decisions alone also whatever the flag did.
THEOREM NoMissedMatchHolds ==
    ASSUME Ordinary = {} \/ ~FlagChanges
    PROVE  Spec => []NoMissedMatch
<1> DEFINE Inv == /\ TypeOK /\ Writing /\ Stamps /\ Corpus /\ Stable /\ Steady
                  /\ OrdinaryFound /\ NoMissedSubmission
                  /\ (Sighted => AllCovered) /\ NoMissedMatch
<1>1. Init => Inv
  BY InitType DEF Init, Stamps, Corpus, Stable, Steady, OrdinaryFound, AllCovered,
     NoMissedSubmission, NoMissedMatch, Settled, Usable, Reusable, Reading, Running, Idle, NoRow
<1>2. Inv /\ [Next]_vars => Inv'
  <2> SUFFICES ASSUME Inv, [Next]_vars PROVE Inv'
    OBVIOUS
  <2>1. TypeOK' /\ Writing'
    BY TypeStep
  <2>2. CASE Next
    <3>1. Stamps' /\ Corpus' /\ Stable' /\ Steady' /\ OrdinaryFound'
      BY <2>1, <2>2, StampsStep, CorpusStep, StableStep, SteadyStep, OrdinaryKept
    <3>2. Sighted' => AllCovered'
      BY <2>1, <2>2, <3>1, SteadyStep, CoveredKept DEF Sighted
    <3>3. NoMissedMatch' /\ NoMissedSubmission'
      BY <2>1, <2>2, AnswerComplete, OrdinaryAnswered DEF NoMissedMatch, NoMissedSubmission
    <3> QED
      BY <2>1, <3>1, <3>2, <3>3
  <2>3. CASE UNCHANGED vars
    BY <2>1, <2>3 DEF vars, corpus, Stamps, Corpus, Stable, Steady, OrdinaryFound,
       Sighted, AllCovered, Covered, Covers, NoMissedSubmission, NoMissedMatch, Settled, Usable, Kept,
       Reading, Running, Live, Aged
  <2> QED
    BY <2>2, <2>3
<1> QED
  BY <1>1, <1>2, PTL DEF Spec

\* A verdict says what the answer holds.
VerdictTells ==
    \A c \in Caller : call[c].pc = "done" /\ call[c].status = "NO_MATCH" => call[c].found = {}

LEMMA VerdictTellsStep ==
    ASSUME TypeOK, VerdictTells, [Next]_vars
    PROVE  VerdictTells'
<1> SUFFICES ASSUME NEW c \in Caller, call'[c].pc = "done", call'[c].status = "NO_MATCH"
             PROVE  call'[c].found = {}
  BY DEF VerdictTells
<1>1. CASE call'[c] = call[c]
  BY <1>1 DEF VerdictTells
<1>2. CASE UNCHANGED vars
  BY <1>1, <1>2 DEF vars
<1>3. CASE Next
  BY <1>1, <1>3, DoneStep DEF Answer
<1> QED
  BY <1>2, <1>3

\* The verdict that nothing matches is never wrong, without any assumption on
\* the flag: a report that also matches a submission never gets it, and one
\* that matches only the corpus is never served a row the corpus was not in.
THEOREM NoFalseNegativeHolds == Spec => []NoFalseNegative
<1>1. Spec => []VerdictTells
  <2>1. Init => VerdictTells
    BY DEF Init, VerdictTells, Idle
  <2>2. TypeOK /\ VerdictTells /\ [Next]_vars => VerdictTells'
    BY VerdictTellsStep
  <2> QED
    BY <2>1, <2>2, TypeCorrect, PTL DEF Spec
<1>2. VerdictTells /\ NoMissedSubmission /\ (Ordinary = {} => NoMissedMatch) => NoFalseNegative
  BY DEF VerdictTells, NoMissedSubmission, NoMissedMatch, NoFalseNegative, Settled
<1>3. CASE Ordinary = {}
  <2>1. Spec => []NoMissedMatch
    BY <1>3, NoMissedMatchHolds
  <2>2. VerdictTells /\ NoMissedSubmission /\ NoMissedMatch => NoFalseNegative
    BY <1>2
  <2> QED
    BY <1>1, <2>1, <2>2, NoMissedSubmissionHolds, PTL
<1>4. CASE Ordinary # {}
  <2>1. VerdictTells /\ NoMissedSubmission => NoFalseNegative
    BY <1>2, <1>4
  <2> QED
    BY <1>1, <2>1, NoMissedSubmissionHolds, PTL
<1> QED
  BY <1>3, <1>4

=============================================================================
