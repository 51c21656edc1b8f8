-------------------------- MODULE LetterLifeProofs --------------------------
(***************************************************************************)
(* Proofs about LetterLife, for any number of processes, webhook calls,    *)
(* letters in the chain, claims, returns and crashes.  First the types and *)
(* the right to transmit (GrantInv); then, on top of those, that nothing   *)
(* is recorded as gone, reported or followed up that the platform has not  *)
(* taken (ChainInv), what is counted of a letter (CountInv) and the trace  *)
(* it keeps (TraceInv).                                                    *)
(***************************************************************************)
EXTENDS LetterLife, FiniteSetTheorems, TLAPS

LEMMA HasNextType == \A l \in Letters : HasNext(l) \in BOOLEAN
BY ChainAssumption DEF Letters, HasNext

\* What an operation makes of a row is a row.
LEMMA RowsStayRows ==
    ASSUME NEW row \in Row, NEW seen \in View
    PROVE  /\ ViewOf(row) \in View
           /\ Clear(row, seen) \in Row
           /\ Stopped(row, seen) \in Row
           /\ \A l \in Letters : SentRow(l, row) \in Row
           /\ \A kind \in Events : Applied(row, seen, kind) \in Row
<1> USE DEF Row, View, Status, PENDING, GONE_STATUSES, CHAINABLE
<1>1. ViewOf(row) \in View
  BY DEF ViewOf
<1>2. Clear(row, seen) \in Row
  BY DEF Clear
<1>3. Stopped(row, seen) \in Row
  BY <1>2 DEF Stopped
<1>4. \A l \in Letters : SentRow(l, row) \in Row
  BY HasNextType DEF SentRow
<1>5. ASSUME NEW kind \in Events PROVE Applied(row, seen, kind) \in Row
  BY <1>2 DEF Applied, Events, Reason
<1> QED
  BY <1>1, <1>2, <1>3, <1>4, <1>5

LEMMA ViewInhabited == NoView \in View
BY DEF NoView, View, Status

\* The status an operation leaves: the one it found, or one of its own.
LEMMA StatusOfRow ==
    ASSUME NEW row \in Row, NEW seen \in View
    PROVE  /\ Stopped(row, seen).status \in {row.status, "stopped"}
           /\ \A l \in Letters : SentRow(l, row).status = "sent"
           /\ \A kind \in Events :
                Applied(row, seen, kind).status \in {row.status, "delivered", "bounced"}
<1> USE DEF Row, View
<1>1. Clear(row, seen) \in Row /\ Clear(row, seen).status = row.status
  BY DEF Clear
<1>2. Stopped(row, seen).status \in {row.status, "stopped"}
  BY <1>1 DEF Stopped
<1>3. \A l \in Letters : SentRow(l, row).status = "sent"
  BY DEF SentRow
<1>4. ASSUME NEW kind \in Events
      PROVE  Applied(row, seen, kind).status \in {row.status, "delivered", "bounced"}
  BY <1>1 DEF Applied, Events
<1> QED
  BY <1>2, <1>3, <1>4

LEMMA NullValues == Idle \in ProcState /\ NoHook \in HookState /\ NoRow \in Row
<1>1. 0 \in Letters /\ 0 \in Attempts
  BY ChainAssumption, BoundAssumption DEF Letters, Attempts
<1>2. Idle \in ProcState
  BY <1>1 DEF Idle, ProcState
<1>3. NoHook \in HookState
  BY <1>1 DEF NoHook, NoView, HookState, View, Status, ThreadStatus
<1>4. NoRow \in Row
  BY <1>1 DEF NoRow, Row, Status, Reason
<1> QED
  BY <1>2, <1>3, <1>4

LEMMA InitTypeOK == Init => TypeOK
<1> SUFFICES ASSUME Init PROVE TypeOK
  OBVIOUS
<1> USE DEF Init
<1>1. letter \in [Letters -> Row]
  BY NullValues DEF Row, Status, PENDING
<1>2. proc \in [Procs -> ProcState] /\ hook \in [Hooks -> HookState]
  BY NullValues
<1>3. /\ took \in [Letters -> SUBSET Attempts]
      /\ claims \in [Letters -> Attempts]
      /\ returns \in [Letters -> Nat] /\ recorded \in [Letters -> Nat]
  BY BoundAssumption DEF Attempts
<1> QED
  BY <1>1, <1>2, <1>3 DEF TypeOK, ThreadStatus

\* Updates of the tables of processes and of rows.
LEMMA ProcUpdates ==
    ASSUME TypeOK, NEW w \in Procs
    PROVE  /\ \A pc \in {"made", "restoring", "settling", "suppressed"} :
                Turn(w, pc) => proc' \in [Procs -> ProcState]
           /\ Finish(w) => proc' \in [Procs -> ProcState]
           /\ Fail(w) => proc' \in [Procs -> ProcState]
           /\ proc[w].at \in Letters /\ proc[w].mine \in Attempts /\ proc[w].before \in Attempts
<1>1. ASSUME NEW pc \in {"made", "restoring", "settling", "suppressed"}, Turn(w, pc)
      PROVE  proc' \in [Procs -> ProcState]
  BY <1>1 DEF Turn, TypeOK, ProcState
<1>2. ASSUME Finish(w) PROVE proc' \in [Procs -> ProcState]
  BY <1>2, NullValues DEF Finish, TypeOK
<1>3. ASSUME Fail(w) PROVE proc' \in [Procs -> ProcState]
  BY <1>1, <1>2, <1>3 DEF Fail
<1>4. proc[w].at \in Letters /\ proc[w].mine \in Attempts /\ proc[w].before \in Attempts
  BY DEF TypeOK, ProcState
<1> QED
  BY <1>1, <1>2, <1>3, <1>4

LEMMA ProcPairs ==
    ASSUME TypeOK, NEW w \in Procs, NEW a \in Attempts
    PROVE  /\ [proc EXCEPT ![w].pc = "checked", ![w].before = a] \in [Procs -> ProcState]
           /\ [proc EXCEPT ![w].pc = "handing", ![w].mine = a] \in [Procs -> ProcState]
BY DEF TypeOK, ProcState

LEMMA RowUpdates ==
    ASSUME TypeOK, NEW l
    PROVE  /\ \A s \in Status : [letter EXCEPT ![l].status = s] \in [Letters -> Row]
           /\ \A s \in Status, a \in Attempts :
                [letter EXCEPT ![l].status = s, ![l].mid = a] \in [Letters -> Row]
           /\ \A b \in BOOLEAN : [letter EXCEPT ![l].due = b] \in [Letters -> Row]
           /\ \A row \in Row : [letter EXCEPT ![l] = row] \in [Letters -> Row]
           /\ l \in Letters => letter[l] \in Row
BY DEF TypeOK, Row

LEMMA StoppedRows ==
    ASSUME TypeOK, NEW l \in Letters, NEW why \in Reason
    PROVE  [letter EXCEPT ![l].status = "stopped", ![l].due = FALSE, ![l].why = why]
             \in [Letters -> Row]
BY DEF TypeOK, Row, Status

LEMMA ReturnedRows ==
    ASSUME NEW f \in [Letters -> Row], NEW l \in Letters
    PROVE  [f EXCEPT ![l].why = "", ![l].back = TRUE] \in [Letters -> Row]
BY DEF Row, Reason

LEMMA StatusValues ==
    {"none", "queued", "sending", "sent", "delivered", "bounced", "stopped"} = Status
BY DEF Status, PENDING, GONE_STATUSES, CHAINABLE

\* Every step of a process keeps the types.
LEMMA ProcTypeOK ==
    ASSUME TypeOK, NEW w \in Procs, SendStep(w) \/ PassStep(w) \/ Crash(w)
    PROVE  TypeOK'
<1> DEFINE l == proc[w].at
<1> USE DEF TypeOK, rows, site, history
<1> l \in Letters /\ letter[l] \in Row
  BY ProcUpdates
<1>1. CASE CheckFollowup(w)
  <2>1. letter[l].mid \in Attempts
    BY DEF Row
  <2> QED
    BY <1>1, <2>1, ProcPairs DEF CheckFollowup
<1>2. CASE Claim(w)
  <2>1. claims[l] + 1 \in Attempts
    BY <1>2, BoundAssumption DEF Claim, Attempts
  <2>2. letter' \in [Letters -> Row]
    BY <1>2, <2>1, RowUpdates, StatusValues DEF Claim
  <2> QED
    BY <1>2, <2>1, <2>2, ProcPairs DEF Claim
<1>3. CASE LoseClaim(w)
  BY <1>3, ProcUpdates DEF LoseClaim
<1>4. CASE Accept(w)
  BY <1>4, ProcUpdates DEF Accept
<1>5. CASE Answer(w)
  BY <1>5, ProcUpdates DEF Answer
<1>6. CASE Refuse(w)
  <2>1. letter' \in [Letters -> Row]
    BY <1>6, ProcUpdates, RowUpdates, StatusValues DEF Refuse
  <2> QED
    BY <1>6, <2>1, ProcUpdates DEF Refuse
<1>7. CASE LoseAnswer(w)
  BY <1>7, ProcUpdates DEF LoseAnswer
<1>8. CASE Settle(w)
  <2>1. SentRow(l, letter[l]) \in Row
    BY RowsStayRows, ViewInhabited
  <2>2. letter' \in [Letters -> Row]
    BY <1>8, <2>1, RowUpdates DEF Settle
  <2> QED
    BY <1>8, <2>2, ProcUpdates DEF Settle
<1>9. CASE Waits(w)
  <2>1. letter' \in [Letters -> Row]
    BY <1>9, RowUpdates DEF Waits, GiveBack
  <2> QED
    BY <1>9, <2>1, ProcUpdates DEF Waits
<1>10. CASE Materialize(w)
  <2>1. letter' \in [Letters -> Row]
    BY <1>10, RowUpdates, StatusValues DEF Materialize
  <2> QED
    BY <1>10, <2>1, ProcUpdates DEF Materialize
<1>11. CASE Forbid(w)
  <2>1. letter' \in [Letters -> Row]
    BY <1>11, StatusValues DEF Forbid, Row, Reason
  <2> QED
    BY <1>11, <2>1, ProcUpdates DEF Forbid
<1>12. CASE AlreadyDecided(w)
  BY <1>12, ProcUpdates DEF AlreadyDecided
<1>13. CASE Suppressed(w)
  BY <1>13, ProcUpdates DEF Suppressed
<1>14. CASE WriteStopped(w)
  <2>1. letter' \in [Letters -> Row]
    BY <1>14, RowUpdates, StatusValues DEF WriteStopped
  <2> QED
    BY <1>14, <2>1, ProcUpdates DEF WriteStopped
<1>15. CASE Postpone(w)
  BY <1>15, ProcUpdates DEF Postpone
<1>16. CASE Restore(w)
  <2>1. letter' \in [Letters -> Row]
    BY <1>16, RowUpdates DEF Restore, GiveBack
  <2> QED
    BY <1>16, <2>1, ProcUpdates DEF Restore
<1>17. CASE Crash(w)
  BY <1>17, ProcUpdates DEF Crash
<1> QED
  BY <1>1, <1>2, <1>3, <1>4, <1>5, <1>6, <1>7, <1>8, <1>9, <1>10, <1>11, <1>12,
     <1>13, <1>14, <1>15, <1>16, <1>17 DEF SendStep, PassStep

\* A click reads the first letter, a pass takes a due date.
LEMMA StartTypeOK ==
    ASSUME TypeOK, NEW w \in Procs, NEW l \in Letters, CheckClick(w, l) \/ ClaimDue(w, l)
    PROVE  TypeOK'
<1> USE DEF TypeOK, rows, site, history
<1>1. CASE CheckClick(w, l)
  <2>1. [pc |-> "checked", at |-> l, mine |-> 0, before |-> letter[l].mid] \in ProcState
    BY BoundAssumption DEF ProcState, Row, Attempts
  <2> QED
    BY <1>1, <2>1 DEF CheckClick
<1>2. CASE ClaimDue(w, l)
  <2>1. l + 1 \in Letters
    BY <1>2, ChainAssumption DEF ClaimDue, Letters
  <2>2. [pc |-> "claimed", at |-> l + 1, mine |-> 0, before |-> 0] \in ProcState
    BY <2>1, BoundAssumption DEF ProcState, Attempts
  <2>3. letter' \in [Letters -> Row]
    BY <1>2, RowUpdates DEF ClaimDue
  <2> QED
    BY <1>2, <2>2, <2>3 DEF ClaimDue
<1> QED
  BY <1>1, <1>2

\* Every step of a webhook call keeps the types.
LEMMA HookTypeOK ==
    ASSUME TypeOK, NEW h \in Hooks, HookStep(h) \/ RollBack(h)
    PROVE  TypeOK'
<1> USE DEF TypeOK, rows, site, history
<1>1. /\ hook[h] \in HookState /\ hook[h].at \in Letters
      /\ \A l \in Letters : hook[h].seen[l] \in View /\ letter[l] \in Row
  BY DEF HookState
<1>2. Leave(h) => hook' \in [Hooks -> HookState]
  BY NullValues DEF Leave
<1>3. CASE SettleByEvent(h)
  <2> DEFINE l == hook[h].at
             sent == SentRow(l, letter[l])
  <2>1. sent \in Row
    BY <1>1, RowsStayRows, ViewInhabited
  <2>2. ViewOf(sent) \in View
    BY <2>1, RowsStayRows, ViewInhabited
  <2>3. hook[h].job \in Events
    BY <1>3 DEF SettleByEvent, Unsettled
  <2>4. Applied(sent, ViewOf(sent), hook[h].job) \in Row
    BY <2>1, <2>2, <2>3, RowsStayRows
  <2>5. \A k \in Letters : [letter[k] EXCEPT !.due = FALSE] \in Row
    BY DEF Row
  <2>6. letter' \in [Letters -> Row]
    BY <1>1, <1>3, <2>4, <2>5 DEF SettleByEvent
  <2> QED
    BY <1>1, <1>2, <1>3, <2>6 DEF SettleByEvent, Consequences
<1>4. CASE ReadAgain(h)
  <2> DEFINE l == hook[h].at
             was == hook[h].seen[l].status
  <2>1. ViewOf(letter[l]) \in View
    BY <1>1, RowsStayRows, ViewInhabited
  <2>2. was \in PENDING
    BY <1>4 DEF ReadAgain, Unsettled
  <2>3. hook' \in [Hooks -> HookState]
    BY <1>1, <1>4, <2>1, <2>2 DEF ReadAgain, HookState
  <2> QED
    BY <1>4, <2>3 DEF ReadAgain
<1>5. CASE ApplyEvent(h)
  <2> DEFINE l == hook[h].at
  <2>1. Applied(letter[l], hook[h].seen[l], hook[h].job) \in Row
    BY <1>1, <1>5, RowsStayRows DEF ApplyEvent
  <2>2. letter' \in [Letters -> Row]
    BY <1>5, <2>1, RowUpdates DEF ApplyEvent
  <2> QED
    BY <1>2, <1>5, <2>2 DEF ApplyEvent, Consequences
<1>6. CASE AcceptReply(h)
  <2>1. \A l \in Letters : Stopped(letter[l], hook[h].seen[l]) \in Row
    BY <1>1, RowsStayRows
  <2>2. \A row \in Row : [row EXCEPT !.status = "bounced"] \in Row
    BY StatusValues DEF Row
  <2>3. \A row \in Row : [row EXCEPT !.status = @] = row
    BY DEF Row
  <2>4. letter' \in [Letters -> Row]
    BY <1>6, <2>1, <2>2, <2>3 DEF AcceptReply
  <2>5. /\ thread' \in ThreadStatus /\ stop' \in BOOLEAN /\ buried' \in BOOLEAN
        /\ replies' \subseteq Replies
    BY <1>6 DEF AcceptReply, ThreadStatus
  <2> QED
    BY <1>2, <1>6, <2>4, <2>5 DEF AcceptReply
<1>7. CASE OptOut(h)
  <2>1. \A l \in Letters : Stopped(letter[l], hook[h].seen[l]) \in Row
    BY <1>1, RowsStayRows
  <2>2. letter' \in [Letters -> Row]
    BY <1>7, <2>1 DEF OptOut
  <2> QED
    BY <1>2, <1>7, <2>2 DEF OptOut, ThreadStatus
<1>8. CASE RollBack(h)
  BY <1>2, <1>8 DEF RollBack
<1> QED
  BY <1>3, <1>4, <1>5, <1>6, <1>7, <1>8 DEF HookStep

LEMMA ReadTypeOK ==
    ASSUME TypeOK, NEW h \in Hooks, NEW job \in Jobs, NEW l \in Letters, Read(h, job, l)
    PROVE  TypeOK'
<1>1. \A k \in Letters : ViewOf(letter[k]) \in View
  BY RowsStayRows, ViewInhabited DEF TypeOK
<1>2. job \in AllJobs
  BY JobAssumption
<1>3. (IF job \in {"human", "optout"} THEN thread ELSE "open") \in ThreadStatus
  BY DEF TypeOK, ThreadStatus
<1>4. hook' \in [Hooks -> HookState]
  BY <1>1, <1>2, <1>3, ViewInhabited DEF Read, TypeOK, HookState
<1> QED
  BY <1>4 DEF Read, TypeOK, rows, site, history

\* What people and the pass of DNS returns do keeps the types.
LEMMA PeopleTypeOK ==
    ASSUME TypeOK, NEW l \in Letters,
           \/ FoundSent(l) \/ ReturnToQueue(l) \/ ReturnDead(l) \/ ReturnBounced(l)
           \/ Skip(l) \/ StopForGood(l) \/ OutOfQueue(l)
    PROVE  TypeOK'
<1> USE DEF TypeOK, rows, site, history
<1>1. Requeued(l) \in [Letters -> Row]
  BY StatusValues DEF Requeued, Row
<1>2. CASE FoundSent(l)
  <2>1. SentRow(l, letter[l]) \in Row
    BY RowsStayRows, ViewInhabited
  <2>2. letter' \in [Letters -> Row]
    BY <1>2, <2>1, RowUpdates DEF FoundSent
  <2> QED
    BY <1>2, <2>2 DEF FoundSent
<1>3. CASE ReturnToQueue(l)
  BY <1>1, <1>3 DEF ReturnToQueue
<1>4. CASE ReturnDead(l)
  <2>1. letter' \in [Letters -> Row]
    BY <1>4, RowUpdates, StatusValues DEF ReturnDead
  <2> QED
    BY <1>4, <2>1 DEF ReturnDead
<1>5. CASE ReturnBounced(l)
  <2>1. letter' \in [Letters -> Row]
    BY <1>1, <1>5, ReturnedRows DEF ReturnBounced
  <2>2. returns' = [returns EXCEPT ![l] = @ + 1]
    BY <1>5, Zenon DEF ReturnBounced
  <2>3. UNCHANGED <<site, proc, hook, crashes, took, claims, recorded>>
    BY <1>5, Zenon DEF ReturnBounced
  <2> QED
    BY <2>1, <2>2, <2>3
<1>6. CASE Skip(l)
  <2>1. letter' \in [Letters -> Row]
    BY <1>6, RowUpdates, StatusValues DEF Skip
  <2> QED
    BY <1>6, <2>1 DEF Skip
<1>7. CASE StopForGood(l)
  <2>1. letter' \in [Letters -> Row]
    BY <1>7, StoppedRows DEF StopForGood, Reason
  <2> QED
    BY <1>7, <2>1 DEF StopForGood
<1>8. CASE OutOfQueue(l)
  <2>1. (IF letter[l].mid = 0 THEN "withdrawn" ELSE letter[l].why) \in Reason
    BY DEF Row, Reason
  <2>2. letter' \in [Letters -> Row]
    BY <1>8, <2>1, StoppedRows DEF OutOfQueue
  <2> QED
    BY <1>8, <2>2 DEF OutOfQueue
<1> QED
  BY <1>2, <1>3, <1>4, <1>5, <1>6, <1>7, <1>8

LEMMA NextTypeOK == TypeOK /\ [Next]_vars => TypeOK'
<1> SUFFICES ASSUME TypeOK, [Next]_vars PROVE TypeOK'
  OBVIOUS
<1>1. CASE ProcNext
  BY <1>1, ProcTypeOK, StartTypeOK DEF ProcNext
<1>2. CASE HookNext
  BY <1>2, HookTypeOK, ReadTypeOK DEF HookNext
<1>3. CASE PeopleNext
  BY <1>3, PeopleTypeOK DEF PeopleNext
<1>4. CASE UNCHANGED vars
  BY <1>4 DEF TypeOK, vars, rows, site, history
<1> QED
  BY <1>1, <1>2, <1>3, <1>4 DEF Next

\* Every variable keeps its type, for any number of processes and letters.
THEOREM TypeCorrect == Spec => []TypeOK
<1>1. TypeOK /\ [Next]_vars => TypeOK'
  BY NextTypeOK
<1> QED
  BY InitTypeOK, <1>1, PTL DEF Spec

-----------------------------------------------------------------------------
(* A letter is given to the platform once, and once more for every return  *)
(* to the queue: the inductive invariant GrantInv of LetterLife.           *)
(*                                                                         *)
(* Most steps are harmless to it: they neither claim, accept nor return a  *)
(* letter, bring none back to the queue and put none into anybody's hands. *)

Harmless ==
    /\ took' = took /\ claims' = claims /\ returns' = returns
    /\ \A w \in Procs : proc'[w].pc \in InHands => proc'[w] = proc[w]
    /\ \A l \in Letters :
         /\ letter'[l].status \in NotYet => letter[l].status \in NotYet
         /\ letter'[l].status = "none" => letter[l].status = "none"

LEMMA FiniteTook ==
    ASSUME TypeOK, NEW l \in Letters
    PROVE  IsFiniteSet(took[l]) /\ Cardinality(took[l]) \in Nat
<1>1. IsFiniteSet(Attempts)
  BY BoundAssumption, FS_Interval DEF Attempts
<1>2. took[l] \in SUBSET Attempts
  BY DEF TypeOK
<1> QED
  BY <1>1, <1>2, FS_Subset, FS_CardinalityType

LEMMA InitGrantInv == Init => GrantInv
<1> SUFFICES ASSUME Init PROVE GrantInv
  OBVIOUS
<1>1. \A l \in Letters : took[l] = {} /\ Cardinality(took[l]) = 0 /\ returns[l] = 0
  BY FS_EmptySet DEF Init
<1>2. \A w \in Procs : proc[w].pc = "idle"
  BY DEF Init, Idle
<1> QED
  BY <1>1, <1>2 DEF GrantInv, AttemptsAreClaims, OneCarrier, GrantLeft, AtMostOncePerGrant,
                    Carries, InHands

LEMMA HarmlessKeeps == ASSUME TypeOK, GrantInv, Harmless PROVE GrantInv'
<1> USE DEF Harmless
<1>1. \A w \in Procs : proc[w].at \in Letters
  BY ProcUpdates
<1>2. AttemptsAreClaims'
  BY <1>1 DEF GrantInv, AttemptsAreClaims, InHands
<1>3. OneCarrier'
  BY DEF GrantInv, OneCarrier, Carries, InHands
<1>4. GrantLeft'
  BY DEF GrantInv, GrantLeft, InHands
<1>5. AtMostOncePerGrant'
  BY DEF GrantInv, AtMostOncePerGrant
<1> QED
  BY <1>2, <1>3, <1>4, <1>5 DEF GrantInv

LEMMA ProcHarmless ==
    ASSUME TypeOK, NEW w \in Procs,
           \/ CheckFollowup(w) \/ LoseClaim(w) \/ LoseAnswer(w) \/ Settle(w)
           \/ PassStep(w) \/ Crash(w)
    PROVE  Harmless
<1> USE DEF Harmless, rows, site, history, InHands, NotYet, TypeOK
<1>1. CASE CheckFollowup(w)
  BY <1>1 DEF CheckFollowup
<1>2. CASE LoseClaim(w)
  BY <1>2 DEF LoseClaim, Finish, Idle
<1>3. CASE LoseAnswer(w)
  BY <1>3 DEF LoseAnswer, Finish, Idle
<1>4. CASE Settle(w)
  <2> DEFINE l == proc[w].at
  <2>1. l \in Letters /\ letter[l] \in Row
    BY ProcUpdates
  <2>2. SentRow(l, letter[l]).status = "sent"
    BY <2>1, StatusOfRow, ViewInhabited
  <2>3. \A k \in Letters : letter'[k] = letter[k] \/ letter'[k].status = "sent"
    BY <1>4, <2>1, <2>2 DEF Settle
  <2> QED
    BY <1>4, <2>3 DEF Settle, Finish, Idle
<1>5. CASE Waits(w)
  BY <1>5 DEF Waits, GiveBack, Finish, Idle, Row
<1>6. CASE Materialize(w)
  BY <1>6 DEF Materialize, Turn, Row
<1>7. CASE Forbid(w)
  BY <1>7 DEF Forbid, Finish, Idle, Row
<1>8. CASE AlreadyDecided(w)
  BY <1>8 DEF AlreadyDecided, Finish, Idle
<1>9. CASE Suppressed(w)
  BY <1>9 DEF Suppressed, Turn
<1>10. CASE WriteStopped(w)
  BY <1>10 DEF WriteStopped, Finish, Idle, Row
<1>11. CASE Postpone(w)
  BY <1>11 DEF Postpone, Turn
<1>12. CASE Restore(w)
  BY <1>12 DEF Restore, GiveBack, Finish, Idle, Row
<1>13. CASE Crash(w)
  BY <1>13 DEF Crash, Finish, Idle
<1> QED
  BY <1>1, <1>2, <1>3, <1>4, <1>5, <1>6, <1>7, <1>8, <1>9, <1>10, <1>11, <1>12, <1>13
     DEF PassStep

LEMMA StartHarmless ==
    ASSUME TypeOK, NEW w \in Procs, NEW l \in Letters, CheckClick(w, l) \/ ClaimDue(w, l)
    PROVE  Harmless
<1> USE DEF Harmless, rows, site, history, InHands, NotYet, TypeOK
<1>1. CASE CheckClick(w, l)
  BY <1>1 DEF CheckClick
<1>2. CASE ClaimDue(w, l)
  BY <1>2 DEF ClaimDue, Row
<1> QED
  BY <1>1, <1>2

LEMMA HookHarmless ==
    ASSUME TypeOK, NEW h \in Hooks, HookStep(h) \/ RollBack(h)
    PROVE  Harmless
<1>1. /\ hook[h].at \in Letters
      /\ \A l \in Letters : hook[h].seen[l] \in View /\ letter[l] \in Row
  BY DEF TypeOK, HookState
<1>2. /\ UNCHANGED <<proc, took, claims, returns>>
      /\ \A l \in Letters :
           letter'[l].status \in {letter[l].status, "sent", "delivered", "bounced", "stopped"}
  <2>1. CASE SettleByEvent(h)
    <3> DEFINE l == hook[h].at
               sent == SentRow(l, letter[l])
    <3>1. sent \in Row /\ sent.status = "sent" /\ ViewOf(sent) \in View
      BY <1>1, RowsStayRows, StatusOfRow, ViewInhabited
    <3>2. hook[h].job \in Events
      BY <2>1 DEF SettleByEvent, Unsettled
    <3>3. Applied(sent, ViewOf(sent), hook[h].job).status \in {"sent", "delivered", "bounced"}
      BY <3>1, <3>2, StatusOfRow
    <3>4. \A k \in Letters : [letter[k] EXCEPT !.due = FALSE].status = letter[k].status
      BY <1>1 DEF Row
    <3>5. \A k \in Letters :
            letter'[k].status \in {letter[k].status, "sent", "delivered", "bounced", "stopped"}
      BY <2>1, <3>3, <3>4 DEF SettleByEvent
    <3> QED
      BY <2>1, <3>5 DEF SettleByEvent
  <2>2. CASE ReadAgain(h)
    BY <2>2 DEF ReadAgain, rows, history
  <2>3. CASE ApplyEvent(h)
    <3> DEFINE l == hook[h].at
    <3>1. Applied(letter[l], hook[h].seen[l], hook[h].job).status
            \in {letter[l].status, "delivered", "bounced"}
      BY <1>1, <2>3, StatusOfRow DEF ApplyEvent
    <3> QED
      BY <2>3, <3>1 DEF ApplyEvent, history, TypeOK
  <2>4. CASE AcceptReply(h)
    <3>1. \A l \in Letters :
            /\ Stopped(letter[l], hook[h].seen[l]) \in Row
            /\ Stopped(letter[l], hook[h].seen[l]).status \in {letter[l].status, "stopped"}
      BY <1>1, RowsStayRows, StatusOfRow
    <3>2. \A row \in Row :
            /\ [row EXCEPT !.status = "bounced"].status = "bounced"
            /\ [row EXCEPT !.status = @] = row
      BY DEF Row
    <3>3. ASSUME NEW l \in Letters
          PROVE  letter'[l].status \in {letter[l].status, "bounced", "stopped"}
      <4> DEFINE row == Stopped(letter[l], hook[h].seen[l])
      <4>1. letter'[l] \in {[row EXCEPT !.status = "bounced"], [row EXCEPT !.status = @]}
        BY <2>4 DEF AcceptReply
      <4> QED
        BY <3>1, <3>2, <4>1
    <3> QED
      BY <2>4, <3>3 DEF AcceptReply, history
  <2>5. CASE OptOut(h)
    <3>1. \A l \in Letters :
            Stopped(letter[l], hook[h].seen[l]).status \in {letter[l].status, "stopped"}
      BY <1>1, StatusOfRow
    <3> QED
      BY <2>5, <3>1 DEF OptOut, history
  <2>6. CASE RollBack(h)
    BY <2>6 DEF RollBack, rows, history
  <2> QED
    BY <2>1, <2>2, <2>3, <2>4, <2>5, <2>6 DEF HookStep
<1> QED
  BY <1>2 DEF Harmless, NotYet

LEMMA ReadHarmless ==
    ASSUME NEW h \in Hooks, NEW job \in Jobs, NEW l \in Letters, Read(h, job, l)
    PROVE  Harmless
BY DEF Read, Harmless, rows, history

LEMMA PeopleHarmless ==
    ASSUME TypeOK, NEW l \in Letters,
           FoundSent(l) \/ ReturnDead(l) \/ Skip(l) \/ StopForGood(l) \/ OutOfQueue(l)
    PROVE  Harmless
<1> USE DEF history, site, NotYet, TypeOK
<1>1. CASE FoundSent(l)
  <2>1. SentRow(l, letter[l]).status = "sent"
    BY StatusOfRow, ViewInhabited
  <2> QED
    BY <1>1, <2>1 DEF FoundSent, Harmless
<1>2. CASE ReturnDead(l)
  BY <1>2 DEF ReturnDead, Harmless, Row
<1>3. CASE Skip(l)
  BY <1>3 DEF Skip, Harmless, Row
<1>4. CASE StopForGood(l)
  BY <1>4 DEF StopForGood, Harmless, Row
<1>5. CASE OutOfQueue(l)
  BY <1>5 DEF OutOfQueue, Harmless, Row
<1> QED
  BY <1>1, <1>2, <1>3, <1>4, <1>5

\* The steps that do touch a grant: the claim, the platform's yes and no, and
\* the two returns to the queue.
LEMMA ClaimKeeps == ASSUME TypeOK, GrantInv, NEW w \in Procs, Claim(w) PROVE GrantInv'
<1> DEFINE l == proc[w].at
<1>1. /\ l \in Letters /\ letter[l].status = "queued" /\ claims[l] \in Nat
      /\ \A v \in Procs : proc[v].at \in Letters
  BY BoundAssumption, ProcUpdates DEF Claim, TypeOK, Attempts
<1>2. /\ UNCHANGED <<took, returns>>
      /\ claims' = [claims EXCEPT ![l] = claims[l] + 1]
      /\ \A k \in Letters : k # l => letter'[k] = letter[k]
      /\ letter'[l].status = "sending"
      /\ \A v \in Procs : v # w => proc'[v] = proc[v]
      /\ proc'[w].pc = "handing" /\ proc'[w].at = l /\ proc'[w].mine = claims[l] + 1
  BY <1>1 DEF Claim, TypeOK, ProcState, Row
<1>3. \A v \in Procs : proc[v].at = l => proc[v].pc \notin InHands
  BY <1>1 DEF GrantInv, AttemptsAreClaims, NotYet
<1>4. AttemptsAreClaims'
  <2>1. \A k \in Letters : took'[k] \subseteq 1..claims'[k]
    BY <1>1, <1>2 DEF GrantInv, AttemptsAreClaims, TypeOK
  <2>2. \A v \in Procs :
          proc'[v].pc \in InHands =>
            /\ proc'[v].mine \in 1..claims'[proc'[v].at]
            /\ letter'[proc'[v].at].status \notin NotYet
    BY <1>1, <1>2, <1>3 DEF GrantInv, AttemptsAreClaims, InHands, NotYet, TypeOK
  <2>3. \A v \in Procs : proc'[v].pc = "settling" => proc'[v].mine \in took'[proc'[v].at]
    BY <1>2 DEF GrantInv, AttemptsAreClaims
  <2> QED
    BY <2>1, <2>2, <2>3 DEF AttemptsAreClaims
<1>5. OneCarrier'
  BY <1>2, <1>3 DEF GrantInv, OneCarrier, Carries, InHands
<1>6. GrantLeft'
  <2>1. \A k \in Letters : letter'[k].status \in NotYet =>
          letter'[k] = letter[k]
    BY <1>2 DEF NotYet
  <2>2. Cardinality(took[l]) <= returns[l]
    BY <1>1 DEF GrantInv, GrantLeft, NotYet
  <2> QED
    BY <1>2, <2>1, <2>2 DEF GrantInv, GrantLeft, NotYet
<1>7. AtMostOncePerGrant'
  BY <1>2 DEF GrantInv, AtMostOncePerGrant
<1> QED
  BY <1>4, <1>5, <1>6, <1>7 DEF GrantInv

LEMMA AcceptKeeps == ASSUME TypeOK, GrantInv, NEW w \in Procs, Accept(w) PROVE GrantInv'
<1> DEFINE l == proc[w].at
           a == proc[w].mine
<1>1. /\ l \in Letters /\ proc[w].pc = "handing" /\ a \notin took[l]
      /\ UNCHANGED <<letter, proc, claims, returns>>
      /\ \A k \in Letters : k # l => took'[k] = took[k]
      /\ took'[l] = took[l] \cup {a}
  BY ProcUpdates DEF Accept, TypeOK, rows
<1>2. /\ Cardinality(took[l]) <= returns[l]
      /\ Cardinality(took'[l]) = Cardinality(took[l]) + 1
      /\ returns[l] \in Nat /\ Cardinality(took[l]) \in Nat
  BY <1>1, FiniteTook, FS_AddElement DEF GrantInv, GrantLeft, TypeOK
<1>3. \A v \in Procs : proc[v].at = l /\ proc[v].pc \in InHands => v = w
  BY <1>1 DEF GrantInv, OneCarrier, Carries, InHands
<1>4. letter[l].status \notin NotYet /\ a \in 1..claims[l]
  BY <1>1 DEF GrantInv, AttemptsAreClaims, InHands
<1>5. \A v \in Procs : proc[v].at \in Letters
  BY ProcUpdates
<1>6. AttemptsAreClaims'
  BY <1>1, <1>4, <1>5 DEF GrantInv, AttemptsAreClaims
<1>7. OneCarrier'
  BY <1>1 DEF GrantInv, OneCarrier, Carries
<1>8. GrantLeft'
  BY <1>1, <1>3, <1>4, <1>5 DEF GrantInv, GrantLeft, InHands
<1>9. AtMostOncePerGrant'
  <2>1. Cardinality(took'[l]) <= 1 + returns'[l]
    BY <1>1, <1>2
  <2>2. \A k \in Letters : k # l => Cardinality(took'[k]) <= 1 + returns'[k]
    BY <1>1 DEF GrantInv, AtMostOncePerGrant
  <2> QED
    BY <2>1, <2>2 DEF AtMostOncePerGrant
<1> QED
  BY <1>6, <1>7, <1>8, <1>9 DEF GrantInv

LEMMA AnswerKeeps == ASSUME TypeOK, GrantInv, NEW w \in Procs, Answer(w) PROVE GrantInv'
<1>1. /\ proc[w].pc = "handing" /\ proc[w].mine \in took[proc[w].at]
      /\ UNCHANGED <<letter, took, claims, returns>>
      /\ \A v \in Procs : v # w => proc'[v] = proc[v]
      /\ proc'[w].pc = "settling" /\ proc'[w].at = proc[w].at /\ proc'[w].mine = proc[w].mine
  BY DEF Answer, Turn, TypeOK, ProcState, rows, history
<1>2. AttemptsAreClaims'
  BY <1>1 DEF GrantInv, AttemptsAreClaims, InHands
<1>3. OneCarrier'
  BY <1>1 DEF GrantInv, OneCarrier, Carries
<1>4. GrantLeft'
  BY <1>1 DEF GrantInv, GrantLeft
<1>5. AtMostOncePerGrant'
  BY <1>1 DEF GrantInv, AtMostOncePerGrant
<1> QED
  BY <1>2, <1>3, <1>4, <1>5 DEF GrantInv

LEMMA RefuseKeeps == ASSUME TypeOK, GrantInv, NEW w \in Procs, Refuse(w) PROVE GrantInv'
<1> DEFINE l == proc[w].at
<1>1. /\ l \in Letters /\ proc[w].pc = "handing" /\ proc[w].mine \notin took[l]
      /\ UNCHANGED <<took, claims, returns>>
      /\ \A k \in Letters : k # l => letter'[k] = letter[k]
      /\ letter'[l].status = "queued"
      /\ \A v \in Procs : v # w => proc'[v] = proc[v]
      /\ proc'[w].pc \in {"idle", "restoring"}
  BY ProcUpdates DEF Refuse, Fail, Turn, Finish, Idle, TypeOK, Row, ProcState, history
<1>2. \A v \in Procs : v # w /\ proc[v].at = l => proc[v].pc \notin InHands
  BY <1>1 DEF GrantInv, OneCarrier, Carries, InHands
<1>3. \A v \in Procs : proc[v].at \in Letters
  BY ProcUpdates
<1>4. AttemptsAreClaims'
  BY <1>1, <1>2, <1>3 DEF GrantInv, AttemptsAreClaims, InHands
<1>5. OneCarrier'
  BY <1>1 DEF GrantInv, OneCarrier, Carries
<1>6. GrantLeft'
  <2>1. Cardinality(took[l]) <= returns[l]
    BY <1>1 DEF GrantInv, GrantLeft
  <2> QED
    BY <1>1, <2>1 DEF GrantInv, GrantLeft
<1>7. AtMostOncePerGrant'
  BY <1>1 DEF GrantInv, AtMostOncePerGrant
<1> QED
  BY <1>4, <1>5, <1>6, <1>7 DEF GrantInv

\* The letter that somebody returns waits in the queue again, and nobody has it
\* in hand.
LEMMA RequeuedRows ==
    ASSUME TypeOK, NEW l \in Letters, ReturnToQueue(l) \/ ReturnBounced(l)
    PROVE  /\ letter[l].status \in {"sending", "bounced"}
           /\ \A w \in Procs : ~Carries(w, l)
           /\ UNCHANGED <<proc, took, claims>>
           /\ returns' = [returns EXCEPT ![l] = @ + 1]
           /\ letter'[l].status = "queued"
           /\ \A k \in Letters : k # l => letter'[k].status = letter[k].status
<1>1. /\ Requeued(l) \in [Letters -> Row]
      /\ Requeued(l)[l].status = "queued"
      /\ \A k \in Letters : k # l => Requeued(l)[k].status = letter[k].status
  <2>1. letter \in [Letters -> Row]
    BY DEF TypeOK
  <2>2. \A row \in Row :
          /\ [row EXCEPT !.status = "queued"] \in Row
          /\ [row EXCEPT !.status = "queued"].status = "queued"
          /\ [row EXCEPT !.due = TRUE] \in Row
          /\ [row EXCEPT !.due = TRUE].status = row.status
    BY StatusValues DEF Row
  <2>3. l # l - 1
    BY ChainAssumption DEF Letters
  <2>4. Requeued(l)[l] = [letter[l] EXCEPT !.status = "queued"]
    BY <2>3 DEF Requeued
  <2>5. \A k \in Letters : k # l =>
          Requeued(l)[k] \in {letter[k], [letter[k] EXCEPT !.due = TRUE]}
    BY Zenon DEF Requeued
  <2>6. Requeued(l) \in [Letters -> Row]
    BY <2>1, <2>2 DEF Requeued
  <2> QED
    BY <2>1, <2>2, <2>4, <2>5, <2>6
<1>2. CASE ReturnToQueue(l)
  BY <1>1, <1>2 DEF ReturnToQueue, PastStuckAfter
<1>3. CASE ReturnBounced(l)
  <2>1. letter' = [Requeued(l) EXCEPT ![l].why = "", ![l].back = TRUE]
    BY <1>3, Zenon DEF ReturnBounced
  <2>2. \A k \in Letters : letter'[k].status = Requeued(l)[k].status
    BY <1>1, <2>1 DEF Row
  <2>3. /\ letter[l].status = "bounced" /\ PastStuckAfter(l)
        /\ returns' = [returns EXCEPT ![l] = @ + 1]
        /\ UNCHANGED <<proc, took, claims>>
    BY <1>3, Zenon DEF ReturnBounced
  <2> QED
    BY <1>1, <2>2, <2>3 DEF PastStuckAfter
<1> QED
  BY <1>2, <1>3

LEMMA ReturnKeeps ==
    ASSUME TypeOK, GrantInv, NEW l \in Letters, ReturnToQueue(l) \/ ReturnBounced(l)
    PROVE  GrantInv'
<1>1. /\ letter[l].status \in {"sending", "bounced"}
      /\ \A w \in Procs : ~Carries(w, l)
      /\ UNCHANGED <<proc, took, claims>>
      /\ returns' = [returns EXCEPT ![l] = @ + 1]
      /\ letter'[l].status = "queued"
      /\ \A k \in Letters : k # l => letter'[k].status = letter[k].status
  BY RequeuedRows
<1>2. /\ \A k \in Letters : returns[k] \in Nat /\ returns'[k] \in Nat
      /\ \A k \in Letters : Cardinality(took[k]) \in Nat
      /\ \A k \in Letters : returns'[k] = IF k = l THEN returns[k] + 1 ELSE returns[k]
  BY <1>1, FiniteTook DEF TypeOK
<1>3. \A v \in Procs : proc[v].at \in Letters
  BY ProcUpdates
<1>4. AttemptsAreClaims'
  BY <1>1, <1>3 DEF GrantInv, AttemptsAreClaims, Carries, InHands
<1>5. OneCarrier'
  BY <1>1 DEF GrantInv, OneCarrier, Carries
<1>6. GrantLeft'
  <2>1. \A k \in Letters : letter'[k].status \in NotYet => Cardinality(took[k]) <= returns'[k]
    BY <1>1, <1>2 DEF GrantInv, GrantLeft, AtMostOncePerGrant
  <2>2. \A w \in Procs :
          proc[w].pc = "handing" /\ proc[w].mine \notin took[proc[w].at]
            => Cardinality(took[proc[w].at]) <= returns'[proc[w].at]
    BY <1>1, <1>2, <1>3 DEF GrantInv, GrantLeft
  <2>3. \A k \in Letters : letter'[k].status = "none" => returns'[k] = 0
    BY <1>1, <1>2 DEF GrantInv, GrantLeft
  <2> QED
    BY <1>1, <2>1, <2>2, <2>3 DEF GrantLeft
<1>7. AtMostOncePerGrant'
  BY <1>1, <1>2 DEF GrantInv, AtMostOncePerGrant
<1> QED
  BY <1>4, <1>5, <1>6, <1>7 DEF GrantInv

LEMMA NextGrantInv == TypeOK /\ GrantInv /\ [Next]_vars => GrantInv'
<1> SUFFICES ASSUME TypeOK, GrantInv, [Next]_vars PROVE GrantInv'
  OBVIOUS
<1>1. CASE ProcNext
  BY <1>1, HarmlessKeeps, ProcHarmless, StartHarmless, ClaimKeeps, AcceptKeeps, AnswerKeeps,
     RefuseKeeps DEF ProcNext, SendStep
<1>2. CASE HookNext
  BY <1>2, HarmlessKeeps, HookHarmless, ReadHarmless DEF HookNext
<1>3. CASE PeopleNext
  BY <1>3, HarmlessKeeps, PeopleHarmless, ReturnKeeps DEF PeopleNext
<1>4. CASE UNCHANGED vars
  <2>1. Harmless
    BY <1>4 DEF Harmless, vars, rows, history
  <2> QED
    BY <2>1, HarmlessKeeps
<1> QED
  BY <1>1, <1>2, <1>3, <1>4 DEF Next

\* The grant invariant holds in every state of every behaviour of the code.
THEOREM GrantsHold == Spec => []GrantInv
<1>1. Init => TypeOK /\ GrantInv
  BY InitTypeOK, InitGrantInv
<1>2. TypeOK /\ GrantInv /\ [Next]_vars => (TypeOK /\ GrantInv)'
  BY NextTypeOK, NextGrantInv
<1> QED
  BY <1>1, <1>2, PTL DEF Spec

\* The platform accepts a letter once, and once more for every return to the
\* queue, whoever sends, whatever the platform answers and whoever dies.
THEOREM AtMostOncePerGrantHolds == Spec => []AtMostOncePerGrant
<1>1. GrantInv => AtMostOncePerGrant
  BY DEF GrantInv
<1> QED
  BY <1>1, GrantsHold, PTL

\* Two transmissions of one letter are never under way together.
THEOREM OneCarrierHolds == Spec => []OneCarrier
<1>1. GrantInv => OneCarrier
  BY DEF GrantInv
<1> QED
  BY <1>1, GrantsHold, PTL

-----------------------------------------------------------------------------
(* What is recorded has gone.                                              *)

\* What a step makes of the rows: none is born or vanishes, and what comes to
\* be recorded as gone had been taken before.
RowsKept ==
    /\ \A k \in Letters : letter[k].status = "none" <=> letter'[k].status = "none"
    /\ \A k \in Letters : letter'[k].status \in GONE_STATUSES => took[k] # {}

LEMMA Sets ==
    /\ GONE_STATUSES = {"sent", "delivered", "bounced"}
    /\ CHAINABLE = {"sent", "delivered"}
    /\ PENDING = {"queued", "sending"}
BY DEF GONE_STATUSES, CHAINABLE, PENDING

\* A letter the platform took has a row.
LEMMA TakenIsBorn ==
    ASSUME TypeOK, GrantInv, NEW l \in Letters, took[l] # {}
    PROVE  letter[l].status # "none"
<1>1. IsFiniteSet(took[l]) /\ Cardinality(took[l]) \in Nat
  BY FiniteTook
<1>2. Cardinality(took[l]) # 0
  BY <1>1, FS_EmptySet
<1>3. SUFFICES ASSUME letter[l].status = "none" PROVE FALSE
  OBVIOUS
<1>4. returns[l] = 0 /\ Cardinality(took[l]) <= returns[l]
  BY <1>3 DEF GrantInv, GrantLeft, NotYet
<1> QED
  BY <1>1, <1>2, <1>4

\* The runs of send and of the pass, but for the birth of a follow-up.
LEMMA ProcRows ==
    ASSUME TypeOK, GrantInv, ChainInv, NEW w \in Procs,
           SendStep(w) \/ PassStep(w) \/ Crash(w), ~Materialize(w)
    PROVE  RowsKept
<1> USE Sets DEF RowsKept, rows, site, TypeOK
<1> DEFINE l == proc[w].at
<1>1. /\ l \in Letters /\ letter[l] \in Row
      /\ \A k \in Letters : letter[k].status \in GONE_STATUSES => took[k] # {}
  BY ProcUpdates DEF ChainInv, GoneWasTaken
<1>2. proc[w].pc \in {"handing", "settling", "suppressed"} => letter[l].status # "none"
  BY DEF ChainInv, RowsAreBorn, GrantInv, AttemptsAreClaims, InHands, NotYet
<1>3. CASE Claim(w)
  BY <1>1, <1>3 DEF Claim, Row
<1>4. CASE Refuse(w)
  BY <1>1, <1>2, <1>4 DEF Refuse, Row
<1>5. CASE Settle(w)
  <2>1. SentRow(l, letter[l]).status = "sent"
    BY <1>1, StatusOfRow, ViewInhabited
  <2>2. took[l] # {} /\ letter[l].status # "none"
    BY <1>2, <1>5 DEF Settle, GrantInv, AttemptsAreClaims
  <2>3. \A k \in Letters : letter'[k] = letter[k] \/ (k = l /\ letter'[k].status = "sent")
    BY <1>1, <1>5, <2>1 DEF Settle
  <2> QED
    BY <1>1, <2>2, <2>3
<1>6. CASE Waits(w)
  BY <1>1, <1>6 DEF Waits, GiveBack, Row
<1>7. CASE Forbid(w)
  BY <1>1, <1>7 DEF Forbid, Row
<1>8. CASE WriteStopped(w)
  BY <1>1, <1>2, <1>8 DEF WriteStopped, Row
<1>9. CASE Restore(w)
  BY <1>1, <1>9 DEF Restore, GiveBack, Row
<1>10. CASE UNCHANGED letter
  BY <1>1, <1>10
<1>11. \/ Claim(w) \/ Refuse(w) \/ Settle(w) \/ Waits(w) \/ Forbid(w)
       \/ WriteStopped(w) \/ Restore(w) \/ UNCHANGED letter
  BY DEF SendStep, PassStep, CheckFollowup, LoseClaim, Accept, Answer, LoseAnswer,
         AlreadyDecided, Suppressed, Postpone, Crash
<1> QED
  BY <1>3, <1>4, <1>5, <1>6, <1>7, <1>8, <1>9, <1>10, <1>11

LEMMA StartRows ==
    ASSUME TypeOK, ChainInv, NEW w \in Procs, NEW l \in Letters,
           CheckClick(w, l) \/ ClaimDue(w, l)
    PROVE  RowsKept
<1>1. \A k \in Letters : letter[k].status \in GONE_STATUSES => took[k] # {}
  BY DEF ChainInv, GoneWasTaken
<1>2. \A k \in Letters : letter'[k].status = letter[k].status
  BY DEF CheckClick, ClaimDue, rows, TypeOK, Row
<1> QED
  BY <1>1, <1>2 DEF RowsKept

LEMMA HookRows ==
    ASSUME TypeOK, GrantInv, ChainInv, NEW h \in Hooks, HookStep(h) \/ RollBack(h)
    PROVE  RowsKept
<1> USE Sets
<1>1. /\ hook[h].at \in Letters
      /\ \A k \in Letters : hook[h].seen[k] \in View /\ letter[k] \in Row
      /\ \A k \in Letters : letter[k].status \in GONE_STATUSES => took[k] # {}
      /\ \A k \in Letters : hook[h].seen[k].status # "none" => letter[k].status # "none"
  BY DEF TypeOK, HookState, ChainInv, GoneWasTaken, RowsAreBorn
<1>2. hook[h].job # "idle" => took[hook[h].at] # {} /\ letter[hook[h].at].status # "none"
  BY <1>1, TakenIsBorn DEF ChainInv, GoneWasTaken
<1>3. CASE SettleByEvent(h)
  <2> DEFINE l == hook[h].at
             sent == SentRow(l, letter[l])
  <2>1. sent \in Row /\ sent.status = "sent" /\ ViewOf(sent) \in View
    BY <1>1, RowsStayRows, StatusOfRow, ViewInhabited
  <2>2. hook[h].job \in Events /\ hook[h].job # "idle"
    BY <1>3 DEF SettleByEvent, Unsettled, Events
  <2>3. Applied(sent, ViewOf(sent), hook[h].job).status \in {"sent", "delivered", "bounced"}
    BY <2>1, <2>2, StatusOfRow
  <2>4. \A k \in Letters : [letter[k] EXCEPT !.due = FALSE].status = letter[k].status
    BY <1>1 DEF Row
  <2>5. letter'[l].status \in GONE_STATUSES
        /\ \A k \in Letters : k # l => letter'[k].status = letter[k].status
    BY <1>1, <1>3, <2>3, <2>4, ChainAssumption DEF SettleByEvent, Letters
  <2> QED
    BY <1>1, <1>2, <2>2, <2>5 DEF RowsKept
<1>4. CASE ReadAgain(h) \/ RollBack(h)
  BY <1>1, <1>4 DEF ReadAgain, RollBack, rows, RowsKept
<1>5. CASE ApplyEvent(h)
  <2> DEFINE l == hook[h].at
  <2>1. hook[h].job # "idle"
    BY <1>5 DEF ApplyEvent, Events
  <2>2. Applied(letter[l], hook[h].seen[l], hook[h].job).status
          \in {letter[l].status, "delivered", "bounced"}
    BY <1>1, <1>5, StatusOfRow DEF ApplyEvent
  <2>3. letter'[l].status \in {letter[l].status, "delivered", "bounced"}
        /\ \A k \in Letters : k # l => letter'[k] = letter[k]
    BY <1>1, <1>5, <2>2 DEF ApplyEvent, TypeOK
  <2> QED
    BY <1>1, <1>2, <2>1, <2>3 DEF RowsKept
<1>6. ASSUME NEW k \in Letters
      PROVE  LET row == Stopped(letter[k], hook[h].seen[k]) IN
               /\ row \in Row
               /\ row.status = "none" <=> letter[k].status = "none"
               /\ row.status \in {letter[k].status, "stopped"}
  <2>1. /\ Stopped(letter[k], hook[h].seen[k]) \in Row
        /\ Stopped(letter[k], hook[h].seen[k]).status \in {letter[k].status, "stopped"}
    BY <1>1, RowsStayRows, StatusOfRow
  <2>2. Clear(letter[k], hook[h].seen[k]).status = letter[k].status
        /\ Clear(letter[k], hook[h].seen[k]) \in Row
    BY <1>1, RowsStayRows DEF Clear, Row
  <2>3. hook[h].seen[k].status = "none"
          => Stopped(letter[k], hook[h].seen[k]).status = letter[k].status
    BY <2>2 DEF Stopped, Row
  <2> QED
    BY <1>1, <2>1, <2>3
<1>7. CASE AcceptReply(h)
  <2>1. hook[h].job # "idle"
    BY <1>7 DEF AcceptReply, Replies
  <2>2. \A row \in Row :
          /\ [row EXCEPT !.status = "bounced"].status = "bounced"
          /\ [row EXCEPT !.status = @] = row
    BY DEF Row
  <2>3. ASSUME NEW k \in Letters
        PROVE  \/ letter'[k] = Stopped(letter[k], hook[h].seen[k])
               \/ k = hook[h].at /\ letter'[k].status = "bounced"
    <3> DEFINE row == Stopped(letter[k], hook[h].seen[k])
    <3>1. \/ letter'[k] = [row EXCEPT !.status = @]
          \/ k = hook[h].at /\ letter'[k] = [row EXCEPT !.status = "bounced"]
      BY <1>7 DEF AcceptReply
    <3> QED
      BY <1>6, <2>2, <3>1
  <2> QED
    BY <1>1, <1>2, <1>6, <2>1, <2>3 DEF RowsKept
<1>8. CASE OptOut(h)
  BY <1>1, <1>6, <1>8 DEF OptOut, RowsKept
<1> QED
  BY <1>3, <1>4, <1>5, <1>7, <1>8 DEF HookStep

LEMMA PeopleRows ==
    ASSUME TypeOK, ChainInv, NEW l \in Letters,
           \/ FoundSent(l) \/ ReturnToQueue(l) \/ ReturnDead(l) \/ ReturnBounced(l)
           \/ Skip(l) \/ StopForGood(l) \/ OutOfQueue(l)
    PROVE  RowsKept
<1> USE Sets
<1>1. \A k \in Letters : letter[k].status \in GONE_STATUSES => took[k] # {}
  BY DEF ChainInv, GoneWasTaken
<1>2. CASE FoundSent(l)
  <2>1. SentRow(l, letter[l]).status = "sent"
    BY StatusOfRow, ViewInhabited DEF TypeOK
  <2> QED
    BY <1>1, <1>2, <2>1 DEF FoundSent, RowsKept, TypeOK
<1>3. CASE ReturnToQueue(l) \/ ReturnBounced(l)
  BY <1>1, <1>3, RequeuedRows DEF RowsKept
<1>4. CASE ReturnDead(l)
  BY <1>1, <1>4 DEF ReturnDead, RowsKept, TypeOK, Row
<1>5. CASE Skip(l)
  BY <1>1, <1>5 DEF Skip, RowsKept, TypeOK, Row
<1>6. CASE StopForGood(l)
  BY <1>1, <1>6 DEF StopForGood, RowsKept, TypeOK, Row
<1>7. CASE OutOfQueue(l)
  BY <1>1, <1>7 DEF OutOfQueue, RowsKept, TypeOK, Row
<1> QED
  BY <1>2, <1>3, <1>4, <1>5, <1>6, <1>7

\* The row of a follow-up is born, if a previous try has not left it.
LEMMA MaterializeRows ==
    ASSUME TypeOK, ChainInv, NEW w \in Procs, Materialize(w)
    PROVE  /\ \A k \in Letters : letter'[k].status = "none" => letter[k].status = "none"
           /\ \A k \in Letters : letter'[k].status \in GONE_STATUSES => took[k] # {}
           /\ letter'[proc[w].at].status # "none"
<1>1. /\ proc[w].at \in Letters
      /\ \A k \in Letters : letter[k].status \in GONE_STATUSES => took[k] # {}
  BY ProcUpdates DEF ChainInv, GoneWasTaken
<1>2. \A k \in Letters :
        \/ letter'[k] = letter[k] /\ (k = proc[w].at => letter[k].status # "none")
        \/ letter'[k].status = "queued"
  BY <1>1 DEF Materialize, TypeOK, Row
<1> QED
  BY <1>1, <1>2, Sets

LEMMA TookGrows ==
    ASSUME TypeOK, [Next]_vars, NEW l \in Letters
    PROVE  took[l] \subseteq took'[l]
<1>1. ASSUME NEW w \in Procs, SendStep(w) \/ PassStep(w) \/ Crash(w)
      PROVE  took[l] \subseteq took'[l]
  <2>1. CASE Accept(w)
    BY <2>1 DEF Accept, TypeOK
  <2>2. CASE ~Accept(w)
    BY <1>1, <2>2 DEF SendStep, PassStep, CheckFollowup, Claim, LoseClaim, Answer, Refuse,
       LoseAnswer, Settle, Waits, Materialize, Forbid, AlreadyDecided, Suppressed,
       WriteStopped, Postpone, Restore, Crash, history
  <2> QED
    BY <2>1, <2>2
<1>2. ASSUME NEW w \in Procs, NEW k \in Letters, CheckClick(w, k) \/ ClaimDue(w, k)
      PROVE  took' = took
  BY <1>2 DEF CheckClick, ClaimDue, history
<1>3. ASSUME HookNext PROVE took' = took
  BY <1>3, HookHarmless, ReadHarmless DEF HookNext, Harmless
<1>4. ASSUME PeopleNext PROVE took' = took
  BY <1>4, PeopleHarmless, RequeuedRows DEF PeopleNext, Harmless
<1> QED
  BY <1>1, <1>2, <1>3, <1>4 DEF Next, ProcNext, vars, history

\* A webhook call comes to know of what has been taken and of rows that exist.
LEMMA HookMoves ==
    ASSUME TypeOK, GrantInv, ChainInv, [Next]_vars, NEW h \in Hooks
    PROVE  /\ hook'[h].job # "idle" => took[hook'[h].at] # {}
           /\ \A k \in Letters : hook'[h].seen[k].status # "none" => letter[k].status # "none"
<1>1. /\ hook[h].job # "idle" => took[hook[h].at] # {}
      /\ \A k \in Letters : hook[h].seen[k].status # "none" => letter[k].status # "none"
  BY DEF ChainInv, GoneWasTaken, RowsAreBorn
<1>2. CASE hook'[h] = hook[h]
  BY <1>1, <1>2
<1>3. CASE hook'[h] = NoHook
  BY <1>3 DEF NoHook, NoView
<1>4. ASSUME NEW job \in Jobs, NEW l \in Letters, Read(h, job, l)
      PROVE  /\ hook'[h].job # "idle" => took[hook'[h].at] # {}
             /\ \A k \in Letters : hook'[h].seen[k].status # "none" => letter[k].status # "none"
  BY <1>4 DEF Read, TypeOK, ViewOf, NoView
<1>5. CASE ReadAgain(h)
  <2> DEFINE l == hook[h].at
  <2>1. /\ hook[h] \in HookState /\ l \in Letters
        /\ hook' = [hook EXCEPT ![h].seen[l] = ViewOf(letter[l]),
                                ![h].tried = @ \cup {hook[h].seen[l].status}]
    BY <1>5 DEF ReadAgain, TypeOK, HookState
  <2>2. hook'[h].job = hook[h].job /\ hook'[h].at = l
    BY <2>1 DEF TypeOK, HookState
  <2>3. \A k \in Letters : hook'[h].seen[k] = IF k = l THEN ViewOf(letter[l]) ELSE hook[h].seen[k]
    BY <2>1 DEF TypeOK, HookState
  <2> QED
    BY <1>1, <2>2, <2>3 DEF ViewOf
<1>6. ASSUME NEW g \in Hooks, HookStep(g) \/ RollBack(g), ~ReadAgain(h)
      PROVE  hook'[h] \in {hook[h], NoHook}
  BY <1>6 DEF HookStep, SettleByEvent, ReadAgain, ApplyEvent, AcceptReply, OptOut, RollBack,
     Leave, TypeOK
<1>7. ASSUME NEW g \in Hooks, NEW job \in Jobs, NEW l \in Letters, Read(g, job, l), g # h
      PROVE  hook'[h] = hook[h]
  BY <1>7 DEF Read, TypeOK
<1>8. ASSUME ProcNext \/ PeopleNext \/ UNCHANGED vars PROVE hook' = hook
  BY <1>8 DEF ProcNext, PeopleNext, vars, SendStep, PassStep, CheckFollowup, Claim, LoseClaim,
     Accept, Answer, Refuse, LoseAnswer, Settle, Waits, Materialize, Forbid, AlreadyDecided,
     Suppressed, WriteStopped, Postpone, Restore, Crash, CheckClick, ClaimDue, FoundSent,
     ReturnToQueue, ReturnDead, ReturnBounced, Skip, StopForGood, OutOfQueue
<1> QED
  BY <1>2, <1>3, <1>4, <1>5, <1>6, <1>7, <1>8 DEF Next, HookNext

\* A run of send takes a letter that exists, a pass one that follows a letter
\* that went.
LEMMA ProcMoves ==
    ASSUME TypeOK, ChainInv, [Next]_vars, NEW v \in Procs
    PROVE  /\ proc'[v].pc = "claimed" => proc'[v].at > 0 /\ took[proc'[v].at - 1] # {}
           /\ proc'[v].pc \in {"made", "checked", "suppressed"}
                => letter'[proc'[v].at].status # "none" \/ proc'[v] = proc[v]
<1>1. proc[v].pc = "claimed" => proc[v].at > 0 /\ took[proc[v].at - 1] # {}
  BY DEF ChainInv, GoneWasTaken
<1>2. CASE proc'[v] = proc[v]
  BY <1>1, <1>2
<1>3. CASE proc'[v].pc \notin {"claimed", "made", "checked", "suppressed"}
  BY <1>3
<1>4. ASSUME NEW l \in Letters, CheckClick(v, l)
      PROVE  proc'[v].pc = "checked" /\ letter'[proc'[v].at].status # "none"
  BY <1>4 DEF CheckClick, TypeOK, rows
<1>5. ASSUME NEW l \in Letters, ClaimDue(v, l)
      PROVE  /\ proc'[v].pc = "claimed" /\ proc'[v].at = l + 1
             /\ l + 1 > 0 /\ took[(l + 1) - 1] # {}
  <2>1. l \in Nat /\ (l + 1) - 1 = l
    BY ChainAssumption DEF Letters
  <2>2. took[l] # {}
    BY <1>5, Sets DEF ClaimDue, ChainInv, GoneWasTaken
  <2> QED
    BY <1>5, <2>1, <2>2 DEF ClaimDue, TypeOK
<1>6. CASE Materialize(v)
  <2>1. letter'[proc[v].at].status # "none"
    BY <1>6, MaterializeRows
  <2>2. proc'[v].pc = "made" /\ proc'[v].at = proc[v].at
    BY <1>6 DEF Materialize, Turn, TypeOK, ProcState
  <2> QED
    BY <2>1, <2>2
<1>7. CASE CheckFollowup(v) \/ Suppressed(v)
  <2>1. /\ proc'[v].pc \in {"checked", "suppressed"} /\ proc'[v].at = proc[v].at
        /\ letter'[proc[v].at].status = "queued"
    BY <1>7 DEF CheckFollowup, Suppressed, Turn, TypeOK, ProcState, rows
  <2> QED
    BY <2>1
<1>8. CASE Finish(v) \/ Fail(v)
  BY <1>3, <1>8 DEF Fail, Finish, Turn, Idle, TypeOK, ProcState
<1>9. CASE Claim(v) \/ Answer(v) \/ Postpone(v)
  BY <1>3, <1>9 DEF Claim, Answer, Postpone, Turn, TypeOK, ProcState
<1>10. ASSUME SendStep(v) \/ PassStep(v) \/ Crash(v)
       PROVE  \/ CheckFollowup(v) \/ Suppressed(v) \/ Materialize(v)
              \/ Claim(v) \/ Answer(v) \/ Postpone(v) \/ Finish(v) \/ Fail(v)
              \/ proc'[v] = proc[v]
  BY <1>10 DEF SendStep, PassStep, LoseClaim, Accept, Refuse, LoseAnswer, Settle, Waits,
     Forbid, AlreadyDecided, WriteStopped, Restore, Crash
<1>11. ASSUME NEW w \in Procs, w # v, SendStep(w) \/ PassStep(w) \/ Crash(w)
       PROVE  proc'[v] = proc[v]
  BY <1>11 DEF SendStep, PassStep, CheckFollowup, Claim, LoseClaim, Accept, Answer, Refuse,
     LoseAnswer, Settle, Waits, Materialize, Forbid, AlreadyDecided, Suppressed,
     WriteStopped, Postpone, Restore, Crash, Turn, Finish, Fail, TypeOK
<1>12. ASSUME NEW w \in Procs, w # v, NEW l \in Letters, CheckClick(w, l) \/ ClaimDue(w, l)
       PROVE  proc'[v] = proc[v]
  BY <1>12 DEF CheckClick, ClaimDue, TypeOK
<1>13. ASSUME HookNext \/ PeopleNext \/ UNCHANGED vars PROVE proc' = proc
  BY <1>13 DEF HookNext, PeopleNext, vars, HookStep, SettleByEvent, ReadAgain, ApplyEvent,
     AcceptReply, OptOut, RollBack, Read, FoundSent, ReturnToQueue, ReturnDead, ReturnBounced,
     Skip, StopForGood, OutOfQueue
<1> QED
  BY <1>2, <1>4, <1>5, <1>6, <1>7, <1>8, <1>9, <1>10, <1>11, <1>12, <1>13 DEF Next, ProcNext

LEMMA InitChainInv == Init => ChainInv
<1> SUFFICES ASSUME Init PROVE ChainInv
  OBVIOUS
<1>1. GoneWasTaken
  BY Sets DEF Init, GoneWasTaken, NoRow, NoHook, Idle
<1>2. RowsAreBorn
  BY DEF Init, RowsAreBorn, NoHook, NoView, Idle
<1> QED
  BY <1>1, <1>2 DEF ChainInv

\* What a step of any kind makes of the rows.
LEMMA NextRows ==
    ASSUME TypeOK, GrantInv, ChainInv, [Next]_vars
    PROVE  RowsKept \/ \E w \in Procs : Materialize(w)
<1>1. CASE ProcNext
  BY <1>1, ProcRows, StartRows DEF ProcNext
<1>2. CASE HookNext
  <2>1. ASSUME NEW h \in Hooks, NEW job \in Jobs, NEW l \in Letters, Read(h, job, l)
        PROVE  RowsKept
    BY <2>1 DEF Read, rows, RowsKept, ChainInv, GoneWasTaken
  <2> QED
    BY <1>2, <2>1, HookRows DEF HookNext
<1>3. CASE PeopleNext
  BY <1>3, PeopleRows DEF PeopleNext
<1>4. CASE UNCHANGED vars
  BY <1>4 DEF vars, rows, RowsKept, ChainInv, GoneWasTaken
<1> QED
  BY <1>1, <1>2, <1>3, <1>4 DEF Next

LEMMA NextChainInv == TypeOK /\ GrantInv /\ ChainInv /\ [Next]_vars => ChainInv'
<1> SUFFICES ASSUME TypeOK, GrantInv, ChainInv, [Next]_vars PROVE ChainInv'
  OBVIOUS
<1>1. TypeOK'
  BY NextTypeOK
<1>2. /\ \A k \in Letters : letter'[k].status = "none" => letter[k].status = "none"
      /\ \A k \in Letters : letter'[k].status \in GONE_STATUSES => took[k] # {}
  BY NextRows, MaterializeRows DEF RowsKept
<1>3. \A h \in Hooks : hook'[h].at \in Letters
  BY <1>1 DEF TypeOK, HookState
<1>4. \A v \in Procs : proc'[v].at \in Letters /\ proc[v].at \in Letters
  BY <1>1 DEF TypeOK, ProcState
<1>5. \A v \in Procs : proc'[v].at > 0 => proc'[v].at - 1 \in Letters
  BY <1>4, ChainAssumption DEF Letters
<1>6. GoneWasTaken'
  BY <1>2, <1>3, <1>5, TookGrows, HookMoves, ProcMoves DEF GoneWasTaken
<1>7. RowsAreBorn'
  <2>1. \A h \in Hooks, k \in Letters :
          hook'[h].seen[k].status # "none" => letter'[k].status # "none"
    BY <1>2, HookMoves
  <2>2. \A v \in Procs :
          proc'[v].pc \in {"made", "checked", "suppressed"} => letter'[proc'[v].at].status # "none"
    BY <1>2, <1>4, ProcMoves DEF ChainInv, RowsAreBorn
  <2> QED
    BY <2>1, <2>2 DEF RowsAreBorn
<1> QED
  BY <1>6, <1>7 DEF ChainInv

\* Every letter recorded as gone has been taken by the platform, and a follow-up
\* is begun only after a letter that was.
THEOREM ChainHolds == Spec => []ChainInv
<1>1. Init => TypeOK /\ GrantInv /\ ChainInv
  BY InitTypeOK, InitGrantInv, InitChainInv
<1>2. TypeOK /\ GrantInv /\ ChainInv /\ [Next]_vars => (TypeOK /\ GrantInv /\ ChainInv)'
  BY NextTypeOK, NextGrantInv, NextChainInv
<1> QED
  BY <1>1, <1>2, PTL DEF Spec
-----------------------------------------------------------------------------
(* What is counted, and the trace a letter keeps of its attempt.            *)

OUT == {"sent", "delivered", "bounced", "stopped"}

\* What a step makes of one row, unless it is the claim, a refusal or a return:
\* the Message-ID stays, and the row is left alone, is born, leaves "queued" or
\* "sending" with a row in the journal, or is taken out of the chain without one.
Untold(k) ==
    /\ recorded'[k] = recorded[k]
    /\ \/ letter'[k].status \in {letter[k].status, "stopped", "bounced"}
       \/ letter[k].status = "none" /\ letter'[k].status = "queued"
       \/ letter'[k].status = "delivered" /\ \E h \in Hooks : hook[h].seen[k].status = "sent"
Told(k) ==
    /\ recorded'[k] = recorded[k] + 1
    /\ letter[k].status \in PENDING /\ letter'[k].status \in OUT \ {"stopped"}
    /\ took[k] # {}
Traced(k) == letter'[k].mid = letter[k].mid
Steady == \A k \in Letters : Traced(k) /\ (Untold(k) \/ Told(k))

LEMMA MidOfRow ==
    ASSUME NEW row \in Row, NEW seen \in View
    PROVE  /\ Stopped(row, seen).mid = row.mid
           /\ \A l \in Letters : SentRow(l, row).mid = row.mid
           /\ \A kind \in Events :
                /\ Applied(row, seen, kind).mid = row.mid
                /\ Applied(row, seen, kind).status = "delivered"
                     => row.status = "delivered" \/ seen.status = "sent"
<1> USE DEF Row, View
<1>1. /\ Clear(row, seen) \in Row /\ Clear(row, seen).mid = row.mid
      /\ Clear(row, seen).status = row.status
  BY DEF Clear
<1>2. Stopped(row, seen).mid = row.mid
  BY <1>1 DEF Stopped
<1>3. \A l \in Letters : SentRow(l, row).mid = row.mid
  BY DEF SentRow
<1>4. ASSUME NEW kind \in Events
      PROVE  /\ Applied(row, seen, kind).mid = row.mid
             /\ Applied(row, seen, kind).status = "delivered"
                  => row.status = "delivered" \/ seen.status = "sent"
  BY <1>1, <1>4 DEF Applied, Events
<1> QED
  BY <1>2, <1>3, <1>4

LEMMA ProcSteady ==
    ASSUME TypeOK, GrantInv, NEW w \in Procs,
           SendStep(w) \/ PassStep(w) \/ Crash(w), ~Claim(w), ~Refuse(w)
    PROVE  Steady
<1> USE Sets DEF Steady, Traced, Untold, rows, site, history, TypeOK
<1> DEFINE l == proc[w].at
<1>1. l \in Letters /\ letter[l] \in Row
  BY ProcUpdates
<1>2. CASE Settle(w)
  <2>1. SentRow(l, letter[l]).status = "sent" /\ SentRow(l, letter[l]).mid = letter[l].mid
    BY <1>1, StatusOfRow, MidOfRow, ViewInhabited
  <2>2. took[l] # {}
    BY <1>2 DEF Settle, GrantInv, AttemptsAreClaims
  <2>3. CASE letter[l].status = "sending"
    <3>1. /\ letter' = [letter EXCEPT ![l] = SentRow(l, letter[l])]
          /\ recorded' = [recorded EXCEPT ![l] = recorded[l] + 1]
      BY <1>2, <2>3 DEF Settle
    <3>2. \A k \in Letters : k # l => letter'[k] = letter[k] /\ recorded'[k] = recorded[k]
      BY <3>1
    <3>3. Traced(l) /\ Told(l)
      BY <1>1, <2>1, <2>2, <2>3, <3>1 DEF Told, OUT
    <3> QED
      BY <3>2, <3>3
  <2>4. CASE letter[l].status # "sending"
    BY <1>2, <2>4 DEF Settle
  <2> QED
    BY <2>3, <2>4
<1>3. CASE Waits(w)
  BY <1>1, <1>3 DEF Waits, GiveBack, Row
<1>4. CASE Materialize(w)
  BY <1>1, <1>4 DEF Materialize, Row
<1>5. CASE Forbid(w)
  BY <1>1, <1>5 DEF Forbid, Row
<1>6. CASE WriteStopped(w)
  BY <1>1, <1>6 DEF WriteStopped, Row
<1>7. CASE Restore(w)
  BY <1>1, <1>7 DEF Restore, GiveBack, Row
<1>8. CASE UNCHANGED <<letter, recorded>>
  BY <1>8
<1>9. \/ Settle(w) \/ Waits(w) \/ Materialize(w) \/ Forbid(w) \/ WriteStopped(w) \/ Restore(w)
      \/ UNCHANGED <<letter, recorded>>
  BY DEF SendStep, PassStep, CheckFollowup, LoseClaim, Accept, Answer, LoseAnswer,
         AlreadyDecided, Suppressed, Postpone, Crash
<1> QED
  BY <1>2, <1>3, <1>4, <1>5, <1>6, <1>7, <1>8, <1>9

LEMMA StartSteady ==
    ASSUME TypeOK, NEW w \in Procs, NEW l \in Letters, CheckClick(w, l) \/ ClaimDue(w, l)
    PROVE  Steady
BY DEF CheckClick, ClaimDue, rows, history, TypeOK, Row, Steady, Traced, Untold

LEMMA HookSteady ==
    ASSUME TypeOK, GrantInv, ChainInv, NEW h \in Hooks, HookStep(h) \/ RollBack(h)
    PROVE  Steady
<1> USE Sets
<1>1. /\ hook[h].at \in Letters
      /\ \A k \in Letters : hook[h].seen[k] \in View /\ letter[k] \in Row
  BY DEF TypeOK, HookState
<1>2. hook[h].job # "idle" => took[hook[h].at] # {}
  BY DEF ChainInv, GoneWasTaken
<1>3. CASE SettleByEvent(h)
  <2> DEFINE l == hook[h].at
             sent == SentRow(l, letter[l])
             applied == Applied(sent, ViewOf(sent), hook[h].job)
  <2>1. /\ sent \in Row /\ ViewOf(sent) \in View
        /\ sent.status = "sent" /\ sent.mid = letter[l].mid
    <3>1. letter[l] \in Row
      BY <1>1
    <3>2. sent \in Row
      BY <1>1, <3>1, RowsStayRows, ViewInhabited
    <3>3. ViewOf(sent) \in View
      BY <3>2, RowsStayRows, ViewInhabited
    <3>4. sent.status = "sent"
      BY <1>1, <3>1, StatusOfRow, ViewInhabited
    <3>5. sent.mid = letter[l].mid
      BY <1>1, <3>1, MidOfRow, ViewInhabited
    <3> QED
      BY <3>2, <3>3, <3>4, <3>5
  <2>2. /\ hook[h].job \in Events /\ hook[h].job # "idle"
        /\ letter[l].status \in PENDING
    BY <1>3 DEF SettleByEvent, Unsettled, Events
  <2>3. applied.status \in OUT \ {"stopped"} /\ applied.mid = letter[l].mid
    BY <2>1, <2>2, StatusOfRow, MidOfRow DEF OUT
  <2>4. \A k \in Letters : /\ [letter[k] EXCEPT !.due = FALSE].status = letter[k].status
                           /\ [letter[k] EXCEPT !.due = FALSE].mid = letter[k].mid
    BY <1>1 DEF Row
  <2>5. letter'[l] = applied
        /\ \A k \in Letters : k # l =>
             letter'[k].status = letter[k].status /\ letter'[k].mid = letter[k].mid
    BY <1>1, <1>3, <2>4, ChainAssumption DEF SettleByEvent, Letters
  <2>6. recorded' = [recorded EXCEPT ![l] = recorded[l] + 1]
    BY <1>3 DEF SettleByEvent
  <2>7. \A k \in Letters : k # l => recorded'[k] = recorded[k]
    BY <2>6 DEF TypeOK
  <2>8. recorded'[l] = recorded[l] + 1
    BY <1>1, <2>6 DEF TypeOK
  <2>9. Traced(l) /\ Told(l)
    BY <1>2, <2>2, <2>3, <2>5, <2>8 DEF Traced, Told
  <2> QED
    BY <2>5, <2>7, <2>9 DEF Steady, Traced, Untold
<1>4. CASE ReadAgain(h) \/ RollBack(h)
  BY <1>4 DEF ReadAgain, RollBack, rows, history, Steady, Traced, Untold
<1>5. CASE ApplyEvent(h)
  <2> DEFINE l == hook[h].at
             applied == Applied(letter[l], hook[h].seen[l], hook[h].job)
  <2>1. /\ applied.status \in {letter[l].status, "delivered", "bounced"}
        /\ applied.mid = letter[l].mid
        /\ applied.status = "delivered"
             => letter[l].status = "delivered" \/ hook[h].seen[l].status = "sent"
    BY <1>1, <1>5, StatusOfRow, MidOfRow DEF ApplyEvent
  <2>2. /\ letter'[l] = applied /\ recorded' = recorded
        /\ \A k \in Letters : k # l => letter'[k] = letter[k]
    BY <1>1, <1>5 DEF ApplyEvent, TypeOK, history
  <2> QED
    BY <2>1, <2>2 DEF Steady, Traced, Untold
<1>6. ASSUME NEW k \in Letters
      PROVE  LET row == Stopped(letter[k], hook[h].seen[k]) IN
               /\ row \in Row
               /\ row.status \in {letter[k].status, "stopped"}
               /\ row.mid = letter[k].mid
  BY <1>1, <1>6, RowsStayRows, StatusOfRow, MidOfRow
<1>7. CASE AcceptReply(h)
  <2>1. \A row \in Row :
          /\ [row EXCEPT !.status = "bounced"].status = "bounced"
          /\ [row EXCEPT !.status = "bounced"].mid = row.mid
          /\ [row EXCEPT !.status = @] = row
    BY DEF Row
  <2>2. ASSUME NEW k \in Letters
        PROVE  /\ letter'[k].status \in {letter[k].status, "stopped", "bounced"}
               /\ letter'[k].mid = letter[k].mid
    <3> DEFINE row == Stopped(letter[k], hook[h].seen[k])
    <3>1. letter'[k] \in {[row EXCEPT !.status = @], [row EXCEPT !.status = "bounced"]}
      BY <1>7 DEF AcceptReply
    <3>2. row \in Row /\ row.status \in {letter[k].status, "stopped"} /\ row.mid = letter[k].mid
      BY <1>6
    <3>3. [row EXCEPT !.status = @] = row
      BY <2>1, <3>2
    <3>4. /\ [row EXCEPT !.status = "bounced"].status = "bounced"
          /\ [row EXCEPT !.status = "bounced"].mid = row.mid
      BY <2>1, <3>2
    <3> HIDE DEF row
    <3> QED
      BY <3>1, <3>2, <3>3, <3>4
  <2> QED
    BY <1>7, <2>2 DEF AcceptReply, history, Steady, Traced, Untold
<1>8. CASE OptOut(h)
  BY <1>6, <1>8 DEF OptOut, history, Steady, Traced, Untold
<1> QED
  BY <1>3, <1>4, <1>5, <1>7, <1>8 DEF HookStep

LEMMA PeopleSteady ==
    ASSUME TypeOK, NEW l \in Letters,
           FoundSent(l) \/ ReturnDead(l) \/ Skip(l) \/ StopForGood(l) \/ OutOfQueue(l)
    PROVE  Steady
<1> USE DEF Steady, Traced, Untold, TypeOK, history
<1>1. CASE FoundSent(l)
  <2>1. SentRow(l, letter[l]).status = "sent" /\ SentRow(l, letter[l]).mid = letter[l].mid
    BY StatusOfRow, MidOfRow, ViewInhabited
  <2>2. /\ letter' = [letter EXCEPT ![l] = SentRow(l, letter[l])]
        /\ recorded' = [recorded EXCEPT ![l] = recorded[l] + 1]
        /\ letter[l].status = "sending" /\ took[l] # {}
    BY <1>1 DEF FoundSent
  <2>3. Traced(l) /\ Told(l)
    BY <2>1, <2>2, Sets DEF Told, OUT
  <2> QED
    BY <2>2, <2>3
<1>2. CASE ReturnDead(l)
  BY <1>2 DEF ReturnDead, Row
<1>3. CASE Skip(l)
  BY <1>3 DEF Skip, Row
<1>4. CASE StopForGood(l)
  BY <1>4 DEF StopForGood, Row
<1>5. CASE OutOfQueue(l)
  BY <1>5 DEF OutOfQueue, Row
<1> QED
  BY <1>1, <1>2, <1>3, <1>4, <1>5

\* The steps that are not steady: the claim, a refusal and a return.
LEMMA NextSteady ==
    ASSUME TypeOK, GrantInv, ChainInv, [Next]_vars
    PROVE  \/ Steady
           \/ \E w \in Procs : Claim(w) \/ Refuse(w)
           \/ \E l \in Letters : ReturnToQueue(l) \/ ReturnBounced(l)
<1>1. CASE ProcNext
  BY <1>1, ProcSteady, StartSteady DEF ProcNext
<1>2. CASE HookNext
  <2>1. ASSUME NEW h \in Hooks, NEW job \in Jobs, NEW l \in Letters, Read(h, job, l)
        PROVE  Steady
    BY <2>1 DEF Read, rows, history, Steady, Traced, Untold
  <2> QED
    BY <1>2, <2>1, HookSteady DEF HookNext
<1>3. CASE PeopleNext
  BY <1>3, PeopleSteady DEF PeopleNext
<1>4. CASE UNCHANGED vars
  BY <1>4 DEF vars, rows, history, Steady, Traced, Untold
<1> QED
  BY <1>1, <1>2, <1>3, <1>4 DEF Next

\* A letter nobody has returned is claimed, or refused, only while the platform
\* has taken nothing of it.
LEMMA NothingTakenYet ==
    ASSUME TypeOK, GrantInv, NEW w \in Procs, Claim(w) \/ Refuse(w), returns[proc[w].at] = 0
    PROVE  took[proc[w].at] = {}
<1> DEFINE l == proc[w].at
<1>1. l \in Letters /\ Cardinality(took[l]) \in Nat /\ IsFiniteSet(took[l])
  BY ProcUpdates, FiniteTook
<1>2. Cardinality(took[l]) <= 0
  <2>1. CASE Claim(w)
    BY <1>1, <2>1 DEF Claim, GrantInv, GrantLeft, NotYet
  <2>2. CASE Refuse(w)
    BY <1>1, <2>2 DEF Refuse, GrantInv, GrantLeft
  <2> QED
    BY <2>1, <2>2
<1>3. Cardinality(took[l]) = 0
  BY <1>1, <1>2
<1> QED
  BY <1>1, <1>3, FS_EmptySet

\* What the claim and a refusal write.
LEMMA ClaimedRow ==
    ASSUME TypeOK, NEW w \in Procs, Claim(w) \/ Refuse(w)
    PROVE  /\ proc[w].at \in Letters
           /\ letter[proc[w].at].status = "queued" \/ Refuse(w)
           /\ letter'[proc[w].at].status \in PENDING
           /\ \A k \in Letters : k # proc[w].at => letter'[k] = letter[k]
           /\ UNCHANGED <<hook, took, returns, recorded>>
BY ProcUpdates, Sets DEF Claim, Refuse, TypeOK, Row, history

\* A return counts.
LEMMA ReturnedRow ==
    ASSUME TypeOK, NEW l \in Letters, ReturnToQueue(l) \/ ReturnBounced(l)
    PROVE  /\ returns'[l] # 0
           /\ \A k \in Letters : k # l =>
                /\ letter'[k].status = letter[k].status /\ letter'[k].mid = letter[k].mid
                /\ returns'[k] = returns[k]
           /\ UNCHANGED <<hook, proc, took, recorded>>
<1>1. /\ returns' = [returns EXCEPT ![l] = returns[l] + 1]
      /\ letter'[l].status = "queued"
      /\ \A k \in Letters : k # l => letter'[k].status = letter[k].status
      /\ UNCHANGED <<proc, took>>
  BY RequeuedRows
<1>2. returns[l] \in Nat /\ returns \in [Letters -> Nat]
  BY DEF TypeOK
<1>3. UNCHANGED <<hook, recorded>>
  BY DEF ReturnToQueue, ReturnBounced
<1>4. ASSUME NEW k \in Letters, k # l PROVE letter'[k].mid = letter[k].mid
  <2>1. Requeued(l)[k] \in {letter[k], [letter[k] EXCEPT !.due = TRUE]}
    BY <1>4, Zenon DEF Requeued
  <2>2. letter[k] \in Row /\ [letter[k] EXCEPT !.due = TRUE].mid = letter[k].mid
    BY DEF TypeOK, Row
  <2>3. CASE ReturnToQueue(l)
    BY <2>1, <2>2, <2>3 DEF ReturnToQueue
  <2>4. CASE ReturnBounced(l)
    <3>1. letter' = [Requeued(l) EXCEPT ![l].why = "", ![l].back = TRUE]
      BY <2>4, Zenon DEF ReturnBounced
    <3>2. letter'[k] = Requeued(l)[k]
      BY <1>4, <3>1 DEF Requeued
    <3> QED
      BY <2>1, <2>2, <3>2
  <2> QED
    BY <2>3, <2>4
<1> QED
  BY <1>1, <1>2, <1>3, <1>4

\* Which steps touch what the platform has taken, the returns and the hands.
LEMMA NextHarmless ==
    ASSUME TypeOK, [Next]_vars
    PROVE  \/ Harmless
           \/ \E w \in Procs : Claim(w) \/ Accept(w) \/ Answer(w) \/ Refuse(w)
           \/ \E l \in Letters : ReturnToQueue(l) \/ ReturnBounced(l)
<1>1. CASE ProcNext
  BY <1>1, ProcHarmless, StartHarmless DEF ProcNext, SendStep
<1>2. CASE HookNext
  BY <1>2, HookHarmless, ReadHarmless DEF HookNext
<1>3. CASE PeopleNext
  BY <1>3, PeopleHarmless DEF PeopleNext
<1>4. CASE UNCHANGED vars
  BY <1>4 DEF Harmless, vars, rows, history
<1> QED
  BY <1>1, <1>2, <1>3, <1>4 DEF Next

LEMMA NextReturns ==
    ASSUME TypeOK, [Next]_vars
    PROVE  returns' = returns \/ \E l \in Letters : ReturnToQueue(l) \/ ReturnBounced(l)
BY NextHarmless DEF Harmless, Claim, Accept, Answer, Refuse, history

LEMMA NextTook ==
    ASSUME TypeOK, [Next]_vars, ~\E w \in Procs : Accept(w)
    PROVE  took' = took
BY NextHarmless, RequeuedRows DEF Harmless, Claim, Answer, Refuse, history

\* A letter comes into somebody's hands by the claim only.
LEMMA HandsMove ==
    ASSUME TypeOK, [Next]_vars, NEW l \in Letters,
           ~\E w \in Procs : Claim(w) /\ proc[w].at = l,
           NEW v \in Procs, Carries(v, l)'
    PROVE  Carries(v, l) /\ proc'[v].mine = proc[v].mine
<1> USE DEF Carries, InHands, TypeOK, ProcState
<1>1. CASE Harmless
  BY <1>1 DEF Harmless
<1>2. ASSUME NEW w \in Procs, Claim(w) PROVE proc'[v] = proc[v]
  <2>1. w # v
    BY <1>2 DEF Claim
  <2> QED
    BY <1>2, <2>1 DEF Claim
<1>3. ASSUME NEW w \in Procs, Accept(w) PROVE proc'[v] = proc[v]
  BY <1>3 DEF Accept
<1>4. ASSUME NEW w \in Procs, Answer(w)
      PROVE  Carries(v, l) /\ proc'[v].mine = proc[v].mine
  BY <1>4 DEF Answer, Turn
<1>5. ASSUME NEW w \in Procs, Refuse(w) PROVE proc'[v] = proc[v]
  <2>1. w # v
    BY <1>5 DEF Refuse, Fail, Turn, Finish, Idle
  <2> QED
    BY <1>5, <2>1 DEF Refuse, Fail, Turn, Finish
<1>6. ASSUME NEW k \in Letters, ReturnToQueue(k) \/ ReturnBounced(k) PROVE proc'[v] = proc[v]
  BY <1>6, RequeuedRows
<1> QED
  BY <1>1, <1>2, <1>3, <1>4, <1>5, <1>6, NextHarmless

\* What a webhook call has read of a row is what the row says, or said.
LEMMA HookSees ==
    ASSUME TypeOK, [Next]_vars, NEW h \in Hooks, NEW l \in Letters
    PROVE  hook'[h].seen[l].status \in {"none", letter[l].status, hook[h].seen[l].status}
<1>1. CASE hook'[h] = hook[h]
  BY <1>1
<1>2. CASE hook'[h] = NoHook
  BY <1>2 DEF NoHook, NoView
<1>3. ASSUME NEW job \in Jobs, NEW k \in Letters, Read(h, job, k)
      PROVE  hook'[h].seen[l].status \in {"none", letter[l].status}
  BY <1>3 DEF Read, TypeOK, ViewOf, NoView
<1>4. CASE ReadAgain(h)
  <2>1. /\ hook[h] \in HookState /\ hook[h].at \in Letters
        /\ hook' = [hook EXCEPT ![h].seen[hook[h].at] = ViewOf(letter[hook[h].at]),
                                ![h].tried = @ \cup {hook[h].seen[hook[h].at].status}]
    BY <1>4 DEF ReadAgain, TypeOK, HookState
  <2>2. hook'[h].seen[l] = IF l = hook[h].at THEN ViewOf(letter[l]) ELSE hook[h].seen[l]
    BY <2>1 DEF TypeOK, HookState
  <2> QED
    BY <2>2 DEF ViewOf
<1>5. ASSUME NEW g \in Hooks, HookStep(g) \/ RollBack(g), ~ReadAgain(h)
      PROVE  hook'[h] \in {hook[h], NoHook}
  BY <1>5 DEF HookStep, SettleByEvent, ReadAgain, ApplyEvent, AcceptReply, OptOut, RollBack,
     Leave, TypeOK
<1>6. ASSUME NEW g \in Hooks, NEW job \in Jobs, NEW k \in Letters, Read(g, job, k), g # h
      PROVE  hook'[h] = hook[h]
  BY <1>6 DEF Read, TypeOK
<1>7. ASSUME ProcNext \/ PeopleNext \/ UNCHANGED vars PROVE hook' = hook
  BY <1>7 DEF ProcNext, PeopleNext, vars, SendStep, PassStep, CheckFollowup, Claim, LoseClaim,
     Accept, Answer, Refuse, LoseAnswer, Settle, Waits, Materialize, Forbid, AlreadyDecided,
     Suppressed, WriteStopped, Postpone, Restore, Crash, CheckClick, ClaimDue, FoundSent,
     ReturnToQueue, ReturnDead, ReturnBounced, Skip, StopForGood, OutOfQueue
<1> QED
  BY <1>1, <1>2, <1>3, <1>4, <1>5, <1>6, <1>7 DEF Next, HookNext

LEMMA InitCountInv == Init => CountInv /\ TraceInv
<1> SUFFICES ASSUME Init PROVE CountInv /\ TraceInv
  OBVIOUS
<1> USE Sets DEF Init
<1>1. CountInv
  <2>1. \A l \in Letters : recorded[l] = 0 /\ letter[l].status \in {"none", "queued"}
    BY DEF NoRow
  <2>2. \A h \in Hooks, l \in Letters : hook[h].seen[l].status = "none"
    BY DEF NoHook, NoView
  <2> QED
    BY <2>1, <2>2 DEF CountInv, CountedOnce
<1>2. TraceInv
  BY DEF TraceInv, Carries, Idle
<1> QED
  BY <1>1, <1>2

\* A letter in the state of a step of each kind: what is counted of it.
LEMMA CountOfRow ==
    ASSUME TypeOK, GrantInv, ChainInv, CountInv, [Next]_vars, NEW l \in Letters,
           returns'[l] = 0
    PROVE  /\ returns[l] = 0
           /\ recorded'[l] \in {0, 1} /\ recorded[l] \in {0, 1}
           /\ recorded[l] = 1 => recorded'[l] = 1
           /\ recorded'[l] > 0 => took[l] # {}
           /\ letter'[l].status \in {"none"} \cup PENDING => recorded'[l] = 0
           /\ letter'[l].status \in CHAINABLE => recorded'[l] = 1
<1> USE Sets
<1>1. recorded[l] \in Nat
  BY DEF TypeOK
<1>2. ASSUME returns[l] = 0
      PROVE  /\ recorded[l] <= 1
             /\ recorded[l] > 0 => took[l] # {}
             /\ letter[l].status \in {"none"} \cup PENDING => recorded[l] = 0
             /\ letter[l].status \in CHAINABLE => recorded[l] = 1
             /\ \A h \in Hooks : hook[h].seen[l].status \in CHAINABLE => recorded[l] = 1
  BY <1>2 DEF CountInv, CountedOnce
<1>3. CASE Steady /\ returns' = returns
  <2>1. CASE Told(l)
    BY <1>1, <1>2, <1>3, <2>1 DEF Told, OUT
  <2>2. CASE Untold(l)
    BY <1>1, <1>2, <1>3, <2>2 DEF Untold
  <2> QED
    BY <1>3, <2>1, <2>2 DEF Steady
<1>4. ASSUME NEW w \in Procs, Claim(w) \/ Refuse(w)
      PROVE  /\ returns[l] = 0
             /\ recorded'[l] = recorded[l] /\ took'[l] = took[l]
             /\ \/ letter'[l] = letter[l]
                \/ letter'[l].status \in PENDING /\ took[l] = {}
  BY <1>4, ClaimedRow, NothingTakenYet
<1>5. ASSUME NEW k \in Letters, ReturnToQueue(k) \/ ReturnBounced(k)
      PROVE  /\ returns[l] = 0
             /\ recorded'[l] = recorded[l] /\ letter'[l].status = letter[l].status
  BY <1>5, ReturnedRow
<1>6. \/ Steady /\ returns' = returns
      \/ \E w \in Procs : Claim(w) \/ Refuse(w)
      \/ \E k \in Letters : ReturnToQueue(k) \/ ReturnBounced(k)
  <2>1. \/ returns' = returns
        \/ \E k \in Letters : ReturnToQueue(k) \/ ReturnBounced(k)
    BY NextReturns
  <2> QED
    BY <2>1, NextSteady
<1>7. CASE \E w \in Procs : Claim(w) \/ Refuse(w)
  BY <1>1, <1>2, <1>4, <1>7
<1>8. CASE \E k \in Letters : ReturnToQueue(k) \/ ReturnBounced(k)
  BY <1>1, <1>2, <1>5, <1>8
<1> QED
  BY <1>3, <1>6, <1>7, <1>8

\* What is counted was taken, whether or not somebody returned it since.
LEMMA CountedWasTaken ==
    ASSUME TypeOK, GrantInv, ChainInv, CountInv, [Next]_vars, NEW l \in Letters,
           recorded'[l] > 0
    PROVE  took[l] # {}
<1>1. recorded[l] > 0 => took[l] # {}
  BY DEF CountInv
<1>2. CASE Steady
  BY <1>1, <1>2 DEF Steady, Told, Untold
<1>3. ASSUME NEW w \in Procs, Claim(w) \/ Refuse(w) PROVE recorded' = recorded
  BY <1>3, ClaimedRow
<1>4. ASSUME NEW k \in Letters, ReturnToQueue(k) \/ ReturnBounced(k) PROVE recorded' = recorded
  BY <1>4, ReturnedRow
<1> QED
  BY <1>1, <1>2, <1>3, <1>4, NextSteady

LEMMA NextCountInv ==
    ASSUME TypeOK, GrantInv, ChainInv, CountInv, [Next]_vars
    PROVE  CountInv'
<1> USE Sets
<1>1. CountedOnce'
  BY CountOfRow DEF CountedOnce
<1>2. ASSUME NEW l \in Letters, recorded'[l] > 0 PROVE took'[l] # {}
  <2>1. took[l] # {}
    BY <1>2, CountedWasTaken
  <2> QED
    BY <2>1, TookGrows
<1>3. \A l \in Letters :
        returns'[l] = 0 /\ letter'[l].status \in {"none"} \cup PENDING => recorded'[l] = 0
  BY CountOfRow
<1>4. ASSUME NEW h \in Hooks, NEW l \in Letters, returns'[l] = 0,
             hook'[h].seen[l].status \in CHAINABLE
      PROVE  recorded'[l] = 1
  <2>1. returns[l] = 0 /\ (recorded[l] = 1 => recorded'[l] = 1)
    BY <1>4, CountOfRow
  <2>2. hook'[h].seen[l].status \in {"none", letter[l].status, hook[h].seen[l].status}
    BY HookSees
  <2>3. letter[l].status \in CHAINABLE \/ hook[h].seen[l].status \in CHAINABLE
    BY <1>4, <2>2
  <2> QED
    BY <2>1, <2>3 DEF CountInv, CountedOnce
<1> QED
  BY <1>1, <1>2, <1>3, <1>4 DEF CountInv

LEMMA NextTraceInv ==
    ASSUME TypeOK, GrantInv, ChainInv, TraceInv, [Next]_vars
    PROVE  TraceInv'
<1> SUFFICES ASSUME NEW l \in Letters, returns'[l] = 0
             PROVE  /\ took'[l] \subseteq {letter'[l].mid}
                    /\ \A w \in Procs : Carries(w, l)' => letter'[l].mid = proc'[w].mine
  BY DEF TraceInv
<1>1. ASSUME NEW w \in Procs, Claim(w), proc[w].at = l
      PROVE  /\ took'[l] \subseteq {letter'[l].mid}
             /\ \A v \in Procs : Carries(v, l)' => letter'[l].mid = proc'[v].mine
  <2>1. took'[l] = {}
    BY <1>1, ClaimedRow, NothingTakenYet
  <2>2. letter'[l].mid = proc'[w].mine /\ \A v \in Procs : v # w => proc'[v] = proc[v]
    BY <1>1 DEF Claim, TypeOK, Row, ProcState
  <2>3. \A v \in Procs : ~Carries(v, l)
    BY <1>1 DEF Claim, GrantInv, AttemptsAreClaims, InHands, NotYet, Carries
  <2> QED
    BY <2>1, <2>2, <2>3 DEF Carries
<1>2. ASSUME NEW w \in Procs, Refuse(w), proc[w].at = l
      PROVE  /\ took'[l] \subseteq {letter'[l].mid}
             /\ \A v \in Procs : ~Carries(v, l)'
  <2>1. took'[l] = {}
    BY <1>2, ClaimedRow, NothingTakenYet
  <2>2. proc'[w].pc \in {"idle", "restoring"} /\ \A v \in Procs : v # w => proc'[v] = proc[v]
    BY <1>2 DEF Refuse, Fail, Turn, Finish, Idle, TypeOK, ProcState
  <2>3. \A v \in Procs : Carries(v, l) => v = w
    BY <1>2 DEF Refuse, GrantInv, OneCarrier, Carries
  <2> QED
    BY <2>1, <2>2, <2>3 DEF Carries
<1>3. ASSUME NEW w \in Procs, Accept(w)
      PROVE  /\ took'[l] \subseteq {letter'[l].mid}
             /\ \A v \in Procs : Carries(v, l)' => letter'[l].mid = proc'[v].mine
  <2>1. /\ UNCHANGED <<letter, proc, returns>> /\ proc[w].pc = "handing"
        /\ took'[l] = took[l] \/ (proc[w].at = l /\ took'[l] = took[l] \cup {proc[w].mine})
    BY <1>3 DEF Accept, TypeOK, rows
  <2>2. proc[w].at = l => letter[l].mid = proc[w].mine
    BY <2>1 DEF TraceInv, Carries
  <2>3. took[l] \subseteq {letter[l].mid} /\ \A v \in Procs : Carries(v, l) => letter[l].mid = proc[v].mine
    BY <2>1 DEF TraceInv
  <2> QED
    BY <2>1, <2>2, <2>3 DEF Carries
<1>4. CASE /\ letter'[l].mid = letter[l].mid /\ took'[l] = took[l] /\ returns[l] = 0
           /\ \A v \in Procs :
                Carries(v, l)' => Carries(v, l) /\ proc'[v].mine = proc[v].mine
  BY <1>4 DEF TraceInv
<1>5. ASSUME ~\E w \in Procs : (Claim(w) \/ Refuse(w)) /\ proc[w].at = l,
             ~\E w \in Procs : Accept(w)
      PROVE  /\ letter'[l].mid = letter[l].mid /\ took'[l] = took[l] /\ returns[l] = 0
             /\ \A v \in Procs :
                  Carries(v, l)' => Carries(v, l) /\ proc'[v].mine = proc[v].mine
  <2>1. took' = took
    BY <1>5, NextTook
  <2>2. returns[l] = 0 /\ letter'[l].mid = letter[l].mid
    <3>1. CASE Steady /\ returns' = returns
      BY <3>1 DEF Steady, Traced
    <3>2. ASSUME NEW w \in Procs, Claim(w) \/ Refuse(w) PROVE returns[l] = 0 /\ letter'[l] = letter[l]
      BY <1>5, <3>2, ClaimedRow
    <3>3. ASSUME NEW k \in Letters, ReturnToQueue(k) \/ ReturnBounced(k)
          PROVE  returns[l] = 0 /\ letter'[l].mid = letter[l].mid
      BY <3>3, ReturnedRow
    <3> QED
      BY <3>1, <3>2, <3>3, NextSteady, NextReturns
  <2>3. ASSUME NEW v \in Procs, Carries(v, l)'
        PROVE  Carries(v, l) /\ proc'[v].mine = proc[v].mine
    BY <1>5, <2>3, HandsMove
  <2> QED
    BY <2>1, <2>2, <2>3
<1> QED
  BY <1>1, <1>2, <1>3, <1>4, <1>5

LEMMA CountAndTrace == Spec => [](TypeOK /\ GrantInv /\ ChainInv /\ CountInv /\ TraceInv)
<1> DEFINE All == TypeOK /\ GrantInv /\ ChainInv /\ CountInv /\ TraceInv
<1>1. Init => All
  BY InitTypeOK, InitGrantInv, InitChainInv, InitCountInv
<1>2. All /\ [Next]_vars => All'
  BY NextTypeOK, NextGrantInv, NextChainInv, NextCountInv, NextTraceInv
<1> QED
  BY <1>1, <1>2, PTL DEF Spec

\* A letter nobody has returned is counted once, and the chain goes on from no
\* letter that is not counted.
THEOREM CountedOnceHolds == Spec => []CountedOnce
<1>1. CountInv => CountedOnce
  BY DEF CountInv
<1> QED
  BY <1>1, CountAndTrace, PTL

\* A letter recorded as gone holds the Message-ID and the box of the attempt the
\* platform accepted, while nobody has returned it.
THEOREM TraceOfAcceptanceHolds == Spec => []TraceOfAcceptance
<1>1. ChainInv /\ TraceInv => TraceOfAcceptance
  BY DEF ChainInv, GoneWasTaken, TraceInv, TraceOfAcceptance
<1> QED
  BY <1>1, CountAndTrace, PTL

\* A letter that is gone comes back to the queue or into anybody's hands only
\* when somebody returns it.
THEOREM SentStaysSentHolds == Spec => SentStaysSent
<1>1. TypeOK /\ GrantInv /\ ChainInv /\ [Next]_vars =>
        [\A l \in Letters :
           letter[l].status \in GONE_STATUSES /\ returns'[l] = 0
             => letter'[l].status \notin {"none"} \cup PENDING]_vars
  <2> SUFFICES ASSUME TypeOK, GrantInv, ChainInv, [Next]_vars, NEW l \in Letters,
                      letter[l].status \in GONE_STATUSES, returns'[l] = 0
               PROVE  letter'[l].status \notin {"none"} \cup PENDING
    OBVIOUS
  <2> USE Sets
  <2>1. took[l] # {}
    BY DEF ChainInv, GoneWasTaken
  <2>2. CASE Steady
    BY <2>2 DEF Steady, Told, Untold
  <2>3. ASSUME NEW w \in Procs, Claim(w) \/ Refuse(w) PROVE letter'[l] = letter[l]
    <3>1. returns' = returns
      BY <2>3, ClaimedRow
    <3>2. proc[w].at # l
      BY <2>1, <2>3, <3>1, NothingTakenYet
    <3> QED
      BY <2>3, <3>2, ClaimedRow
  <2>4. ASSUME NEW k \in Letters, ReturnToQueue(k) \/ ReturnBounced(k)
        PROVE  letter'[l].status = letter[l].status
    BY <2>4, ReturnedRow
  <2> QED
    BY <2>2, <2>3, <2>4, NextSteady
<1> QED
  BY <1>1, CountAndTrace, PTL DEF Spec, SentStaysSent
=============================================================================
