------------------------ MODULE LetterPromiseProofs ------------------------
(***************************************************************************)
(* LetterLife keeps the promise of LetterPromise: a letter is given as     *)
(* often as it was allowed to, the chain goes in order, and after an       *)
(* opt-out nothing is given.  Every step of the code is a step of the      *)
(* promise or changes nothing in it.  And the chain leaves no due date     *)
(* behind a follow-up that may have gone: the inductive invariant DueInv.  *)
(***************************************************************************)
EXTENDS LetterLifeProofs

\* The recipient sees nothing of such a step, except that silence may begin.
Unseen ==
    /\ took' = took /\ returns' = returns
    /\ \A l \in Letters : letter[l].status = "none" <=> letter'[l].status = "none"

\* Silence, once begun, lasts, and no letter is given in it: a run whose checks
\* are not over by then will not pass them.
LEMMA QuietKept ==
    ASSUME TypeOK, Next, Quiet
    PROVE  Quiet' /\ took' = took
<1>1. stop = TRUE /\ \A w \in Procs : proc[w].pc \notin {"checked", "handing"}
  BY DEF Quiet, TypeOK
<1>2. ASSUME NEW w \in Procs, SendStep(w) \/ PassStep(w) \/ Crash(w)
      PROVE  Quiet' /\ took' = took
  <2>1. CASE LoseClaim(w) \/ LoseAnswer(w) \/ Claim(w) \/ Accept(w) \/ Answer(w) \/ Refuse(w)
             \/ CheckFollowup(w)
    BY <1>1, <2>1 DEF LoseClaim, LoseAnswer, Claim, Accept, Answer, Refuse, CheckFollowup
  <2>2. CASE Settle(w) \/ Waits(w) \/ Forbid(w) \/ AlreadyDecided(w) \/ WriteStopped(w)
             \/ Restore(w) \/ Crash(w)
    <3>1. Finish(w) /\ stop' = stop /\ took' = took
      BY <2>2 DEF Settle, Waits, Forbid, AlreadyDecided, WriteStopped, Restore, Crash,
         rows, site, history
    <3> QED
      BY <1>1, <3>1 DEF Finish, Idle, Quiet, TypeOK
  <2>3. CASE Materialize(w) \/ Suppressed(w) \/ Postpone(w)
    BY <1>1, <2>3 DEF Materialize, Suppressed, Postpone, Turn, Quiet, TypeOK, ProcState,
       rows, site, history
  <2> QED
    BY <1>2, <2>1, <2>2, <2>3 DEF SendStep, PassStep
<1>3. ASSUME NEW w \in Procs, NEW l \in Letters, CheckClick(w, l) \/ ClaimDue(w, l)
      PROVE  Quiet' /\ took' = took
  BY <1>1, <1>3 DEF CheckClick, ClaimDue, Quiet, TypeOK, site, history
<1>4. ASSUME HookNext PROVE stop' = stop \/ stop' = TRUE
  BY <1>1, <1>4 DEF HookNext, HookStep, SettleByEvent, ReadAgain, ApplyEvent, AcceptReply, OptOut,
     RollBack, Read, Consequences, rows, site
<1>5. ASSUME HookNext PROVE UNCHANGED <<proc, took>>
  BY <1>5 DEF HookNext, HookStep, SettleByEvent, ReadAgain, ApplyEvent, AcceptReply, OptOut,
     RollBack, Read, history
<1>6. ASSUME PeopleNext PROVE UNCHANGED <<stop, proc, took>>
  BY <1>6 DEF PeopleNext, FoundSent, ReturnToQueue, ReturnDead, ReturnBounced,
     Skip, StopForGood, OutOfQueue, site, history
<1> QED
  BY <1>1, <1>2, <1>3, <1>4, <1>5, <1>6 DEF Next, ProcNext, Quiet

\* After an opt-out or a complaint no letter goes, for any number of senders.
THEOREM SilentAfterStopHolds == Spec => SilentAfterStop
<1>1. TypeOK /\ [Next]_vars => [Quiet => Quiet' /\ took' = took]_vars
  BY QuietKept
<1> QED
  BY <1>1, TypeCorrect, PTL DEF Spec, SilentAfterStop

-----------------------------------------------------------------------------
LEMMA UnseenIsStep ==
    ASSUME TypeOK, Unseen, Quiet => Quiet'
    PROVE  Promise!Next \/ UNCHANGED Promise!vars
<1>1. [l \in Letters |-> Cardinality(took[l])]' = [l \in Letters |-> Cardinality(took[l])]
  BY DEF Unseen
<1>2. [l \in Letters |-> IF letter[l].status = "none" THEN 0 ELSE 1 + returns[l]]'
        = [l \in Letters |-> IF letter[l].status = "none" THEN 0 ELSE 1 + returns[l]]
  BY DEF Unseen
<1>3. Quiet' = Quiet \/ Quiet' = TRUE
  BY DEF Quiet, TypeOK
<1> QED
  BY <1>1, <1>2, <1>3 DEF Promise!Next, Promise!FallSilent, Promise!vars

\* The abstract variables, as functions of the letters.
Given == [l \in Letters |-> Cardinality(took[l])]
Allowed == [l \in Letters |-> IF letter[l].status = "none" THEN 0 ELSE 1 + returns[l]]

LEMMA PromiseVars ==
    /\ Promise!vars = <<Given, Allowed, Quiet>>
    /\ Promise!Letters = Letters
BY DEF Promise!vars, Promise!Letters, Given, Allowed, Letters

LEMMA InitPromise == Init => Promise!Init
<1> SUFFICES ASSUME Init PROVE Promise!Init
  OBVIOUS
<1>1. Given = [l \in Letters |-> 0]
  BY FS_EmptySet DEF Init, Given
<1>2. Allowed = [l \in Letters |-> IF l = 0 THEN 1 ELSE 0]
  <2>1. \A l \in Letters : letter[l].status = IF l = 0 THEN "queued" ELSE "none"
    BY DEF Init, NoRow
  <2>2. \A l \in Letters : returns[l] = 0
    BY DEF Init
  <2>3. \A l \in Letters : (IF letter[l].status = "none" THEN 0 ELSE 1 + returns[l])
                            = IF l = 0 THEN 1 ELSE 0
    BY <2>1, <2>2
  <2> QED
    BY <2>3 DEF Allowed
<1>3. Quiet = FALSE
  BY DEF Init, Quiet
<1> QED
  BY <1>1, <1>2, <1>3 DEF Promise!Init, Promise!Letters, Letters, Given, Allowed

\* The platform takes a letter.
LEMMA AcceptGives ==
    ASSUME TypeOK, GrantInv, NEW w \in Procs, Accept(w)
    PROVE  \E l \in Letters : Promise!Give(l)
<1> DEFINE l == proc[w].at
           a == proc[w].mine
<1>1. /\ l \in Letters /\ proc[w].pc = "handing" /\ a \notin took[l]
      /\ UNCHANGED <<letter, returns, stop, proc>>
      /\ took' = [took EXCEPT ![l] = @ \cup {a}]
  BY ProcUpdates DEF Accept, rows, site
<1>2. Cardinality(took[l] \cup {a}) = Cardinality(took[l]) + 1
  BY <1>1, FiniteTook, FS_AddElement
<1>3. Given' = [Given EXCEPT ![l] = @ + 1]
  BY <1>1, <1>2 DEF Given, TypeOK
<1>4. Allowed' = Allowed /\ Quiet' = Quiet
  BY <1>1 DEF Allowed, Quiet
<1>5. Quiet = FALSE
  BY <1>1 DEF Quiet
<1>6. Given[l] < Allowed[l]
  <2>1. letter[l].status # "none" /\ Cardinality(took[l]) <= returns[l]
    BY <1>1 DEF GrantInv, GrantLeft, AttemptsAreClaims, InHands, NotYet
  <2>2. Cardinality(took[l]) \in Nat /\ returns[l] \in Nat
    BY <1>1, FiniteTook DEF TypeOK
  <2> QED
    BY <1>1, <2>1, <2>2 DEF Given, Allowed
<1>7. Promise!Give(l)
  BY <1>3, <1>4, <1>5, <1>6 DEF Promise!Give, Given, Allowed
<1> QED
  BY <1>1, <1>7

\* Somebody returns a letter to the queue.
LEMMA RequeueReturns ==
    ASSUME TypeOK, ChainInv, NEW l \in Letters, ReturnToQueue(l) \/ ReturnBounced(l)
    PROVE  \E k \in Letters : Promise!Return(k)
<1>1. /\ UNCHANGED <<proc, took>>
      /\ returns' = [returns EXCEPT ![l] = @ + 1]
      /\ letter[l].status # "none" /\ letter'[l].status = "queued"
      /\ \A k \in Letters : k # l => letter'[k].status = letter[k].status
  BY RequeuedRows
<1>2. stop' = stop
  BY DEF ReturnToQueue, ReturnBounced, site
<1>3. \A k \in Letters : returns[k] \in Nat
  BY DEF TypeOK
<1>4. Given' = Given /\ Quiet' = Quiet
  BY <1>1, <1>2 DEF Given, Quiet
<1>5. Allowed[l] > 0
  BY <1>1, <1>3 DEF Allowed
<1>6. Allowed' = [Allowed EXCEPT ![l] = @ + 1]
  <2>1. \A k \in Letters : returns'[k] = IF k = l THEN returns[k] + 1 ELSE returns[k]
    BY <1>1 DEF TypeOK
  <2>2. \A k \in Letters : Allowed'[k] = IF k = l THEN Allowed[k] + 1 ELSE Allowed[k]
    BY <1>1, <1>3, <2>1 DEF Allowed
  <2> QED
    BY <2>2 DEF Allowed
<1>7. Promise!Return(l)
  BY <1>4, <1>5, <1>6 DEF Promise!Return, Given, Allowed
<1> QED
  BY <1>7

\* A follow-up is born after a letter that went.
LEMMA MaterializeBears ==
    ASSUME TypeOK, GrantInv, ChainInv, NEW w \in Procs, Materialize(w)
    PROVE  (\E l \in Letters : Promise!Born(l)) \/ UNCHANGED Promise!vars
<1> DEFINE l == proc[w].at
<1>1. /\ l \in Letters /\ proc[w].pc = "claimed"
      /\ UNCHANGED <<stop, took, returns>>
      /\ proc' = [proc EXCEPT ![w].pc = "made"]
      /\ letter' = IF letter[l].status = "none"
                   THEN [letter EXCEPT ![l].status = "queued"] ELSE letter
  BY ProcUpdates DEF Materialize, Turn, site, history
<1>2. Given' = Given
  BY <1>1 DEF Given
<1>3. Quiet' = Quiet
  BY <1>1 DEF Quiet, TypeOK, ProcState
<1>4. CASE letter[l].status # "none"
  BY <1>1, <1>2, <1>3, <1>4, PromiseVars DEF Allowed, Promise!vars, Given
<1>5. CASE letter[l].status = "none"
  <2>1. returns[l] = 0
    BY <1>1, <1>5 DEF GrantInv, GrantLeft
  <2>2. l > 0 /\ took[l - 1] # {}
    BY <1>1 DEF ChainInv, GoneWasTaken
  <2>3. l - 1 \in Letters
    BY <1>1, <2>2, ChainAssumption DEF Letters
  <2>4. Given[l - 1] > 0
    <3>1. IsFiniteSet(took[l - 1]) /\ Cardinality(took[l - 1]) \in Nat
      BY <2>3, FiniteTook
    <3>2. Cardinality(took[l - 1]) # 0
      BY <2>2, <3>1, FS_EmptySet
    <3> QED
      BY <2>3, <3>1, <3>2 DEF Given
  <2>5. Allowed[l] = 0
    BY <1>1, <1>5 DEF Allowed
  <2>6. Allowed' = [Allowed EXCEPT ![l] = 1]
    <3>1. \A k \in Letters : letter'[k].status = IF k = l THEN "queued" ELSE letter[k].status
      BY <1>1, <1>5 DEF TypeOK, Row
    <3>2. \A k \in Letters : Allowed'[k] = IF k = l THEN 1 ELSE Allowed[k]
      BY <1>1, <2>1, <3>1 DEF Allowed
    <3> QED
      BY <3>2 DEF Allowed
  <2>7. PICK k \in Letters : k = l
    BY <1>1
  <2>8. Promise!Born(k)
    BY <1>2, <1>3, <2>2, <2>4, <2>5, <2>6, <2>7 DEF Promise!Born, Given, Allowed
  <2> QED
    BY <2>8
<1> QED
  BY <1>4, <1>5

\* Every other step is unseen.
LEMMA OthersUnseen ==
    ASSUME TypeOK, GrantInv, ChainInv, [Next]_vars,
           \A w \in Procs : ~Accept(w) /\ ~Materialize(w),
           \A l \in Letters : ~ReturnToQueue(l) /\ ~ReturnBounced(l)
    PROVE  Unseen
<1>1. RowsKept
  BY NextRows
<1>2. ASSUME NEW w \in Procs, SendStep(w) \/ PassStep(w) \/ Crash(w)
      PROVE  UNCHANGED <<took, returns>>
  BY <1>2 DEF SendStep, PassStep, CheckFollowup, Claim, LoseClaim, Answer, Refuse,
     LoseAnswer, Settle, Waits, Forbid, AlreadyDecided, Suppressed, WriteStopped, Postpone,
     Restore, Crash, history
<1>3. ASSUME NEW w \in Procs, NEW k \in Letters, CheckClick(w, k) \/ ClaimDue(w, k)
      PROVE  UNCHANGED <<took, returns>>
  BY <1>3, StartHarmless DEF Harmless
<1>4. ASSUME HookNext PROVE UNCHANGED <<took, returns>>
  BY <1>4, HookHarmless, ReadHarmless DEF HookNext, Harmless
<1>5. ASSUME PeopleNext PROVE UNCHANGED <<took, returns>>
  BY <1>5, PeopleHarmless DEF PeopleNext, Harmless
<1>6. UNCHANGED <<took, returns>>
  BY <1>2, <1>3, <1>4, <1>5 DEF Next, ProcNext, vars, history
<1> QED
  BY <1>1, <1>6 DEF Unseen, RowsKept

LEMMA NextPromise ==
    TypeOK /\ GrantInv /\ ChainInv /\ [Next]_vars => [Promise!Next]_(Promise!vars)
<1> SUFFICES ASSUME TypeOK, GrantInv, ChainInv, [Next]_vars
             PROVE  Promise!Next \/ UNCHANGED Promise!vars
  OBVIOUS
<1>1. ASSUME NEW w \in Procs, Accept(w) PROVE Promise!Next
  BY <1>1, AcceptGives, PromiseVars DEF Promise!Next
<1>2. ASSUME NEW l \in Letters, ReturnToQueue(l) \/ ReturnBounced(l) PROVE Promise!Next
  BY <1>2, RequeueReturns, PromiseVars DEF Promise!Next
<1>3. ASSUME NEW w \in Procs, Materialize(w) PROVE Promise!Next \/ UNCHANGED Promise!vars
  BY <1>3, MaterializeBears, PromiseVars DEF Promise!Next
<1>4. Quiet => Quiet'
  BY QuietKept DEF Quiet, vars, rows, site
<1>5. ASSUME Unseen PROVE Promise!Next \/ UNCHANGED Promise!vars
  BY <1>4, <1>5, UnseenIsStep
<1> QED
  BY <1>1, <1>2, <1>3, <1>5, OthersUnseen

\* The code implements the promise to the recipient.
THEOREM PromiseKept == Spec => KeepsPromise
<1>1. Init => Promise!Init
  BY InitPromise
<1>2. TypeOK /\ GrantInv /\ ChainInv /\ [Next]_vars => [Promise!Next]_(Promise!vars)
  BY NextPromise
<1> QED
  BY <1>1, <1>2, TypeCorrect, GrantsHold, ChainHolds, PTL DEF Spec, KeepsPromise, Promise!Spec
-----------------------------------------------------------------------------
(* No due date is left, or comes back, behind a follow-up that has gone.    *)

LEMMA DueOfRow ==
    ASSUME NEW row \in Row, NEW seen \in View
    PROVE  /\ Stopped(row, seen).due => row.due
           /\ \A kind \in Events : Applied(row, seen, kind).due => row.due
<1> USE DEF Row, View
<1>1. Clear(row, seen) \in Row /\ (Clear(row, seen).due => row.due)
  BY DEF Clear
<1>2. Stopped(row, seen).due => row.due
  BY <1>1 DEF Stopped
<1>3. ASSUME NEW kind \in Events PROVE Applied(row, seen, kind).due => row.due
  BY <1>1, <1>3 DEF Applied, Events
<1> QED
  BY <1>2, <1>3

\* The processes give a due date back by Waits and Restore, and a new one comes
\* with the record that the letter is gone.
LEMMA ProcDue ==
    ASSUME TypeOK, NEW k \in Letters, ~letter[k].due, letter'[k].due,
           NEW w \in Procs, SendStep(w) \/ PassStep(w) \/ Crash(w)
    PROVE  \/ letter[k].status \in PENDING
           \/ (Waits(w) \/ Restore(w)) /\ proc[w].at = k + 1
<1> USE Sets DEF rows, TypeOK
<1> DEFINE l == proc[w].at
<1>1. l \in Letters /\ l \in Int /\ k \in Int
  BY ProcUpdates, ChainAssumption DEF Letters
<1>2. CASE Claim(w)
  BY <1>2 DEF Claim, Row
<1>3. CASE Refuse(w)
  BY <1>3 DEF Refuse, Row
<1>4. CASE Settle(w)
  <2>1. letter[l].status = "sending" /\ k = l
    BY <1>4 DEF Settle
  <2> QED
    BY <2>1
<1>5. CASE Waits(w) \/ Restore(w)
  <2>1. letter' = [letter EXCEPT ![l - 1].due = TRUE]
    BY <1>5 DEF Waits, Restore, GiveBack
  <2>2. k = l - 1
    BY <2>1 DEF Row
  <2> QED
    BY <1>1, <1>5, <2>2
<1>6. CASE Materialize(w)
  BY <1>6 DEF Materialize, Row
<1>7. CASE Forbid(w)
  BY <1>7 DEF Forbid, Row
<1>8. CASE WriteStopped(w)
  BY <1>8 DEF WriteStopped, Row
<1>9. CASE UNCHANGED letter
  BY <1>9
<1>10. \/ Claim(w) \/ Refuse(w) \/ Settle(w) \/ Waits(w) \/ Restore(w) \/ Materialize(w)
       \/ Forbid(w) \/ WriteStopped(w) \/ UNCHANGED letter
  BY DEF SendStep, PassStep, CheckFollowup, LoseClaim, Accept, Answer, LoseAnswer,
         AlreadyDecided, Suppressed, Postpone, Crash
<1> QED
  BY <1>2, <1>3, <1>4, <1>5, <1>6, <1>7, <1>8, <1>9, <1>10

LEMMA HookDue ==
    ASSUME TypeOK, NEW k \in Letters, ~letter[k].due, letter'[k].due,
           NEW h \in Hooks, HookStep(h) \/ RollBack(h)
    PROVE  letter[k].status \in PENDING
<1>1. /\ hook[h].at \in Letters
      /\ \A j \in Letters : hook[h].seen[j] \in View /\ letter[j] \in Row
  BY DEF TypeOK, HookState
<1>2. CASE SettleByEvent(h)
  <2>1. k # hook[h].at =>
          letter'[k] \in {letter[k], [letter[k] EXCEPT !.due = FALSE]}
    BY <1>2 DEF SettleByEvent
  <2>2. ~[letter[k] EXCEPT !.due = FALSE].due
    BY <1>1 DEF Row
  <2>3. k = hook[h].at
    BY <2>1, <2>2
  <2> QED
    BY <1>2, <2>3 DEF SettleByEvent, Unsettled
<1>3. CASE ReadAgain(h) \/ RollBack(h)
  BY <1>3 DEF ReadAgain, RollBack, rows
<1>4. CASE ApplyEvent(h)
  <2>1. letter'[k] \in {letter[k], Applied(letter[k], hook[h].seen[k], hook[h].job)}
        /\ hook[h].job \in Events
    BY <1>4 DEF ApplyEvent, TypeOK
  <2> QED
    BY <1>1, <2>1, DueOfRow
<1>5. Stopped(letter[k], hook[h].seen[k]) \in Row /\ ~Stopped(letter[k], hook[h].seen[k]).due
  BY <1>1, RowsStayRows, DueOfRow
<1>6. CASE AcceptReply(h)
  <2> DEFINE row == Stopped(letter[k], hook[h].seen[k])
  <2>1. letter'[k] \in {[row EXCEPT !.status = @], [row EXCEPT !.status = "bounced"]}
    BY <1>6 DEF AcceptReply
  <2>2. row \in Row /\ ~row.due
    BY <1>5
  <2> HIDE DEF row
  <2>3. ~[row EXCEPT !.status = @].due /\ ~[row EXCEPT !.status = "bounced"].due
    BY <2>2 DEF Row
  <2> QED
    BY <2>1, <2>3
<1>7. CASE OptOut(h)
  BY <1>5, <1>7 DEF OptOut
<1> QED
  BY <1>2, <1>3, <1>4, <1>6, <1>7 DEF HookStep

LEMMA PeopleDue ==
    ASSUME TypeOK, NEW k \in Letters, ~letter[k].due, letter'[k].due, PeopleNext
    PROVE  \/ letter[k].status \in PENDING
           \/ \E j \in Letters : j = k + 1 /\ (ReturnToQueue(j) \/ ReturnBounced(j))
<1> USE Sets DEF TypeOK
<1>1. ASSUME NEW j \in Letters, ReturnToQueue(j) \/ ReturnBounced(j) PROVE j = k + 1
  <2>1. j \in Int /\ k \in Int
    BY ChainAssumption DEF Letters
  <2>2. letter[k] \in Row
    OBVIOUS
  <2>3. SUFFICES ASSUME k # j - 1 PROVE FALSE
    BY <2>1
  <2>4. Requeued(j)[k] \in {letter[k], [letter[k] EXCEPT !.status = "queued"]}
    BY <2>3, Zenon DEF Requeued
  <2>5. Requeued(j)[k] \in Row /\ ~Requeued(j)[k].due
    BY <2>2, <2>4, StatusValues DEF Row
  <2>6. CASE ReturnToQueue(j)
    BY <2>5, <2>6 DEF ReturnToQueue
  <2>7. CASE ReturnBounced(j)
    <3>1. letter' = [Requeued(j) EXCEPT ![j].why = "", ![j].back = TRUE]
      BY <2>7, Zenon DEF ReturnBounced
    <3>2. letter'[k].due = Requeued(j)[k].due
      BY <2>5, <3>1 DEF Requeued, Row
    <3> QED
      BY <2>5, <3>2
  <2> QED
    BY <1>1, <2>6, <2>7
<1>2. ASSUME NEW j \in Letters, FoundSent(j) PROVE letter[k].status \in PENDING
  BY <1>2 DEF FoundSent
<1>3. ASSUME NEW j \in Letters, ReturnDead(j) \/ Skip(j) \/ StopForGood(j) \/ OutOfQueue(j)
      PROVE  FALSE
  BY <1>3 DEF ReturnDead, Skip, StopForGood, OutOfQueue, Row
<1> QED
  BY <1>1, <1>2, <1>3 DEF PeopleNext

LEMMA NextDue ==
    ASSUME TypeOK, NEW k \in Letters, ~letter[k].due, letter'[k].due, [Next]_vars
    PROVE  \/ letter[k].status \in PENDING
           \/ \E w \in Procs : (Waits(w) \/ Restore(w)) /\ proc[w].at = k + 1
           \/ \E j \in Letters : j = k + 1 /\ (ReturnToQueue(j) \/ ReturnBounced(j))
<1>1. ASSUME NEW w \in Procs, NEW l \in Letters, CheckClick(w, l) \/ ClaimDue(w, l)
      PROVE  FALSE
  BY <1>1 DEF CheckClick, ClaimDue, rows, TypeOK, Row
<1>2. ASSUME NEW h \in Hooks, NEW job \in Jobs, NEW l \in Letters, Read(h, job, l)
      PROVE  FALSE
  BY <1>2 DEF Read, rows
<1>3. ~UNCHANGED vars
  BY DEF vars, rows
<1> QED
  BY <1>1, <1>2, <1>3, ProcDue, HookDue, PeopleDue DEF Next, ProcNext, HookNext

\* A process comes to a follow-up by taking the due date of the letter before;
\* it comes to the hand-over by the claim, and goes back from it by a refusal.
LEMMA HeldMoves ==
    ASSUME TypeOK, [Next]_vars, NEW v \in Procs, NEW m \in Letters, m # 0,
           proc'[v].pc # "idle", proc'[v].at = m
    PROVE  \/ ClaimDue(v, m - 1)
           \/ /\ proc[v].pc # "idle" /\ proc[v].at = m
              /\ proc'[v].pc \in InHands => proc[v].pc \in InHands \/ Claim(v)
              /\ proc[v].pc \in InHands => proc'[v].pc \in InHands \/ Refuse(v)
<1> USE DEF TypeOK, ProcState, InHands
<1>1. CASE proc'[v] = proc[v]
  BY <1>1
<1>2. ASSUME NEW l \in Letters, CheckClick(v, l) PROVE FALSE
  BY <1>2 DEF CheckClick
<1>3. ASSUME NEW l \in Letters, ClaimDue(v, l) PROVE l = m - 1
  <2>1. proc'[v].at = l + 1
    BY <1>3 DEF ClaimDue
  <2> QED
    BY <2>1, ChainAssumption DEF Letters
<1>4. CASE Finish(v)
  BY <1>4 DEF Finish, Idle
<1>5. CASE Claim(v) \/ Answer(v) \/ Refuse(v)
  BY <1>5, <1>4 DEF Claim, Answer, Refuse, Fail, Turn
<1>6. CASE CheckFollowup(v) \/ Materialize(v) \/ Suppressed(v) \/ Postpone(v)
  BY <1>6 DEF CheckFollowup, Materialize, Suppressed, Postpone, Turn
<1>7. ASSUME SendStep(v) \/ PassStep(v) \/ Crash(v)
      PROVE  \/ CheckFollowup(v) \/ Suppressed(v) \/ Materialize(v) \/ Postpone(v)
             \/ Claim(v) \/ Answer(v) \/ Refuse(v) \/ Finish(v) \/ proc'[v] = proc[v]
  BY <1>7 DEF SendStep, PassStep, LoseClaim, Accept, LoseAnswer, Settle, Waits,
     Forbid, AlreadyDecided, WriteStopped, Restore, Crash
<1>8. ASSUME NEW w \in Procs, w # v, SendStep(w) \/ PassStep(w) \/ Crash(w)
      PROVE  proc'[v] = proc[v]
  BY <1>8 DEF SendStep, PassStep, CheckFollowup, Claim, LoseClaim, Accept, Answer, Refuse,
     LoseAnswer, Settle, Waits, Materialize, Forbid, AlreadyDecided, Suppressed,
     WriteStopped, Postpone, Restore, Crash, Turn, Finish, Fail
<1>9. ASSUME NEW w \in Procs, w # v, NEW l \in Letters, CheckClick(w, l) \/ ClaimDue(w, l)
      PROVE  proc'[v] = proc[v]
  BY <1>9 DEF CheckClick, ClaimDue
<1>10. ASSUME HookNext \/ PeopleNext \/ UNCHANGED vars PROVE proc' = proc
  BY <1>10 DEF HookNext, PeopleNext, vars, HookStep, SettleByEvent, ReadAgain, ApplyEvent,
     AcceptReply, OptOut, RollBack, Read, FoundSent, ReturnToQueue, ReturnDead, ReturnBounced,
     Skip, StopForGood, OutOfQueue
<1> QED
  BY <1>1, <1>2, <1>3, <1>4, <1>5, <1>6, <1>7, <1>8, <1>9, <1>10 DEF Next, ProcNext

\* The transmission of a letter begins with the claim, or with the platform's yes
\* to a run that has it in hand.
LEMMA BegunMoves ==
    ASSUME TypeOK, GrantInv, ChainInv, [Next]_vars, NEW m \in Letters, returns'[m] = 0,
           Begun(m)', ~Begun(m)
    PROVE  \E w \in Procs : proc[w].at = m /\ (Claim(w) \/ Accept(w))
<1> USE Sets
<1>1. letter[m].status # "sending" /\ took[m] = {}
  BY DEF Begun
<1>2. ASSUME took'[m] # {} PROVE \E w \in Procs : proc[w].at = m /\ Accept(w)
  <2>1. PICK w \in Procs : Accept(w)
    BY <1>1, <1>2, NextTook
  <2>2. proc[w].at = m
    BY <1>1, <1>2, <2>1 DEF Accept, TypeOK
  <2> QED
    BY <2>1, <2>2
<1>3. ASSUME letter'[m].status = "sending" PROVE \E w \in Procs : proc[w].at = m /\ Claim(w)
  <2>1. ~Steady
    BY <1>1, <1>3 DEF Steady, Told, Untold, OUT
  <2>2. ASSUME NEW k \in Letters, ReturnToQueue(k) \/ ReturnBounced(k) PROVE FALSE
    BY <1>1, <1>3, <2>2, ReturnedRow
  <2>3. ASSUME NEW w \in Procs, Refuse(w) PROVE letter'[m].status # "sending"
    BY <1>1, <2>3 DEF Refuse, TypeOK, Row
  <2>4. PICK w \in Procs : Claim(w)
    BY <1>3, <2>1, <2>2, <2>3, NextSteady
  <2>5. proc[w].at = m
    BY <1>1, <1>3, <2>4, ClaimedRow
  <2> QED
    BY <2>4, <2>5
<1> QED
  BY <1>2, <1>3 DEF Begun

\* A letter that has gone, or was stopped after that, does not wait again.
LEMMA GoneIsBehind ==
    ASSUME TypeOK, GrantInv, ChainInv, [Next]_vars, NEW l \in Letters, returns'[l] = 0,
           returns[l] = 0, took[l] # {}, letter[l].status \notin {"none"} \cup PENDING
    PROVE  letter'[l].status \notin {"none"} \cup PENDING
<1> USE Sets
<1>1. CASE Steady
  BY <1>1 DEF Steady, Told, Untold
<1>2. ASSUME NEW w \in Procs, Claim(w) \/ Refuse(w) PROVE letter'[l] = letter[l]
  <2>1. proc[w].at # l
    BY <1>2, NothingTakenYet
  <2> QED
    BY <1>2, <2>1, ClaimedRow
<1>3. ASSUME NEW k \in Letters, ReturnToQueue(k) \/ ReturnBounced(k)
      PROVE  letter'[l].status = letter[l].status
  BY <1>3, ReturnedRow
<1> QED
  BY <1>1, <1>2, <1>3, NextSteady

LEMMA NoReturnYet ==
    ASSUME TypeOK, [Next]_vars, NEW l \in Letters, returns'[l] = 0
    PROVE  returns[l] = 0 /\ ~ReturnToQueue(l) /\ ~ReturnBounced(l)
<1>1. ~ReturnToQueue(l) /\ ~ReturnBounced(l)
  BY ReturnedRow
<1>2. ASSUME NEW k \in Letters, ReturnToQueue(k) \/ ReturnBounced(k) PROVE returns[l] = 0
  BY <1>2, ReturnedRow
<1> QED
  BY <1>1, <1>2, NextReturns

LEMMA InitDueInv == Init => DueInv
<1> SUFFICES ASSUME Init PROVE DueInv
  OBVIOUS
<1>1. \A l \in Letters : letter[l].status \in {"none", "queued"} /\ took[l] = {}
  BY DEF Init, NoRow
<1>2. \A w \in Procs : proc[w].pc = "idle"
  BY DEF Init, Idle
<1>3. \A l \in Letters : ~Begun(l) /\ Held(l) = {}
  BY <1>1, <1>2 DEF Begun, Held
<1> QED
  BY <1>3 DEF DueInv

LEMMA NextDueInv ==
    ASSUME TypeOK, GrantInv, ChainInv, DueInv, [Next]_vars
    PROVE  DueInv'
<1> SUFFICES ASSUME NEW l \in Letters, l + 1 \in Letters, returns'[l] = 0, returns'[l + 1] = 0
             PROVE  /\ Begun(l + 1)' \/ Held(l + 1)' # {} =>
                         /\ ~letter'[l].due /\ took'[l] # {}
                         /\ letter'[l].status \notin {"none"} \cup PENDING
                    /\ \A v, w \in Held(l + 1)' : v = w
                    /\ Begun(l + 1)' => \A w \in Held(l + 1)' : proc'[w].pc \in InHands
  BY DEF DueInv
<1> DEFINE m == l + 1
<1> USE Sets
<1>1. m \in Letters /\ m # 0 /\ m - 1 = l /\ l # m
  BY ChainAssumption DEF Letters
<1>2. /\ returns[l] = 0 /\ returns[m] = 0
      /\ ~ReturnToQueue(m) /\ ~ReturnBounced(m)
  BY <1>1, NoReturnYet
<1>3. /\ Begun(m) \/ Held(m) # {} =>
           /\ ~letter[l].due /\ took[l] # {}
           /\ letter[l].status \notin {"none"} \cup PENDING
      /\ \A v, w \in Held(m) : v = w
      /\ Begun(m) => \A w \in Held(m) : proc[w].pc \in InHands
  BY <1>2 DEF DueInv
<1>4. CASE \E w \in Procs : ClaimDue(w, l)
  <2>1. PICK w \in Procs : ClaimDue(w, l)
    BY <1>4
  <2>2. /\ letter[l].due /\ letter[l].status \in CHAINABLE
        /\ UNCHANGED <<took, returns>>
        /\ letter' = [letter EXCEPT ![l].due = FALSE]
        /\ \A v \in Procs : v # w => proc'[v] = proc[v]
    BY <2>1 DEF ClaimDue, TypeOK, history
  <2>3. /\ letter'[m] = letter[m] /\ ~letter'[l].due
        /\ letter'[l].status = letter[l].status /\ took[l] # {}
    BY <1>1, <2>2 DEF TypeOK, Row, ChainInv, GoneWasTaken
  <2>4. ~Begun(m) /\ Held(m) = {}
    BY <1>3, <2>2
  <2>5. ~Begun(m)'
    BY <2>2, <2>3, <2>4 DEF Begun
  <2>6. \A v \in Held(m)' : v = w
    BY <2>2, <2>4 DEF Held
  <2> QED
    BY <2>2, <2>3, <2>5, <2>6
<1>5. CASE ~\E w \in Procs : ClaimDue(w, l)
  <2>1. ASSUME NEW v \in Held(m)'
        PROVE  /\ v \in Held(m)
               /\ proc'[v].pc \in InHands => proc[v].pc \in InHands \/ Claim(v)
               /\ proc[v].pc \in InHands => proc'[v].pc \in InHands \/ Refuse(v)
    BY <1>1, <1>5, <2>1, HeldMoves DEF Held
  <2>2. ASSUME Begun(m)', ~Begun(m)
        PROVE  \E w \in Held(m) : proc'[w].pc \in InHands
    <3>1. PICK w \in Procs : proc[w].at = m /\ (Claim(w) \/ Accept(w))
      BY <1>1, <2>2, BegunMoves
    <3>2. w \in Held(m) /\ proc'[w].pc \in InHands
      BY <3>1 DEF Claim, Accept, Held, InHands, TypeOK, ProcState
    <3> QED
      BY <3>2
  <2>3. \A v, w \in Held(m)' : v = w
    BY <1>3, <2>1
  <2>4. ASSUME Begun(m)', NEW v \in Held(m)' PROVE proc'[v].pc \in InHands
    <3>1. CASE Begun(m)
      <4>1. proc[v].pc \in InHands
        BY <1>3, <2>1, <3>1
      <4>2. ASSUME Refuse(v) PROVE FALSE
        <5>1. v \in Procs /\ proc[v].at = m
          BY <2>1 DEF Held
        <5>2. took[m] = {}
          BY <1>2, <4>2, <5>1, NothingTakenYet
        <5>3. letter'[m].status = "queued" /\ took' = took
          BY <1>1, <4>2, <5>1 DEF Refuse, TypeOK, Row, history
        <5> QED
          BY <2>4, <5>2, <5>3 DEF Begun
      <4> QED
        BY <2>1, <4>1, <4>2
    <3>2. CASE ~Begun(m)
      BY <1>3, <2>1, <2>2, <2>4, <3>2
    <3> QED
      BY <3>1, <3>2
  <2>5. ASSUME Begun(m)' \/ Held(m)' # {}
        PROVE  /\ ~letter'[l].due /\ took'[l] # {}
               /\ letter'[l].status \notin {"none"} \cup PENDING
    <3>1. Begun(m) \/ Held(m) # {}
      BY <2>1, <2>2, <2>5
    <3>2. /\ ~letter[l].due /\ took[l] # {}
          /\ letter[l].status \notin {"none"} \cup PENDING
      BY <1>3, <3>1
    <3>3. letter'[l].status \notin {"none"} \cup PENDING /\ took'[l] # {}
      BY <1>2, <3>2, GoneIsBehind, TookGrows
    <3>4. ASSUME letter'[l].due PROVE FALSE
      <4>1. PICK w \in Procs : (Waits(w) \/ Restore(w)) /\ proc[w].at = m
        BY <1>2, <3>2, <3>4, NextDue
      <4>2. /\ proc[w].pc \in {"claimed", "restoring"} /\ Finish(w)
            /\ letter' = [letter EXCEPT ![l].due = TRUE] /\ took' = took
        BY <1>1, <4>1 DEF Waits, Restore, GiveBack, history
      <4>3. w \in Held(m) /\ proc[w].pc \notin InHands
        BY <4>1, <4>2 DEF Held, InHands
      <4>4. ~Begun(m)
        BY <1>3, <4>3
      <4>5. ~Begun(m)'
        BY <1>1, <4>2, <4>4 DEF Begun
      <4>6. w \notin Held(m)'
        BY <4>2 DEF Finish, Idle, Held, TypeOK
      <4>7. Held(m)' = {}
        BY <1>3, <2>1, <4>3, <4>6
      <4> QED
        BY <2>5, <4>5, <4>7
    <3> QED
      BY <3>3, <3>4
  <2> QED
    BY <2>3, <2>4, <2>5
<1> QED
  BY <1>4, <1>5

\* The follow-up pass has no due date to come back for, once the follow-up is in
\* the platform's hands, while nobody has returned either letter.
THEOREM DueNotBehindHolds == Spec => []DueNotBehind
<1>1. Init => DueInv
  BY InitDueInv
<1>2. TypeOK /\ GrantInv /\ ChainInv /\ DueInv /\ [Next]_vars => DueInv'
  BY NextDueInv
<1>3. ChainInv /\ DueInv => DueNotBehind
  BY Sets DEF ChainInv, GoneWasTaken, DueInv, DueNotBehind, Begun
<1> QED
  BY <1>1, <1>2, <1>3, TypeCorrect, GrantsHold, ChainHolds, PTL DEF Spec
=============================================================================
