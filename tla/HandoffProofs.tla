--------------------------- MODULE HandoffProofs ----------------------------
(***************************************************************************)
(* Proofs about Handoff, for any tasks, letters, bounds and faults.  First *)
(* the types: a copy changes one column after another; each change is a    *)
(* record of its own here, for the provers.  Then what is done once: a     *)
(* lead has one deal, one note and one message of each letter, whatever    *)
(* died or got lost, and what a person has closed stays closed.  The       *)
(* inductive invariant says who knows of what Kommo and Telegram have      *)
(* taken: the row while nobody works, the copy of the only job at work     *)
(* otherwise, and what neither knows of has been counted as spilt.  Last:  *)
(* open work has a date, because whoever may open it found one.            *)
(***************************************************************************)
EXTENDS Handoff, TLAPS

LEMMA FlushedType ==
    ASSUME row \in Row, NEW s \in Task
    PROVE  Flushed(s) \in Row
<1>1. DOMAIN row = {"kommo", "telegram", "deal", "noted", "told", "link", "due", "telegram_due", "tries"}
  BY DEF Row
<1>2. s.mine \in Row /\ s.base \in Row
  BY DEF Task
<1> QED BY <1>1, <1>2 DEF Flushed, Row

LEMMA ReopenedType ==
    ASSUME NEW r \in Row, NEW reply
    PROVE  Reopened(r, reply) \in Row
BY DEF Reopened, Row

LEMMA ComeType ==
    ASSUME NEW r \in Row, NEW c \in {"due", "telegram_due"}
    PROVE  Come(r, c) \in Row
BY DEF Come, Row, Due

LEMMA SettledType ==
    ASSUME NEW r \in Row
    PROVE  _settled(r) \in Row
<1>1. 0 \in 0..Tries - 1
  BY HandoffAssumption
<1> QED BY <1>1 DEF _settled, Row, Due

LEMMA AfterFailureType ==
    ASSUME NEW r \in Row, NEW permanent \in BOOLEAN, NEW told \in BOOLEAN
    PROVE  after_failure(r, permanent, told) \in Row
<1>1. CASE permanent \/ told \/ r.tries + 1 >= Tries
  BY <1>1, SettledType DEF after_failure
<1>2. CASE ~(permanent \/ told \/ r.tries + 1 >= Tries)
  <2>1. r.tries \in Nat /\ r.tries + 1 \in 0..Tries - 1
    BY <1>2, HandoffAssumption DEF Row
  <2> QED BY <1>2, <2>1 DEF after_failure, Row, Due
<1> QED BY <1>1, <1>2

At == {"idle", "claimed", "deal", "made", "note", "message", "last", "closing"}

LEMMA GoesTask ==
    ASSUME task \in [Tasks -> Task], NEW t \in Tasks, NEW at \in At, NEW mine \in Row,
           Goes(t, at, mine)
    PROVE  /\ task' \in [Tasks -> Task]
           /\ task' = [task EXCEPT ![t] = [at |-> at, kind |-> task[t].kind,
                 card |-> task[t].card, since |-> task[t].since,
                 mine |-> mine, base |-> task[t].base]]
<1> DEFINE new == [at |-> at, kind |-> task[t].kind, card |-> task[t].card,
                   since |-> task[t].since, mine |-> mine, base |-> task[t].base]
<1>1. task[t] \in Task OBVIOUS
<1>2. new = [[task[t] EXCEPT !.at = at] EXCEPT !.mine = mine]
  <2>1. PICK s \in Task : s = [task[t] EXCEPT !.at = at]
    BY <1>1 DEF Task, At
  <2>2. /\ s.at = at /\ s.kind = task[t].kind /\ s.card = task[t].card
        /\ s.since = task[t].since /\ s.base = task[t].base
    BY <1>1, <2>1 DEF Task
  <2>3. [s EXCEPT !.mine = mine] = new
    BY <2>2 DEF Task
  <2> QED BY <2>1, <2>3
<1>3. task' = [[task EXCEPT ![t] = [task[t] EXCEPT !.at = at]] EXCEPT ![t] = [[task[t] EXCEPT !.at = at] EXCEPT !.mine = mine]]
  BY DEF Goes
<1>4. task' = [task EXCEPT ![t] = new]
  BY <1>2, <1>3
<1>5. new \in Task
  BY <1>1 DEF Task, At
<1> QED BY <1>4, <1>5

LEMMA LeftType ==
    ASSUME NEW s \in Task
    PROVE  Left(s) \in Row
<1>1. s.mine \in Row
  BY DEF Task
<1>2. PICK r \in Row : r = IF latest # s.card THEN Reopened(s.mine, latest) ELSE s.mine
  BY <1>1, ReopenedType
<1>3. _due_after(r, _answered_meanwhile(s)) \in Due
  BY DEF _due_after, Row, Due
<1> QED BY <1>2, <1>3 DEF Left, Row

LEMMA SpillType ==
    ASSUME spilt \in [deal : Nat, note : Nat, word : Nat, half : Nat], NEW s \in Task, Spill(s)
    PROVE  spilt' \in [deal : Nat, note : Nat, word : Nat, half : Nat]
BY DEF Spill

\* Every step keeps the types; for the steps of a job, those of its copy.
LEMMA TypeStep ==
    ASSUME TypeOK, [Next]_vars
    PROVE  TypeOK'
<1> USE DEF vars, history
<1>a. MaxReplies \in Nat \ {0} /\ MaxFaults \in Nat /\ Clients \subseteq {"full", "gateway", "off"}
  BY HandoffAssumption
<1>k. /\ \A t \in Tasks : /\ task[t] \in Task /\ task[t].mine \in Row /\ task[t].base \in Row
                          /\ task[t].card \in 0..MaxReplies /\ task[t].kind \in Kinds
                          /\ task[t].since \in 0..MaxReplies
      /\ latest \in 0..MaxReplies /\ latest \in Nat
  BY <1>a DEF TypeOK, Task
<1>f. ASSUME Fault PROVE faults' \in 0..MaxFaults
  BY <1>f, <1>a DEF Fault, TypeOK
<1>1. CASE Answer
  BY <1>1, <1>a DEF Answer, TypeOK
<1>2. CASE start
  <2>1. Reopened(row, latest) \in Row
    BY ReopenedType DEF TypeOK
  <2>2. row' \in Row
    BY <1>2, <2>1 DEF start, Row, TypeOK, Due
  <2>3. jobs' \subseteq Kinds /\ faults' \in 0..MaxFaults
    BY <1>2, <1>f DEF start, Enqueued, TypeOK, Kinds
  <2> QED BY <1>2, <1>a, <2>2, <2>3 DEF start, TypeOK
<1>3. CASE due \/ message_due
  <2>1. PICK kind \in Kinds : _take(kind)
    BY <1>3 DEF due, message_due, Kinds
  <2>2. row' \in Row
    BY <2>1 DEF _take, Row, TypeOK, Due
  <2>3. jobs' \subseteq Kinds /\ faults' \in 0..MaxFaults
    BY <2>1, <1>f DEF _take, Enqueued, TypeOK
  <2> QED BY <2>1, <2>2, <2>3 DEF _take, TypeOK
<1>4. ASSUME NEW c \in {"due", "telegram_due"}, Ripen(c) PROVE TypeOK'
  <2>1. row' \in Row
    BY <1>4, ComeType DEF Ripen, TypeOK
  <2>2. task' \in [Tasks -> Task]
    <3>1. \A t \in Tasks : Come(task[t].mine, c) \in Row /\ Come(task[t].base, c) \in Row
      BY <1>k, ComeType
    <3>2. \A t \in Tasks : [task[t] EXCEPT !.mine = Come(@, c), !.base = Come(@, c)] \in Task
      BY <3>1, <1>k DEF Task
    <3> QED BY <1>4, <3>2 DEF Ripen
  <2> QED BY <1>4, <2>1, <2>2 DEF Ripen, TypeOK
<1>5. CASE Queue
  BY <1>5 DEF Queue, Busy, Expire, TypeOK, Dead
<1>6. ASSUME NEW t \in Tasks, NEW kind \in Kinds, _claim(t, kind) PROVE TypeOK'
  <2>1. asked \in 0..MaxReplies
    BY <1>a DEF TypeOK
  <2>2. task' \in [Tasks -> Task]
    BY <1>6, <2>1, <1>a DEF _claim, TypeOK, Task, NoReply
  <2> QED BY <1>6, <2>2 DEF _claim, TypeOK
<1>7. ASSUME NEW t \in Tasks, card_of(t) PROVE TypeOK'
  <2> DEFINE mine == IF task[t].kind = "whole" THEN Reopened(task[t].mine, latest) ELSE task[t].mine
             at == IF task[t].kind = "message" \/ mine.kommo \notin WORK THEN "message"
                   ELSE IF mine.deal = NoDeal THEN "deal" ELSE "note"
  <2>1. mine \in Row
    BY <1>k, ReopenedType
  <2>2. at \in At
    BY DEF At
  <2>3. task' = [task EXCEPT ![t].at = at, ![t].mine = mine, ![t].card = latest]
    BY <1>7 DEF card_of
  <2> HIDE DEF mine, at
  <2>4. task' \in [Tasks -> Task]
    <3>1. PICK a \in Task : a = [task[t] EXCEPT !.at = at]
      BY <2>2, <1>k DEF Task, At
    <3>2. PICK b \in Task : b = [a EXCEPT !.mine = mine]
      BY <2>1, <3>1 DEF Task
    <3>3. [b EXCEPT !.card = latest] \in Task
      BY <1>k, <3>2 DEF Task
    <3>4. task' = [task EXCEPT ![t] = [b EXCEPT !.card = latest]]
      BY <2>3, <3>1, <3>2
    <3> QED BY <3>3, <3>4 DEF TypeOK
  <2> QED BY <1>7, <2>4 DEF card_of, TypeOK
<1>8. ASSUME NEW t \in Tasks, Off(t) PROVE TypeOK'
  <2>1. [task[t].mine EXCEPT !.kommo = "off", !.noted = task[t].card] \in Row
    BY <1>k DEF Row
  <2>2. task' \in [Tasks -> Task]
    BY <1>8, <2>1, GoesTask DEF Off, TypeOK, At
  <2> QED BY <1>8, <2>2 DEF Off, TypeOK
<1>9. ASSUME NEW t \in Tasks, Refusal(t) PROVE TypeOK'
  <2>1. PICK state \in {"retry", "failed"} :
          Goes(t, "message", [task[t].mine EXCEPT !.kommo = state])
    BY <1>9 DEF Refusal
  <2>2. [task[t].mine EXCEPT !.kommo = state] \in Row
    BY <1>k DEF Row
  <2>3. task' \in [Tasks -> Task]
    BY <2>1, <2>2, GoesTask DEF TypeOK, At
  <2> QED BY <1>9, <1>f, <2>3 DEF Refusal, TypeOK
<1>c. ASSUME NEW card \in 0..MaxReplies
      PROVE  Created(card) \in [deals : Nat, notes : [Replies -> Nat], known : BOOLEAN]
  <2>1. [i \in Replies |-> crm.notes[i] + IF Carried(card) /\ i = card THEN 1 ELSE 0] \in [Replies -> Nat]
    BY DEF TypeOK
  <2> QED BY <2>1 DEF Created, TypeOK
<1>10. ASSUME NEW t \in Tasks, _new_deal(t) PROVE TypeOK'
  <2> DEFINE mine == [task[t].mine EXCEPT !.deal = crm.deals + 1,
                        !.noted = IF Carried(task[t].card) THEN task[t].card ELSE @]
  <2>1. mine \in Row
    <3>0. crm.deals + 1 \in Nat
      BY DEF TypeOK
    <3>1. PICK r \in Row : r = [task[t].mine EXCEPT !.deal = crm.deals + 1]
      BY <3>0, <1>k DEF Row
    <3>2. mine = [r EXCEPT !.noted = IF Carried(task[t].card) THEN task[t].card ELSE @]
      BY <3>1
    <3> QED BY <3>2, <1>k DEF Row
  <2>2. task' \in [Tasks -> Task]
    <3> HIDE DEF mine
    <3>1. Goes(t, "made", mine)
      BY <1>10 DEF _new_deal, mine
    <3> QED BY <3>1, <2>1, GoesTask DEF TypeOK, At
  <2> QED BY <1>10, <1>c, <1>k, <2>2 DEF _new_deal, TypeOK
<1>11. ASSUME NEW t \in Tasks, LoseDeal(t) PROVE TypeOK'
  <2>1. PICK state \in {"retry", "unconfirmed"} :
          Goes(t, "message", [task[t].mine EXCEPT !.kommo = state])
    BY <1>11 DEF LoseDeal, _after_lost_answer
  <2>2. [task[t].mine EXCEPT !.kommo = state] \in Row
    BY <1>k DEF Row
  <2>3. task' \in [Tasks -> Task]
    BY <2>1, <2>2, GoesTask DEF TypeOK, At
  <2>4. crm' \in [deals : Nat, notes : [Replies -> Nat], known : BOOLEAN]
    BY <1>11, <1>c, <1>k DEF LoseDeal, TypeOK
  <2> QED BY <1>11, <1>f, <2>3, <2>4 DEF LoseDeal, TypeOK
<1>12. ASSUME NEW t \in Tasks, CommitDeal(t) PROVE TypeOK'
  <2>1. row' \in Row
    BY <1>12, <1>k, FlushedType DEF CommitDeal, TypeOK
  <2>2. task' \in [Tasks -> Task]
    <3>1. PICK u : u = [task[t] EXCEPT !.at = "note", !.base = task[t].mine]
      OBVIOUS
    <3>2. u \in Task
      BY <1>k, <3>1 DEF Task
    <3>3. task' = [task EXCEPT ![t] = u]
      BY <1>12, <3>1 DEF CommitDeal
    <3> QED BY <3>2, <3>3 DEF TypeOK
  <2>3. UNCHANGED <<client, latest, asked, made, claim, jobs, crm, faults, history>>
    BY <1>12 DEF CommitDeal
  <2> QED BY <2>1, <2>2, <2>3 DEF TypeOK, history
<1>13. ASSUME NEW t \in Tasks, NothingToNote(t) PROVE TypeOK'
  <2> DEFINE mine == [task[t].mine EXCEPT !.kommo = "done",
                        !.noted = IF task[t].card = NoReply THEN @ ELSE task[t].card]
  <2>1. mine \in Row
    BY <1>k DEF Row
  <2>2. Goes(t, "message", mine)
    BY <1>13 DEF NothingToNote
  <2>3. task' \in [Tasks -> Task]
    <3> HIDE DEF mine
    <3> QED BY <2>1, <2>2, GoesTask DEF TypeOK, At
  <2> QED BY <1>13, <2>3 DEF NothingToNote, TypeOK
<1>14. ASSUME NEW t \in Tasks, _note(t) PROVE TypeOK'
  <2> DEFINE mine == [task[t].mine EXCEPT !.kommo = "done", !.noted = task[t].card]
             written == [crm EXCEPT !.notes[task[t].card] = @ + 1]
  <2>1. mine \in Row
    BY <1>k DEF Row
  <2>2. Goes(t, "message", mine)
    BY <1>14 DEF _note
  <2>3. task' \in [Tasks -> Task]
    <3> HIDE DEF mine
    <3> QED BY <2>1, <2>2, GoesTask DEF TypeOK, At
  <2>4. crm' \in {crm, written} /\ (UNCHANGED faults \/ Fault)
    BY <1>14 DEF _note
  <2>5. written \in [deals : Nat, notes : [Replies -> Nat], known : BOOLEAN]
    BY DEF TypeOK
  <2> HIDE DEF written
  <2>6. crm' \in [deals : Nat, notes : [Replies -> Nat], known : BOOLEAN]
    BY <2>4, <2>5 DEF TypeOK
  <2> QED BY <1>14, <1>f, <2>3, <2>4, <2>6 DEF _note, TypeOK
<1>15. ASSUME NEW t \in Tasks, NothingToSay(t) PROVE TypeOK'
  <2>1. task' \in [Tasks -> Task]
    BY <1>15, <1>k, GoesTask DEF NothingToSay, TypeOK, At
  <2> QED BY <1>15, <2>1 DEF NothingToSay, TypeOK
<1>h. ASSUME NEW t \in Tasks, Heard(task[t])
      PROVE  heard' \in [Replies \X {"dialog", "deal"} -> Nat]
  <2> DEFINE here == <<task[t].card, LinkOf(task[t])>>
             told == Replies \X {"dialog", "deal"}
  <2>1. heard \in [told -> Nat]
    BY DEF TypeOK
  <2>2. heard' = [heard EXCEPT ![here] = @ + 1]
    BY <1>h DEF Heard
  <2> HIDE DEF here, told
  <2>3. heard' = [h \in told |-> IF h = here THEN heard[h] + 1 ELSE heard[h]]
    BY <2>1, <2>2
  <2>4. heard' \in [told -> Nat]
    BY <2>1, <2>3
  <2> QED BY <2>4 DEF told
<1>16. ASSUME NEW t \in Tasks, _personal(t) PROVE TypeOK'
  <2>1. Told(task[t]) \in Row
    <3>1. PICK a \in Row : a = [task[t].mine EXCEPT !.telegram = "sent"]
      BY <1>k DEF Row
    <3>2. PICK b \in Row : b = [a EXCEPT !.link = LinkOf(task[t])]
      BY DEF Row, LinkOf
    <3>3. PICK c \in Row : c = [b EXCEPT !.told = task[t].card]
      BY <1>k DEF Row
    <3> QED BY <3>1, <3>2, <3>3, SettledType DEF Told
  <2>2. after_failure(Told(task[t]), FALSE, FALSE) \in Row
    BY <2>1, AfterFailureType
  <2>3. task' \in [Tasks -> Task]
    BY <1>16, <2>1, <2>2, GoesTask DEF _personal, TypeOK, At
  <2> QED BY <1>16, <1>f, <1>h, <1>k, <2>3 DEF _personal, TypeOK
<1>17. ASSUME NEW t \in Tasks, LosePersonal(t) PROVE TypeOK'
  <2> DEFINE r == IF task[t].mine.telegram = "undelivered" THEN task[t].mine
                  ELSE _settled(task[t].mine)
             after(p) == after_failure(r, p, Said(task[t].mine))
  <2>1. r \in Row
    BY <1>k, SettledType
  <2>2. PICK permanent \in BOOLEAN :
          /\ Goes(t, "last", [after(permanent) EXCEPT !.telegram = "undelivered"])
          /\ \/ UNCHANGED <<heard, spilt>>
             \/ Heard(task[t]) /\ spilt' = [spilt EXCEPT !.word = @ + 1]
    BY <1>17 DEF LosePersonal
  <2>3. after(permanent) \in Row
    BY <2>1, AfterFailureType DEF Said
  <2>4. [after(permanent) EXCEPT !.telegram = "undelivered"] \in Row
    <3> HIDE DEF after
    <3> QED BY <2>3 DEF Row
  <2>5. task' \in [Tasks -> Task]
    <3> HIDE DEF after
    <3> QED BY <2>2, <2>4, GoesTask DEF TypeOK, At
  <2>6. /\ heard' \in [Replies \X {"dialog", "deal"} -> Nat]
        /\ spilt' \in [deal : Nat, note : Nat, word : Nat, half : Nat]
    BY <2>2, <1>h DEF TypeOK
  <2> QED BY <1>17, <1>f, <1>k, <2>5, <2>6 DEF LosePersonal, TypeOK
<1>18. ASSUME NEW t \in Tasks, _group_copy(t) PROVE TypeOK'
  <2>1. /\ _settled(task[t].mine) \in Row
        /\ after_failure(task[t].mine, FALSE, FALSE) \in Row
    BY <1>k, SettledType, AfterFailureType
  <2>2. task' \in [Tasks -> Task]
    BY <1>18, <2>1, GoesTask DEF _group_copy, TypeOK, At
  <2> QED BY <1>18, <1>f, <2>2 DEF _group_copy, TypeOK
<1>i. Idle \in Task
  BY <1>a, HandoffAssumption DEF Idle, Task, NewRow, Row, Kinds, Due, NoReply, NoDeal
<1>19. ASSUME NEW t \in Tasks, NEW left \in Row, Commit(t, left),
              task[t].at \in {"last", "closing"}
       PROVE  TypeOK'
  <2>1. Flushed(task[t]) \in Row
    BY <1>k, FlushedType DEF TypeOK
  <2>2. DOMAIN row = {"kommo", "telegram", "deal", "noted", "told", "link", "due", "telegram_due", "tries"}
    BY DEF TypeOK, Row
  <2>3. row' \in Row
    BY <1>19, <2>1, <2>2 DEF Commit, Row, TypeOK
  <2>4. task' \in [Tasks -> Task]
    BY <1>19, <1>i DEF Commit, TypeOK
  <2> QED BY <1>19, <2>3, <2>4 DEF Commit, TypeOK
<1>20. ASSUME NEW t \in Tasks, Finish(t) \/ Look(t) \/ Close(t) PROVE TypeOK'
  <2>1. Left(task[t]) \in Row
    BY <1>k, LeftType
  <2>2. CASE Look(t)
    <3>1. task' \in [Tasks -> Task]
      BY <2>1, <2>2, GoesTask DEF Look, TypeOK, At
    <3> QED BY <2>2, <3>1 DEF Look, TypeOK
  <2>3. CASE Finish(t) \/ Close(t)
    <3>1. PICK left \in Row : Commit(t, left) /\ task[t].at \in {"last", "closing"}
      BY <2>1, <2>3, <1>k DEF Finish, Close
    <3> QED BY <3>1, <1>19
  <2> QED BY <1>20, <2>2, <2>3
<1>j. ASSUME NEW t \in Tasks, Spill(task[t])
      PROVE  spilt' \in [deal : Nat, note : Nat, word : Nat, half : Nat]
  BY <1>j, SpillType DEF TypeOK
<1>21. ASSUME NEW t \in Tasks, _release_after_failure(t) PROVE TypeOK'
  <2>1. row' \in Row
    BY <1>21, <1>k, FlushedType DEF _release_after_failure, TypeOK
  <2>2. task' \in [Tasks -> Task]
    BY <1>21, <1>i DEF _release_after_failure, TypeOK
  <2>3. spilt' \in [deal : Nat, note : Nat, word : Nat, half : Nat]
    BY <1>21, <1>j DEF _release_after_failure, TypeOK
  <2>4. jobs' \subseteq Kinds
    BY <1>21, <1>k DEF _release_after_failure, TypeOK
  <2> QED BY <1>21, <1>f, <2>1, <2>2, <2>3, <2>4 DEF _release_after_failure, TypeOK
<1>22. ASSUME NEW t \in Tasks, Die(t) PROVE TypeOK'
  <2>1. task' \in [Tasks -> Task]
    BY <1>22, <1>i DEF Die, TypeOK
  <2>2. spilt' \in [deal : Nat, note : Nat, word : Nat, half : Nat]
    BY <1>22, <1>j DEF Die
  <2>3. jobs' \subseteq Kinds
    BY <1>22, <1>k DEF Die, TypeOK
  <2> QED BY <1>22, <1>f, <2>1, <2>2, <2>3 DEF Die, TypeOK
<1>23. CASE retry
  <2>1. row' \in Row
    BY <1>23 DEF retry, Row, TypeOK, Due
  <2>2. jobs' \subseteq Kinds /\ faults' \in 0..MaxFaults
    BY <1>23, <1>f DEF retry, Enqueued, TypeOK, Kinds
  <2> QED BY <1>23, <2>1, <2>2 DEF retry, TypeOK
<1>24. ASSUME NEW deal \in 0..MaxFaults + 1, close(deal) PROVE TypeOK'
  <2>1. PICK a \in Row : a = [row EXCEPT !.kommo = "done"]
    BY DEF Row, TypeOK
  <2>2. PICK b \in Row : b = [a EXCEPT !.noted = latest]
    BY <1>k DEF Row
  <2>3. PICK c \in Row : c = [b EXCEPT !.deal = IF deal = NoDeal THEN @ ELSE deal]
    <3>1. deal \in Nat /\ b.deal \in Nat
      BY <1>a DEF Row
    <3>2. [b EXCEPT !.deal = deal] \in Row /\ [b EXCEPT !.deal = b.deal] \in Row
      BY <3>1 DEF Row
    <3> QED BY <3>2
  <2>4. [c EXCEPT !.telegram_due = "now", !.tries = 0] \in Row
    <3>1. 0 \in 0..Tries - 1
      BY HandoffAssumption
    <3> QED BY <3>1 DEF Row, Due
  <2>5. row' \in {c, [c EXCEPT !.telegram_due = "now", !.tries = 0]}
    BY <1>24, <2>1, <2>2, <2>3 DEF close
  <2>6. row' \in Row
    BY <2>4, <2>5
  <2> QED BY <1>24, <1>k, <2>6 DEF close, TypeOK
<1>25. CASE UNCHANGED vars
  BY <1>25 DEF TypeOK
<1> QED
  BY <1>1, <1>2, <1>3, <1>4, <1>5, <1>6, <1>7, <1>8, <1>9, <1>10, <1>11, <1>12, <1>13, <1>14,
     <1>15, <1>16, <1>17, <1>18, <1>20, <1>21, <1>22, <1>23, <1>24, <1>25
     DEF Next, Pass, People, Step, Kinds

LEMMA TypeInit ==
    ASSUME Init
    PROVE  TypeOK
<1>1. NewRow \in Row
  BY HandoffAssumption DEF NewRow, Row, Due, NoDeal, NoReply
<1>2. Idle \in Task
  BY <1>1, HandoffAssumption DEF Idle, Task, Kinds, NoReply
<1>3. /\ 0 \in 0..MaxReplies /\ 1 \in 0..MaxReplies /\ 0 \in 0..1 /\ 0 \in 0..MaxFaults
  BY HandoffAssumption
<1>4. crm \in [deals : Nat, notes : [Replies -> Nat], known : BOOLEAN]
  BY DEF Init
<1>5. heard \in [Replies \X {"dialog", "deal"} -> Nat]
  BY DEF Init
<1>6. task \in [Tasks -> Task] /\ row \in Row
  BY <1>1, <1>2 DEF Init
<1> QED BY <1>3, <1>4, <1>5, <1>6 DEF Init, TypeOK, NoReply

\* The types hold (whole handlers: start, _take, process, handoff_console).
THEOREM TypeCorrect == Spec => []TypeOK
<1>1. TypeOK /\ [Next]_vars => TypeOK'
  BY TypeStep
<1> QED BY <1>1, TypeInit, PTL DEF Spec

-----------------------------------------------------------------------------
(* Once, and closed for good.                                              *)

Works(t) == task[t].at # "idle"

\* The claim admits one job.
Sole ==
    /\ \A t \in Tasks : Works(t) => claim = "held"
    /\ \A t, u \in Tasks : Works(t) /\ Works(u) => t = u

\* The row has what the job read or wrote last; only a start and time change it
\* meanwhile.  Where the job stands says what its copy holds.
Follows(t) ==
    LET s == task[t]
    IN /\ row.deal = s.base.deal /\ row.noted = s.base.noted
       /\ row.told = s.base.told /\ row.link = s.base.link
       /\ (row.kommo = "unconfirmed") <=> (s.base.kommo = "unconfirmed")
       /\ s.at # "made" => s.mine.deal = s.base.deal
       /\ client = "gateway" /\ s.mine.deal = NoDeal => s.mine.noted = s.base.noted
       /\ s.at \in {"deal", "made", "note"} => s.mine.kommo \in WORK
       /\ s.at = "deal" => s.mine.deal = NoDeal /\ (client = "gateway" => s.mine.noted < s.card)
       /\ s.at \in {"made", "note"} => s.mine.deal # NoDeal
       /\ s.at # "claimed" => /\ s.card \in 1..latest
                              /\ s.mine.noted <= s.card /\ s.mine.told <= s.card

\* A row with the number of a deal, or in doubt about one, accounts for one deal.
Known(r) == IF r.deal # NoDeal \/ r.kommo = "unconfirmed" THEN 1 ELSE 0
Lost == spilt.note + spilt.deal

\* A row, or a copy, is never ahead of the letters and of Kommo; behind the gateway a
\* deal still to be made has a letter to carry.
Sound(r) ==
    /\ r.deal <= crm.deals /\ r.noted <= latest /\ r.told <= latest
    /\ client = "gateway" /\ r.deal = NoDeal /\ r.kommo # "done" => r.noted < latest
    /\ r.link = "none" => r.told = NoReply
    /\ r.link = "deal" => r.deal # NoDeal /\ client # "off"

DealsKnown(r) == crm.deals <= spilt.deal + Known(r)

\* Of letters after the noted one there are only the notes nobody wrote down.
NotesKnown(r) ==
    r.deal # NoDeal \/ r.kommo # "unconfirmed" =>
        \A i \in Replies : i > r.noted => crm.notes[i] <= Lost

\* The same of messages: of later letters, and of this one with the link to the deal.
WordsKnown(r) ==
    \A h \in DOMAIN heard :
        (h[1] > r.told \/ (h[1] = r.told /\ h[2] = "deal" /\ r.link # "deal"))
            => heard[h] <= spilt.word

Accounts(r) == Sound(r) /\ DealsKnown(r) /\ NotesKnown(r) /\ WordsKnown(r)

Sums ==
    /\ NotedOnce /\ ToldOnce
    /\ \A i \in Replies : i > latest \/ crm.deals = 0 => crm.notes[i] = 0

OnceInv ==
    /\ Sole /\ Sums /\ latest >= 1 /\ Sound(row)
    /\ (\A t \in Tasks : ~Works(t)) => Accounts(row)
    /\ \A t \in Tasks : Works(t) => Accounts(task[t].mine) /\ Follows(t)

\* Once closed, every copy was read closed, and none goes on to Kommo.
ClosedInv ==
    /\ closed <= latest
    /\ closed = latest =>
         /\ row.kommo = "done" /\ row.noted = latest
         /\ \A t \in Tasks : Works(t) =>
              /\ task[t].mine.kommo = "done" /\ task[t].mine.noted = latest
              /\ task[t].base.kommo = "done" /\ task[t].base.noted = latest
              /\ task[t].at \notin {"deal", "made", "note"}

-----------------------------------------------------------------------------
(* Steps of a job, and what they keep.                                      *)

LEMMA GoesFacts ==
    ASSUME TypeOK, NEW t \in Tasks, NEW at \in At, NEW mine \in Row, Goes(t, at, mine)
    PROVE  /\ task'[t].at = at /\ task'[t].mine = mine /\ task'[t].base = task[t].base
           /\ task'[t].card = task[t].card
           /\ \A u \in Tasks \ {t} : task'[u] = task[u]
BY GoesTask DEF TypeOK

\* A job goes on with a copy that accounts for what it did.
LEMMA Owner ==
    ASSUME TypeOK, OnceInv, NEW t \in Tasks, Works(t),
           NEW at \in At, NEW mine \in Row, at \notin {"idle", "claimed"}, Goes(t, at, mine),
           UNCHANGED <<row, claim, latest, client>>,
           Accounts(mine)', Sums',
           at # "made" => mine.deal = task[t].base.deal,
           client = "gateway" /\ mine.deal = NoDeal => mine.noted = task[t].base.noted,
           crm'.deals \in Nat, crm.deals \in Nat, crm'.deals >= crm.deals,
           at \in {"deal", "made", "note"} => mine.kommo \in WORK,
           at = "deal" => mine.deal = NoDeal /\ (client = "gateway" => mine.noted < task[t].card),
           at \in {"made", "note"} => mine.deal # NoDeal,
           task[t].card \in 1..latest /\ mine.noted <= task[t].card /\ mine.told <= task[t].card
    PROVE  OnceInv'
<1>1. /\ task'[t].at = at /\ task'[t].mine = mine /\ task'[t].base = task[t].base
      /\ task'[t].card = task[t].card
      /\ \A u \in Tasks \ {t} : task'[u] = task[u]
  BY GoesFacts
<1>2. Follows(t) /\ \A u \in Tasks \ {t} : ~Works(u)
  BY DEF OnceInv, Sole
<1>3. Works(t)' /\ \A u \in Tasks \ {t} : ~Works(u)'
  BY <1>1, <1>2 DEF Works
<1>4. Sole'
  BY <1>3 DEF OnceInv, Sole
<1>5. Follows(t)'
  BY <1>1, <1>2 DEF Follows
<1>6. Accounts(task[t].mine)'
  BY <1>1
<1>7. (latest >= 1)'
  BY DEF OnceInv
<1>8. Sound(row)'
  BY DEF OnceInv, Sound, TypeOK, Row
<1> QED BY <1>3, <1>4, <1>5, <1>6, <1>7, <1>8 DEF OnceInv

\* The job ends and leaves the accounts to the row.
LEMMA Ender ==
    ASSUME TypeOK, OnceInv, NEW t \in Tasks, Works(t), NEW r \in Row,
           task' = [task EXCEPT ![t] = Idle], row' = r, latest' = latest, Accounts(r)', Sums'
    PROVE  OnceInv'
<1>1. \A u \in Tasks : ~Works(u)'
  BY DEF Works, Idle, OnceInv, Sole, TypeOK
<1>2. Accounts(row)'
  OBVIOUS
<1>3. Sound(row)'
  BY <1>2 DEF Accounts
<1> QED BY <1>1, <1>2, <1>3 DEF OnceInv, Sole

\* Rows that account for the same.
Same(q, r) ==
    /\ q.deal = r.deal /\ q.noted = r.noted /\ q.told = r.told /\ q.link = r.link
    /\ (q.kommo = "unconfirmed") <=> (r.kommo = "unconfirmed")
    /\ q.kommo = "done" \/ r.kommo # "done" \/ q.noted < latest

Still == UNCHANGED <<crm, spilt, heard, latest, client>>

LEMMA SameAccounts ==
    ASSUME NEW q \in Row, NEW r \in Row, Same(q, r), Accounts(r)
    PROVE  Accounts(q)
<1>1. DealsKnown(q)
  BY DEF Accounts, DealsKnown, Known, Same
<1>2. NotesKnown(q)
  BY DEF Accounts, NotesKnown, Same
<1>3. WordsKnown(q)
  BY DEF Accounts, WordsKnown, Same
<1>4. Sound(q)
  BY DEF Accounts, Sound, Same
<1> QED BY <1>1, <1>2, <1>3, <1>4 DEF Accounts

LEMMA StillAccounts ==
    ASSUME NEW r \in Row, Accounts(r), Still
    PROVE  Accounts(r)'
BY DEF Accounts, Sound, DealsKnown, Known, NotesKnown, Lost, WordsKnown, Still

LEMMA StillSums ==
    ASSUME Sums, Still
    PROVE  Sums'
BY DEF Sums, NotedOnce, ToldOnce, Still

\* The steps of a job that leave what is known of deals, notes and messages.
LEMMA QuietOwner ==
    ASSUME TypeOK, OnceInv, NEW t \in Tasks, Works(t),
           NEW at \in At, NEW mine \in Row, at \notin {"idle", "claimed", "made", "deal", "note"},
           Goes(t, at, mine), UNCHANGED <<row, claim>>, Still,
           task[t].at \notin {"idle", "claimed", "made"}, Same(mine, task[t].mine)
    PROVE  OnceInv'
<1>1. Accounts(task[t].mine) /\ Follows(t)
  BY DEF OnceInv
<1>2. PICK r \in Row : r = task[t].mine
  BY DEF TypeOK, Task
<1>3. Accounts(mine)'
  BY <1>1, <1>2, SameAccounts, StillAccounts
<1>4. Sums'
  BY StillSums DEF OnceInv
<1>5. /\ mine.deal = task[t].base.deal
      /\ task[t].card \in 1..latest /\ mine.noted <= task[t].card /\ mine.told <= task[t].card
  BY <1>1, <1>2 DEF Follows, Same
<1>6. client = "gateway" /\ mine.deal = NoDeal => mine.noted = task[t].base.noted
  BY <1>1 DEF Follows, Same
<1>7. crm'.deals \in Nat /\ crm.deals \in Nat /\ crm'.deals >= crm.deals
  BY DEF TypeOK, Still
<1> QED BY <1>3, <1>4, <1>5, <1>6, <1>7, Owner DEF Still

LEMMA ReopenedFacts ==
    ASSUME NEW r \in Row, NEW reply
    PROVE  LET q == Reopened(r, reply)
           IN /\ q.deal = r.deal /\ q.noted = r.noted /\ q.told = r.told /\ q.link = r.link
              /\ q.kommo = IF fresh(r, reply) /\ r.kommo \in REOPENED_BY_ANSWER THEN "pending"
                           ELSE r.kommo
<1>1. PICK a \in Row : a = [r EXCEPT !.kommo = IF fresh(r, reply) /\ @ \in REOPENED_BY_ANSWER
                                               THEN "pending" ELSE @]
  BY DEF Row
<1>2. PICK b \in Row : b = [a EXCEPT !.telegram = IF news(r, reply) /\ @ = "sent"
                                                  THEN "pending" ELSE @]
  BY DEF Row
<1>3. b = Reopened(r, reply)
  BY <1>1, <1>2 DEF Reopened
<1>4. /\ a.deal = r.deal /\ a.noted = r.noted /\ a.told = r.told /\ a.link = r.link
      /\ a.kommo = IF fresh(r, reply) /\ r.kommo \in REOPENED_BY_ANSWER THEN "pending"
                   ELSE r.kommo
  BY <1>1 DEF Row
<1>5. /\ b.deal = a.deal /\ b.noted = a.noted /\ b.told = a.told /\ b.link = a.link
      /\ b.kommo = a.kommo
  BY <1>2 DEF Row
<1> QED BY <1>3, <1>4, <1>5

LEMMA ReopenedSame ==
    ASSUME TypeOK, NEW r \in Row, r.noted <= latest
    PROVE  Same(Reopened(r, latest), r)
<1>1. r.noted \in Nat /\ latest \in Nat
  BY HandoffAssumption DEF Row, TypeOK
<1> QED BY <1>1, ReopenedFacts DEF Same, REOPENED_BY_ANSWER, fresh

LEMMA SettledFacts ==
    ASSUME NEW r \in Row
    PROVE  LET q == _settled(r)
           IN /\ q.deal = r.deal /\ q.noted = r.noted /\ q.told = r.told /\ q.link = r.link
              /\ q.kommo = r.kommo
BY DEF _settled, Row

LEMMA AfterFailureFacts ==
    ASSUME NEW r \in Row, NEW permanent \in BOOLEAN, NEW told \in BOOLEAN
    PROVE  LET q == after_failure(r, permanent, told)
           IN /\ q.deal = r.deal /\ q.noted = r.noted /\ q.told = r.told /\ q.link = r.link
              /\ q.kommo = r.kommo
<1>1. CASE permanent \/ told \/ r.tries + 1 >= Tries
  BY <1>1, SettledFacts DEF after_failure
<1>2. CASE ~(permanent \/ told \/ r.tries + 1 >= Tries)
  BY <1>2 DEF after_failure, Row
<1> QED BY <1>1, <1>2

LEMMA LeftFacts ==
    ASSUME TypeOK, NEW s \in Task, s.mine.noted <= latest
    PROVE  /\ Left(s) \in Row /\ Same(Left(s), s.mine)
           /\ Left(s).kommo # s.mine.kommo =>
                /\ s.mine.kommo \in REOPENED_BY_ANSWER /\ s.mine.noted # latest
                /\ Left(s).kommo = "pending"
<1>1. s.mine \in Row
  BY DEF Task
<1>2. PICK r \in Row : r = IF latest # s.card THEN Reopened(s.mine, latest) ELSE s.mine
  BY <1>1, ReopenedType
<1>3. Same(s.mine, s.mine)
  BY DEF Same
<1>4. Same(r, s.mine)
  BY <1>1, <1>2, <1>3, ReopenedSame
<1>5. /\ Left(s).deal = r.deal /\ Left(s).noted = r.noted /\ Left(s).told = r.told
      /\ Left(s).link = r.link /\ Left(s).kommo = r.kommo
  <2>1. Left(s) = [r EXCEPT !.due = _due_after(r, _answered_meanwhile(s))]
    BY <1>2 DEF Left
  <2> QED BY <2>1 DEF Row
<1>6. Same(Left(s), s.mine)
  BY <1>4, <1>5 DEF Same
<1>7. r.kommo # s.mine.kommo =>
        s.mine.kommo \in REOPENED_BY_ANSWER /\ s.mine.noted # latest /\ r.kommo = "pending"
  BY <1>1, <1>2, ReopenedFacts DEF fresh
<1> QED BY <1>5, <1>6, <1>7, LeftType

LEMMA QuietSteps ==
    ASSUME TypeOK, OnceInv, NEW t \in Tasks,
           Refusal(t) \/ NothingToSay(t) \/ _group_copy(t) \/ Look(t)
    PROVE  OnceInv'
<1>1. /\ task[t].mine \in Row /\ task[t].base \in Row /\ task[t].card \in 0..MaxReplies
  BY DEF TypeOK, Task
<1>2. CASE Refusal(t)
  <2>1. PICK state \in {"retry", "failed"} :
          Goes(t, "message", [task[t].mine EXCEPT !.kommo = state])
    BY <1>2 DEF Refusal
  <2>2. PICK mine \in Row : mine = [task[t].mine EXCEPT !.kommo = state]
    BY <1>1 DEF Row
  <2>3. /\ Works(t) /\ task[t].at \in {"deal", "note"}
    BY <1>2 DEF Refusal, Works
  <2>4. task[t].mine.kommo \in WORK
    BY <2>3 DEF OnceInv, Follows
  <2>5. Same(mine, task[t].mine)
    BY <2>2, <2>4, <1>1 DEF Same, WORK, Row
  <2> QED BY <1>2, <2>1, <2>2, <2>3, <2>5, QuietOwner DEF Refusal, Still, At, history
<1>3. CASE NothingToSay(t)
  <2>1. Same(task[t].mine, task[t].mine)
    BY DEF Same
  <2> QED BY <1>1, <1>3, <2>1, QuietOwner DEF NothingToSay, Still, At, Works, history
<1>4. CASE _group_copy(t)
  <2>1. PICK mine \in Row :
          /\ mine \in {_settled(task[t].mine), after_failure(task[t].mine, FALSE, FALSE)}
          /\ Goes(t, "last", mine)
    BY <1>1, <1>4, SettledType, AfterFailureType DEF _group_copy
  <2>2. Same(mine, task[t].mine)
    <3>1. CASE mine = _settled(task[t].mine)
      BY <3>1, <1>1, SettledFacts DEF Same
    <3>2. CASE mine = after_failure(task[t].mine, FALSE, FALSE)
      BY <3>2, <1>1, AfterFailureFacts DEF Same
    <3> QED BY <2>1, <3>1, <3>2
  <2> QED BY <1>4, <2>1, <2>2, QuietOwner DEF _group_copy, Still, At, Works, history
<1>5. CASE Look(t)
  <2>1. Works(t)
    BY <1>5 DEF Look, Works
  <2>2. task[t].mine.noted <= latest
    BY <2>1 DEF OnceInv, Accounts, Sound
  <2>3. Left(task[t]) \in Row /\ Same(Left(task[t]), task[t].mine)
    BY <2>2, LeftFacts DEF TypeOK
  <2> QED BY <1>5, <2>1, <2>3, QuietOwner DEF Look, Still, At, Works, history
<1> QED BY <1>2, <1>3, <1>4, <1>5

LEMMA ClaimStep ==
    ASSUME TypeOK, OnceInv, NEW t \in Tasks, NEW kind \in Kinds, _claim(t, kind)
    PROVE  OnceInv'
<1>1. \A u \in Tasks : ~Works(u)
  BY DEF OnceInv, Sole, _claim
<1>2. /\ task'[t].at = "claimed" /\ task'[t].mine = row /\ task'[t].base = row
      /\ \A u \in Tasks \ {t} : task'[u] = task[u]
  BY DEF _claim, TypeOK
<1>3. Works(t)' /\ \A u \in Tasks \ {t} : ~Works(u)'
  BY <1>1, <1>2 DEF Works
<1>4. Sole'
  BY <1>3 DEF Sole, _claim
<1>5. Still /\ row' = row
  BY DEF _claim, Still, history
<1>6. PICK r \in Row : r = row
  BY DEF TypeOK
<1>7. Accounts(r)'
  BY <1>1, <1>5, <1>6, StillAccounts DEF OnceInv
<1>8. Accounts(task[t].mine)'
  BY <1>2, <1>6, <1>7
<1>9. Follows(t)'
  BY <1>2, <1>5 DEF Follows
<1>10. Sums'
  BY <1>5, StillSums DEF OnceInv
<1>11. Sound(row)'
  BY <1>5, <1>6, <1>7 DEF Accounts
<1> QED BY <1>3, <1>4, <1>5, <1>8, <1>9, <1>10, <1>11 DEF OnceInv, Still

LEMMA CardStep ==
    ASSUME TypeOK, OnceInv, NEW t \in Tasks, card_of(t)
    PROVE  OnceInv'
<1>1. /\ Works(t) /\ Follows(t) /\ Accounts(task[t].mine) /\ task[t].at = "claimed"
      /\ \A u \in Tasks \ {t} : ~Works(u)
  BY DEF OnceInv, Sole, card_of, Works
<1>2. /\ task[t] \in Task /\ task[t].mine \in Row
      /\ latest \in 1..MaxReplies /\ latest \in 0..MaxReplies
  BY HandoffAssumption DEF TypeOK, Task, OnceInv
<1>3. PICK mine \in Row : mine = IF task[t].kind = "whole" THEN Reopened(task[t].mine, latest)
                                 ELSE task[t].mine
  BY <1>2, ReopenedType
<1>4. PICK at \in At :
        at = IF task[t].kind = "message" \/ mine.kommo \notin WORK THEN "message"
             ELSE IF mine.deal = NoDeal THEN "deal" ELSE "note"
  BY DEF At
<1>5. task' = [task EXCEPT ![t].at = at, ![t].mine = mine, ![t].card = latest]
  BY <1>3, <1>4 DEF card_of
<1>6. /\ task'[t].at = at /\ task'[t].mine = mine /\ task'[t].base = task[t].base
      /\ task'[t].card = latest
      /\ \A u \in Tasks \ {t} : task'[u] = task[u]
  <2>1. PICK a \in Task : a = [task[t] EXCEPT !.at = at]
    BY <1>2 DEF Task, At
  <2>2. PICK b \in Task : b = [a EXCEPT !.mine = mine]
    BY DEF Task
  <2>3. PICK c \in Task : c = [b EXCEPT !.card = latest]
    BY <1>2 DEF Task
  <2>4. task' = [task EXCEPT ![t] = c]
    BY <1>5, <2>1, <2>2, <2>3
  <2>5. c.at = at /\ c.mine = mine /\ c.base = task[t].base /\ c.card = latest
    BY <1>2, <2>1, <2>2, <2>3 DEF Task
  <2> QED BY <2>4, <2>5 DEF TypeOK
<1>7. Works(t)' /\ \A u \in Tasks \ {t} : ~Works(u)'
  BY <1>1, <1>4, <1>6 DEF Works
<1>8. Sole'
  BY <1>1, <1>7 DEF Sole, card_of, OnceInv
<1>9. Still /\ row' = row
  BY DEF card_of, Still, history
<1>10. PICK r \in Row : r = task[t].mine
  BY <1>2
<1>11. Same(mine, r)
  <2>1. r.noted <= latest
    BY <1>1, <1>10 DEF Accounts, Sound
  <2> QED BY <1>3, <1>10, <2>1, ReopenedSame DEF Same
<1>12. Accounts(mine)
  BY <1>1, <1>10, <1>11, SameAccounts
<1>13. Accounts(task[t].mine)'
  BY <1>6, <1>9, <1>12, StillAccounts
<1>14. Follows(t)'
  <2>1. mine.noted <= latest /\ mine.told <= latest /\ mine.deal = task[t].base.deal
    BY <1>1, <1>10, <1>11, <1>12 DEF Accounts, Sound, Follows, Same
  <2>2. at = "deal" => mine.deal = NoDeal /\ (client = "gateway" => mine.noted < latest)
    BY <1>4, <1>12 DEF Accounts, Sound, WORK
  <2>3. client = "gateway" /\ mine.deal = NoDeal => mine.noted = task[t].base.noted
    BY <1>1, <1>10, <1>11 DEF Follows, Same
  <2> QED BY <1>1, <1>2, <1>4, <1>6, <1>9, <2>1, <2>2, <2>3 DEF Follows, Still
<1>15. Sums'
  BY <1>9, StillSums DEF OnceInv
<1>16. Sound(row)'
  BY <1>9 DEF OnceInv, Sound, Still
<1> QED BY <1>7, <1>8, <1>9, <1>13, <1>14, <1>15, <1>16 DEF OnceInv, Still

\* What is known of a job at work.
LEMMA AtWork ==
    ASSUME TypeOK, OnceInv, NEW t \in Tasks, Works(t), task[t].at # "claimed"
    PROVE  /\ Accounts(task[t].mine) /\ Follows(t) /\ Sums
           /\ task[t].mine \in Row /\ task[t].base \in Row
           /\ task[t].card \in 1..latest /\ latest \in 1..MaxReplies /\ task[t].card \in 1..MaxReplies
           /\ crm.deals \in Nat /\ crm.notes \in [Replies -> Nat]
           /\ spilt.deal \in Nat /\ spilt.note \in Nat /\ spilt.word \in Nat
BY HandoffAssumption DEF TypeOK, Task, OnceInv, Follows

LEMMA OffStep ==
    ASSUME TypeOK, OnceInv, NEW t \in Tasks, Off(t) \/ NothingToNote(t)
    PROVE  OnceInv'
<1>1. Works(t) /\ task[t].at \in {"deal", "note"}
  BY DEF Works, Off, NothingToNote
<1>2. /\ Accounts(task[t].mine) /\ Follows(t) /\ task[t].mine \in Row
      /\ task[t].card \in 1..latest /\ latest \in Nat /\ task[t].card \in 0..MaxReplies
  BY <1>1, AtWork DEF TypeOK, Task
<1>c. PICK kommo \in {"off", "done"} : kommo = IF Off(t) THEN "off" ELSE "done"
  OBVIOUS
<1>3. PICK mine \in Row :
        /\ mine = [task[t].mine EXCEPT !.kommo = kommo, !.noted = task[t].card]
        /\ mine.kommo = kommo /\ mine.noted = task[t].card
        /\ mine.deal = task[t].mine.deal /\ mine.told = task[t].mine.told
        /\ mine.link = task[t].mine.link
  <2>1. PICK a \in Row : a = [task[t].mine EXCEPT !.kommo = kommo]
    BY <1>2, <1>c DEF Row
  <2>2. PICK b \in Row : b = [a EXCEPT !.noted = task[t].card]
    BY <1>2 DEF Row
  <2>3. /\ b.kommo = kommo /\ b.noted = task[t].card
        /\ b.deal = task[t].mine.deal /\ b.told = task[t].mine.told
        /\ b.link = task[t].mine.link
    BY <1>2, <2>1, <2>2 DEF Row
  <2>4. b = [task[t].mine EXCEPT !.kommo = kommo, !.noted = task[t].card]
    BY <2>1, <2>2
  <2> QED BY <2>3, <2>4
<1>4. Goes(t, "message", mine)
  <2>1. CASE Off(t)
    BY <2>1, <1>c, <1>3 DEF Off
  <2>2. CASE ~Off(t)
    <3>1. task[t].card # NoReply
      BY <1>2 DEF NoReply
    <3> QED BY <2>2, <3>1, <1>c, <1>3 DEF NothingToNote
  <2> QED BY <2>1, <2>2
<1>5. Still /\ UNCHANGED <<row, claim>>
  BY DEF Off, NothingToNote, Still, history
<1>6. Accounts(mine)
  <2>1. DealsKnown(mine)
    BY <1>1, <1>2, <1>3 DEF Accounts, DealsKnown, Known, Follows, WORK
  <2>2. NotesKnown(mine)
    <3>1. \A i \in Replies : i > task[t].mine.noted => crm.notes[i] <= Lost
      BY <1>1, <1>2 DEF Accounts, NotesKnown, Follows, WORK
    <3>2. \A i \in Replies : i > task[t].card => crm.notes[i] <= Lost
      BY <3>1, <1>1, <1>2 DEF Follows, Replies, Row
    <3> QED BY <1>3, <3>2 DEF NotesKnown
  <2>3. WordsKnown(mine)
    BY <1>2, <1>3 DEF Accounts, WordsKnown
  <2>4. Sound(mine)
    <3>1. client = "gateway" => mine.kommo = "done"
      BY <1>c, <1>3 DEF Off
    <3> QED BY <1>2, <1>3, <3>1 DEF Accounts, Sound
  <2> QED BY <2>1, <2>2, <2>3, <2>4 DEF Accounts
<1>7. Accounts(mine)' /\ Sums'
  BY <1>5, <1>6, StillAccounts, StillSums DEF OnceInv
<1>8. mine.deal = task[t].base.deal /\ mine.told <= task[t].card /\ mine.noted <= task[t].card
  BY <1>1, <1>2, <1>3 DEF Follows
<1>9. client = "gateway" => mine.deal # NoDeal
  BY <1>1, <1>2, <1>3 DEF Off, NothingToNote, Follows
<1>10. crm'.deals \in Nat /\ crm.deals \in Nat /\ crm'.deals >= crm.deals
  BY <1>5 DEF TypeOK, Still
<1> QED BY <1>1, <1>2, <1>4, <1>5, <1>7, <1>8, <1>9, <1>10, Owner DEF Still, At

\* What a new deal changes in Kommo, told or not.
LEMMA CreatedFacts ==
    ASSUME TypeOK, OnceInv, NEW t \in Tasks, task[t].at = "deal", crm' = Created(task[t].card),
           UNCHANGED <<spilt, heard, latest, client>>
    PROVE  /\ Works(t) /\ crm'.deals = crm.deals + 1 /\ crm.deals <= spilt.deal
           /\ task[t].mine.deal = NoDeal /\ task[t].mine.kommo \in WORK
           /\ Carried(task[t].card) => task[t].mine.noted < task[t].card
           /\ \A i \in Replies : i > task[t].mine.noted => crm.notes[i] <= Lost
           /\ \A i \in Replies : i > task[t].card => crm'.notes[i] = crm.notes[i]
           /\ \A i \in Replies : ~Carried(task[t].card) => crm'.notes[i] = crm.notes[i]
           /\ Sums'
<1>1. Works(t)
  BY DEF Works
<1>2. /\ Accounts(task[t].mine) /\ Follows(t) /\ Sums /\ task[t].mine \in Row
      /\ task[t].card \in 1..latest /\ latest \in Nat /\ task[t].card \in 0..MaxReplies
      /\ crm.deals \in Nat /\ crm.notes \in [Replies -> Nat]
      /\ spilt.deal \in Nat /\ spilt.note \in Nat
  BY <1>1, AtWork DEF TypeOK, Task
<1>7. /\ crm'.deals = crm.deals + 1
      /\ \A i \in Replies : crm'.notes[i] =
           IF Carried(task[t].card) /\ i = task[t].card THEN crm.notes[i] + 1 ELSE crm.notes[i]
  BY <1>2 DEF Created
<1>8. /\ task[t].mine.deal = NoDeal /\ task[t].mine.kommo \in WORK
      /\ Carried(task[t].card) => task[t].mine.noted < task[t].card
  BY <1>2 DEF Follows, Carried
<1>9. /\ crm.deals <= spilt.deal
      /\ \A i \in Replies : i > task[t].mine.noted => crm.notes[i] <= Lost
  BY <1>2, <1>8 DEF Accounts, DealsKnown, Known, NotesKnown, WORK
<1>10. NotedOnce'
  <2>1. \A i \in Replies : crm'.notes[i] <= 1 + Lost
    BY <1>2, <1>7, <1>8, <1>9 DEF Sums, NotedOnce, Lost
  <2>2. 1 + Lost = 1 + spilt.note + spilt.deal
    BY <1>2 DEF Lost
  <2> QED BY <2>1, <2>2 DEF NotedOnce
<1>11. \A i \in Replies : i > latest' \/ crm'.deals = 0 => crm'.notes[i] = 0
  BY <1>2, <1>7 DEF Sums
<1>12. ToldOnce'
  BY <1>2 DEF Sums, ToldOnce
<1>13. \A i \in Replies : i > task[t].card => crm'.notes[i] = crm.notes[i]
  BY <1>2, <1>7 DEF Replies
<1>14. Sums'
  BY <1>10, <1>11, <1>12 DEF Sums
<1> QED BY <1>1, <1>7, <1>8, <1>9, <1>13, <1>14

LEMMA NewDealStep ==
    ASSUME TypeOK, OnceInv, NEW t \in Tasks, _new_deal(t)
    PROVE  OnceInv'
<1>1. /\ crm' = Created(task[t].card) /\ task[t].at = "deal"
      /\ UNCHANGED <<row, claim, spilt, heard, latest, client>>
  BY DEF _new_deal, history
<1>2. /\ Works(t) /\ crm'.deals = crm.deals + 1 /\ crm.deals <= spilt.deal
      /\ task[t].mine.deal = NoDeal /\ task[t].mine.kommo \in WORK
      /\ Carried(task[t].card) => task[t].mine.noted < task[t].card
      /\ \A i \in Replies : i > task[t].mine.noted => crm.notes[i] <= Lost
      /\ \A i \in Replies : i > task[t].card => crm'.notes[i] = crm.notes[i]
      /\ \A i \in Replies : ~Carried(task[t].card) => crm'.notes[i] = crm.notes[i]
      /\ Sums'
  BY <1>1, CreatedFacts
<1>3. /\ Accounts(task[t].mine) /\ Follows(t) /\ task[t].mine \in Row
      /\ task[t].card \in 1..latest /\ latest \in Nat /\ task[t].card \in 0..MaxReplies
      /\ crm.deals \in Nat /\ spilt.deal \in Nat
      /\ task[t].mine.noted <= task[t].card /\ task[t].mine.told <= task[t].card
  BY <1>1, <1>2, AtWork DEF TypeOK, Task, Follows
<1>4. PICK noted \in 0..MaxReplies :
         noted = IF Carried(task[t].card) THEN task[t].card ELSE task[t].mine.noted
  BY <1>3 DEF Row
<1>5. PICK mine \in Row :
        /\ mine = [task[t].mine EXCEPT !.deal = crm.deals + 1, !.noted = noted]
        /\ mine.deal = crm.deals + 1 /\ mine.noted = noted
        /\ mine.kommo = task[t].mine.kommo /\ mine.told = task[t].mine.told
        /\ mine.link = task[t].mine.link
  <2>1. crm.deals + 1 \in Nat
    BY <1>3
  <2>2. PICK a \in Row : a = [task[t].mine EXCEPT !.deal = crm.deals + 1]
    BY <1>3, <2>1 DEF Row
  <2>3. PICK b \in Row : b = [a EXCEPT !.noted = noted]
    BY <1>4 DEF Row
  <2>4. /\ b.deal = crm.deals + 1 /\ b.noted = noted
        /\ b.kommo = task[t].mine.kommo /\ b.told = task[t].mine.told
        /\ b.link = task[t].mine.link
    BY <1>3, <2>2, <2>3 DEF Row
  <2>5. b = [task[t].mine EXCEPT !.deal = crm.deals + 1, !.noted = noted]
    BY <2>2, <2>3
  <2> QED BY <2>4, <2>5
<1>6. Goes(t, "made", mine)
  <2>1. mine = [task[t].mine EXCEPT !.deal = crm.deals + 1,
                   !.noted = IF Carried(task[t].card) THEN task[t].card ELSE @]
    BY <1>4, <1>5
  <2> QED BY <2>1 DEF _new_deal
<1>7. DealsKnown(mine)'
  BY <1>1, <1>2, <1>3, <1>5 DEF DealsKnown, Known, NoDeal
<1>8. NotesKnown(mine)'
  <2>1. Lost' = Lost
    BY <1>1 DEF Lost
  <2>2. ASSUME NEW i \in Replies, i > noted
        PROVE  crm'.notes[i] = crm.notes[i] /\ i > task[t].mine.noted
    BY <2>2, <1>2, <1>3, <1>4 DEF Replies, Row
  <2> QED BY <1>2, <1>5, <2>1, <2>2 DEF NotesKnown
<1>9. WordsKnown(mine)'
  BY <1>1, <1>3, <1>5 DEF Accounts, WordsKnown
<1>10. Sound(mine)'
  BY <1>1, <1>2, <1>3, <1>4, <1>5 DEF Accounts, Sound, NoDeal, Row
<1>11. mine.noted <= task[t].card
  BY <1>3, <1>4, <1>5
<1>12. mine.deal # NoDeal /\ crm'.deals \in Nat /\ crm'.deals >= crm.deals
  BY <1>2, <1>3, <1>5 DEF NoDeal
<1>13. Accounts(mine)' /\ mine.kommo \in WORK /\ mine.told <= task[t].card
  BY <1>2, <1>3, <1>5, <1>7, <1>8, <1>9, <1>10 DEF Accounts
<1> QED BY <1>1, <1>2, <1>3, <1>6, <1>11, <1>12, <1>13, Owner DEF At

LEMMA LoseDealStep ==
    ASSUME TypeOK, OnceInv, NEW t \in Tasks, LoseDeal(t)
    PROVE  OnceInv'
<1>1. /\ task[t].at = "deal" /\ Works(t)
      /\ UNCHANGED <<row, claim, spilt, heard, latest, client>>
  BY DEF LoseDeal, history, Works
<1>2. PICK state \in _after_lost_answer(crm.known, crm'.known) :
        Goes(t, "message", [task[t].mine EXCEPT !.kommo = state])
  BY DEF LoseDeal
<1>3. state \in {"retry", "unconfirmed"} /\ (state = "retry" => crm'.known = FALSE)
  BY <1>2 DEF _after_lost_answer
<1>4. /\ Accounts(task[t].mine) /\ Follows(t) /\ Sums /\ task[t].mine \in Row
      /\ task[t].card \in 1..latest /\ latest \in Nat
      /\ crm.deals \in Nat /\ spilt.deal \in Nat
      /\ task[t].mine.noted <= task[t].card /\ task[t].mine.told <= task[t].card
      /\ task[t].mine.deal = NoDeal /\ task[t].mine.kommo \in WORK
  BY <1>1, AtWork DEF Follows
<1>5. PICK mine \in Row :
        /\ mine = [task[t].mine EXCEPT !.kommo = state]
        /\ mine.kommo = state /\ mine.deal = task[t].mine.deal
        /\ mine.noted = task[t].mine.noted /\ mine.told = task[t].mine.told
        /\ mine.link = task[t].mine.link
  <2>1. PICK a \in Row : a = [task[t].mine EXCEPT !.kommo = state]
    BY <1>3, <1>4 DEF Row
  <2>2. /\ a.kommo = state /\ a.deal = task[t].mine.deal
        /\ a.noted = task[t].mine.noted /\ a.told = task[t].mine.told
        /\ a.link = task[t].mine.link
    BY <1>4, <2>1 DEF Row
  <2> QED BY <2>1, <2>2
<1>6. /\ Sums' /\ crm'.deals \in Nat /\ crm'.deals >= crm.deals
      /\ crm'.deals <= spilt.deal + 1
      /\ state = "retry" => crm' = crm
  <2>1. CASE crm' = crm
    <3>1. crm.deals <= spilt.deal
      BY <1>4 DEF Accounts, DealsKnown, Known, WORK
    <3> QED BY <1>1, <1>4, <2>1, <3>1, StillSums DEF Still
  <2>2. CASE crm' = Created(task[t].card)
    <3>1. Sums' /\ crm'.deals = crm.deals + 1 /\ crm.deals <= spilt.deal
      BY <1>1, <2>2, CreatedFacts
    <3>2. crm'.known = TRUE
      BY <2>2 DEF Created
    <3> QED BY <1>3, <1>4, <3>1, <3>2
  <2> QED BY <2>1, <2>2 DEF LoseDeal
<1>7. DealsKnown(mine)'
  <2>1. CASE state = "retry"
    BY <1>1, <1>4, <1>5, <1>6, <2>1 DEF Accounts, DealsKnown, Known, WORK
  <2>2. CASE state = "unconfirmed"
    BY <1>1, <1>4, <1>5, <1>6, <2>2 DEF DealsKnown, Known
  <2> QED BY <1>3, <2>1, <2>2
<1>8. NotesKnown(mine)'
  BY <1>1, <1>3, <1>4, <1>5, <1>6 DEF Accounts, NotesKnown, Lost, WORK
<1>9. WordsKnown(mine)'
  BY <1>1, <1>4, <1>5 DEF Accounts, WordsKnown
<1>10. Sound(mine)'
  BY <1>1, <1>4, <1>5, <1>6 DEF Accounts, Sound, NoDeal, WORK
<1>11. Goes(t, "message", mine)
  BY <1>2, <1>5
<1>12. Accounts(mine)' /\ mine.deal = task[t].base.deal
  BY <1>1, <1>4, <1>5, <1>7, <1>8, <1>9, <1>10 DEF Accounts, Follows
<1>13. client = "gateway" /\ mine.deal = NoDeal => mine.noted = task[t].base.noted
  BY <1>4, <1>5 DEF Follows
<1> QED BY <1>1, <1>4, <1>5, <1>6, <1>11, <1>12, <1>13, Owner DEF At

\* What a flush writes is what is known to the job.
LEMMA FlushedFacts ==
    ASSUME TypeOK, OnceInv, NEW t \in Tasks, Works(t)
    PROVE  LET q == Flushed(task[t])
               m == task[t].mine
           IN /\ q \in Row
              /\ q.deal = m.deal /\ q.noted = m.noted /\ q.told = m.told /\ q.link = m.link
              /\ (q.kommo = "unconfirmed") <=> (m.kommo = "unconfirmed")
              /\ q.kommo = IF m.kommo # task[t].base.kommo THEN m.kommo ELSE row.kommo
              /\ Accounts(q)
<1>1. /\ Accounts(task[t].mine) /\ Follows(t) /\ Sound(row) /\ row \in Row
      /\ task[t].mine \in Row /\ task[t].base \in Row /\ task[t] \in Task
  BY DEF OnceInv, TypeOK, Task
<1>2. PICK q \in Row : q = Flushed(task[t])
  BY <1>1, FlushedType
<1>3. DOMAIN row = {"kommo", "telegram", "deal", "noted", "told", "link", "due",
                    "telegram_due", "tries"}
  BY <1>1 DEF Row
<1>4. \A c \in DOMAIN row : q[c] = IF task[t].mine[c] # task[t].base[c] THEN task[t].mine[c]
                                   ELSE row[c]
  BY <1>2 DEF Flushed
<1>5. /\ q.deal = task[t].mine.deal /\ q.noted = task[t].mine.noted
      /\ q.told = task[t].mine.told /\ q.link = task[t].mine.link
      /\ q.kommo = IF task[t].mine.kommo # task[t].base.kommo THEN task[t].mine.kommo
                   ELSE row.kommo
  BY <1>1, <1>3, <1>4 DEF Follows
<1>6. (q.kommo = "unconfirmed") <=> (task[t].mine.kommo = "unconfirmed")
  BY <1>1, <1>5 DEF Follows
<1>7. Sound(q)
  <2>1. ASSUME client = "gateway", q.deal = NoDeal, q.kommo # "done"
        PROVE  q.noted < latest
    <3>1. CASE task[t].mine.kommo # "done"
      BY <1>1, <1>5, <2>1, <3>1 DEF Accounts, Sound
    <3>2. CASE task[t].mine.kommo = "done"
      <4>1. task[t].at # "made"
        BY <1>1, <3>2 DEF Follows, WORK
      <4>2. row.kommo # "done" /\ row.deal = NoDeal /\ row.noted = q.noted
        BY <1>1, <1>5, <2>1, <3>2, <4>1 DEF Follows
      <4> QED BY <1>1, <2>1, <4>2 DEF Sound
    <3> QED BY <3>1, <3>2
  <2> QED BY <1>1, <1>5, <2>1 DEF Accounts, Sound
<1>8. Accounts(q)
  BY <1>1, <1>5, <1>6, <1>7 DEF Accounts, DealsKnown, Known, NotesKnown, WordsKnown
<1> QED BY <1>2, <1>5, <1>6, <1>8

LEMMA CommitDealStep ==
    ASSUME TypeOK, OnceInv, NEW t \in Tasks, CommitDeal(t)
    PROVE  OnceInv'
<1>1. /\ task[t].at = "made" /\ Works(t) /\ Still
      /\ \A u \in Tasks \ {t} : ~Works(u)
      /\ UNCHANGED claim
  BY DEF CommitDeal, history, Works, Still, OnceInv, Sole
<1>2. /\ task[t].mine \in Row /\ Follows(t) /\ Accounts(task[t].mine)
      /\ task[t].card \in 1..latest
  BY <1>1, AtWork
<1>3. /\ task'[t].at = "note" /\ task'[t].mine = task[t].mine /\ task'[t].base = task[t].mine
      /\ task'[t].card = task[t].card
      /\ \A u \in Tasks \ {t} : task'[u] = task[u]
  <2>1. task[t] \in Task
    BY DEF TypeOK
  <2>2. PICK a \in Task : a = [task[t] EXCEPT !.at = "note"]
    BY <2>1 DEF Task
  <2>3. PICK b \in Task : b = [a EXCEPT !.base = task[t].mine]
    BY <1>2 DEF Task
  <2>4. task' = [task EXCEPT ![t] = b]
    BY <2>2, <2>3 DEF CommitDeal
  <2>5. b.at = "note" /\ b.mine = task[t].mine /\ b.base = task[t].mine /\ b.card = task[t].card
    BY <2>1, <2>2, <2>3 DEF Task
  <2> QED BY <2>4, <2>5 DEF TypeOK
<1>4. PICK m \in Row : m = task[t].mine
  BY <1>2
<1>5. PICK q \in Row : q = Flushed(task[t])
  BY <1>1, FlushedFacts
<1>6. /\ q.deal = m.deal /\ q.noted = m.noted /\ q.told = m.told /\ q.link = m.link
      /\ (q.kommo = "unconfirmed") <=> (m.kommo = "unconfirmed")
      /\ Accounts(q)
  BY <1>1, <1>4, <1>5, FlushedFacts
<1>7. row' = q
  BY <1>5 DEF CommitDeal
<1>8. Sound(row)'
  <2>1. Accounts(q)'
    BY <1>1, <1>6, StillAccounts
  <2> QED BY <1>7, <2>1 DEF Accounts
<1>9. Accounts(task[t].mine)'
  <2>1. Accounts(m)'
    BY <1>1, <1>2, <1>4, StillAccounts
  <2> QED BY <1>3, <1>4, <2>1
<1>10. Works(t)' /\ \A u \in Tasks \ {t} : ~Works(u)'
  BY <1>1, <1>3 DEF Works
<1>11. Sole'
  BY <1>1, <1>10 DEF OnceInv, Sole
<1>12. Follows(t)'
  BY <1>1, <1>2, <1>3, <1>4, <1>6, <1>7 DEF Follows, Still
<1>13. Sums'
  BY <1>1, StillSums DEF OnceInv
<1> QED BY <1>1, <1>8, <1>9, <1>10, <1>11, <1>12, <1>13 DEF OnceInv, Still

LEMMA CommitStep ==
    ASSUME TypeOK, OnceInv, NEW t \in Tasks, Works(t), NEW left \in Row, Commit(t, left),
           Same(left, task[t].mine),
           left.kommo # task[t].mine.kommo => left.kommo = "pending" /\ task[t].mine.noted # latest
    PROVE  OnceInv'
<1>1. /\ task' = [task EXCEPT ![t] = Idle] /\ Still
  BY DEF Commit, Still
<1>2. task[t].mine \in Row /\ Accounts(task[t].mine) /\ row \in Row /\ latest \in Nat
  BY DEF OnceInv, TypeOK, Task
<1>3. PICK q \in Row : q = Flushed(task[t])
  BY FlushedFacts
<1>4. /\ q.deal = task[t].mine.deal /\ q.noted = task[t].mine.noted
      /\ q.told = task[t].mine.told /\ q.link = task[t].mine.link
      /\ (q.kommo = "unconfirmed") <=> (task[t].mine.kommo = "unconfirmed")
      /\ Accounts(q)
  BY <1>3, FlushedFacts
<1>5. DOMAIN row = {"kommo", "telegram", "deal", "noted", "told", "link", "due",
                    "telegram_due", "tries"}
  BY <1>2 DEF Row
<1>6. row' = [c \in DOMAIN row |->
               IF c = "due"
               THEN IF left.due = "none" /\ task[t].base.due = "none" THEN row.due ELSE left.due
               ELSE IF left[c] # task[t].mine[c] THEN left[c] ELSE q[c]]
  BY <1>3 DEF Commit
<1>7. PICK r \in Row : r = row'
  <2>1. row' \in Row
    BY <1>2, <1>5, <1>6 DEF Row
  <2> QED BY <2>1
<1>8. /\ r.deal = q.deal /\ r.noted = q.noted /\ r.told = q.told /\ r.link = q.link
      /\ r.kommo = IF left.kommo # task[t].mine.kommo THEN left.kommo ELSE q.kommo
  BY <1>4, <1>5, <1>6, <1>7 DEF Same
<1>9. Same(r, q)
  <2>1. CASE left.kommo = task[t].mine.kommo
    BY <1>8, <2>1 DEF Same
  <2>2. CASE left.kommo # task[t].mine.kommo
    <3>1. left.kommo = "pending" /\ task[t].mine.kommo # "unconfirmed"
      BY <2>2 DEF Same
    <3>2. q.noted < latest
      BY <1>2, <1>4, <2>2 DEF Accounts, Sound, Row
    <3> QED BY <1>4, <1>8, <2>2, <3>1, <3>2 DEF Same
  <2> QED BY <2>1, <2>2
<1>10. Accounts(r)'
  BY <1>1, <1>4, <1>9, SameAccounts, StillAccounts
<1>11. Sums'
  BY <1>1, StillSums DEF OnceInv
<1> QED BY <1>1, <1>7, <1>10, <1>11, Ender DEF Still

LEMMA EndSteps ==
    ASSUME TypeOK, OnceInv, NEW t \in Tasks, Finish(t) \/ Close(t)
    PROVE  OnceInv'
<1>1. Works(t) /\ task[t] \in Task /\ task[t].mine \in Row
  BY DEF Finish, Close, Works, TypeOK, Task
<1>2. task[t].mine.noted <= latest
  BY <1>1 DEF OnceInv, Accounts, Sound
<1>3. CASE Finish(t)
  BY <1>1, <1>2, <1>3, LeftFacts, CommitStep DEF Finish
<1>4. CASE Close(t)
  <2>1. Same(task[t].mine, task[t].mine)
    BY DEF Same
  <2> QED BY <1>1, <1>4, <2>1, CommitStep DEF Close
<1> QED BY <1>3, <1>4

\* What is lost with a copy makes up for what the row does not know of.
LEMMA SpillAccounts ==
    ASSUME TypeOK, OnceInv, NEW t \in Tasks, Works(t), Spill(task[t]),
           UNCHANGED <<row, crm, heard, latest, client>>
    PROVE  Accounts(row)' /\ Sums'
<1> DEFINE m == task[t].mine
           b == task[t].base
<1>1. /\ Accounts(m) /\ Follows(t) /\ Sound(row) /\ Sums /\ row \in Row /\ m \in Row
      /\ crm \in [deals : Nat, notes : [Replies -> Nat], known : BOOLEAN]
      /\ spilt \in [deal : Nat, note : Nat, word : Nat, half : Nat]
      /\ heard \in [Replies \X {"dialog", "deal"} -> Nat]
  BY DEF OnceInv, TypeOK, Task
<1>2. /\ spilt'.deal \in Nat /\ spilt'.note \in Nat /\ spilt'.word \in Nat
      /\ spilt'.deal >= spilt.deal /\ spilt'.note >= spilt.note /\ spilt'.word >= spilt.word
      /\ task[t].at = "made" \/ (m.kommo = "unconfirmed" /\ b.kommo # "unconfirmed") =>
           spilt'.deal = spilt.deal + 1
      /\ m.noted # b.noted => spilt'.note = spilt.note + 1
      /\ m.told # b.told \/ m.link # b.link => spilt'.word = spilt.word + 1
  BY <1>1 DEF Spill
<1> HIDE DEF m, b
<1>3. /\ row.deal = b.deal /\ row.noted = b.noted /\ row.told = b.told /\ row.link = b.link
      /\ (row.kommo = "unconfirmed") <=> (b.kommo = "unconfirmed")
      /\ task[t].at # "made" => m.deal = b.deal
      /\ task[t].at = "made" => m.kommo \in WORK
  BY <1>1 DEF Follows, m, b
<1>4. Sound(row)'
  BY <1>1 DEF Sound
<1>5. DealsKnown(row)'
  BY <1>1, <1>2, <1>3 DEF Accounts, DealsKnown, Known
<1>6. NotesKnown(row)'
  <2>1. \A i \in Replies : crm.notes[i] <= 1 + Lost
    BY <1>1 DEF Sums, NotedOnce, Lost
  <2>2. Lost' >= Lost /\ Lost' \in Nat /\ Lost \in Nat
    BY <1>1, <1>2 DEF Lost
  <2>3. CASE m.noted # b.noted \/ task[t].at = "made"
             \/ (m.kommo = "unconfirmed" /\ b.kommo # "unconfirmed")
    <3>1. Lost' >= Lost + 1
      BY <1>1, <1>2, <2>3 DEF Lost
    <3>2. \A i \in Replies : crm.notes[i] <= Lost'
      BY <1>1, <2>1, <2>2, <3>1
    <3> QED BY <3>2 DEF NotesKnown
  <2>4. CASE ~(m.noted # b.noted \/ task[t].at = "made"
             \/ (m.kommo = "unconfirmed" /\ b.kommo # "unconfirmed"))
    <3>1. m.deal = row.deal /\ m.noted = row.noted
          /\ (m.kommo = "unconfirmed" => row.kommo = "unconfirmed")
      BY <1>3, <2>4
    <3>2. \A i \in Replies : (row.deal # NoDeal \/ row.kommo # "unconfirmed") /\ i > row.noted
            => crm.notes[i] <= Lost
      BY <1>1, <3>1 DEF Accounts, NotesKnown
    <3>3. \A i \in Replies : (row.deal # NoDeal \/ row.kommo # "unconfirmed") /\ i > row.noted
            => crm.notes[i] <= Lost'
      BY <1>1, <2>2, <3>2
    <3> QED BY <3>3 DEF NotesKnown
  <2> QED BY <2>3, <2>4
<1>7. WordsKnown(row)'
  <2>1. \A h \in DOMAIN heard : heard[h] \in Nat /\ heard[h] <= 1 + spilt.word
    BY <1>1 DEF Sums, ToldOnce
  <2>2. CASE m.told # b.told \/ m.link # b.link
    BY <1>1, <1>2, <2>1, <2>2 DEF WordsKnown
  <2>3. CASE m.told = b.told /\ m.link = b.link
    BY <1>1, <1>2, <1>3, <2>1, <2>3 DEF Accounts, WordsKnown
  <2> QED BY <2>2, <2>3
<1>8. NotedOnce'
  BY <1>1, <1>2 DEF Sums, NotedOnce
<1>9. ToldOnce'
  BY <1>1, <1>2 DEF Sums, ToldOnce
<1>10. Sums'
  BY <1>1, <1>8, <1>9 DEF Sums
<1> QED BY <1>4, <1>5, <1>6, <1>7, <1>10 DEF Accounts

LEMMA BreakSteps ==
    ASSUME TypeOK, OnceInv, NEW t \in Tasks, _release_after_failure(t) \/ Die(t)
    PROVE  OnceInv'
<1>1. /\ Works(t) /\ task' = [task EXCEPT ![t] = Idle]
      /\ UNCHANGED <<crm, heard, latest, client>> /\ row \in Row
  BY DEF _release_after_failure, Die, Works, TypeOK
<1>2. CASE Spill(task[t]) /\ UNCHANGED row
  BY <1>1, <1>2, SpillAccounts, Ender
<1>3. CASE row' = Flushed(task[t]) /\ spilt' = [spilt EXCEPT !.half = @ + IF row' # row THEN 1 ELSE 0]
  <2>1. PICK q \in Row : q = Flushed(task[t]) /\ Accounts(q)
    BY <1>1, FlushedFacts
  <2>2. spilt'.deal = spilt.deal /\ spilt'.note = spilt.note /\ spilt'.word = spilt.word
    BY <1>3 DEF TypeOK
  <2>3. Accounts(q)'
    BY <1>1, <2>1, <2>2 DEF Accounts, Sound, DealsKnown, Known, NotesKnown, Lost, WordsKnown
  <2>4. Sums'
    BY <1>1, <2>2 DEF OnceInv, Sums, NotedOnce, ToldOnce
  <2> QED BY <1>1, <1>3, <2>1, <2>3, <2>4, Ender
<1> QED BY <1>2, <1>3 DEF _release_after_failure, Die

LEMMA NoteStep ==
    ASSUME TypeOK, OnceInv, NEW t \in Tasks, _note(t)
    PROVE  OnceInv'
<1>1. /\ task[t].at = "note" /\ Works(t) /\ client = "full"
      /\ UNCHANGED <<row, claim, spilt, heard, latest, client>>
  BY DEF _note, history, Works
<1>2. /\ Accounts(task[t].mine) /\ Follows(t) /\ Sums /\ task[t].mine \in Row
      /\ task[t].card \in 1..latest /\ latest \in Nat /\ task[t].card \in Replies
      /\ task[t].card \in 0..MaxReplies
      /\ crm.deals \in Nat /\ crm.notes \in [Replies -> Nat]
      /\ spilt.deal \in Nat /\ spilt.note \in Nat
      /\ task[t].mine.noted < task[t].card /\ task[t].mine.told <= task[t].card
      /\ task[t].mine.deal # NoDeal
  <2>1. task[t].mine.noted # task[t].card
    BY DEF _note, fresh
  <2>2. task[t].mine.noted <= task[t].card /\ task[t].mine.noted \in Nat
    BY <1>1, AtWork DEF Follows, Row
  <2>3. task[t].card \in Nat
    BY <1>1, AtWork
  <2>4. task[t].card \in Replies /\ task[t].card \in 0..MaxReplies
    BY <1>1, AtWork DEF Replies, TypeOK, Task
  <2>5. latest \in Nat
    BY DEF TypeOK
  <2>6. task[t].mine.noted < task[t].card
    BY <2>1, <2>2, <2>3
  <2> QED BY <1>1, <2>4, <2>5, <2>6, AtWork DEF Follows
<1>3. PICK mine \in Row :
        /\ mine = [task[t].mine EXCEPT !.kommo = "done", !.noted = task[t].card]
        /\ mine.kommo = "done" /\ mine.noted = task[t].card
        /\ mine.deal = task[t].mine.deal /\ mine.told = task[t].mine.told
        /\ mine.link = task[t].mine.link
  <2>1. PICK a \in Row : a = [task[t].mine EXCEPT !.kommo = "done"]
    BY <1>2 DEF Row
  <2>2. PICK b \in Row : b = [a EXCEPT !.noted = task[t].card]
    BY <1>2 DEF Row
  <2>3. /\ b.kommo = "done" /\ b.noted = task[t].card
        /\ b.deal = task[t].mine.deal /\ b.told = task[t].mine.told
        /\ b.link = task[t].mine.link
    BY <1>2, <2>1, <2>2 DEF Row
  <2>4. b = [task[t].mine EXCEPT !.kommo = "done", !.noted = task[t].card]
    BY <2>1, <2>2
  <2> QED BY <2>3, <2>4
<1>4. Goes(t, "message", mine)
  BY <1>3 DEF _note
<1>5. /\ crm'.deals = crm.deals
      /\ \A i \in Replies : crm'.notes[i] = crm.notes[i]
            \/ (i = task[t].card /\ crm'.notes[i] = crm.notes[i] + 1)
  <2>1. CASE crm' = crm
    BY <2>1
  <2>2. CASE crm' = [crm EXCEPT !.notes[task[t].card] = @ + 1]
    BY <1>2, <2>2 DEF TypeOK
  <2> QED BY <2>1, <2>2 DEF _note
<1>6. \A i \in Replies : i > task[t].mine.noted => crm.notes[i] <= Lost
  BY <1>2 DEF Accounts, NotesKnown
<1>7. \A i \in Replies : i > task[t].card => crm'.notes[i] <= Lost /\ i > task[t].mine.noted
  <2>1. ASSUME NEW i \in Replies, i > task[t].card
        PROVE  crm'.notes[i] = crm.notes[i] /\ i > task[t].mine.noted
    BY <2>1, <1>2, <1>5 DEF Replies, Row
  <2> QED BY <1>6, <2>1
<1>8. DealsKnown(mine)'
  BY <1>1, <1>2, <1>3, <1>5 DEF Accounts, DealsKnown, Known
<1>9. NotesKnown(mine)'
  BY <1>1, <1>3, <1>7 DEF NotesKnown, Lost
<1>10. WordsKnown(mine)'
  BY <1>1, <1>2, <1>3 DEF Accounts, WordsKnown
<1>11. Sound(mine)'
  BY <1>1, <1>2, <1>3, <1>5 DEF Accounts, Sound
<1>12. Sums'
  <2>1. NotedOnce'
    <3>1. \A i \in Replies : crm'.notes[i] <= 1 + Lost
      BY <1>2, <1>5, <1>6 DEF Sums, NotedOnce, Lost
    <3>2. 1 + Lost = 1 + spilt.note + spilt.deal
      BY <1>2 DEF Lost
    <3> QED BY <1>1, <3>1, <3>2 DEF NotedOnce
  <2>2. ToldOnce'
    BY <1>1, <1>2 DEF Sums, ToldOnce
  <2>3. crm.deals # 0
    BY <1>2 DEF Accounts, Sound, NoDeal, Row
  <2>4. \A i \in Replies : i > latest' \/ crm'.deals = 0 => crm'.notes[i] = 0
    BY <1>1, <1>2, <1>5, <2>3 DEF Sums, Replies
  <2> QED BY <2>1, <2>2, <2>4 DEF Sums
<1>13. Accounts(mine)' /\ mine.deal = task[t].base.deal /\ mine.deal # NoDeal
       /\ mine.noted <= task[t].card /\ mine.told <= task[t].card
  BY <1>1, <1>2, <1>3, <1>8, <1>9, <1>10, <1>11 DEF Accounts, Follows
<1>14. crm'.deals \in Nat /\ crm.deals \in Nat /\ crm'.deals >= crm.deals
  BY <1>2, <1>5
<1> QED BY <1>1, <1>2, <1>3, <1>4, <1>12, <1>13, <1>14, Owner DEF At

\* What was heard of the letter with its link before it is told of.
LEMMA OwedFacts ==
    ASSUME TypeOK, OnceInv, NEW t \in Tasks, task[t].at = "message", Owed(task[t])
    PROVE  heard[<<task[t].card, LinkOf(task[t])>>] <= spilt.word
<1>1. Works(t)
  BY DEF Works
<1>2. PICK s \in Task : s = task[t]
  BY DEF TypeOK
<1>3. PICK m \in Row : m = s.mine
  BY DEF Task
<1>4. /\ Accounts(m) /\ s.card \in 1..latest /\ latest \in 1..MaxReplies /\ m.told <= s.card
      /\ s.card \in Replies
  BY <1>1, <1>2, <1>3, AtWork DEF Follows, Replies
<1>5. LinkOf(s) = IF client # "off" /\ m.deal # NoDeal THEN "deal" ELSE "dialog"
  BY <1>3 DEF LinkOf
<1>6. <<s.card, LinkOf(s)>> \in DOMAIN heard
  BY <1>4, <1>5 DEF TypeOK
<1>7. CASE s.card > m.told
  <2>1. \A h \in DOMAIN heard : h[1] > m.told => heard[h] <= spilt.word
    BY <1>4 DEF Accounts, WordsKnown
  <2> QED BY <1>2, <1>6, <1>7, <2>1
<1>8. CASE s.card = m.told
  <2>1. m.link # LinkOf(s)
    BY <1>2, <1>3, <1>8 DEF Owed, news
  <2>2. m.link # "none"
    BY <1>4, <1>8 DEF Accounts, Sound, NoReply
  <2>3. LinkOf(s) = "deal" /\ m.link # "deal"
    BY <1>4, <1>5, <2>1, <2>2 DEF Accounts, Sound, Row
  <2>4. \A h \in DOMAIN heard : h[1] = m.told /\ h[2] = "deal" => heard[h] <= spilt.word
    BY <1>4, <2>3 DEF Accounts, WordsKnown
  <2> QED BY <1>2, <1>6, <1>8, <2>3, <2>4
<1> QED BY <1>4, <1>7, <1>8 DEF Row

LEMMA HeardFacts ==
    ASSUME TypeOK, OnceInv, NEW t \in Tasks, task[t].at = "message", Owed(task[t]),
           Heard(task[t])
    PROVE  /\ DOMAIN heard' = DOMAIN heard
           /\ heard'[<<task[t].card, LinkOf(task[t])>>]
                = heard[<<task[t].card, LinkOf(task[t])>>] + 1
           /\ \A h \in DOMAIN heard : h # <<task[t].card, LinkOf(task[t])>> => heard'[h] = heard[h]
           /\ \A h \in DOMAIN heard : heard'[h] <= 1 + spilt.word /\ heard'[h] <= heard[h] + 1
<1> DEFINE here == <<task[t].card, LinkOf(task[t])>>
           pairs == Replies \X {"dialog", "deal"}
<1>1. heard \in [pairs -> Nat] /\ spilt.word \in Nat /\ ToldOnce
  BY DEF TypeOK, OnceInv, Sums
<1>2. here \in pairs
  <2>1. task[t].card \in Replies
    BY AtWork DEF Works, Replies
  <2> QED BY <2>1 DEF LinkOf
<1>3. heard' = [heard EXCEPT ![here] = @ + 1] /\ heard[here] <= spilt.word
  BY OwedFacts DEF Heard
<1> HIDE DEF here, pairs
<1>4. /\ DOMAIN heard' = DOMAIN heard /\ heard'[here] = heard[here] + 1
      /\ \A h \in pairs : h # here => heard'[h] = heard[h]
  BY <1>1, <1>2, <1>3
<1>5. ASSUME NEW h \in pairs
      PROVE  heard'[h] <= 1 + spilt.word /\ heard'[h] <= heard[h] + 1
  <2>1. heard[h] <= 1 + spilt.word /\ heard[h] \in Nat
    BY <1>1, <1>5 DEF ToldOnce
  <2> QED BY <1>1, <1>2, <1>3, <1>4, <1>5, <2>1
<1>6. DOMAIN heard = pairs
  BY <1>1
<1> QED BY <1>4, <1>5, <1>6 DEF here

LEMMA PersonalStep ==
    ASSUME TypeOK, OnceInv, NEW t \in Tasks, _personal(t)
    PROVE  OnceInv'
<1>1. /\ task[t].at = "message" /\ Works(t) /\ Owed(task[t]) /\ Heard(task[t])
      /\ UNCHANGED <<row, claim, spilt, crm, latest, client>>
  BY DEF _personal, Works
<1>2. PICK m \in Row : m = task[t].mine
  BY DEF TypeOK, Task
<1>3. /\ Accounts(m) /\ Follows(t) /\ Sums
      /\ task[t].card \in 1..latest /\ latest \in 1..MaxReplies
      /\ m.told <= task[t].card /\ m.noted <= task[t].card
      /\ task[t].card \in 0..MaxReplies
  BY <1>1, <1>2, AtWork DEF Follows, TypeOK, Task
<1>4. PICK link \in {"deal", "dialog"} : link = LinkOf(task[t])
  BY DEF LinkOf
<1>5. link = IF client # "off" /\ m.deal # NoDeal THEN "deal" ELSE "dialog"
  BY <1>2, <1>4 DEF LinkOf
<1>6. PICK mine \in Row :
        /\ Goes(t, "last", mine)
        /\ mine.deal = m.deal /\ mine.noted = m.noted /\ mine.kommo = m.kommo
        /\ mine.told = task[t].card /\ mine.link = link
  <2>1. PICK a \in Row : a = [m EXCEPT !.telegram = "sent"]
    BY DEF Row
  <2>2. PICK b \in Row : b = [a EXCEPT !.link = link]
    BY DEF Row
  <2>3. PICK c \in Row : c = [b EXCEPT !.told = task[t].card]
    BY <1>3 DEF Row
  <2>4. /\ c.deal = m.deal /\ c.noted = m.noted /\ c.kommo = m.kommo
        /\ c.told = task[t].card /\ c.link = link
    BY <1>3, <2>1, <2>2, <2>3 DEF Row
  <2>5. Told(task[t]) = _settled(c)
    BY <1>2, <1>4, <2>1, <2>2, <2>3 DEF Told
  <2>6. PICK d \in Row : d = _settled(c)
    BY SettledType
  <2>7. /\ d.deal = c.deal /\ d.noted = c.noted /\ d.kommo = c.kommo
        /\ d.told = c.told /\ d.link = c.link
    BY <2>6, SettledFacts
  <2>8. PICK e \in Row : e = after_failure(d, FALSE, FALSE)
    BY AfterFailureType
  <2>9. /\ e.deal = d.deal /\ e.noted = d.noted /\ e.kommo = d.kommo
        /\ e.told = d.told /\ e.link = d.link
    BY <2>8, AfterFailureFacts
  <2>10. Goes(t, "last", d) \/ Goes(t, "last", e)
    BY <2>5, <2>6, <2>8 DEF _personal
  <2> QED BY <2>4, <2>7, <2>9, <2>10
<1>7. /\ DOMAIN heard' = DOMAIN heard
      /\ \A h \in DOMAIN heard : h # <<task[t].card, link>> => heard'[h] = heard[h]
      /\ \A h \in DOMAIN heard : heard'[h] <= 1 + spilt.word
  BY <1>1, <1>4, HeardFacts
<1>8. Sums'
  <2>1. ToldOnce'
    BY <1>1, <1>7 DEF ToldOnce
  <2>2. NotedOnce'
    BY <1>1, <1>3 DEF Sums, NotedOnce
  <2> QED BY <1>1, <1>3, <2>1, <2>2 DEF Sums
<1>9. WordsKnown(mine)'
  <2>1. DOMAIN heard = Replies \X {"dialog", "deal"}
    BY DEF TypeOK
  <2> SUFFICES ASSUME NEW h \in DOMAIN heard,
                      h[1] > task[t].card \/ (h[1] = task[t].card /\ h[2] = "deal" /\ link # "deal")
               PROVE  heard'[h] <= spilt.word
    BY <1>1, <1>6, <1>7 DEF WordsKnown
  <2>2. h # <<task[t].card, link>> /\ h[1] \in Nat
    BY <1>3, <2>1 DEF Replies
  <2>3. h[1] > m.told \/ (h[1] = m.told /\ h[2] = "deal" /\ m.link # "deal")
    <3>1. CASE h[1] > task[t].card
      BY <1>3, <2>2, <3>1 DEF Row
    <3>2. CASE h[1] = task[t].card /\ h[2] = "deal" /\ link # "deal"
      BY <1>3, <1>5, <2>2, <3>2 DEF Row, Accounts, Sound
    <3> QED BY <3>1, <3>2
  <2> QED BY <1>3, <1>7, <2>2, <2>3 DEF Accounts, WordsKnown
<1>10. Accounts(mine)'
  <2>1. DealsKnown(mine)'
    BY <1>1, <1>3, <1>6 DEF Accounts, DealsKnown, Known
  <2>2. NotesKnown(mine)'
    BY <1>1, <1>3, <1>6 DEF Accounts, NotesKnown, Lost
  <2>3. Sound(mine)'
    BY <1>1, <1>3, <1>5, <1>6 DEF Accounts, Sound
  <2> QED BY <1>9, <2>1, <2>2, <2>3 DEF Accounts
<1>11. /\ mine.deal = task[t].base.deal /\ mine.noted <= task[t].card /\ mine.told <= task[t].card
       /\ client = "gateway" /\ mine.deal = NoDeal => mine.noted = task[t].base.noted
  BY <1>1, <1>2, <1>3, <1>6 DEF Follows
<1>12. crm'.deals \in Nat /\ crm.deals \in Nat /\ crm'.deals >= crm.deals
  BY <1>1 DEF TypeOK
<1> QED BY <1>1, <1>3, <1>6, <1>8, <1>10, <1>11, <1>12, Owner DEF At

LEMMA LosePersonalStep ==
    ASSUME TypeOK, OnceInv, NEW t \in Tasks, LosePersonal(t)
    PROVE  OnceInv'
<1>1. /\ task[t].at = "message" /\ Works(t) /\ Owed(task[t])
      /\ UNCHANGED <<row, claim, crm, latest, client>>
  BY DEF LosePersonal, Works
<1>2. PICK m \in Row : m = task[t].mine
  BY DEF TypeOK, Task
<1>3. /\ Accounts(m) /\ Follows(t) /\ Sums
      /\ task[t].card \in 1..latest
      /\ m.told <= task[t].card /\ m.noted <= task[t].card
      /\ spilt \in [deal : Nat, note : Nat, word : Nat, half : Nat]
      /\ heard \in [Replies \X {"dialog", "deal"} -> Nat]
  BY <1>1, <1>2, AtWork DEF Follows, TypeOK
<1>4. PICK r \in Row : r = IF m.telegram = "undelivered" THEN m ELSE _settled(m)
  BY SettledType
<1>5. PICK permanent \in BOOLEAN :
        /\ Goes(t, "last", [after_failure(r, permanent, Said(m)) EXCEPT !.telegram = "undelivered"])
        /\ \/ UNCHANGED <<heard, spilt>>
           \/ Heard(task[t]) /\ spilt' = [spilt EXCEPT !.word = @ + 1]
  BY <1>2, <1>4 DEF LosePersonal
<1>6. PICK mine \in Row :
        /\ Goes(t, "last", mine)
        /\ mine.deal = m.deal /\ mine.noted = m.noted /\ mine.kommo = m.kommo
        /\ mine.told = m.told /\ mine.link = m.link
  <2>1. /\ r.deal = m.deal /\ r.noted = m.noted /\ r.kommo = m.kommo
        /\ r.told = m.told /\ r.link = m.link
    BY <1>4, SettledFacts
  <2>2. PICK said \in BOOLEAN : said = Said(m)
    BY DEF Said
  <2>3. PICK a \in Row : a = after_failure(r, permanent, said)
    BY AfterFailureType
  <2>4. /\ a.deal = r.deal /\ a.noted = r.noted /\ a.kommo = r.kommo
        /\ a.told = r.told /\ a.link = r.link
    BY <2>3, AfterFailureFacts
  <2>5. PICK b \in Row : b = [a EXCEPT !.telegram = "undelivered"]
    BY DEF Row
  <2>6. /\ b.deal = a.deal /\ b.noted = a.noted /\ b.kommo = a.kommo
        /\ b.told = a.told /\ b.link = a.link
    BY <2>5 DEF Row
  <2> QED BY <1>5, <2>1, <2>2, <2>3, <2>4, <2>5, <2>6
<1>7. /\ spilt'.deal = spilt.deal /\ spilt'.note = spilt.note
      /\ DOMAIN heard' = DOMAIN heard
      /\ \A h \in DOMAIN heard : heard'[h] <= 1 + spilt'.word
      /\ \A h \in DOMAIN heard : heard[h] <= spilt.word => heard'[h] <= spilt'.word
  <2>1. CASE UNCHANGED <<heard, spilt>>
    BY <1>3, <2>1 DEF Sums, ToldOnce
  <2>2. CASE Heard(task[t]) /\ spilt' = [spilt EXCEPT !.word = @ + 1]
    <3>1. /\ DOMAIN heard' = DOMAIN heard
          /\ \A h \in DOMAIN heard : heard'[h] <= 1 + spilt.word /\ heard'[h] <= heard[h] + 1
      BY <1>1, <2>2, HeardFacts
    <3>2. /\ spilt'.deal = spilt.deal /\ spilt'.note = spilt.note
          /\ spilt'.word = spilt.word + 1
      BY <1>3, <2>2
    <3>3. \A h \in DOMAIN heard : heard[h] \in Nat /\ heard'[h] \in Nat
      BY <1>3, <2>2 DEF Heard
    <3> QED BY <1>3, <3>1, <3>2, <3>3
  <2> QED BY <1>5, <2>1, <2>2
<1>8. Sums'
  <2>1. ToldOnce'
    BY <1>7 DEF ToldOnce
  <2>2. NotedOnce'
    BY <1>1, <1>3, <1>7 DEF Sums, NotedOnce
  <2> QED BY <1>1, <1>3, <2>1, <2>2 DEF Sums
<1>9. Accounts(mine)'
  <2>1. DealsKnown(mine)'
    BY <1>1, <1>3, <1>6, <1>7 DEF Accounts, DealsKnown, Known
  <2>2. NotesKnown(mine)'
    BY <1>1, <1>3, <1>6, <1>7 DEF Accounts, NotesKnown, Lost
  <2>3. Sound(mine)'
    BY <1>1, <1>3, <1>6 DEF Accounts, Sound
  <2>4. WordsKnown(mine)'
    BY <1>3, <1>6, <1>7 DEF Accounts, WordsKnown
  <2> QED BY <2>1, <2>2, <2>3, <2>4 DEF Accounts
<1>10. /\ mine.deal = task[t].base.deal /\ mine.noted <= task[t].card /\ mine.told <= task[t].card
       /\ client = "gateway" /\ mine.deal = NoDeal => mine.noted = task[t].base.noted
  BY <1>1, <1>2, <1>3, <1>6 DEF Follows
<1>11. crm'.deals \in Nat /\ crm.deals \in Nat /\ crm'.deals >= crm.deals
  BY <1>1 DEF TypeOK
<1> QED BY <1>1, <1>3, <1>6, <1>8, <1>9, <1>10, <1>11, Owner DEF At

-----------------------------------------------------------------------------
(* Letters, passes, time, people.                                           *)

\* A step that leaves the jobs and the columns of the row that count.
LEMMA QuietRow ==
    ASSUME TypeOK, OnceInv, UNCHANGED task, Still, NEW r \in Row, row' = r, Same(r, row),
           \A t \in Tasks : Works(t) => claim' = "held"
    PROVE  OnceInv'
<1>1. PICK q \in Row : q = row
  BY DEF TypeOK
<1>2. \A t \in Tasks : Works(t)' <=> Works(t)
  BY DEF Works
<1>3. Sole'
  BY <1>2 DEF Sole, OnceInv
<1>4. Sound(row)'
  BY <1>1 DEF OnceInv, Sound, Same, Still
<1>5. (\A t \in Tasks : ~Works(t)) => Accounts(row)'
  <2>1. ASSUME \A t \in Tasks : ~Works(t) PROVE Accounts(r)'
    BY <1>1, <2>1, SameAccounts, StillAccounts DEF OnceInv
  <2> QED BY <2>1
<1>6. ASSUME NEW t \in Tasks, Works(t) PROVE Accounts(task[t].mine)' /\ Follows(t)'
  <2>1. PICK m \in Row : m = task[t].mine
    BY DEF TypeOK, Task
  <2>2. Accounts(m)'
    BY <1>6, <2>1, StillAccounts DEF OnceInv
  <2>3. Follows(t)'
    BY <1>6 DEF OnceInv, Follows, Same, Still
  <2> QED BY <2>1, <2>2, <2>3
<1>7. Sums'
  BY StillSums DEF OnceInv
<1> QED BY <1>2, <1>3, <1>4, <1>5, <1>6, <1>7 DEF OnceInv, Still

LEMMA StartStep ==
    ASSUME TypeOK, OnceInv, start \/ due \/ message_due
    PROVE  OnceInv'
<1>1. row \in Row /\ row.noted <= latest
  BY DEF OnceInv, Sound, TypeOK
<1>2. PICK r \in Row : r = Reopened(row, latest)
  BY <1>1, ReopenedType
<1>3. Same(r, row) /\ Same(row, row)
  BY <1>1, <1>2, ReopenedSame DEF Same
<1>4. PICK q \in {r, row} : row' = [q EXCEPT !.due = "later"] \/ row' = row
  BY <1>2 DEF start, due, message_due, _take
<1>5. PICK p \in Row : row' = p /\ Same(p, row)
  <2>1. CASE row' = row
    BY <1>1, <1>3, <2>1
  <2>2. CASE row' = [q EXCEPT !.due = "later"]
    <3>1. PICK p \in Row : p = [q EXCEPT !.due = "later"]
      BY <1>1 DEF Row, Due
    <3>2. /\ p.deal = q.deal /\ p.noted = q.noted /\ p.told = q.told /\ p.link = q.link
          /\ p.kommo = q.kommo
      BY <1>1, <3>1 DEF Row
    <3>3. Same(p, row)
      BY <1>3, <3>2 DEF Same
    <3> QED BY <2>2, <3>1, <3>3
  <2> QED BY <1>4, <2>1, <2>2
<1>6. Still /\ UNCHANGED <<task, claim>>
  BY DEF start, due, message_due, _take, Still, history
<1> QED BY <1>5, <1>6, QuietRow DEF OnceInv, Sole

LEMMA AnswerStep ==
    ASSUME TypeOK, OnceInv, Answer
    PROVE  OnceInv'
<1>1. /\ latest' = latest + 1 /\ latest \in Nat
      /\ UNCHANGED <<client, row, claim, task, crm, heard, spilt>>
  BY DEF Answer, history, TypeOK
<1>2. ASSUME NEW r \in Row, Sound(r) PROVE Sound(r)'
  BY <1>1, <1>2 DEF Sound, Row
<1>3. ASSUME NEW r \in Row, Accounts(r) PROVE Accounts(r)'
  BY <1>1, <1>2, <1>3 DEF Accounts, DealsKnown, Known, NotesKnown, Lost, WordsKnown
<1>4. Sums'
  BY <1>1 DEF OnceInv, Sums, NotedOnce, ToldOnce, Replies
<1>5. PICK r \in Row : r = row
  BY DEF TypeOK
<1>6. Sound(r)' /\ ((\A t \in Tasks : ~Works(t)) => Accounts(r)')
  BY <1>2, <1>3, <1>5 DEF OnceInv
<1>7. ASSUME NEW t \in Tasks, Works(t) PROVE Accounts(task[t].mine)' /\ Follows(t)'
  <2>1. PICK m \in Row : m = task[t].mine
    BY DEF TypeOK, Task
  <2>2. Accounts(m)'
    BY <1>3, <1>7, <2>1 DEF OnceInv
  <2>3. Follows(t)'
    BY <1>1, <1>7 DEF OnceInv, Follows
  <2> QED BY <1>1, <2>1, <2>2, <2>3
<1>8. Sole' /\ \A t \in Tasks : Works(t)' <=> Works(t)
  BY <1>1 DEF OnceInv, Sole, Works
<1>9. (latest >= 1)'
  BY <1>1 DEF OnceInv
<1> QED BY <1>1, <1>4, <1>5, <1>6, <1>7, <1>8, <1>9 DEF OnceInv

LEMMA ComeFacts ==
    ASSUME NEW r \in Row, NEW c \in {"due", "telegram_due"}
    PROVE  LET q == Come(r, c)
           IN /\ q \in Row
              /\ q.deal = r.deal /\ q.noted = r.noted /\ q.told = r.told /\ q.link = r.link
              /\ q.kommo = r.kommo
BY ComeType DEF Come, Row

LEMMA RipenStep ==
    ASSUME TypeOK, OnceInv, NEW c \in {"due", "telegram_due"}, Ripen(c)
    PROVE  OnceInv'
<1>1. Still /\ UNCHANGED claim
  BY DEF Ripen, Still, history
<1>2. ASSUME NEW t \in Tasks
      PROVE  /\ task'[t].at = task[t].at /\ task'[t].card = task[t].card
             /\ task'[t].mine = Come(task[t].mine, c) /\ task'[t].base = Come(task[t].base, c)
  <2>1. task[t] \in Task /\ task[t].mine \in Row /\ task[t].base \in Row
    BY DEF TypeOK, Task
  <2>2. PICK m \in Row : m = Come(task[t].mine, c)
    BY <2>1, ComeType
  <2>3. PICK b \in Row : b = Come(task[t].base, c)
    BY <2>1, ComeType
  <2>4. PICK x \in Task : x = [task[t] EXCEPT !.mine = m]
    BY <2>1 DEF Task
  <2>5. PICK y \in Task : y = [x EXCEPT !.base = b]
    BY DEF Task
  <2>6. task'[t] = y
    BY <2>2, <2>3, <2>4, <2>5 DEF Ripen
  <2>7. y.at = task[t].at /\ y.card = task[t].card /\ y.mine = m /\ y.base = b
    BY <2>1, <2>4, <2>5 DEF Task
  <2> QED BY <2>2, <2>3, <2>6, <2>7
<1>4. row \in Row /\ row' = Come(row, c)
  BY DEF TypeOK, Ripen
<1>5. /\ row'.deal = row.deal /\ row'.noted = row.noted /\ row'.told = row.told
      /\ row'.link = row.link /\ row'.kommo = row.kommo
  BY <1>4, ComeFacts
<1>6. Sound(row)'
  BY <1>1, <1>5 DEF OnceInv, Sound, Still
<1>7. (\A t \in Tasks : ~Works(t)) => Accounts(row)'
  <2>1. PICK q \in Row : q = Come(row, c)
    BY <1>4, ComeType
  <2>2. ASSUME \A t \in Tasks : ~Works(t) PROVE Accounts(q)'
    <3>1. PICK p \in Row : p = row
      BY <1>4
    <3>2. Same(q, p)
      BY <2>1, <3>1, ComeFacts DEF Same
    <3> QED BY <1>1, <2>2, <3>1, <3>2, SameAccounts, StillAccounts DEF OnceInv
  <2> QED BY <1>4, <2>1, <2>2
<1>8. ASSUME NEW t \in Tasks, Works(t) PROVE Accounts(task[t].mine)' /\ Follows(t)'
  <2>1. /\ task[t].mine \in Row /\ task[t].base \in Row
        /\ Accounts(task[t].mine) /\ Follows(t)
    BY <1>8 DEF OnceInv, TypeOK, Task
  <2>2. PICK q \in Row : q = Come(task[t].mine, c)
    BY <2>1, ComeType
  <2>3. PICK m \in Row : m = task[t].mine
    BY <2>1
  <2>4. /\ q.deal = m.deal /\ q.noted = m.noted /\ q.told = m.told /\ q.link = m.link
        /\ q.kommo = m.kommo
    BY <2>2, <2>3, ComeFacts
  <2>5. Accounts(q)'
    BY <1>1, <2>1, <2>3, <2>4, SameAccounts, StillAccounts DEF Same
  <2>6. PICK b \in Row : b = Come(task[t].base, c)
    BY <2>1, ComeType
  <2>7. /\ b.deal = task[t].base.deal /\ b.noted = task[t].base.noted
        /\ b.told = task[t].base.told /\ b.link = task[t].base.link
        /\ b.kommo = task[t].base.kommo
    BY <2>1, <2>6, ComeFacts
  <2>8. Follows(t)'
    BY <1>1, <1>2, <1>5, <2>1, <2>2, <2>3, <2>4, <2>6, <2>7 DEF Follows, Still
  <2> QED BY <1>2, <2>2, <2>5, <2>8
<1>9. Sole' /\ \A t \in Tasks : Works(t)' <=> Works(t)
  BY <1>1, <1>2 DEF OnceInv, Sole, Works
<1>10. Sums'
  BY <1>1, StillSums DEF OnceInv
<1> QED BY <1>1, <1>6, <1>7, <1>8, <1>9, <1>10 DEF OnceInv, Still

\* People, while no job holds the row.
LEMMA PeopleStep ==
    ASSUME TypeOK, OnceInv, People
    PROVE  OnceInv'
<1>1. /\ Still /\ UNCHANGED <<task, claim>> /\ claim # "held"
      /\ row.kommo \in {"unconfirmed", "failed"}
  BY DEF People, retry, close, Still, history, _decided
<1>2. \A t \in Tasks : ~Works(t)
  BY <1>1 DEF OnceInv, Sole
<1>3. PICK q \in Row : q = row
  BY DEF TypeOK
<1>4. /\ Accounts(q) /\ Sums /\ latest \in 0..MaxReplies /\ latest \in Nat
      /\ q.kommo \in {"unconfirmed", "failed"}
      /\ crm \in [deals : Nat, notes : [Replies -> Nat], known : BOOLEAN]
      /\ spilt \in [deal : Nat, note : Nat, word : Nat, half : Nat]
  BY <1>1, <1>2, <1>3 DEF OnceInv, TypeOK
<1>5. ASSUME NEW r \in Row, row' = r, Accounts(r) PROVE OnceInv'
  <2>1. Accounts(r)'
    BY <1>1, <1>5, StillAccounts
  <2>2. Sums'
    BY <1>1, StillSums DEF OnceInv
  <2>3. \A t \in Tasks : ~Works(t)'
    BY <1>1, <1>2 DEF Works
  <2> QED BY <1>1, <1>5, <2>1, <2>2, <2>3 DEF OnceInv, Sole, Still, Accounts
<1>6. CASE retry
  <2>1. PICK a \in Row : a = [q EXCEPT !.kommo = "pending"]
    BY DEF Row
  <2>2. PICK r \in Row : r = [a EXCEPT !.due = "later"]
    BY DEF Row, Due
  <2>3. row' = r
    BY <1>3, <1>6, <2>1, <2>2 DEF retry
  <2>4. /\ r.deal = q.deal /\ r.noted = q.noted /\ r.told = q.told /\ r.link = q.link
        /\ r.kommo = "pending"
    BY <2>1, <2>2 DEF Row
  <2>5. crm.deals = 0 \/ q.deal # NoDeal
    BY <1>3, <1>6 DEF retry
  <2>6. DealsKnown(r)
    BY <1>4, <2>4, <2>5 DEF Accounts, DealsKnown, Known
  <2>7. NotesKnown(r)
    <3>1. CASE q.deal # NoDeal
      BY <1>4, <2>4, <3>1 DEF Accounts, NotesKnown
    <3>2. CASE crm.deals = 0
      BY <1>4, <3>2 DEF NotesKnown, Sums, Lost
    <3> QED BY <2>5, <3>1, <3>2
  <2>8. Sound(r) /\ WordsKnown(r)
    BY <1>4, <2>4 DEF Accounts, Sound, WordsKnown
  <2> QED BY <1>5, <2>3, <2>6, <2>7, <2>8 DEF Accounts
<1>7. ASSUME NEW deal \in 0..MaxFaults + 1, close(deal) PROVE OnceInv'
  <2>0. deal \in Nat
    BY HandoffAssumption
  <2>1. PICK a \in Row : a = [q EXCEPT !.kommo = "done"]
    BY DEF Row
  <2>2. PICK b \in Row : b = [a EXCEPT !.noted = latest]
    BY <1>4 DEF Row
  <2>3. PICK d \in Nat : d = IF deal = NoDeal THEN q.deal ELSE deal
    BY <2>0 DEF Row
  <2>4. PICK c \in Row : c = [b EXCEPT !.deal = d]
    BY DEF Row
  <2>5. PICK e \in Row : e = [c EXCEPT !.telegram_due = "now"]
    BY DEF Row, Due
  <2>6. PICK f \in Row : f = [e EXCEPT !.tries = 0]
    <3>1. 0 \in 0..Tries - 1
      BY HandoffAssumption
    <3> QED BY <3>1 DEF Row
  <2>7. b.deal = q.deal
    BY <2>1, <2>2 DEF Row
  <2>8. row' = c \/ row' = f
    <3>1. c = [row EXCEPT !.kommo = "done", !.noted = latest,
                          !.deal = IF deal = NoDeal THEN @ ELSE deal]
      BY <1>3, <2>1, <2>2, <2>3, <2>4, <2>7
    <3>2. f = [c EXCEPT !.telegram_due = "now", !.tries = 0]
      BY <2>5, <2>6
    <3> QED BY <1>7, <3>1, <3>2 DEF close
  <2>9. PICK r \in Row : row' = r /\ (r = c \/ r = f)
    BY <2>8
  <2>10. /\ r.deal = d /\ r.noted = latest /\ r.told = q.told /\ r.link = q.link
         /\ r.kommo = "done"
    <3>1. /\ c.deal = d /\ c.noted = latest /\ c.told = q.told /\ c.link = q.link
          /\ c.kommo = "done"
      BY <1>4, <2>1, <2>2, <2>3, <2>4 DEF Row
    <3>2. /\ f.deal = c.deal /\ f.noted = c.noted /\ f.told = c.told /\ f.link = c.link
          /\ f.kommo = c.kommo
      BY <2>5, <2>6 DEF Row
    <3> QED BY <2>9, <3>1, <3>2
  <2>11. /\ deal = NoDeal => crm.deals = 0 \/ q.deal # NoDeal
         /\ deal # NoDeal => deal <= crm.deals /\ (q.deal = NoDeal \/ q.deal = deal)
    BY <1>3, <1>7 DEF close
  <2>12. DealsKnown(r)
    BY <1>4, <2>3, <2>10, <2>11 DEF Accounts, DealsKnown, Known
  <2>13. NotesKnown(r)
    BY <1>4, <2>10 DEF NotesKnown, Sums, Lost
  <2>14. Sound(r) /\ WordsKnown(r)
    BY <1>4, <2>3, <2>10, <2>11 DEF Accounts, Sound, WordsKnown
  <2> QED BY <1>5, <2>9, <2>12, <2>13, <2>14 DEF Accounts
<1> QED BY <1>6, <1>7 DEF People

-----------------------------------------------------------------------------
(* The invariant and what follows from it.                                  *)

LEMMA OnceStep ==
    ASSUME TypeOK, OnceInv, [Next]_vars
    PROVE  OnceInv'
<1>1. CASE Queue \/ UNCHANGED vars
  <2>1. Still /\ UNCHANGED <<row, task>> /\ \A t \in Tasks : ~Works(t) \/ claim' = "held"
    BY <1>1 DEF Queue, Busy, Expire, Dead, Works, Still, vars, history, OnceInv, Sole
  <2>2. Same(row, row) /\ row \in Row
    BY DEF Same, TypeOK
  <2> QED BY <2>1, <2>2, QuietRow
<1>2. ASSUME NEW t \in Tasks, Step(t) \/ _release_after_failure(t) \/ Die(t) PROVE OnceInv'
  BY <1>2, CardStep, OffStep, QuietSteps, NewDealStep, LoseDealStep, CommitDealStep, NoteStep,
     PersonalStep, LosePersonalStep, EndSteps, BreakSteps DEF Step
<1> QED
  BY <1>1, <1>2, AnswerStep, StartStep, RipenStep, PeopleStep, ClaimStep DEF Next, Pass

LEMMA OnceInit ==
    ASSUME Init
    PROVE  OnceInv
<1>1. \A t \in Tasks : ~Works(t)
  BY DEF Init, Works, Idle
<1>2. Sums /\ latest >= 1
  BY HandoffAssumption DEF Init, Sums, NotedOnce, ToldOnce
<1>3. Sound(row)
  BY HandoffAssumption DEF Init, Sound, NewRow, NoDeal, NoReply
<1>4. Accounts(row)
  BY <1>3 DEF Init, Accounts, DealsKnown, Known, NotesKnown, Lost, WordsKnown, NewRow, NoDeal,
              NoReply
<1> QED BY <1>1, <1>2, <1>3, <1>4 DEF OnceInv, Sole

LEMMA OnceInvariant == Spec => []OnceInv
<1>1. OnceInv /\ TypeOK /\ [Next]_vars => OnceInv'
  BY OnceStep
<1> QED BY <1>1, OnceInit, TypeCorrect, PTL DEF Spec

\* However often jobs died, were refused and repeated, Kommo has one deal more at
\* most than could not be written down (handoff_kommo.write, _after_lost_answer).
THEOREM OneDealHolds == Spec => []OneDeal
<1>1. TypeOK /\ OnceInv => OneDeal
  <2> SUFFICES ASSUME TypeOK, OnceInv PROVE OneDeal
    OBVIOUS
  <2>1. crm.deals \in Nat /\ spilt.deal \in Nat
    BY DEF TypeOK
  <2>2. \E r : Accounts(r)
    BY DEF OnceInv
  <2> QED BY <2>1, <2>2 DEF Accounts, DealsKnown, Known, OneDeal
<1> QED BY <1>1, OnceInvariant, TypeCorrect, PTL

\* A letter is noted once, also when the answer was lost (handoff_kommo._note).
THEOREM NotedOnceHolds == Spec => []NotedOnce
<1>1. OnceInv => NotedOnce
  BY DEF OnceInv, Sums
<1> QED BY <1>1, OnceInvariant, PTL

\* Of a letter with one link the telemarketer hears once (handoff_telegram.step).
THEOREM ToldOnceHolds == Spec => []ToldOnce
<1>1. OnceInv => ToldOnce
  BY DEF OnceInv, Sums
<1> QED BY <1>1, OnceInvariant, PTL

-----------------------------------------------------------------------------
(* What a person has closed.                                                *)

LEMMA ClosedGoes ==
    ASSUME TypeOK, ClosedInv, NEW t \in Tasks, Works(t), NEW at \in At, NEW mine \in Row,
           at \notin {"deal", "made", "note"}, Goes(t, at, mine),
           UNCHANGED <<row, latest, closed>>,
           mine.kommo = task[t].mine.kommo /\ mine.noted = task[t].mine.noted
    PROVE  ClosedInv'
<1>1. /\ task'[t].at = at /\ task'[t].mine = mine /\ task'[t].base = task[t].base
      /\ \A u \in Tasks \ {t} : task'[u] = task[u]
  BY GoesFacts
<1>2. \A u \in Tasks : Works(u)' => Works(u)
  BY <1>1 DEF Works
<1> QED BY <1>1, <1>2 DEF ClosedInv

LEMMA ClosedEnd ==
    ASSUME TypeOK, ClosedInv, NEW t \in Tasks, task' = [task EXCEPT ![t] = Idle],
           UNCHANGED <<latest, closed>>,
           closed = latest => row'.kommo = "done" /\ row'.noted = latest
    PROVE  ClosedInv'
<1>1. ~Works(t)' /\ \A u \in Tasks \ {t} : task'[u] = task[u]
  BY DEF Works, Idle, TypeOK
<1>2. \A u \in Tasks : Works(u)' => u # t /\ Works(u)
  BY <1>1 DEF Works
<1> QED BY <1>1, <1>2 DEF ClosedInv

LEMMA ClosedRow ==
    ASSUME TypeOK, ClosedInv, UNCHANGED <<task, latest, closed>>,
           row'.kommo = row.kommo /\ row'.noted = row.noted
    PROVE  ClosedInv'
BY DEF ClosedInv, Works

\* A job that would write to Kommo has not read the row as it was closed.
LEMMA ClosedNotWriting ==
    ASSUME TypeOK, ClosedInv, NEW t \in Tasks, task[t].at \in {"deal", "made", "note"},
           UNCHANGED <<latest, closed>>
    PROVE  ClosedInv'
BY DEF ClosedInv, Works

LEMMA ClosedStep ==
    ASSUME TypeOK, OnceInv, ClosedInv, [Next]_vars
    PROVE  ClosedInv'
<1> USE DEF history
<1>a. /\ latest \in Nat /\ closed \in Nat /\ row \in Row
      /\ \A t \in Tasks : task[t] \in Task /\ task[t].mine \in Row /\ task[t].base \in Row
  BY DEF TypeOK, Task
<1>1. CASE Answer
  <2>1. latest' = latest + 1 /\ closed' = closed
    BY <1>1 DEF Answer
  <2>2. closed <= latest
    BY DEF ClosedInv
  <2> QED BY <1>a, <2>1, <2>2 DEF ClosedInv
<1>2. CASE start
  <2>1. PICK r \in Row : r = Reopened(row, latest)
    BY <1>a, ReopenedType
  <2>2. r.noted = row.noted /\ (row.noted = latest => r.kommo = row.kommo)
    BY <1>a, <2>1, ReopenedFacts DEF fresh
  <2>3. \/ row' = row
        \/ row' = [r EXCEPT !.due = "later"]
    BY <1>2, <2>1 DEF start
  <2>4. row'.noted = row.noted /\ (row.noted = latest => row'.kommo = row.kommo)
    BY <2>2, <2>3 DEF Row
  <2>5. UNCHANGED <<task, latest, closed>>
    BY <1>2 DEF start
  <2> QED BY <2>4, <2>5 DEF ClosedInv, Works
<1>3. CASE due \/ message_due
  BY <1>3, <1>a, ClosedRow DEF due, message_due, _take, Row
<1>4. ASSUME NEW c \in {"due", "telegram_due"}, Ripen(c) PROVE ClosedInv'
  <2>1. row'.kommo = row.kommo /\ row'.noted = row.noted
    BY <1>4, <1>a, ComeFacts DEF Ripen
  <2>2. UNCHANGED <<latest, closed>>
    BY <1>4 DEF Ripen
  <2>3. ASSUME NEW t \in Tasks
        PROVE  /\ task'[t].at = task[t].at
               /\ task'[t].mine.kommo = task[t].mine.kommo /\ task'[t].mine.noted = task[t].mine.noted
               /\ task'[t].base.kommo = task[t].base.kommo /\ task'[t].base.noted = task[t].base.noted
    <3>1. PICK m \in Row : m = Come(task[t].mine, c)
      BY <1>a, ComeType
    <3>2. PICK b \in Row : b = Come(task[t].base, c)
      BY <1>a, ComeType
    <3>3. PICK x \in Task : x = [task[t] EXCEPT !.mine = m]
      BY <1>a DEF Task
    <3>4. PICK y \in Task : y = [x EXCEPT !.base = b]
      BY DEF Task
    <3>5. task'[t] = y
      BY <1>4, <3>1, <3>2, <3>3, <3>4 DEF Ripen
    <3>6. y.at = task[t].at /\ y.mine = m /\ y.base = b
      BY <1>a, <3>3, <3>4 DEF Task
    <3>7. /\ m.kommo = task[t].mine.kommo /\ m.noted = task[t].mine.noted
          /\ b.kommo = task[t].base.kommo /\ b.noted = task[t].base.noted
      BY <1>a, <3>1, <3>2, ComeFacts
    <3> QED BY <3>5, <3>6, <3>7
  <2> QED BY <2>1, <2>2, <2>3 DEF ClosedInv, Works
<1>5. CASE Queue \/ UNCHANGED vars
  BY <1>5, ClosedRow DEF Queue, Busy, Expire, vars
<1>6. ASSUME NEW t \in Tasks, NEW kind \in Kinds, _claim(t, kind) PROVE ClosedInv'
  <2>1. /\ task'[t].at = "claimed" /\ task'[t].mine = row /\ task'[t].base = row
        /\ \A u \in Tasks \ {t} : task'[u] = task[u]
        /\ UNCHANGED <<row, latest, closed>>
    BY <1>6 DEF _claim, TypeOK
  <2> QED BY <2>1 DEF ClosedInv, Works
<1>7. ASSUME NEW t \in Tasks, card_of(t) PROVE ClosedInv'
  <2>1. PICK mine \in Row : mine = IF task[t].kind = "whole" THEN Reopened(task[t].mine, latest)
                                   ELSE task[t].mine
    BY <1>a, ReopenedType
  <2>2. /\ mine.noted = task[t].mine.noted
        /\ task[t].mine.noted = latest => mine.kommo = task[t].mine.kommo
    BY <1>a, <2>1, ReopenedFacts DEF fresh
  <2>3. PICK at \in At :
          at = IF task[t].kind = "message" \/ mine.kommo \notin WORK THEN "message"
               ELSE IF mine.deal = NoDeal THEN "deal" ELSE "note"
    BY DEF At
  <2>4. task' = [task EXCEPT ![t].at = at, ![t].mine = mine, ![t].card = latest]
    BY <1>7, <2>1, <2>3 DEF card_of
  <2>5. PICK x \in Task : x = [task[t] EXCEPT !.at = at]
    BY <1>a DEF Task, At
  <2>6. PICK y \in Task : y = [x EXCEPT !.mine = mine]
    BY DEF Task
  <2>7. PICK z : z = [y EXCEPT !.card = latest]
    OBVIOUS
  <2>8. task' = [task EXCEPT ![t] = z]
    BY <2>4, <2>5, <2>6, <2>7
  <2>9. z.at = at /\ z.mine = mine /\ z.base = task[t].base
    BY <1>a, <2>5, <2>6, <2>7 DEF Task
  <2>10. /\ task'[t].at = at /\ task'[t].mine = mine /\ task'[t].base = task[t].base
         /\ \A u \in Tasks \ {t} : task'[u] = task[u]
    BY <2>8, <2>9 DEF TypeOK
  <2>11. Works(t) /\ UNCHANGED <<row, latest, closed>>
    BY <1>7 DEF card_of, Works
  <2> QED BY <2>2, <2>3, <2>10, <2>11 DEF ClosedInv, Works, WORK
<1>8. ASSUME NEW t \in Tasks,
             Off(t) \/ Refusal(t) \/ _new_deal(t) \/ LoseDeal(t) \/ CommitDeal(t)
               \/ NothingToNote(t) \/ _note(t)
      PROVE  ClosedInv'
  BY <1>8, ClosedNotWriting
     DEF Off, Refusal, _new_deal, LoseDeal, CommitDeal, NothingToNote, _note
<1>9. ASSUME NEW t \in Tasks,
             NothingToSay(t) \/ _personal(t) \/ LosePersonal(t) \/ _group_copy(t)
      PROVE  ClosedInv'
  <2>1. Works(t) /\ UNCHANGED <<row, latest, closed>>
    BY <1>9 DEF NothingToSay, _personal, LosePersonal, _group_copy, Works
  <2>2. \E mine \in Row : /\ Goes(t, "last", mine)
                          /\ mine.kommo = task[t].mine.kommo /\ mine.noted = task[t].mine.noted
    <3>m. PICK m \in Row : m = task[t].mine
      BY <1>a
    <3>1. CASE NothingToSay(t)
      BY <3>1, <3>m DEF NothingToSay
    <3>2. CASE _group_copy(t)
      BY <3>2, <3>m, SettledType, SettledFacts, AfterFailureType, AfterFailureFacts DEF _group_copy
    <3>3. CASE _personal(t)
      <4>1. PICK a \in Row : a = [m EXCEPT !.telegram = "sent"]
        BY DEF Row
      <4>2. PICK b \in Row : b = [a EXCEPT !.link = LinkOf(task[t])]
        BY DEF Row, LinkOf
      <4>3. PICK c \in Row : c = [b EXCEPT !.told = task[t].card]
        BY DEF Row, TypeOK, Task
      <4>4. c.kommo = m.kommo /\ c.noted = m.noted
        BY <4>1, <4>2, <4>3 DEF Row
      <4>5. Told(task[t]) = _settled(c)
        BY <3>m, <4>1, <4>2, <4>3 DEF Told
      <4>6. PICK d \in Row : d = _settled(c) /\ d.kommo = c.kommo /\ d.noted = c.noted
        BY SettledType, SettledFacts
      <4>7. PICK e \in Row : /\ e = after_failure(d, FALSE, FALSE)
                            /\ e.kommo = d.kommo /\ e.noted = d.noted
        BY AfterFailureType, AfterFailureFacts
      <4>8. Goes(t, "last", d) \/ Goes(t, "last", e)
        BY <3>3, <4>5, <4>6, <4>7 DEF _personal
      <4> QED BY <3>m, <4>4, <4>6, <4>7, <4>8
    <3>4. CASE LosePersonal(t)
      <4>1. PICK r \in Row : /\ r = IF m.telegram = "undelivered" THEN m ELSE _settled(m)
                            /\ r.kommo = m.kommo /\ r.noted = m.noted
        BY SettledType, SettledFacts
      <4>2. PICK permanent \in BOOLEAN :
              Goes(t, "last", [after_failure(r, permanent, Said(m)) EXCEPT !.telegram = "undelivered"])
        BY <3>4, <3>m, <4>1 DEF LosePersonal
      <4>3. PICK said \in BOOLEAN : said = Said(m)
        BY DEF Said
      <4>4. PICK a \in Row : /\ a = after_failure(r, permanent, said)
                            /\ a.kommo = r.kommo /\ a.noted = r.noted
        BY AfterFailureType, AfterFailureFacts
      <4>5. PICK b \in Row : b = [a EXCEPT !.telegram = "undelivered"]
        BY DEF Row
      <4>6. b.kommo = a.kommo /\ b.noted = a.noted
        BY <4>5 DEF Row
      <4> QED BY <3>m, <4>1, <4>2, <4>3, <4>4, <4>5, <4>6
    <3> QED BY <1>9, <3>1, <3>2, <3>3, <3>4
  <2> QED BY <2>1, <2>2, ClosedGoes DEF At
<1>10. ASSUME NEW t \in Tasks, Finish(t) \/ Look(t) \/ Close(t) PROVE ClosedInv'
  <2>1. Works(t) /\ Accounts(task[t].mine) /\ task[t].mine.noted <= latest
    BY <1>10 DEF Finish, Look, Close, Works, OnceInv, Accounts, Sound
  <2>2. PICK left \in Row :
          /\ (Look(t) /\ Goes(t, "closing", left)) \/ Commit(t, left)
          /\ left.noted = task[t].mine.noted
          /\ left.noted = latest => left.kommo = task[t].mine.kommo
    BY <1>10, <1>a, <2>1, LeftFacts DEF Finish, Look, Close, Same
  <2>3. CASE Look(t) /\ Goes(t, "closing", left)
    <3>1. UNCHANGED <<row, latest, closed>>
      BY <2>3 DEF Look
    <3>2. CASE left.kommo = task[t].mine.kommo
      BY <2>1, <2>2, <2>3, <3>1, <3>2, ClosedGoes DEF At
    <3>3. CASE left.kommo # task[t].mine.kommo
      BY <2>1, <2>2, <3>1, <3>3 DEF ClosedInv
    <3> QED BY <3>2, <3>3
  <2>4. CASE Commit(t, left)
    <3>1. UNCHANGED <<latest, closed>> /\ task' = [task EXCEPT ![t] = Idle]
      BY <2>4 DEF Commit
    <3>2. PICK q \in Row : /\ q = Flushed(task[t]) /\ q.noted = task[t].mine.noted
                          /\ q.kommo = IF task[t].mine.kommo # task[t].base.kommo
                                       THEN task[t].mine.kommo ELSE row.kommo
      BY <2>1, FlushedFacts
    <3>3. {"kommo", "noted"} \subseteq DOMAIN row
      BY <1>a DEF Row
    <3>4. /\ row'.noted = IF left.noted # task[t].mine.noted THEN left.noted ELSE q.noted
          /\ row'.kommo = IF left.kommo # task[t].mine.kommo THEN left.kommo ELSE q.kommo
      BY <2>4, <3>2, <3>3 DEF Commit
    <3>5. closed = latest => row'.kommo = "done" /\ row'.noted = latest
      BY <2>1, <2>2, <3>2, <3>4 DEF ClosedInv
    <3> QED BY <3>1, <3>5, ClosedEnd
  <2> QED BY <2>2, <2>3, <2>4
<1>11. ASSUME NEW t \in Tasks, _release_after_failure(t) \/ Die(t) PROVE ClosedInv'
  <2>1. /\ Works(t) /\ UNCHANGED <<latest, closed>> /\ task' = [task EXCEPT ![t] = Idle]
        /\ row' = row \/ row' = Flushed(task[t])
    BY <1>11 DEF _release_after_failure, Die, Works
  <2>2. PICK q \in Row : /\ q = Flushed(task[t]) /\ q.noted = task[t].mine.noted
                        /\ q.kommo = IF task[t].mine.kommo # task[t].base.kommo
                                     THEN task[t].mine.kommo ELSE row.kommo
    BY <2>1, FlushedFacts
  <2>3. closed = latest => row'.kommo = "done" /\ row'.noted = latest
    BY <2>1, <2>2 DEF ClosedInv
  <2> QED BY <2>1, <2>3, ClosedEnd
<1>12. CASE retry
  BY <1>12 DEF retry, _decided, ClosedInv
<1>13. ASSUME NEW deal \in 0..MaxFaults + 1, close(deal) PROVE ClosedInv'
  <2>1. \A t \in Tasks : ~Works(t)
    BY <1>13 DEF close, _decided, OnceInv, Sole
  <2>2. \A t \in Tasks : ~Works(t)'
    BY <1>13, <2>1 DEF close, Works
  <2>3. closed' = latest /\ latest' = latest
    BY <1>13 DEF close
  <2>4. row'.kommo = "done" /\ row'.noted = latest
    <3>1. PICK a \in Row : a = [row EXCEPT !.kommo = "done"]
      BY <1>a DEF Row
    <3>2. PICK b \in Row : b = [a EXCEPT !.noted = latest]
      BY DEF Row, TypeOK
    <3>3. PICK d \in Nat : d = IF deal = NoDeal THEN b.deal ELSE deal
      BY HandoffAssumption DEF Row
    <3>4. PICK c \in Row : c = [b EXCEPT !.deal = d]
      BY DEF Row
    <3>5. PICK e : e = [c EXCEPT !.telegram_due = "now"]
      OBVIOUS
    <3>6. PICK f : f = [e EXCEPT !.tries = 0]
      OBVIOUS
    <3>7. c = [row EXCEPT !.kommo = "done", !.noted = latest,
                          !.deal = IF deal = NoDeal THEN @ ELSE deal]
      BY <3>1, <3>2, <3>3, <3>4
    <3>8. f = [c EXCEPT !.telegram_due = "now", !.tries = 0]
      BY <3>5, <3>6
    <3>9. row' = c \/ row' = f
      BY <1>13, <3>7, <3>8 DEF close
    <3>10. /\ c.kommo = "done" /\ c.noted = latest /\ f.kommo = "done" /\ f.noted = latest
      BY <1>a, <3>1, <3>2, <3>4, <3>5, <3>6 DEF Row
    <3> QED BY <3>9, <3>10
  <2> QED BY <1>a, <2>2, <2>3, <2>4 DEF ClosedInv
<1> QED
  BY <1>1, <1>2, <1>3, <1>4, <1>5, <1>6, <1>7, <1>8, <1>9, <1>10, <1>11, <1>12, <1>13
     DEF Next, Pass, People, Step

\* What a person has closed stays closed until the lead writes again
\* (handoff_console.close against jobs, passes and late starts).
THEOREM ClosedStaysClosedHolds == Spec => []ClosedStaysClosed
<1>1. Init => ClosedInv
  BY DEF Init, ClosedInv, NoReply
<1>2. TypeOK /\ OnceInv /\ ClosedInv /\ [Next]_vars => ClosedInv'
  BY ClosedStep
<1>3. ClosedInv => ClosedStaysClosed
  BY DEF ClosedInv, ClosedStaysClosed
<1> QED BY <1>1, <1>2, <1>3, TypeCorrect, OnceInvariant, PTL DEF Spec

-----------------------------------------------------------------------------
(* Dates.  WorkIsDated is not inductive: a job may write open work that its  *)
(* copy holds over a row without a date.  So the date is there while a job   *)
(* of the whole hand-over waits or works (Waits), and of each job it is said *)
(* what its copy may yet do to the row (Copies).                             *)

HasDate == row.due # "none" \/ wiped # {}

Dated == asked = latest /\ Open => HasDate

Waits ==
    "whole" \in jobs \/ (\E t \in Tasks : Works(t) /\ task[t].kind = "whole") => HasDate

\* Nothing to do for whom the letters up to card are known.
Rested(m, card) == m.kommo \notin WORK /\ (m.telegram = "pending" => m.told = card)

\* Whoever has a link was told of a letter.
Spoken(r) == r.link # "none" => r.told # NoReply

Copies(t) ==
    LET s == task[t]
    IN /\ s.since <= asked /\ Spoken(s.mine)
       /\ s.since = asked => row.kommo = s.base.kommo /\ row.telegram = s.base.telegram
       /\ s.mine.told \in {s.base.told, s.card}
       /\ s.at = "claimed" => s.mine.told = s.base.told
       /\ s.at # "claimed" => s.since <= s.card /\ s.base.told <= s.card
       /\ s.at \in {"deal", "made", "note"} => s.kind = "whole"
       /\ s.at # "closing" => s.mine.due = s.base.due
       /\ s.kind = "message" /\ s.at # "closing" =>
            /\ s.mine.kommo = s.base.kommo
            /\ s.mine.telegram = "pending" => s.base.telegram = "pending"
       /\ s.at = "last" /\ s.mine.telegram = "pending" =>
            s.mine.told = s.card \/ s.mine.telegram_due # "none"
       /\ s.at = "closing" /\ s.mine.due = "none" /\ s.card = latest => Rested(s.mine, s.card)

DateInv == Dated /\ Waits /\ Spoken(row) /\ \A t \in Tasks : Works(t) => Copies(t)

\* What the operators do to the columns that dates depend on.
LEMMA ReopenedDates ==
    ASSUME NEW r \in Row, NEW reply
    PROVE  LET q == Reopened(r, reply)
           IN /\ q.due = r.due /\ q.told = r.told /\ q.telegram_due = r.telegram_due
              /\ q.telegram = IF news(r, reply) /\ r.telegram = "sent" THEN "pending" ELSE r.telegram
<1>1. PICK a \in Row : a = [r EXCEPT !.kommo = IF fresh(r, reply) /\ @ \in REOPENED_BY_ANSWER
                                               THEN "pending" ELSE @]
  BY DEF Row
<1>2. PICK b \in Row : b = [a EXCEPT !.telegram = IF news(r, reply) /\ @ = "sent"
                                                  THEN "pending" ELSE @]
  BY DEF Row
<1>3. b = Reopened(r, reply)
  BY <1>1, <1>2 DEF Reopened
<1>4. /\ a.due = r.due /\ a.told = r.told /\ a.telegram_due = r.telegram_due
      /\ a.telegram = r.telegram
  BY <1>1 DEF Row
<1>5. /\ b.due = a.due /\ b.told = a.told /\ b.telegram_due = a.telegram_due
      /\ b.telegram = IF news(r, reply) /\ a.telegram = "sent" THEN "pending" ELSE a.telegram
  BY <1>2 DEF Row
<1> QED BY <1>3, <1>4, <1>5

LEMMA SettledDates ==
    ASSUME NEW r \in Row
    PROVE  LET q == _settled(r)
           IN q.due = r.due /\ q.told = r.told /\ q.telegram = r.telegram
BY DEF _settled, Row

LEMMA AfterFailureDates ==
    ASSUME NEW r \in Row, NEW permanent \in BOOLEAN, NEW told \in BOOLEAN
    PROVE  LET q == after_failure(r, permanent, told)
           IN q.due = r.due /\ q.told = r.told /\ q.telegram = r.telegram
<1>1. CASE permanent \/ told \/ r.tries + 1 >= Tries
  BY <1>1, SettledDates DEF after_failure
<1>2. CASE ~(permanent \/ told \/ r.tries + 1 >= Tries)
  BY <1>2 DEF after_failure, Row
<1> QED BY <1>1, <1>2

LEMMA ComeDates ==
    ASSUME NEW r \in Row, NEW c \in {"due", "telegram_due"}
    PROVE  LET q == Come(r, c)
           IN /\ q.told = r.told /\ q.telegram = r.telegram /\ q.kommo = r.kommo
              /\ q.due = "none" <=> r.due = "none"
              /\ q.telegram_due = "none" <=> r.telegram_due = "none"
BY DEF Come, Row

\* What a job leaves is dated, or there was nothing to do.
LEMMA LeftDates ==
    ASSUME TypeOK, NEW s \in Task
    PROVE  /\ Left(s) \in Row /\ Left(s).told = s.mine.told
           /\ s.card = latest => Left(s).kommo = s.mine.kommo /\ Left(s).telegram = s.mine.telegram
           /\ s.card = latest /\ Left(s).due = "none" =>
                s.mine.kommo \notin WORK /\ s.mine.telegram_due = "none"
<1>1. s.mine \in Row
  BY DEF Task
<1>2. PICK r \in Row : r = IF latest # s.card THEN Reopened(s.mine, latest) ELSE s.mine
  BY <1>1, ReopenedType
<1>3. r.told = s.mine.told
  BY <1>1, <1>2, ReopenedDates
<1>4. PICK d \in Due : d = _due_after(r, _answered_meanwhile(s))
  BY DEF _due_after, Row, Due
<1>5. Left(s) = [r EXCEPT !.due = d]
  BY <1>2, <1>4 DEF Left
<1>6. /\ Left(s) \in Row /\ Left(s).told = r.told /\ Left(s).kommo = r.kommo
      /\ Left(s).telegram = r.telegram /\ Left(s).due = d
  BY <1>5 DEF Row
<1>7. d = "none" => r.kommo \notin WORK /\ r.telegram_due = "none"
  BY <1>4 DEF _due_after, WORK
<1> QED BY <1>2, <1>3, <1>6, <1>7

\* A job goes on with its copy; nobody else sees anything of it.
LEMMA DateGoes ==
    ASSUME TypeOK, OnceInv, DateInv, NEW t \in Tasks, Works(t), task[t].at # "claimed",
           NEW at \in At, NEW mine \in Row, at \notin {"idle", "claimed"}, Goes(t, at, mine),
           UNCHANGED <<row, latest, asked, jobs, wiped>>, Spoken(mine),
           mine.told \in {task[t].base.told, task[t].card},
           at \in {"deal", "made", "note"} => task[t].kind = "whole",
           at # "closing" => mine.due = task[t].base.due,
           task[t].kind = "message" /\ at # "closing" =>
             /\ mine.kommo = task[t].base.kommo
             /\ mine.telegram = "pending" => task[t].base.telegram = "pending",
           at = "last" /\ mine.telegram = "pending" =>
             mine.told = task[t].card \/ mine.telegram_due # "none",
           at = "closing" /\ mine.due = "none" /\ task[t].card = latest => Rested(mine, task[t].card)
    PROVE  DateInv'
<1>1. /\ task'[t].at = at /\ task'[t].mine = mine /\ task'[t].base = task[t].base
      /\ task'[t].card = task[t].card /\ task'[t].kind = task[t].kind
      /\ task'[t].since = task[t].since
      /\ \A u \in Tasks \ {t} : task'[u] = task[u]
  BY GoesTask DEF TypeOK
<1>2. Copies(t)
  BY DEF DateInv
<1>3. \A u \in Tasks \ {t} : ~Works(u)
  BY DEF OnceInv, Sole
<1>4. \A u \in Tasks : Works(u)' => u = t
  BY <1>1, <1>3 DEF Works
<1>5. Copies(t)'
  BY <1>1, <1>2 DEF Copies, Rested, Spoken
<1>6. Dated'
  BY DEF DateInv, Dated, Open, HasDate
<1>7. Waits'
  BY <1>1, <1>4 DEF DateInv, Waits, HasDate, Works
<1> QED BY <1>4, <1>5, <1>6, <1>7 DEF DateInv, Spoken

\* The steps of a job before its last commit.
LEMMA KommoDates ==
    ASSUME TypeOK, OnceInv, DateInv, NEW t \in Tasks, task[t].at \in {"deal", "note"},
           NEW at \in {"message", "made"}, NEW mine \in Row, Goes(t, at, mine),
           mine.told = task[t].mine.told, mine.due = task[t].mine.due,
           mine.link = task[t].mine.link,
           UNCHANGED <<row, latest, asked, jobs, wiped>>
    PROVE  DateInv'
<1>1. Works(t) /\ Copies(t)
  BY DEF Works, DateInv
<1>2. task[t].kind = "whole" /\ task[t].mine.due = task[t].base.due /\ Spoken(mine)
      /\ mine.told \in {task[t].base.told, task[t].card}
  BY <1>1 DEF Copies, Spoken
<1> QED BY <1>1, <1>2, DateGoes DEF At

LEMMA WriteDates ==
    ASSUME TypeOK, OnceInv, DateInv, NEW t \in Tasks,
           Off(t) \/ Refusal(t) \/ _new_deal(t) \/ LoseDeal(t) \/ NothingToNote(t) \/ _note(t)
    PROVE  DateInv'
<1>1. /\ task[t].at \in {"deal", "note"} /\ UNCHANGED <<row, latest, asked, jobs, wiped>>
  BY DEF Off, Refusal, _new_deal, LoseDeal, NothingToNote, _note, history
<1>2. PICK m \in Row : m = task[t].mine
  BY DEF TypeOK, Task
<1>3. task[t].card \in 0..MaxReplies /\ crm.deals \in Nat
  BY DEF TypeOK, Task
<1>4. \E at \in {"message", "made"}, mine \in Row :
        /\ Goes(t, at, mine)
        /\ mine.told = m.told /\ mine.due = m.due /\ mine.link = m.link
  <2>1. CASE Off(t)
    <3>1. PICK a \in Row : a = [m EXCEPT !.kommo = "off", !.noted = task[t].card]
      BY <1>3 DEF Row
    <3>2. a.told = m.told /\ a.due = m.due /\ a.link = m.link
      BY <3>1 DEF Row
    <3> QED BY <1>2, <2>1, <3>1, <3>2 DEF Off
  <2>2. CASE Refusal(t) \/ LoseDeal(t)
    <3>1. PICK state \in {"retry", "failed", "unconfirmed"} :
            Goes(t, "message", [m EXCEPT !.kommo = state])
      BY <1>2, <2>2 DEF Refusal, LoseDeal, _after_lost_answer
    <3>2. PICK a \in Row : a = [m EXCEPT !.kommo = state]
      BY DEF Row
    <3>3. a.told = m.told /\ a.due = m.due /\ a.link = m.link
      BY <3>2 DEF Row
    <3> QED BY <3>1, <3>2, <3>3
  <2>3. CASE _new_deal(t)
    <3>1. PICK n \in 0..MaxReplies : n = IF Carried(task[t].card) THEN task[t].card ELSE m.noted
      BY <1>3 DEF Row
    <3>0. PICK d \in Nat : d = crm.deals + 1
      BY <1>3
    <3>2. PICK a \in Row : a = [m EXCEPT !.deal = d]
      BY DEF Row
    <3>3. PICK b \in Row : b = [a EXCEPT !.noted = n]
      BY DEF Row
    <3>4. b.told = m.told /\ b.due = m.due /\ b.link = m.link
      BY <3>2, <3>3 DEF Row
    <3>6. Goes(t, "made", [m EXCEPT !.deal = crm.deals + 1,
                                     !.noted = IF Carried(task[t].card) THEN task[t].card ELSE @])
      BY <1>2, <2>3 DEF _new_deal
    <3>7. [m EXCEPT !.deal = crm.deals + 1,
                    !.noted = IF Carried(task[t].card) THEN task[t].card ELSE @] = b
      BY <3>0, <3>1, <3>2, <3>3 DEF Row
    <3> QED BY <3>4, <3>6, <3>7
  <2>4. CASE NothingToNote(t)
    <3>1. PICK n \in 0..MaxReplies : n = IF task[t].card = NoReply THEN m.noted ELSE task[t].card
      BY <1>3 DEF Row
    <3>2. PICK b \in Row : b = [m EXCEPT !.kommo = "done", !.noted = n]
      BY DEF Row
    <3>3. b.told = m.told /\ b.due = m.due /\ b.link = m.link
      BY <3>2 DEF Row
    <3>4. Goes(t, "message", b)
      BY <1>2, <2>4, <3>1, <3>2 DEF NothingToNote
    <3> QED BY <3>3, <3>4
  <2>5. CASE _note(t)
    <3>1. PICK a \in Row : a = [m EXCEPT !.kommo = "done", !.noted = task[t].card]
      BY <1>3 DEF Row
    <3>2. a.told = m.told /\ a.due = m.due /\ a.link = m.link
      BY <3>1 DEF Row
    <3>3. Goes(t, "message", a)
      BY <1>2, <2>5, <3>1 DEF _note
    <3> QED BY <3>2, <3>3
  <2> QED BY <2>1, <2>2, <2>3, <2>4, <2>5
<1>5. PICK at \in {"message", "made"}, mine \in Row :
        /\ Goes(t, at, mine)
        /\ mine.told = m.told /\ mine.due = m.due /\ mine.link = m.link
  BY <1>4
<1> QED BY <1>1, <1>2, <1>5, KommoDates

LEMMA SayDates ==
    ASSUME TypeOK, OnceInv, DateInv, NEW t \in Tasks,
           NothingToSay(t) \/ _personal(t) \/ LosePersonal(t) \/ _group_copy(t)
    PROVE  DateInv'
<1>1. /\ task[t].at = "message" /\ Works(t) /\ UNCHANGED <<row, latest, asked, jobs, wiped>>
  BY DEF NothingToSay, _personal, LosePersonal, _group_copy, Works, history
<1>2. PICK m \in Row : m = task[t].mine
  BY DEF TypeOK, Task
<1>3. Copies(t) /\ task[t].card \in Replies /\ task[t].card # NoReply
  BY <1>1, AtWork DEF DateInv, Replies, NoReply
<1>4. ~Owed(task[t]) => m.told = task[t].card
  <2>1. LinkOf(task[t]) # "none"
    BY DEF LinkOf
  <2> QED BY <1>2, <1>3, <2>1 DEF Owed, news, Copies, Spoken
<1>5. ASSUME NEW mine \in Row, Goes(t, "last", mine), Spoken(mine), mine.due = m.due,
             mine.told \in {m.told, task[t].card}, mine.kommo = m.kommo,
             mine.telegram = "pending" => m.telegram = "pending"
               /\ (mine.told = task[t].card \/ mine.telegram_due # "none")
      PROVE  DateInv'
  BY <1>1, <1>2, <1>3, <1>5, DateGoes DEF At, Copies
<1>6. CASE NothingToSay(t)
  BY <1>2, <1>3, <1>4, <1>5, <1>6 DEF NothingToSay, Early, Copies
<1>7. CASE _group_copy(t)
  <2>1. m.told = task[t].card
    BY <1>4, <1>7 DEF _group_copy
  <2>2. PICK a \in Row : a \in {_settled(m), after_failure(m, FALSE, FALSE)} /\ Goes(t, "last", a)
    BY <1>2, <1>7, SettledType, AfterFailureType DEF _group_copy
  <2>3. /\ a.due = m.due /\ a.told = m.told /\ a.telegram = m.telegram
        /\ a.kommo = m.kommo /\ a.link = m.link
    <3>1. CASE a = _settled(m)
      BY <3>1, SettledDates, SettledFacts
    <3>2. CASE a = after_failure(m, FALSE, FALSE)
      BY <3>2, AfterFailureDates, AfterFailureFacts
    <3> QED BY <2>2, <3>1, <3>2
  <2>4. Spoken(a)
    BY <1>2, <1>3, <2>3 DEF Copies, Spoken
  <2> QED BY <1>5, <2>1, <2>2, <2>3, <2>4
<1>8. CASE _personal(t)
  <2>1. PICK a \in Row : a = [m EXCEPT !.telegram = "sent"]
    BY DEF Row
  <2>2. PICK b \in Row : b = [a EXCEPT !.link = LinkOf(task[t])]
    BY DEF Row, LinkOf
  <2>3. PICK c \in Row : c = [b EXCEPT !.told = task[t].card]
    BY DEF Row, TypeOK, Task
  <2>4. /\ c.kommo = m.kommo /\ c.due = m.due /\ c.telegram = "sent" /\ c.told = task[t].card
    BY <2>1, <2>2, <2>3 DEF Row
  <2>5. Told(task[t]) = _settled(c)
    BY <1>2, <2>1, <2>2, <2>3 DEF Told
  <2>6. PICK d \in Row : /\ d = _settled(c) /\ d.kommo = c.kommo /\ d.due = c.due
                        /\ d.telegram = c.telegram /\ d.told = c.told
    BY SettledType, SettledFacts, SettledDates
  <2>7. PICK e \in Row : /\ e = after_failure(d, FALSE, FALSE) /\ e.kommo = d.kommo
                        /\ e.due = d.due /\ e.telegram = d.telegram /\ e.told = d.told
    BY AfterFailureType, AfterFailureFacts, AfterFailureDates
  <2>8. Goes(t, "last", d) \/ Goes(t, "last", e)
    BY <1>8, <2>5, <2>6, <2>7 DEF _personal
  <2> QED BY <1>3, <1>5, <2>4, <2>6, <2>7, <2>8 DEF Spoken
<1>9. CASE LosePersonal(t)
  <2>1. PICK r \in Row : /\ r = IF m.telegram = "undelivered" THEN m ELSE _settled(m)
                        /\ r.kommo = m.kommo /\ r.due = m.due /\ r.told = m.told /\ r.link = m.link
    BY SettledType, SettledFacts, SettledDates
  <2>2. PICK permanent \in BOOLEAN :
          Goes(t, "last", [after_failure(r, permanent, Said(m)) EXCEPT !.telegram = "undelivered"])
    BY <1>9, <1>2, <2>1 DEF LosePersonal
  <2>3. PICK said \in BOOLEAN : said = Said(m)
    BY DEF Said
  <2>4. PICK a \in Row : /\ a = after_failure(r, permanent, said)
                        /\ a.kommo = r.kommo /\ a.due = r.due /\ a.told = r.told /\ a.link = r.link
    BY AfterFailureType, AfterFailureFacts, AfterFailureDates
  <2>5. PICK b \in Row : b = [a EXCEPT !.telegram = "undelivered"]
    BY DEF Row
  <2>6. /\ b.kommo = a.kommo /\ b.due = a.due /\ b.told = a.told /\ b.link = a.link
        /\ b.telegram = "undelivered"
    BY <2>5 DEF Row
  <2>7. Spoken(b)
    BY <1>2, <1>3, <2>1, <2>4, <2>6 DEF Copies, Spoken
  <2>8. Goes(t, "last", b)
    BY <2>2, <2>3, <2>4, <2>5
  <2> QED BY <1>5, <2>1, <2>4, <2>6, <2>7, <2>8
<1> QED BY <1>6, <1>7, <1>8, <1>9

LEMMA LookDates ==
    ASSUME TypeOK, OnceInv, DateInv, NEW t \in Tasks, Look(t)
    PROVE  DateInv'
<1>1. /\ task[t].at = "last" /\ Works(t) /\ UNCHANGED <<row, latest, asked, jobs, wiped>>
  BY DEF Look, Works, history
<1>2. PICK s \in Task : s = task[t]
  BY DEF TypeOK
<1>3. Copies(t) /\ s.mine \in Row /\ s.mine.noted <= latest
  BY <1>1, <1>2 DEF DateInv, OnceInv, Accounts, Sound, Task
<1>4. PICK left \in Row : left = Left(s)
  BY <1>2, LeftDates
<1>5. /\ left.told = s.mine.told /\ left.link = s.mine.link
      /\ s.card = latest => left.kommo = s.mine.kommo /\ left.telegram = s.mine.telegram
      /\ s.card = latest /\ left.due = "none" =>
           s.mine.kommo \notin WORK /\ s.mine.telegram_due = "none"
  BY <1>3, <1>4, LeftDates, LeftFacts DEF Same
<1>6. Spoken(left) /\ left.told \in {s.base.told, s.card}
  BY <1>2, <1>3, <1>5 DEF Copies, Spoken
<1>7. left.due = "none" /\ s.card = latest => Rested(left, s.card)
  BY <1>1, <1>2, <1>3, <1>5 DEF Copies, Rested
<1> QED BY <1>1, <1>2, <1>4, <1>6, <1>7, DateGoes DEF Look, At

\* A step that writes no copy, and no more of the row than its dates and what a
\* start has opened.
LEMMA DateRow ==
    ASSUME TypeOK, OnceInv, DateInv, UNCHANGED <<task, asked, wiped>>, latest' >= latest,
           latest \in Nat, latest' \in Nat,
           row'.told = row.told, row'.link = row.link,
           (row'.kommo = row.kommo /\ row'.telegram = row.telegram) \/ \A t \in Tasks : ~Works(t),
           row.due # "none" => row'.due # "none",
           asked = latest' /\ Open' => HasDate',
           "whole" \in jobs' => "whole" \in jobs \/ row'.due # "none"
    PROVE  DateInv'
<1>1. HasDate => HasDate'
  BY DEF HasDate
<1>2. \A t \in Tasks : (Works(t)' <=> Works(t)) /\ task'[t] = task[t]
  BY DEF Works
<1>3. Waits'
  BY <1>1, <1>2 DEF DateInv, Waits, HasDate
<1>4. ASSUME NEW t \in Tasks, Works(t) PROVE Copies(t)'
  <2>1. Copies(t) /\ task[t].card \in Nat
    BY <1>4, HandoffAssumption DEF DateInv, TypeOK, Task
  <2>2. task[t].at = "closing" /\ task[t].mine.due = "none" /\ task[t].card = latest'
          => Rested(task[t].mine, task[t].card)
    <3>1. task[t].at = "closing" => task[t].card <= latest
      BY <1>4 DEF OnceInv, Follows
    <3> QED BY <2>1, <3>1 DEF Copies, Rested
  <2> QED BY <1>4, <2>1, <2>2 DEF Copies
<1>5. Spoken(row)' /\ Dated'
  BY DEF DateInv, Spoken, Dated
<1> QED BY <1>2, <1>3, <1>4, <1>5 DEF DateInv

LEMMA OpenedDates ==
    ASSUME TypeOK, OnceInv, DateInv, start
    PROVE  DateInv'
<1>1. /\ asked' = asked + 1 /\ asked \in Nat /\ asked < latest
      /\ UNCHANGED <<latest, task, wiped>> /\ row \in Row
      /\ \A t \in Tasks : task[t].since \in Nat
  BY HandoffAssumption DEF start, history, TypeOK, Task
<1>2. PICK r \in Row : r = Reopened(row, latest)
  BY <1>1, ReopenedType
<1>a. r.told = row.told /\ r.link = row.link
  BY <1>1, <1>2, ReopenedFacts
<1>b. r.kommo = IF fresh(row, latest) /\ row.kommo \in REOPENED_BY_ANSWER
                THEN "pending" ELSE row.kommo
  BY <1>1, <1>2, ReopenedFacts
<1>c. r.telegram = IF news(row, latest) /\ row.telegram = "sent"
                   THEN "pending" ELSE row.telegram
  BY <1>1, <1>2, ReopenedDates
<1>d. ASSUME NEW t \in Tasks, Works(t) PROVE Copies(t)'
  <2>1. Copies(t) /\ task[t].since \in Nat
    BY <1>1, <1>d DEF DateInv
  <2>2. task[t].since <= asked' /\ task[t].since # asked'
    BY <1>1, <2>1 DEF Copies
  <2> QED BY <1>1, <2>1, <2>2 DEF Copies, Rested, Spoken
<1>3. CASE HasWork(r, latest)
  <2>1. row' = [r EXCEPT !.due = "later"]
    BY <1>2, <1>3 DEF start
  <2>2. row'.due = "later" /\ row'.told = row.told /\ row'.link = row.link
    BY <1>a, <2>1 DEF Row
  <2>3. HasDate' /\ Spoken(row)'
    BY <2>2 DEF HasDate, DateInv, Spoken
  <2> QED BY <1>1, <1>d, <2>3 DEF DateInv, Dated, Waits, Works
<1>4. CASE ~HasWork(r, latest)
  <2>1. UNCHANGED <<row, jobs>>
    BY <1>2, <1>4 DEF start
  <2>2. row.kommo \notin WORK /\ row.telegram # "pending"
    BY <1>4, <1>b, <1>c DEF HasWork, WORK, REOPENED_BY_ANSWER
  <2> QED BY <1>1, <1>d, <2>1, <2>2 DEF DateInv, Dated, Open, Waits, HasDate, Works, Spoken
<1> QED BY <1>3, <1>4

LEMMA RowDates ==
    ASSUME TypeOK, OnceInv, DateInv, Answer \/ due \/ message_due \/ Queue \/ People
    PROVE  DateInv'
<1>0. row \in Row /\ latest \in Nat /\ asked \in Nat /\ asked <= latest
  BY HandoffAssumption DEF TypeOK
<1>1. CASE Answer
  BY <1>0, <1>1, DateRow DEF Answer, history
<1>2. CASE due \/ message_due
  <2>1. row' = [row EXCEPT !.due = "later"] /\ UNCHANGED <<task, asked, latest, wiped>>
    BY <1>2 DEF due, message_due, _take, history
  <2>2. /\ row'.due = "later" /\ row'.told = row.told /\ row'.link = row.link
        /\ row'.kommo = row.kommo /\ row'.telegram = row.telegram
    BY <1>0, <2>1 DEF Row
  <2> QED BY <1>0, <2>1, <2>2, DateRow DEF HasDate
<1>3. CASE Queue
  <2>1. UNCHANGED <<row, task, asked, latest, wiped>> /\ jobs' \subseteq jobs
    BY <1>3 DEF Queue, Busy, Expire, history
  <2> QED BY <1>0, <2>1, DateRow DEF DateInv, Dated, Open, HasDate
<1>4. CASE retry
  <2>1. /\ row' = [row EXCEPT !.kommo = "pending", !.due = "later"]
        /\ UNCHANGED <<task, asked, latest, wiped>> /\ claim # "held"
    BY <1>4 DEF retry, _decided, history
  <2>2. row'.due = "later" /\ row'.told = row.told /\ row'.link = row.link
    BY <1>0, <2>1 DEF Row
  <2>3. \A t \in Tasks : ~Works(t)
    BY <2>1 DEF OnceInv, Sole
  <2> QED BY <1>0, <2>1, <2>2, <2>3, DateRow DEF HasDate
<1>5. ASSUME NEW deal \in 0..MaxFaults + 1, close(deal) PROVE DateInv'
  <2>1. UNCHANGED <<task, jobs, asked, latest, wiped>> /\ claim # "held"
    BY <1>5 DEF close, _decided
  <2>2. /\ row'.due = row.due /\ row'.told = row.told /\ row'.link = row.link
        /\ row'.kommo = "done" /\ row'.telegram = row.telegram
    <3>1. PICK a \in Row : a = [row EXCEPT !.kommo = "done"]
      BY <1>0 DEF Row
    <3>2. PICK b \in Row : b = [a EXCEPT !.noted = latest]
      BY DEF Row, TypeOK
    <3>3. PICK d \in Nat : d = IF deal = NoDeal THEN b.deal ELSE deal
      BY HandoffAssumption DEF Row
    <3>4. PICK c \in Row : c = [b EXCEPT !.deal = d]
      BY DEF Row
    <3>5. PICK e : e = [c EXCEPT !.telegram_due = "now"]
      OBVIOUS
    <3>6. PICK f : f = [e EXCEPT !.tries = 0]
      OBVIOUS
    <3>7. c = [row EXCEPT !.kommo = "done", !.noted = latest,
                          !.deal = IF deal = NoDeal THEN @ ELSE deal]
      BY <3>1, <3>2, <3>3, <3>4
    <3>8. f = [c EXCEPT !.telegram_due = "now", !.tries = 0]
      BY <3>5, <3>6
    <3>9. row' = c \/ row' = f
      BY <1>5, <3>7, <3>8 DEF close
    <3>10. /\ c.due = row.due /\ c.told = row.told /\ c.link = row.link
           /\ c.kommo = "done" /\ c.telegram = row.telegram
      BY <1>0, <3>1, <3>2, <3>4 DEF Row
    <3>11. /\ f.due = c.due /\ f.told = c.told /\ f.link = c.link
           /\ f.kommo = c.kommo /\ f.telegram = c.telegram
      BY <3>5, <3>6 DEF Row
    <3> QED BY <3>9, <3>10, <3>11
  <2>3. \A t \in Tasks : ~Works(t)
    BY <2>1 DEF OnceInv, Sole
  <2>4. asked = latest /\ Open' => HasDate'
    BY <2>1, <2>2 DEF DateInv, Dated, Open, HasDate, WORK
  <2> QED BY <1>0, <2>1, <2>2, <2>3, <2>4, DateRow
<1> QED BY <1>1, <1>2, <1>3, <1>4, <1>5 DEF People

LEMMA RipenDates ==
    ASSUME TypeOK, OnceInv, DateInv, NEW c \in {"due", "telegram_due"}, Ripen(c)
    PROVE  DateInv'
<1>1. UNCHANGED <<latest, asked, jobs, wiped>> /\ row \in Row /\ row' = Come(row, c)
  BY DEF Ripen, history, TypeOK
<1>2. /\ row'.told = row.told /\ row'.link = row.link /\ row'.telegram = row.telegram
      /\ row'.kommo = row.kommo /\ (row'.due = "none" <=> row.due = "none")
  BY <1>1, ComeFacts, ComeDates
<1>3. ASSUME NEW t \in Tasks
      PROVE  /\ task'[t].at = task[t].at /\ task'[t].card = task[t].card
             /\ task'[t].kind = task[t].kind /\ task'[t].since = task[t].since
             /\ task'[t].mine = Come(task[t].mine, c) /\ task'[t].base = Come(task[t].base, c)
  <2>1. task[t] \in Task /\ task[t].mine \in Row /\ task[t].base \in Row
    BY DEF TypeOK, Task
  <2>2. PICK m \in Row : m = Come(task[t].mine, c)
    BY <2>1, ComeType
  <2>3. PICK b \in Row : b = Come(task[t].base, c)
    BY <2>1, ComeType
  <2>4. PICK x \in Task : x = [task[t] EXCEPT !.mine = m]
    BY <2>1 DEF Task
  <2>5. PICK y \in Task : y = [x EXCEPT !.base = b]
    BY DEF Task
  <2>6. task'[t] = y
    BY <2>2, <2>3, <2>4, <2>5 DEF Ripen
  <2>7. /\ y.at = task[t].at /\ y.card = task[t].card /\ y.kind = task[t].kind
        /\ y.since = task[t].since /\ y.mine = m /\ y.base = b
    BY <2>1, <2>4, <2>5 DEF Task
  <2> QED BY <2>2, <2>3, <2>6, <2>7
<1>4. HasDate' <=> HasDate
  BY <1>1, <1>2 DEF HasDate
<1>5. ASSUME NEW t \in Tasks, Works(t) PROVE Copies(t)'
  <2>1. task[t].mine \in Row /\ task[t].base \in Row /\ Copies(t)
    BY <1>5 DEF TypeOK, Task, DateInv
  <2>2. PICK m \in Row : m = Come(task[t].mine, c)
    BY <2>1, ComeType
  <2>3. PICK b \in Row : b = Come(task[t].base, c)
    BY <2>1, ComeType
  <2>4. /\ m.told = task[t].mine.told /\ m.link = task[t].mine.link
        /\ m.telegram = task[t].mine.telegram /\ m.kommo = task[t].mine.kommo
        /\ (m.due = "none" <=> task[t].mine.due = "none")
        /\ (m.telegram_due = "none" <=> task[t].mine.telegram_due = "none")
    BY <2>1, <2>2, ComeFacts, ComeDates
  <2>5. /\ b.told = task[t].base.told /\ b.telegram = task[t].base.telegram
        /\ b.kommo = task[t].base.kommo
    BY <2>1, <2>3, ComeFacts, ComeDates
  <2>6. task[t].mine.due = task[t].base.due => m.due = b.due
    BY <2>1, <2>2, <2>3 DEF Come, Row
  <2>7. /\ task'[t].at = task[t].at /\ task'[t].card = task[t].card
        /\ task'[t].kind = task[t].kind /\ task'[t].since = task[t].since
        /\ task'[t].mine = m /\ task'[t].base = b
    BY <1>3, <2>2, <2>3
  <2> QED BY <1>1, <1>2, <2>1, <2>4, <2>5, <2>6, <2>7 DEF Copies, Rested, Spoken
<1>6. \A t \in Tasks : (Works(t)' <=> Works(t)) /\ task'[t].kind = task[t].kind
  BY <1>3 DEF Works
<1>7. Dated' /\ Spoken(row)'
  BY <1>1, <1>2, <1>4 DEF DateInv, Dated, Open, Spoken
<1>8. Waits'
  BY <1>1, <1>4, <1>6 DEF DateInv, Waits
<1> QED BY <1>5, <1>6, <1>7, <1>8 DEF DateInv

\* A job reads the row: whatever it may do for the hand-over, the row is dated.
LEMMA ClaimDates ==
    ASSUME TypeOK, OnceInv, DateInv, NEW t \in Tasks, NEW kind \in Kinds, _claim(t, kind)
    PROVE  DateInv'
<1>1. \A u \in Tasks : ~Works(u)
  BY DEF OnceInv, Sole, _claim
<1>2. /\ task'[t].at = "claimed" /\ task'[t].mine = row /\ task'[t].base = row
      /\ task'[t].kind = kind /\ task'[t].since = asked
      /\ \A u \in Tasks \ {t} : task'[u] = task[u]
  BY DEF _claim, TypeOK
<1>3. /\ UNCHANGED <<row, latest, asked, wiped>> /\ kind \in jobs /\ jobs' \subseteq jobs
      /\ asked \in Nat
  BY HandoffAssumption DEF _claim, history, TypeOK
<1>4. Copies(t)'
  BY <1>2, <1>3 DEF Copies, DateInv, Spoken
<1>5. \A u \in Tasks : Works(u)' => u = t
  BY <1>1, <1>2 DEF Works
<1>6. Waits'
  BY <1>2, <1>3, <1>5 DEF DateInv, Waits, HasDate
<1>7. Dated' /\ Spoken(row)'
  BY <1>3 DEF DateInv, Dated, Open, HasDate, Spoken
<1> QED BY <1>4, <1>5, <1>6, <1>7 DEF DateInv

LEMMA CardDates ==
    ASSUME TypeOK, OnceInv, DateInv, NEW t \in Tasks, card_of(t)
    PROVE  DateInv'
<1>1. /\ Works(t) /\ Follows(t) /\ Sound(row) /\ Copies(t) /\ task[t].at = "claimed"
      /\ \A u \in Tasks \ {t} : ~Works(u)
      /\ UNCHANGED <<row, latest, asked, jobs, wiped>>
  BY DEF OnceInv, DateInv, Sole, card_of, Works, history
<1>2. /\ task[t] \in Task /\ task[t].mine \in Row /\ task[t].base \in Row
      /\ latest \in 0..MaxReplies /\ asked \in Nat /\ asked <= latest /\ latest \in Nat
      /\ task[t].since \in Nat /\ task[t].kind \in Kinds
  BY HandoffAssumption DEF TypeOK, Task
<1>3. PICK mine \in Row : mine = IF task[t].kind = "whole" THEN Reopened(task[t].mine, latest)
                                 ELSE task[t].mine
  BY <1>2, ReopenedType
<1>4. PICK at \in At :
        at = IF task[t].kind = "message" \/ mine.kommo \notin WORK THEN "message"
             ELSE IF mine.deal = NoDeal THEN "deal" ELSE "note"
  BY DEF At
<1>5. task' = [task EXCEPT ![t].at = at, ![t].mine = mine, ![t].card = latest]
  BY <1>3, <1>4 DEF card_of
<1>6. /\ task'[t].at = at /\ task'[t].mine = mine /\ task'[t].base = task[t].base
      /\ task'[t].card = latest /\ task'[t].kind = task[t].kind /\ task'[t].since = task[t].since
      /\ \A u \in Tasks \ {t} : task'[u] = task[u]
  <2>1. PICK a \in Task : a = [task[t] EXCEPT !.at = at]
    BY <1>2 DEF Task, At
  <2>2. PICK b \in Task : b = [a EXCEPT !.mine = mine]
    BY DEF Task
  <2>3. PICK c \in Task : c = [b EXCEPT !.card = latest]
    BY <1>2 DEF Task
  <2>4. task' = [task EXCEPT ![t] = c]
    BY <1>5, <2>1, <2>2, <2>3
  <2>5. /\ c.at = at /\ c.mine = mine /\ c.base = task[t].base /\ c.card = latest
        /\ c.kind = task[t].kind /\ c.since = task[t].since
    BY <1>2, <2>1, <2>2, <2>3 DEF Task
  <2> QED BY <2>4, <2>5 DEF TypeOK
<1>7. /\ mine.due = task[t].mine.due /\ mine.told = task[t].mine.told
      /\ mine.link = task[t].mine.link
  <2>1. CASE task[t].kind = "whole"
    BY <1>2, <1>3, <2>1, ReopenedDates, ReopenedFacts
  <2>2. CASE task[t].kind # "whole"
    BY <1>3, <2>2
  <2> QED BY <2>1, <2>2
<1>8. task[t].kind = "message" => mine = task[t].mine
  BY <1>3
<1>9. task[t].base.told <= latest /\ task[t].since <= latest
  BY <1>1, <1>2 DEF Follows, Sound, Copies
<1>10. at \in {"message", "deal", "note"} /\ (at # "message" => task[t].kind = "whole")
  BY <1>2, <1>4 DEF Kinds
<1>11. Copies(t)'
  BY <1>1, <1>6, <1>7, <1>8, <1>9, <1>10 DEF Copies, Spoken
<1>12. \A u \in Tasks : Works(u)' => u = t
  BY <1>1, <1>6 DEF Works
<1>13. Waits'
  BY <1>1, <1>6, <1>12 DEF DateInv, Waits, HasDate
<1>14. Dated' /\ Spoken(row)'
  BY <1>1 DEF DateInv, Dated, Open, HasDate, Spoken
<1> QED BY <1>11, <1>12, <1>13, <1>14 DEF DateInv

\* What a flush does to the columns that dates depend on.
LEMMA FlushedDates ==
    ASSUME TypeOK, OnceInv, NEW t \in Tasks, Works(t)
    PROVE  LET q == Flushed(task[t])
               m == task[t].mine
               b == task[t].base
           IN /\ q.due = IF m.due # b.due THEN m.due ELSE row.due
              /\ q.telegram = IF m.telegram # b.telegram THEN m.telegram ELSE row.telegram
<1>1. {"due", "telegram"} \subseteq DOMAIN row
  BY DEF TypeOK, Row
<1> QED BY <1>1 DEF Flushed

\* The number of the deal is written by a whole job, so the row has a date.
LEMMA CommitDealDates ==
    ASSUME TypeOK, OnceInv, DateInv, NEW t \in Tasks, CommitDeal(t)
    PROVE  DateInv'
<1>1. /\ task[t].at = "made" /\ Works(t) /\ Copies(t) /\ Follows(t)
      /\ \A u \in Tasks \ {t} : ~Works(u)
      /\ UNCHANGED <<latest, asked, jobs, wiped>>
  BY DEF CommitDeal, history, Works, OnceInv, DateInv, Sole
<1>2. /\ task[t] \in Task /\ task[t].mine \in Row /\ task[t].base \in Row /\ row \in Row
      /\ task[t].card \in 1..latest
  BY <1>1 DEF TypeOK, Task, Follows
<1>3. /\ task'[t].at = "note" /\ task'[t].mine = task[t].mine /\ task'[t].base = task[t].mine
      /\ task'[t].card = task[t].card /\ task'[t].kind = task[t].kind
      /\ task'[t].since = task[t].since
      /\ \A u \in Tasks \ {t} : task'[u] = task[u]
  <2>1. PICK a \in Task : a = [task[t] EXCEPT !.at = "note"]
    BY <1>2 DEF Task
  <2>2. PICK b \in Task : b = [a EXCEPT !.base = task[t].mine]
    BY <1>2 DEF Task
  <2>3. task' = [task EXCEPT ![t] = b]
    BY <2>1, <2>2 DEF CommitDeal
  <2>4. /\ b.at = "note" /\ b.mine = task[t].mine /\ b.base = task[t].mine
        /\ b.card = task[t].card /\ b.kind = task[t].kind /\ b.since = task[t].since
    BY <1>2, <2>1, <2>2 DEF Task
  <2> QED BY <2>3, <2>4 DEF TypeOK
<1>4. PICK q \in Row : q = Flushed(task[t])
  BY <1>1, FlushedFacts
<1>5. row' = q
  BY <1>4 DEF CommitDeal
<1>6. q.told = task[t].mine.told /\ q.link = task[t].mine.link
  BY <1>1, <1>4, FlushedFacts
<1>7. q.kommo = IF task[t].mine.kommo # task[t].base.kommo THEN task[t].mine.kommo ELSE row.kommo
  BY <1>1, <1>4, FlushedFacts
<1>8. /\ q.due = IF task[t].mine.due # task[t].base.due THEN task[t].mine.due ELSE row.due
      /\ q.telegram = IF task[t].mine.telegram # task[t].base.telegram
                      THEN task[t].mine.telegram ELSE row.telegram
  BY <1>1, <1>4, FlushedDates
<1>9. q.due = row.due /\ task[t].kind = "whole"
  BY <1>1, <1>8 DEF Copies
<1>10. HasDate /\ HasDate'
  BY <1>1, <1>5, <1>9 DEF DateInv, Waits, HasDate
<1>11. task[t].mine.told <= task[t].card
  BY <1>1 DEF Follows
<1>12. Copies(t)'
  <2>1. task[t].since = asked => q.kommo = task[t].mine.kommo /\ q.telegram = task[t].mine.telegram
    BY <1>1, <1>7, <1>8 DEF Copies
  <2> QED BY <1>1, <1>3, <1>5, <1>9, <1>11, <2>1 DEF Copies, Spoken
<1>13. Spoken(row)'
  BY <1>1, <1>5, <1>6 DEF Copies, Spoken
<1>14. \A u \in Tasks : Works(u)' => u = t
  BY <1>1, <1>3 DEF Works
<1> QED BY <1>10, <1>12, <1>13, <1>14 DEF DateInv, Dated, Waits

\* A job ends and leaves a row with a date, or without work.
LEMMA DateEnds ==
    ASSUME TypeOK, OnceInv, NEW t \in Tasks, Works(t), task' = [task EXCEPT ![t] = Idle],
           asked' = asked, latest' = latest, Spoken(row)',
           asked = latest /\ Open' => HasDate',
           "whole" \in jobs' => HasDate'
    PROVE  DateInv'
<1>1. \A u \in Tasks : ~Works(u)'
  BY DEF Works, Idle, OnceInv, Sole, TypeOK
<1> QED BY <1>1 DEF DateInv, Dated, Waits

\* The last commit: what is left without a date has nothing open, unless a start
\* came meanwhile, and then the commit is marked.
LEMMA CommitDates ==
    ASSUME TypeOK, OnceInv, DateInv, NEW t \in Tasks, Works(t), NEW left \in Row, Commit(t, left),
           left.told = task[t].mine.told, left.link = task[t].mine.link,
           left.due = "none" /\ task[t].since = latest =>
             /\ left.kommo = task[t].mine.kommo /\ left.telegram = task[t].mine.telegram
             /\ Rested(task[t].mine, latest)
    PROVE  DateInv'
<1>1. /\ Copies(t) /\ task' = [task EXCEPT ![t] = Idle] /\ UNCHANGED <<asked, latest, jobs>>
      /\ wiped' = IF row'.due = "none" /\ (asked # task[t].since \/ "whole" \in jobs)
                  THEN wiped \cup {task[t].at} ELSE wiped
  BY DEF Commit, DateInv
<1>2. PICK q \in Row : q = Flushed(task[t])
  BY FlushedFacts
<1>3. q.told = task[t].mine.told /\ q.link = task[t].mine.link
  BY <1>2, FlushedFacts
<1>4. q.kommo = IF task[t].mine.kommo # task[t].base.kommo THEN task[t].mine.kommo ELSE row.kommo
  BY <1>2, FlushedFacts
<1>5. q.telegram = IF task[t].mine.telegram # task[t].base.telegram
                   THEN task[t].mine.telegram ELSE row.telegram
  BY <1>2, FlushedDates
<1>6. {"kommo", "telegram", "told", "link", "due"} \subseteq DOMAIN row
  BY DEF TypeOK, Row
<1>7. row' = [c \in DOMAIN row |->
               IF c = "due"
               THEN IF left.due = "none" /\ task[t].base.due = "none" THEN row.due ELSE left.due
               ELSE IF left[c] # task[t].mine[c] THEN left[c] ELSE q[c]]
  BY <1>2 DEF Commit
<1>8. /\ row'.told = task[t].mine.told /\ row'.link = task[t].mine.link
      /\ row'.kommo = IF left.kommo # task[t].mine.kommo THEN left.kommo ELSE q.kommo
      /\ row'.telegram = IF left.telegram # task[t].mine.telegram THEN left.telegram ELSE q.telegram
      /\ row'.due = IF left.due = "none" /\ task[t].base.due = "none" THEN row.due ELSE left.due
  BY <1>3, <1>6, <1>7
<1>9. Spoken(row)'
  BY <1>1, <1>8 DEF Copies, Spoken
<1>10. "whole" \in jobs' => HasDate'
  BY <1>1 DEF HasDate
<1>11. ASSUME asked = latest, Open', ~HasDate' PROVE FALSE
  <2>1. row'.due = "none" /\ wiped' = {}
    BY <1>11 DEF HasDate
  <2>2. task[t].since = asked
    BY <1>1, <2>1
  <2>3. left.due = "none"
    BY <1>8, <2>1
  <2>4. /\ left.kommo = task[t].mine.kommo /\ left.telegram = task[t].mine.telegram
        /\ Rested(task[t].mine, latest)
    BY <1>11, <2>2, <2>3
  <2>5. row'.kommo = task[t].mine.kommo /\ row'.telegram = task[t].mine.telegram
    BY <1>1, <1>4, <1>5, <1>8, <2>2, <2>4 DEF Copies
  <2>6. ~Open'
    BY <1>1, <1>8, <2>4, <2>5 DEF Open, Rested
  <2> QED BY <1>11, <2>6
<1>12. asked = latest /\ Open' => HasDate'
  BY <1>11
<1> QED BY <1>1, <1>9, <1>10, <1>12, DateEnds

LEMMA EndDates ==
    ASSUME TypeOK, OnceInv, DateInv, NEW t \in Tasks, Finish(t) \/ Close(t)
    PROVE  DateInv'
<1>1. /\ Works(t) /\ Follows(t) /\ Copies(t) /\ task[t].at \in {"last", "closing"}
      /\ task[t] \in Task /\ task[t].mine \in Row
      /\ task[t].since \in Nat /\ task[t].card \in 1..latest /\ latest \in Nat
  BY HandoffAssumption
     DEF Finish, Close, Works, OnceInv, DateInv, TypeOK, Task, Follows
<1>2. task[t].since = latest => task[t].card = latest
  BY <1>1 DEF Copies
<1>3. CASE Finish(t)
  <2>1. PICK left \in Row : left = Left(task[t])
    BY <1>1, LeftDates
  <2>2. left.told = task[t].mine.told /\ left.link = task[t].mine.link
    <3>1. task[t].mine.noted <= latest
      BY <1>1 DEF OnceInv, Accounts, Sound
    <3>2. Same(Left(task[t]), task[t].mine)
      BY <1>1, <3>1, LeftFacts
    <3> QED BY <2>1, <3>2 DEF Same
  <2>3. left.due = "none" /\ task[t].since = latest =>
          /\ left.kommo = task[t].mine.kommo /\ left.telegram = task[t].mine.telegram
          /\ Rested(task[t].mine, latest)
    <3>1. ASSUME left.due = "none", task[t].card = latest
          PROVE  /\ left.kommo = task[t].mine.kommo /\ left.telegram = task[t].mine.telegram
                 /\ task[t].mine.kommo \notin WORK /\ task[t].mine.telegram_due = "none"
      BY <1>1, <2>1, <3>1, LeftDates
    <3>2. task[t].at = "last"
      BY <1>3 DEF Finish
    <3> QED BY <1>1, <1>2, <3>1, <3>2 DEF Copies, Rested
  <2>4. Commit(t, left)
    BY <1>3, <2>1 DEF Finish
  <2> QED BY <1>1, <2>2, <2>3, <2>4, CommitDates
<1>4. CASE Close(t)
  <2>1. task[t].mine.due = "none" /\ task[t].since = latest => Rested(task[t].mine, latest)
    BY <1>1, <1>2, <1>4 DEF Copies, Close
  <2> QED BY <1>1, <1>4, <2>1, CommitDates DEF Close
<1> QED BY <1>3, <1>4

\* A job that breaks off or dies leaves the date it found; one of the message alone
\* opens nothing.
LEMMA BreakDates ==
    ASSUME TypeOK, OnceInv, DateInv, NEW t \in Tasks, _release_after_failure(t) \/ Die(t)
    PROVE  DateInv'
<1>1. /\ Works(t) /\ Follows(t) /\ Copies(t) /\ task[t].kind \in Kinds
      /\ task' = [task EXCEPT ![t] = Idle] /\ UNCHANGED <<latest, asked, wiped>>
      /\ jobs' \subseteq jobs \cup {task[t].kind}
      /\ task[t].mine \in Row /\ task[t].base \in Row /\ row \in Row
      /\ latest \in Nat /\ task[t].card \in Nat
      /\ task[t].at # "claimed" => task[t].card <= latest
  BY HandoffAssumption
     DEF _release_after_failure, Die, Works, OnceInv, DateInv, TypeOK, Task, Follows
<1>2. \/ row' = row
      \/ row' = Flushed(task[t]) /\ task[t].at # "closing"
  BY DEF _release_after_failure, Die
<1>3. PICK q \in Row : q = Flushed(task[t])
  BY <1>1, FlushedFacts
<1>4. q.told = task[t].mine.told /\ q.link = task[t].mine.link
  BY <1>1, <1>3, FlushedFacts
<1>5. q.kommo = IF task[t].mine.kommo # task[t].base.kommo THEN task[t].mine.kommo ELSE row.kommo
  BY <1>1, <1>3, FlushedFacts
<1>6. /\ q.due = IF task[t].mine.due # task[t].base.due THEN task[t].mine.due ELSE row.due
      /\ q.telegram = IF task[t].mine.telegram # task[t].base.telegram
                      THEN task[t].mine.telegram ELSE row.telegram
  BY <1>1, <1>3, FlushedDates
<1>7. row'.due = row.due
  BY <1>1, <1>2, <1>3, <1>6 DEF Copies
<1>8. Spoken(row)'
  BY <1>1, <1>2, <1>3, <1>4 DEF DateInv, Copies, Spoken
<1>9. HasDate' <=> HasDate
  BY <1>1, <1>7 DEF HasDate
<1>10. "whole" \in jobs' => HasDate'
  BY <1>1, <1>9 DEF DateInv, Waits
<1>11. ASSUME asked = latest, Open' PROVE HasDate'
  <2>1. CASE task[t].kind = "whole"
    BY <1>1, <1>9, <2>1 DEF DateInv, Waits
  <2>2. CASE row' = row
    BY <1>1, <1>9, <1>11, <2>2 DEF DateInv, Dated, Open
  <2>3. CASE task[t].kind = "message" /\ row' = q /\ task[t].at # "closing"
    <3>1. q.kommo = row.kommo
      BY <1>1, <1>5, <2>3 DEF Copies
    <3>2. q.telegram = "pending" => row.telegram = "pending"
      BY <1>1, <1>6, <2>3 DEF Copies
    <3>3. q.told # latest => row.told # latest
      <4>1. row.told = task[t].base.told /\ row.told \in Nat
        BY <1>1 DEF Follows, Row
      <4>2. CASE q.told = task[t].base.told
        BY <4>1, <4>2
      <4>3. CASE q.told # task[t].base.told
        <5>1. q.told = task[t].card /\ task[t].at # "claimed" /\ task[t].base.told <= task[t].card
          BY <1>1, <1>4, <4>3 DEF Copies
        <5> QED BY <1>1, <4>1, <5>1
      <4> QED BY <4>2, <4>3
    <3>4. Open
      BY <1>1, <1>11, <2>3, <3>1, <3>2, <3>3 DEF Open
    <3> QED BY <1>9, <1>11, <3>4 DEF DateInv, Dated
  <2> QED BY <1>1, <1>2, <1>3, <2>1, <2>2, <2>3 DEF Kinds
<1> QED BY <1>1, <1>8, <1>10, <1>11, DateEnds

LEMMA DateStep ==
    ASSUME TypeOK, OnceInv, DateInv, [Next]_vars
    PROVE  DateInv'
<1>1. CASE UNCHANGED vars
  BY <1>1 DEF vars, history, DateInv, Dated, Open, HasDate, Waits, Spoken, Works, Copies, Rested
<1>2. ASSUME NEW t \in Tasks, Step(t) \/ _release_after_failure(t) \/ Die(t) PROVE DateInv'
  BY <1>2, CardDates, KommoDates, WriteDates, SayDates, LookDates, CommitDealDates, EndDates,
     BreakDates DEF Step
<1> QED
  BY <1>1, <1>2, OpenedDates, RowDates, RipenDates, ClaimDates DEF Next, Pass

LEMMA DateInit ==
    ASSUME Init
    PROVE  DateInv
<1>1. \A t \in Tasks : ~Works(t)
  BY DEF Init, Works, Idle
<1> QED BY <1>1 DEF Init, DateInv, Dated, Waits, Spoken, NewRow

\* Open work is in somebody's hands or has a date at which the pass takes it,
\* unless a job has wiped the date of a start (start, _due_after, _take, and the
\* release after a failure).
THEOREM WorkIsDatedHolds == Spec => []WorkIsDated
<1>1. TypeOK /\ OnceInv /\ DateInv /\ [Next]_vars => DateInv'
  BY DateStep
<1>2. DateInv => WorkIsDated
  BY DEF DateInv, Dated, HasDate, WorkIsDated
<1> QED BY <1>1, <1>2, DateInit, TypeCorrect, OnceInvariant, PTL DEF Spec
=============================================================================
