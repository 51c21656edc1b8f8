------------------------------- MODULE Handoff -------------------------------
(***************************************************************************)
(* The hand-over of one lead to the telemarketer: a deal or a note in the  *)
(* CRM (Kommo), then a message in Telegram.  Letters of the lead come at   *)
(* any time; each starts the hand-over, which commits a row, queues a job  *)
(* and returns.  Jobs work on a copy of the row and write back the columns *)
(* they have changed; a pass repeats what is due; people decide about      *)
(* writes whose outcome nobody knows.                                      *)
(***************************************************************************)
EXTENDS Integers, FiniteSets

CONSTANTS
    Tasks,         \* jobs that may run at the same time
    Clients,       \* how the CRM may be connected: a choice of the settings
    Tries,         \* telegram_series.MESSAGE_TRIES
    MaxReplies,    \* bound: letters of the lead
    MaxFaults      \* bound: deaths, refusals and lost answers of all kinds

ASSUME HandoffAssumption ==
    /\ IsFiniteSet(Tasks)
    /\ Clients # {} /\ Clients \subseteq {"full", "gateway", "off"}
    /\ Tries \in Nat \ {0} /\ MaxReplies \in Nat \ {0} /\ MaxFaults \in Nat

Replies == 1..MaxReplies
NoReply == 0
NoDeal == 0
\* A moment that is set is later or has come.
Due == {"none", "later", "now"}
Kinds == {"whole", "message"}      \* HANDOFF_JOB, MESSAGE_JOB

VARIABLES
    client,
    latest,    \* latest_reply: the number of letters recorded so far
    asked,     \* for how many of them the hand-over has been started
    made,      \* the row of sales_handoffs is there
    row,       \* the row
    claim,     \* claimed_at: nobody's, somebody's, or older than HANDOFF_CLAIM_SEC
    jobs,      \* kinds of jobs in the queue; two equal ones do the work of one
    task,      \* the jobs at work
    crm,       \* what Kommo holds: deals, notes, whether it knows the address
    faults,
    heard,     \* history: personal messages delivered, by letter and link
    tried,     \* history: the newest letter a personal message was tried for
    closed,    \* history: the newest letter when a person closed the hand-over
    spilt,     \* history: deals, notes, messages nobody could write down, and jobs that
               \* broke off and have written the half they had done
    wiped      \* history: at which commit (Finish, Close) a job has left no date though
               \* a start came meanwhile or its job waits

history == <<heard, tried, closed, spilt, wiped>>
vars == <<client, latest, asked, made, row, claim, jobs, task, crm, faults, history>>

Row == [kommo : {"pending", "retry", "unconfirmed", "failed", "done", "off"},
        telegram : {"pending", "sent", "undelivered"},
        deal : Nat,
        noted : 0..MaxReplies, told : 0..MaxReplies,
        link : {"none", "dialog", "deal"},
        due : Due, telegram_due : Due, tries : 0..Tries - 1]
NewRow == [kommo |-> "pending", telegram |-> "pending", deal |-> NoDeal,
           noted |-> NoReply, told |-> NoReply, link |-> "none",
           due |-> "none", telegram_due |-> "none", tries |-> 0]

\* mine: the copy at work; base: the row as it was read or last written; since: the
\* starts there had been by then.
Task == [at : {"idle", "claimed", "deal", "made", "note", "message", "last", "closing"},
         kind : Kinds, card : 0..MaxReplies, since : 0..MaxReplies, mine : Row, base : Row]
Idle == [at |-> "idle", kind |-> "whole", card |-> NoReply, since |-> 0,
         mine |-> NewRow, base |-> NewRow]

TypeOK ==
    /\ client \in Clients
    /\ latest \in 0..MaxReplies /\ asked \in 0..latest /\ made \in BOOLEAN
    /\ row \in Row
    /\ claim \in {"free", "held", "old"}
    /\ jobs \subseteq Kinds
    /\ task \in [Tasks -> Task]
    /\ crm \in [deals : Nat, notes : [Replies -> Nat], known : BOOLEAN]
    /\ faults \in 0..MaxFaults
    /\ heard \in [Replies \X {"dialog", "deal"} -> Nat]
    /\ tried \in 0..MaxReplies /\ closed \in 0..MaxReplies
    /\ spilt \in [deal : Nat, note : Nat, word : Nat, half : Nat] 
    /\ wiped \subseteq {"last", "closing"}

Init ==
    /\ client \in Clients
    /\ latest = 1 /\ asked = 0 /\ made = FALSE
    /\ row = NewRow /\ claim = "free" /\ jobs = {}
    /\ task = [t \in Tasks |-> Idle]
    /\ crm \in [deals : {0}, notes : {[i \in Replies |-> 0]}, known : BOOLEAN]
    /\ faults = 0
    /\ heard = [h \in Replies \X {"dialog", "deal"} |-> 0]
    /\ tried = NoReply /\ closed = NoReply
    /\ spilt = [deal |-> 0, note |-> 0, word |-> 0, half |-> 0]
    /\ wiped = {}

Fault == faults < MaxFaults /\ faults' = faults + 1

-----------------------------------------------------------------------------
(* What there is to do: handoff._reopen, handoff_telegram.news.             *)

WORK == {"pending", "retry"}
REOPENED_BY_ANSWER == {"done", "off", "failed"}

news(r, reply) == reply # NoReply /\ r.told # NoReply /\ reply # r.told
fresh(r, reply) == reply # NoReply /\ reply # r.noted

Reopened(r, reply) ==
    [r EXCEPT !.kommo = IF fresh(r, reply) /\ @ \in REOPENED_BY_ANSWER THEN "pending" ELSE @,
              !.telegram = IF news(r, reply) /\ @ = "sent" THEN "pending" ELSE @]

\* What _reopen says: there is work for a job.
HasWork(r, reply) ==
    \/ r.kommo \in WORK \/ r.telegram = "pending" \/ news(r, reply)

Enqueued(kind) ==
    \/ jobs' = jobs \cup {kind} /\ UNCHANGED faults
    \/ Fault /\ UNCHANGED jobs

-----------------------------------------------------------------------------
(* Letters of the lead, start, the pass.                                    *)

Answer ==
    /\ latest < MaxReplies /\ latest' = latest + 1
    /\ UNCHANGED <<client, asked, made, row, claim, jobs, task, crm, faults, history>>

\* One transaction under the lock of the row, then the queue.
start ==
    /\ asked < latest /\ asked' = asked + 1
    /\ made' = TRUE
    /\ LET r == Reopened(row, latest)
       IN IF HasWork(r, latest)
          THEN /\ row' = [r EXCEPT !.due = "later"]
               /\ Enqueued("whole")
          ELSE UNCHANGED <<row, jobs, faults>>
    /\ UNCHANGED <<client, latest, claim, task, crm, history>>

\* _take: the date moves on before the job is queued.
_take(kind) ==
    /\ made /\ claim # "held"
    /\ row' = [row EXCEPT !.due = "later"]
    /\ Enqueued(kind)
    /\ UNCHANGED <<client, latest, asked, made, claim, task, crm, history>>

due ==
    /\ row.kommo \in WORK \/ row.telegram = "pending"
    /\ row.due = "now"
    /\ _take("whole")

message_due ==
    /\ row.telegram_due = "now"
    /\ row.kommo \notin WORK /\ row.telegram # "pending"
    /\ row.due # "later"
    /\ _take("message")

\* Time: a date that was set has come, whoever holds a copy of it.
Come(r, c) == [r EXCEPT ![c] = IF @ = "later" THEN "now" ELSE @]
Ripen(c) ==
    /\ row[c] = "later" \/ \E t \in Tasks : task[t].mine[c] = "later"
    /\ row' = Come(row, c)
    /\ task' = [t \in Tasks |-> [task[t] EXCEPT !.mine = Come(@, c), !.base = Come(@, c)]]
    /\ UNCHANGED <<client, latest, asked, made, claim, jobs, crm, faults, history>>

-----------------------------------------------------------------------------
(* A job takes the row: handoff._claim, process.                            *)

Dead == claim = "held" /\ \A t \in Tasks : task[t].at = "idle"

\* Mutant: the row is not claimed.
X_claim(t, kind) ==
    /\ task[t].at = "idle" /\ kind \in jobs
    /\ jobs' = jobs \ {kind}
    /\ claim' = "held"
    /\ task' = [task EXCEPT ![t] = [at |-> "claimed", kind |-> kind, card |-> NoReply,
                                    since |-> asked, mine |-> row, base |-> row]]
    /\ UNCHANGED <<client, latest, asked, made, row, crm, faults, history>>

_claim(t, kind) ==
    /\ task[t].at = "idle" /\ kind \in jobs /\ claim # "held"
    /\ jobs' = jobs \ {kind}
    /\ claim' = "held"
    /\ task' = [task EXCEPT ![t] = [at |-> "claimed", kind |-> kind, card |-> NoReply,
                                    since |-> asked, mine |-> row, base |-> row]]
    /\ UNCHANGED <<client, latest, asked, made, row, crm, faults, history>>

\* HandoffBusyError until the retries of the queue are over: only behind a dead job.
Busy(kind) ==
    /\ Dead /\ kind \in jobs /\ jobs' = jobs \ {kind}
    /\ UNCHANGED <<client, latest, asked, made, row, claim, task, crm, faults, history>>

\* A job that holds the row for HANDOFF_CLAIM_SEC is dead.
Expire ==
    /\ Dead /\ claim' = "old"
    /\ UNCHANGED <<client, latest, asked, made, row, jobs, task, crm, faults, history>>

Goes(t, at, mine) == task' = [task EXCEPT ![t].at = at, ![t].mine = mine]

\* card_of, and the work of the newest letter.
card_of(t) ==
    LET s == task[t]
        mine == IF s.kind = "whole" THEN Reopened(s.mine, latest) ELSE s.mine
        at == IF s.kind = "message" \/ mine.kommo \notin WORK THEN "message"
              ELSE IF mine.deal = NoDeal THEN "deal" ELSE "note"
    IN /\ s.at = "claimed"
       /\ task' = [task EXCEPT ![t].at = at, ![t].mine = mine, ![t].card = latest]
       /\ UNCHANGED <<client, latest, asked, made, row, claim, jobs, crm, faults, history>>

-----------------------------------------------------------------------------
(* Kommo: handoff_kommo.write.                                              *)

Off(t) ==
    /\ client = "off" /\ task[t].at \in {"deal", "note"}
    /\ Goes(t, "message", [task[t].mine EXCEPT !.kommo = "off", !.noted = task[t].card])
    /\ UNCHANGED <<client, latest, asked, made, row, claim, jobs, crm, faults, history>>

\* _refusal_state of a client that says nothing was written.
Refusal(t) ==
    /\ client # "off" /\ Fault
    /\ \/ task[t].at = "deal"
       \/ (task[t].at = "note" /\ client = "full" /\ fresh(task[t].mine, task[t].card))
    /\ \E state \in {"retry", "failed"} :
         Goes(t, "message", [task[t].mine EXCEPT !.kommo = state])
    /\ UNCHANGED <<client, latest, asked, made, row, claim, jobs, crm, history>>

\* The gateway carries the first note in the deal.
Carried(card) == client = "gateway" /\ card # NoReply

Created(card) ==
    [deals |-> crm.deals + 1, known |-> TRUE,
     notes |-> [i \in Replies |->
                  crm.notes[i] + IF Carried(card) /\ i = card THEN 1 ELSE 0]]

_new_deal(t) ==
    LET s == task[t]
    IN /\ client # "off" /\ s.at = "deal"
       /\ crm' = Created(s.card)
       /\ Goes(t, "made", [s.mine EXCEPT !.deal = crm.deals + 1,
                                         !.noted = IF Carried(s.card) THEN s.card ELSE @])
       /\ UNCHANGED <<client, latest, asked, made, row, claim, jobs, faults, history>>

\* Mutant: what the search does not decide is repeated.
X_after_lost_answer(known, found) == {"retry"}

\* Only an address Kommo knew neither before nor after proves that nothing was
\* written; the gateway does not search, and the search may fail.
_after_lost_answer(known, found) ==
    IF client = "full" /\ ~known /\ ~found THEN {"retry", "unconfirmed"} ELSE {"unconfirmed"}

LoseDeal(t) ==
    /\ client # "off" /\ task[t].at = "deal" /\ Fault
    /\ crm' \in {crm, Created(task[t].card)}
    /\ \E state \in _after_lost_answer(crm.known, crm'.known) :
         Goes(t, "message", [task[t].mine EXCEPT !.kommo = state])
    /\ UNCHANGED <<client, latest, asked, made, row, claim, jobs, history>>

\* A flush writes the columns the session has changed since it read them.
Flushed(s) == [c \in DOMAIN row |-> IF s.mine[c] # s.base[c] THEN s.mine[c] ELSE row[c]]

\* The number of the deal is committed before the next request.
CommitDeal(t) ==
    /\ task[t].at = "made"
    /\ row' = Flushed(task[t])
    /\ task' = [task EXCEPT ![t].at = "note", ![t].base = task[t].mine]
    /\ UNCHANGED <<client, latest, asked, made, claim, jobs, crm, faults, history>>

\* Nothing to note, or the gateway: the letter goes in a message instead.
NothingToNote(t) ==
    LET s == task[t]
    IN /\ s.at = "note" /\ client # "off"
       /\ client = "gateway" \/ ~fresh(s.mine, s.card)
       /\ Goes(t, "message", [s.mine EXCEPT !.kommo = "done",
                                            !.noted = IF s.card = NoReply THEN @ ELSE s.card])
       /\ UNCHANGED <<client, latest, asked, made, row, claim, jobs, crm, faults, history>>

\* Mutant: a note without an answer is repeated.
X_note(t) ==
    LET s == task[t]
        written == [crm EXCEPT !.notes[s.card] = @ + 1]
        done == [s.mine EXCEPT !.kommo = "done", !.noted = s.card]
    IN /\ s.at = "note" /\ client = "full" /\ fresh(s.mine, s.card)
       /\ \/ crm' = written /\ Goes(t, "message", done) /\ UNCHANGED faults
          \/ /\ Fault /\ crm' \in {crm, written}
             /\ Goes(t, "message", [s.mine EXCEPT !.kommo = "retry"])
       /\ UNCHANGED <<client, latest, asked, made, row, claim, jobs, history>>

\* The answer may be lost: the letter counts as noted all the same.
_note(t) ==
    LET s == task[t]
        written == [crm EXCEPT !.notes[s.card] = @ + 1]
        done == [s.mine EXCEPT !.kommo = "done", !.noted = s.card]
    IN /\ s.at = "note" /\ client = "full" /\ fresh(s.mine, s.card)
       /\ \/ crm' = written /\ UNCHANGED faults
          \/ (Fault /\ crm' \in {crm, written})
       /\ Goes(t, "message", done)
       /\ UNCHANGED <<client, latest, asked, made, row, claim, jobs, history>>

-----------------------------------------------------------------------------
(* Telegram: handoff_telegram.step, telegram_series.after_failure.          *)

LinkOf(s) == IF client # "off" /\ s.mine.deal # NoDeal THEN "deal" ELSE "dialog"
Owed(s) == s.mine.link # LinkOf(s) \/ news(s.mine, s.card)
Early(s) == s.mine.telegram_due = "later"

_settled(r) == [r EXCEPT !.tries = 0, !.telegram_due = "none"]

\* Mutant: no last try.
Xafter_failure(r, permanent, told) ==
    IF permanent \/ told THEN _settled(r)
    ELSE [r EXCEPT !.tries = @ + 1, !.telegram_due = "later"]

\* A series of tries with a pause after each; nothing after the last one, after a
\* refusal for good, or when the outcome has been said before.
after_failure(r, permanent, told) ==
    IF permanent \/ told \/ r.tries + 1 >= Tries THEN _settled(r)
    ELSE [r EXCEPT !.tries = @ + 1, !.telegram_due = "later"]

NothingToSay(t) ==
    LET s == task[t]
    IN /\ s.at = "message"
       /\ Early(s) \/ (~Owed(s) /\ s.mine.telegram_due = "none")
       /\ Goes(t, "last", s.mine)
       /\ UNCHANGED <<client, latest, asked, made, row, claim, jobs, crm, faults, history>>

Said(r) == r.telegram = "undelivered" /\ r.telegram_due = "none"

Heard(s) == heard' = [heard EXCEPT ![<<s.card, LinkOf(s)>>] = @ + 1]

\* _personal: what the row says when the message went.
Told(s) ==
    _settled([s.mine EXCEPT !.telegram = "sent", !.link = LinkOf(s), !.told = s.card])

\* The message went; then the copy for the group, which the pass repeats.
_personal(t) ==
    LET s == task[t]
    IN /\ s.at = "message" /\ ~Early(s) /\ Owed(s)
       /\ Heard(s) /\ tried' = s.card
       /\ \/ Goes(t, "last", Told(s)) /\ UNCHANGED faults
          \/ Fault /\ Goes(t, "last", after_failure(Told(s), FALSE, FALSE))
       /\ UNCHANGED <<client, latest, asked, made, row, claim, jobs, crm, closed, spilt, wiped>>

\* It did not go, or nobody knows that it went.
LosePersonal(t) ==
    LET s == task[t]
        r == IF s.mine.telegram = "undelivered" THEN s.mine ELSE _settled(s.mine)
    IN /\ s.at = "message" /\ ~Early(s) /\ Owed(s) /\ Fault
       /\ \E permanent \in BOOLEAN :
            /\ Goes(t, "last", [after_failure(r, permanent, Said(s.mine))
                                  EXCEPT !.telegram = "undelivered"])
            /\ \/ UNCHANGED <<heard, spilt>>
               \/ ~permanent /\ Heard(s) /\ spilt' = [spilt EXCEPT !.word = @ + 1]
       /\ tried' = s.card
       /\ UNCHANGED <<client, latest, asked, made, row, claim, jobs, crm, closed, wiped>>

\* The copy for the group, repeated.
_group_copy(t) ==
    LET s == task[t]
    IN /\ s.at = "message" /\ s.mine.telegram_due = "now" /\ ~Owed(s)
       /\ \/ Goes(t, "last", _settled(s.mine)) /\ UNCHANGED faults
          \/ Fault /\ Goes(t, "last", after_failure(s.mine, FALSE, FALSE))
       /\ UNCHANGED <<client, latest, asked, made, row, claim, jobs, crm, history>>

-----------------------------------------------------------------------------
(* The end of a job: _answered_meanwhile, _due_after, the claim is given    *)
(* back.                                                                    *)

\* Mutant: what Kommo did not answer to is not repeated.
X_due_after(r, meanwhile) ==
    IF meanwhile \/ r.kommo = "pending" \/ r.telegram_due = "now" THEN "now"
    ELSE r.telegram_due

_due_after(r, meanwhile) ==
    IF meanwhile \/ r.kommo = "pending" \/ r.telegram_due = "now" THEN "now"
    ELSE IF r.kommo = "retry" THEN "later" ELSE r.telegram_due

\* A letter newer than the one the job began with.
_answered_meanwhile(s) ==
    latest # s.card /\ HasWork(Reopened(s.mine, latest), latest)

\* Mutant: letters that came meanwhile are left to their own jobs.
XLeft(s) == [s.mine EXCEPT !.due = _due_after(s.mine, FALSE)]

\* What the job leaves in its copy.
Left(s) ==
    LET r == IF latest # s.card THEN Reopened(s.mine, latest) ELSE s.mine
    IN [r EXCEPT !.due = _due_after(r, _answered_meanwhile(s))]

\* The last commit.  A date that is set is a new one, so it is always written; an
\* empty one that stays empty is not.
Commit(t, left) ==
    LET s == task[t]
    IN /\ row' = [c \in DOMAIN row |->
                    IF c = "due"
                    THEN IF left.due = "none" /\ s.base.due = "none" THEN row.due ELSE left.due
                    ELSE IF left[c] # s.mine[c] THEN left[c] ELSE Flushed(s)[c]]
       /\ wiped' = IF row'.due = "none" /\ (asked # s.since \/ "whole" \in jobs)
                   THEN wiped \cup {s.at} ELSE wiped
       /\ claim' = "free"
       /\ task' = [task EXCEPT ![t] = Idle]
       /\ UNCHANGED <<client, latest, asked, made, jobs, crm, faults,
                      heard, tried, closed, spilt>>

\* Nothing to flush; a request to Kommo is counted, whatever came of it.
Clean(s) == s.mine = s.base /\ (s.kind = "message" \/ s.mine.kommo # "retry")

\* The question for newer letters flushes the copy, and that locks the row until
\* the commit: nobody comes between.
Finish(t) ==
    /\ task[t].at = "last" /\ ~Clean(task[t])
    /\ Commit(t, Left(task[t]))

\* A job that has changed nothing asks without a lock.
Look(t) ==
    /\ task[t].at = "last" /\ Clean(task[t])
    /\ Goes(t, "closing", Left(task[t]))
    /\ UNCHANGED <<client, latest, asked, made, row, claim, jobs, crm, faults, history>>

Close(t) == task[t].at = "closing" /\ Commit(t, task[t].mine)

\* What is lost with a copy that is not written.
Spill(s) ==
    LET one(b) == IF b THEN 1 ELSE 0
        unsure == s.mine.kommo = "unconfirmed" /\ s.base.kommo # "unconfirmed"
        heard_of == s.mine.told # s.base.told \/ s.mine.link # s.base.link
    IN spilt' = [deal |-> spilt.deal + one(s.at = "made" \/ unsure),
                 note |-> spilt.note + one(s.mine.noted # s.base.noted),
                 word |-> spilt.word + one(heard_of),
                 half |-> spilt.half]

\* An error before the last commit: what the copy has is flushed with the release,
\* unless the session is broken, and the queue repeats the job.
_release_after_failure(t) ==
    /\ task[t].at \notin {"idle", "closing"} /\ Fault
    /\ jobs' = jobs \cup {task[t].kind}
    /\ \/ /\ row' = Flushed(task[t])
          /\ spilt' = [spilt EXCEPT !.half = @ + IF row' # row THEN 1 ELSE 0]
       \/ Spill(task[t]) /\ UNCHANGED row
    /\ claim' = "free"
    /\ task' = [task EXCEPT ![t] = Idle]
    /\ UNCHANGED <<client, latest, asked, made, crm, heard, tried, closed, wiped>>

\* The process dies; its claim stays, and its job may be lost.
Die(t) ==
    /\ task[t].at # "idle" /\ Fault
    /\ Spill(task[t])
    /\ task' = [task EXCEPT ![t] = Idle]
    /\ jobs' \in {jobs, jobs \cup {task[t].kind}}
    /\ UNCHANGED <<client, latest, asked, made, row, claim, crm, heard, tried, closed, wiped>>

-----------------------------------------------------------------------------
(* People: handoff_console.                                                 *)

_decided == made /\ row.kommo \in {"unconfirmed", "failed"} /\ claim # "held"

\* A person has looked in Kommo: there is no deal the row does not know of.
retry ==
    /\ _decided
    /\ crm.deals = 0 \/ row.deal # NoDeal
    /\ row' = [row EXCEPT !.kommo = "pending", !.due = "later"]
    /\ Enqueued("whole")
    /\ UNCHANGED <<client, latest, asked, made, claim, task, crm, history>>

\* Mutant: the link to the deal is left to the next letter.
Xclose(deal) ==
    /\ _decided
    /\ row' = [row EXCEPT !.kommo = "done", !.noted = latest,
                          !.deal = IF deal = NoDeal THEN @ ELSE deal]
    /\ closed' = latest
    /\ UNCHANGED <<client, latest, asked, made, claim, jobs, task, crm, faults,
                   heard, tried, spilt, wiped>>

\* Mutant: the letters are not marked as noted.
Xclosed(deal) ==
    /\ _decided
    /\ row' = [row EXCEPT !.kommo = "done", !.deal = IF deal = NoDeal THEN @ ELSE deal]
    /\ closed' = latest
    /\ UNCHANGED <<client, latest, asked, made, claim, jobs, task, crm, faults,
                   heard, tried, spilt, wiped>>

\* With the number of a deal, or when there is none and nothing is wanted.
close(deal) ==
    /\ _decided
    /\ IF deal = NoDeal THEN crm.deals = 0 \/ row.deal # NoDeal
       ELSE deal <= crm.deals /\ row.deal \in {NoDeal, deal}
    /\ LET r == [row EXCEPT !.kommo = "done", !.noted = latest,
                            !.deal = IF deal = NoDeal THEN @ ELSE deal]
       IN row' = IF deal # NoDeal /\ row.deal = NoDeal
                 THEN [r EXCEPT !.telegram_due = "now", !.tries = 0] ELSE r
    /\ closed' = latest
    /\ UNCHANGED <<client, latest, asked, made, claim, jobs, task, crm, faults,
                   heard, tried, spilt, wiped>>

-----------------------------------------------------------------------------

Step(t) ==
    \/ card_of(t) \/ Off(t) \/ Refusal(t) \/ _new_deal(t) \/ LoseDeal(t)
    \/ CommitDeal(t) \/ NothingToNote(t) \/ _note(t)
    \/ NothingToSay(t) \/ _personal(t) \/ LosePersonal(t) \/ _group_copy(t)
    \/ Finish(t) \/ Look(t) \/ Close(t)

Queue == Busy("whole") \/ Busy("message") \/ Expire
Pass == due \/ message_due
People == retry \/ \E deal \in 0..MaxFaults + 1 : close(deal)

Next ==
    \/ Answer \/ start \/ Pass \/ Queue \/ People
    \/ Ripen("due") \/ Ripen("telegram_due")
    \/ \E t \in Tasks :
         \/ \E kind \in Kinds : _claim(t, kind)
         \/ Step(t) \/ _release_after_failure(t) \/ Die(t)

Spec == Init /\ [][Next]_vars

\* A job that is queued is worked on, a job that works goes on, the passes come
\* again and again, a claim grows old.  Nobody has to answer, to decide, to fail.
LiveSpec ==
    /\ Spec
    /\ WF_vars(start) /\ WF_vars(due) /\ WF_vars(message_due) /\ WF_vars(Expire)
    /\ WF_vars(Ripen("due")) /\ WF_vars(Ripen("telegram_due"))
    /\ \A kind \in Kinds : WF_vars(\E t \in Tasks : _claim(t, kind))
    /\ \A t \in Tasks : WF_vars(Step(t))

-----------------------------------------------------------------------------
(* Safety.                                                                  *)

\* A lead has one deal, however often jobs were lost, refused and repeated: only a
\* job that could not write down the number, or that the outcome is unknown, makes
\* a second one (handoff_kommo.write, _after_lost_answer, handoff._reopen).
OneDeal == crm.deals <= 1 + spilt.deal

\* A letter is noted once, also when the answer to the note was lost; only a job
\* that could not write down what it did notes it again (handoff_kommo._note).
NotedOnce == \A i \in Replies : crm.notes[i] <= 1 + spilt.note + spilt.deal

\* Of one letter with one link the telemarketer hears once, whatever jobs, passes
\* and people ask for it; a lost answer or a job that could not write may repeat
\* it (handoff_telegram.step).
ToldOnce == \A h \in DOMAIN heard : heard[h] <= 1 + spilt.word

\* What a person has closed stays closed until the lead writes again: no job,
\* pass or late start of an old letter opens it (handoff_console.close).
ClosedStaysClosed == closed = latest => row.kommo = "done"

Working == \E t \in Tasks : task[t].at # "idle"

\* What is to be written or said of the newest letter.
Open == row.kommo \in WORK \/ (row.telegram = "pending" /\ row.told # latest)

\* Work that is open is in somebody's hands or has a date at which the pass takes
\* it, whatever died and was refused: unless a job has wiped the date of a start
\* (start, _due_after, _take).
WorkIsDated ==
    asked = latest /\ Open /\ ~Working /\ jobs = {} => row.due # "none" \/ wiped # {}

-----------------------------------------------------------------------------
(* Liveness.                                                                *)

\* Every letter the hand-over was started for is told at last, or a later one is,
\* or a message was tried for it and its series has ended with an alarm; before the
\* first message went, the alarm of an earlier letter may have to do.  Only a job that
\* broke off halfway, or had nothing to do, may write over the start of a letter that
\* came meanwhile (handoff._answered_meanwhile, handoff_telegram.news, after_failure).
LetterIsTold == \A i \in Replies :
    asked >= i ~> \/ row.told >= i
                  \/ Said(row) /\ (tried >= i \/ row.told = NoReply)
                  \/ spilt.half > 0 \/ "closing" \in wiped

\* The row owes a message that has gone: a job read it as sent, a start made it
\* pending, and the job, for which it was sent before and after, wrote nothing.
Stale == row.telegram = "pending" /\ row.told = latest

\* A deal the row knows of is told of: its link follows the link to the
\* conversation, also when a person has entered its number (close) and when the
\* job that made it died; again unless a job broke off halfway or wiped a date, and
\* no pass takes the message of a stale row (message_due).
DealIsTold == row.deal # NoDeal ~>
    row.link = "deal" \/ Said(row) \/ Stale \/ spilt.half > 0 \/ wiped # {}
==============================================================================
