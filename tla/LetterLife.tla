----------------------------- MODULE LetterLife -----------------------------
(***************************************************************************)
(* The life of the letters of one conversation: the first letter and its   *)
(* follow-ups, from the queue to "sent", "delivered", "bounced" or         *)
(* "stopped".  The rows of the tables messages, threads and suppressions   *)
(* are shared by                                                           *)
(*   - Clicks: runs of Sending.send for the first letter (the screen, a    *)
(*     batch, the queue that sends itself);                                *)
(*   - Passes: runs of followups.send_due;                                 *)
(*   - Hooks: webhook calls (delivery events, replies, opt-outs);          *)
(*   - the people who settle a letter with an unknown outcome or withdraw  *)
(*     one, and the pass that returns letters bounced by a silent DNS.     *)
(* A step is a database transaction, or the part of one between two        *)
(* statements when the code writes what it decided from an earlier read.   *)
(***************************************************************************)
EXTENDS Integers, FiniteSets

CONSTANTS
    MaxSteps,    \* chain.MAX_STEPS: the first letter and the follow-ups
    Cadence,     \* how many follow-ups the campaign plans (chain.planned)
    Clicks,      \* concurrent runs of send for the first letter
    Passes,      \* concurrent follow-up passes
    Hooks,       \* concurrent webhook calls
    Jobs,        \* what they bring, of AllJobs
    MaxClaims,   \* bound: claims of one letter
    MaxReturns,  \* bound: returns of one letter to the queue
    MaxCrashes   \* bound: processes that die, webhook calls that roll back

ASSUME ChainAssumption == MaxSteps \in Nat \ {0} /\ Cadence \in 0..(MaxSteps - 1)
ASSUME ProcessAssumption == Clicks \cap Passes = {}
ASSUME BoundAssumption ==
    MaxClaims \in Nat /\ MaxReturns \in Nat /\ MaxCrashes \in Nat

Letters == 0..(MaxSteps - 1)
Procs == Clicks \cup Passes

PENDING == {"queued", "sending"}
CHAINABLE == {"sent", "delivered"}
GONE_STATUSES == CHAINABLE \cup {"bounced"}
\* "none": the row of the follow-up does not exist yet
Status == {"none", "stopped"} \cup PENDING \cup GONE_STATUSES
\* failure_reason: the recipient's DNS was silent, the letter was withdrawn
\* before it ever left (attempts.WITHDRAWN_REASONS), anything else.
Reason == {"", "dns", "withdrawn", "other"}
ThreadStatus == {"open", "replied", "unsubscribed"}

\* What a webhook call brings: an event of the platform, a reply, an opt-out.
Events == {"processed", "delivered", "bounce", "dns_bounce", "spamreport"}
Replies == {"human", "bounce_reply", "unsubscribe_reply"}
ANSWERS == {"human", "unsubscribe_reply"}
AllJobs == Events \cup Replies \cup {"optout"}

ASSUME JobAssumption == Jobs \subseteq AllJobs

Attempts == 0..MaxClaims   \* 0: no attempt has left its Message-ID in the row

VARIABLES
    letter,    \* messages: status, Message-ID and box, next_action_at, reason
    thread,    \* threads.status
    stop,      \* a suppression row holds the addressee
    buried,    \* contacts: the addressee's mailbox is marked dead
    replies,   \* kinds of the replies recorded for the conversation
    proc,      \* the runs of send and of the follow-up pass
    hook,      \* the webhook calls
    crashes,   \* how many of them have died
    took,      \* history: attempts of each letter the platform accepted
    claims,    \* history: claims of each letter
    returns,   \* history: times somebody returned a letter to the queue
    recorded   \* history: rows "letter_send" in the usage journal

site == <<thread, stop, buried, replies>>
rows == <<letter, site>>
history == <<took, claims, returns, recorded>>
vars == <<rows, proc, hook, crashes, history>>

-----------------------------------------------------------------------------
(* The rows and the processes.                                             *)

Row == [status : Status,
        mid : Attempts,      \* the attempt whose Message-ID and box it holds
        due : BOOLEAN,       \* next_action_at is set
        why : Reason,        \* failure_reason
        back : BOOLEAN]      \* returned once after a silent DNS (deferred_since)

NoRow == [status |-> "none", mid |-> 0, due |-> FALSE, why |-> "", back |-> FALSE]

ProcState == [pc : {"idle", "claimed", "made", "checked", "handing",
                    "settling", "suppressed", "restoring"},
              at : Letters,        \* the letter it is sending
              mine : Attempts,     \* its own attempt, from the claim on
              before : Attempts]   \* the attempt the row held when it was read

Idle == [pc |-> "idle", at |-> 0, mine |-> 0, before |-> 0]

\* What a handler decides from: the status and whether there is a due date.
View == [status : Status, due : BOOLEAN]
NoView == [status |-> "none", due |-> FALSE]
ViewOf(row) == [status |-> row.status, due |-> row.due]

HookState == [job : AllJobs \cup {"idle"},
              at : Letters,
              seen : [Letters -> View],    \* the rows as the call has read them
              was : ThreadStatus,          \* ... and the thread
              tried : SUBSET PENDING]

NoHook == [job |-> "idle", at |-> 0, seen |-> [l \in Letters |-> NoView],
           was |-> "open", tried |-> {}]

TypeOK ==
    /\ letter \in [Letters -> Row]
    /\ thread \in ThreadStatus
    /\ stop \in BOOLEAN /\ buried \in BOOLEAN
    /\ replies \subseteq Replies
    /\ proc \in [Procs -> ProcState]
    /\ hook \in [Hooks -> HookState]
    /\ crashes \in Nat
    /\ took \in [Letters -> SUBSET Attempts]
    /\ claims \in [Letters -> Attempts]
    /\ returns \in [Letters -> Nat]
    /\ recorded \in [Letters -> Nat]

\* The queue has been built: the first letter waits, the follow-ups are born
\* by their due dates.
Init ==
    /\ letter = [l \in Letters |-> IF l = 0 THEN [NoRow EXCEPT !.status = "queued"] ELSE NoRow]
    /\ thread = "open"
    /\ stop = FALSE /\ buried = FALSE
    /\ replies = {}
    /\ proc = [w \in Procs |-> Idle]
    /\ hook = [h \in Hooks |-> NoHook]
    /\ crashes = 0
    /\ took = [l \in Letters |-> {}]
    /\ claims = [l \in Letters |-> 0]
    /\ returns = [l \in Letters |-> 0]
    /\ recorded = [l \in Letters |-> 0]

isFollowup(l) == l > 0

\* chain.due_after assigns a date while the campaign plans one more follow-up.
HasNext(l) == l < Cadence

\* A process has the letter in its hands: from the claim to the recorded answer.
Carries(w, l) == proc[w].at = l /\ proc[w].pc \in {"handing", "settling"}

\* Mutant: the buttons and the pass of DNS returns do not wait.
AnyTime(l) == l \in Letters

\* STUCK_AFTER is twice the longest transmission (and the pass of DNS returns
\* waits longer still): by then nobody has the letter in hand any more.
PastStuckAfter(l) == \A w \in Procs : ~Carries(w, l)

\* The previous letter of the chain went out and the conversation is open.
alive_link(l) == letter[l - 1].status \in CHAINABLE /\ thread = "open"

\* What record_sent writes into the row.
SentRow(l, row) == [row EXCEPT !.status = "sent", !.due = HasNext(l)]

Turn(w, pc) == proc' = [proc EXCEPT ![w].pc = pc]
Finish(w) == proc' = [proc EXCEPT ![w] = Idle]
\* Mutant: a pass forgets the due date when send fails.
FailForgetful(w) == Finish(w)

\* send raised SendError: a pass gives the due date back, the others just stop.
Fail(w) == IF w \in Passes THEN Turn(w, "restoring") ELSE Finish(w)

-----------------------------------------------------------------------------
(* Sending.send, by a click or by a follow-up pass.                        *)

\* The letter is read from the queue and every check passes: stop list, review,
\* window, recipient's DNS, box.
CheckClick(w, l) ==
    /\ w \in Clicks /\ l = 0 /\ proc[w].pc = "idle"
    /\ letter[l].status = "queued" /\ ~stop
    /\ proc' = [proc EXCEPT ![w] =
                  [pc |-> "checked", at |-> l, mine |-> 0, before |-> letter[l].mid]]
    /\ UNCHANGED <<rows, hook, crashes, history>>

\* Mutant: the pass trusts that the stop list was looked at when it took the date.
CheckFollowupTrusting(w) ==
    /\ proc[w].pc = "made"
    /\ letter[proc[w].at].status = "queued"
    /\ proc' = [proc EXCEPT ![w].pc = "checked", ![w].before = letter[proc[w].at].mid]
    /\ UNCHANGED <<rows, hook, crashes, history>>

CheckFollowup(w) ==
    /\ proc[w].pc = "made"
    /\ letter[proc[w].at].status = "queued" /\ ~stop
    /\ proc' = [proc EXCEPT ![w].pc = "checked", ![w].before = letter[proc[w].at].mid]
    /\ UNCHANGED <<rows, hook, crashes, history>>

\* Mutant: the claim is an unconditional write.
ClaimBlindly(w) ==
    LET l == proc[w].at
        a == claims[l] + 1
    IN /\ proc[w].pc = "checked" /\ a <= MaxClaims
       /\ letter' = [letter EXCEPT ![l].status = "sending", ![l].mid = a]
       /\ claims' = [claims EXCEPT ![l] = a]
       /\ proc' = [proc EXCEPT ![w].pc = "handing", ![w].mine = a]
       /\ UNCHANGED <<site, hook, crashes, took, returns, recorded>>

\* Mutant: the claim leaves the Message-ID to be written after the answer.
ClaimWithoutTrace(w) ==
    LET l == proc[w].at
        a == claims[l] + 1
    IN /\ proc[w].pc = "checked"
       /\ letter[l].status = "queued" /\ a <= MaxClaims
       /\ letter' = [letter EXCEPT ![l].status = "sending"]
       /\ claims' = [claims EXCEPT ![l] = a]
       /\ proc' = [proc EXCEPT ![w].pc = "handing", ![w].mine = a]
       /\ UNCHANGED <<site, hook, crashes, took, returns, recorded>>

\* The conditional UPDATE: whoever finds the row out of the queue has lost.
Claim(w) ==
    LET l == proc[w].at
        a == claims[l] + 1
    IN /\ proc[w].pc = "checked"
       /\ letter[l].status = "queued" /\ a <= MaxClaims
       /\ letter' = [letter EXCEPT ![l].status = "sending", ![l].mid = a]
       /\ claims' = [claims EXCEPT ![l] = a]
       /\ proc' = [proc EXCEPT ![w].pc = "handing", ![w].mine = a]
       /\ UNCHANGED <<site, hook, crashes, took, returns, recorded>>

LoseClaim(w) ==
    /\ proc[w].pc = "checked"
    /\ letter[proc[w].at].status # "queued"
    /\ Finish(w)
    /\ UNCHANGED <<rows, hook, crashes, history>>

\* The platform takes the letter; its answer is still on the way.
Accept(w) ==
    LET l == proc[w].at IN
    /\ proc[w].pc = "handing" /\ proc[w].mine \notin took[l]
    /\ took' = [took EXCEPT ![l] = @ \cup {proc[w].mine}]
    /\ UNCHANGED <<rows, proc, hook, crashes, claims, returns, recorded>>

\* The answer with the platform's number arrives.
Answer(w) ==
    /\ proc[w].pc = "handing" /\ proc[w].mine \in took[proc[w].at]
    /\ Turn(w, "settling")
    /\ UNCHANGED <<rows, hook, crashes, history>>

\* Mutant: a lost answer is taken for a refusal.
RefuseOnTimeout(w) ==
    LET l == proc[w].at IN
    /\ proc[w].pc = "handing"
    /\ letter' = [letter EXCEPT ![l].status = "queued", ![l].mid = proc[w].before]
    /\ Fail(w)
    /\ UNCHANGED <<site, hook, crashes, history>>

\* TransportError: the platform did not take it.  The row goes back to the
\* queue with the box and the Message-ID it had, whatever it says by now.
Refuse(w) ==
    LET l == proc[w].at IN
    /\ proc[w].pc = "handing" /\ proc[w].mine \notin took[l]
    /\ letter' = [letter EXCEPT ![l].status = "queued", ![l].mid = proc[w].before]
    /\ Fail(w)
    /\ UNCHANGED <<site, hook, crashes, history>>

\* Mutant: a pass gives the due date back after an unknown outcome.
LoseAnswerAsFailure(w) ==
    /\ proc[w].pc = "handing"
    /\ Fail(w)
    /\ UNCHANGED <<rows, hook, crashes, history>>

\* MaybeSentError and the like: the outcome is unknown, the letter stays
\* "sending", and a pass does not repeat it.
LoseAnswer(w) ==
    /\ proc[w].pc = "handing"
    /\ Finish(w)
    /\ UNCHANGED <<rows, hook, crashes, history>>

\* Mutant: record_sent does not ask whether the letter is still "sending".
SettleBlindly(w) ==
    LET l == proc[w].at IN
    /\ proc[w].pc = "settling"
    /\ letter' = [letter EXCEPT ![l] = SentRow(l, @)]
    /\ recorded' = [recorded EXCEPT ![l] = @ + 1]
    /\ Finish(w)
    /\ UNCHANGED <<site, hook, crashes, took, claims, returns>>

\* settle.record_sent after an answer.
Settle(w) ==
    LET l == proc[w].at IN
    /\ proc[w].pc = "settling"
    /\ IF letter[l].status = "sending"
       THEN /\ letter' = [letter EXCEPT ![l] = SentRow(l, @)]
            /\ recorded' = [recorded EXCEPT ![l] = @ + 1]
       ELSE UNCHANGED <<letter, recorded>>
    /\ Finish(w)
    /\ UNCHANGED <<site, hook, crashes, took, claims, returns>>

-----------------------------------------------------------------------------
(* followups.send_due.                                                     *)

\* Chain.claim: the due date is cleared by the statement that finds it.
ClaimDue(w, l) ==
    /\ w \in Passes /\ proc[w].pc = "idle"
    /\ l < MaxSteps - 1 /\ letter[l].status \in CHAINABLE /\ letter[l].due
    /\ letter' = [letter EXCEPT ![l].due = FALSE]
    /\ proc' = [proc EXCEPT ![w] =
                  [pc |-> "claimed", at |-> l + 1, mine |-> 0, before |-> 0]]
    /\ UNCHANGED <<site, hook, crashes, history>>

GiveBack(l) == letter' = [letter EXCEPT ![l - 1].due = TRUE]

\* _waits: the box is deleted or its hourly lane is used up.
Waits(w) ==
    /\ proc[w].pc = "claimed"
    /\ GiveBack(proc[w].at)
    /\ Finish(w)
    /\ UNCHANGED <<site, hook, crashes, history>>

\* Chain.materialize: the row of the step, or the one a previous try has left.
Materialize(w) ==
    LET l == proc[w].at IN
    /\ proc[w].pc = "claimed"
    /\ letter' = IF letter[l].status = "none"
                 THEN [letter EXCEPT ![l].status = "queued"]
                 ELSE letter
    /\ Turn(w, "made")
    /\ UNCHANGED <<site, hook, crashes, history>>

\* ForbiddenContentError: Chain.stop ends the chain.
Forbid(w) ==
    LET l == proc[w].at IN
    /\ proc[w].pc = "claimed"
    /\ letter' = [k \in Letters |->
                    CASE k = l - 1 -> [letter[k] EXCEPT !.why = "other"]
                      [] k = l /\ letter[k].status = "queued" ->
                           [letter[k] EXCEPT !.status = "stopped", !.why = "other"]
                      [] OTHER -> letter[k]]
    /\ Finish(w)
    /\ UNCHANGED <<site, hook, crashes, history>>

\* NotQueuedError: the step has been decided another way; nothing is restored.
AlreadyDecided(w) ==
    /\ proc[w].pc = "made"
    /\ letter[proc[w].at].status # "queued"
    /\ Finish(w)
    /\ UNCHANGED <<rows, hook, crashes, history>>

\* SuppressedError: the stop list holds the addressee, or the person who
\* reviews donors has rejected this one.
Suppressed(w) ==
    /\ proc[w].pc = "made"
    /\ letter[proc[w].at].status = "queued"
    /\ Turn(w, "suppressed")
    /\ UNCHANGED <<rows, hook, crashes, history>>

\* ... and the pass writes "stopped" over whatever the row says by now.
WriteStopped(w) ==
    /\ proc[w].pc = "suppressed"
    /\ letter' = [letter EXCEPT ![proc[w].at].status = "stopped"]
    /\ Finish(w)
    /\ UNCHANGED <<site, hook, crashes, history>>

\* NoSenderError, a closed window, a silent DNS, an undecided donor.
Postpone(w) ==
    /\ proc[w].pc = "made"
    /\ letter[proc[w].at].status = "queued" /\ ~stop
    /\ Turn(w, "restoring")
    /\ UNCHANGED <<rows, hook, crashes, history>>

\* Chain.restore, by number and without a condition.
Restore(w) ==
    /\ proc[w].pc = "restoring"
    /\ GiveBack(proc[w].at)
    /\ Finish(w)
    /\ UNCHANGED <<site, hook, crashes, history>>

\* The process dies between two of its transactions.
Crash(w) ==
    /\ proc[w].pc # "idle" /\ crashes < MaxCrashes
    /\ crashes' = crashes + 1
    /\ Finish(w)
    /\ UNCHANGED <<rows, hook, history>>

-----------------------------------------------------------------------------
(* Webhook calls.  Read takes the rows as they are; the write commits what  *)
(* the call has decided from them.  A column is written only when the value *)
(* differs from the one that was read.                                      *)

\* The platform tells only of a letter it has accepted, at least once and in
\* any order; a reply or an opt-out needs a letter that arrived.
Read(h, job, l) ==
    /\ hook[h].job = "idle"
    /\ took[l] # {}
    /\ hook' = [hook EXCEPT ![h] =
                  [job |-> job, at |-> l, tried |-> {},
                   was |-> IF job \in {"human", "optout"} THEN thread ELSE "open",
                   seen |-> [k \in Letters |-> IF job \in Events => k = l
                                              THEN ViewOf(letter[k]) ELSE NoView]]]
    /\ UNCHANGED <<rows, proc, crashes, history>>

Leave(h) == hook' = [hook EXCEPT ![h] = NoHook]

\* A handler that failed commits nothing; the platform will repeat the call.
RollBack(h) ==
    /\ hook[h].job # "idle" /\ crashes < MaxCrashes
    /\ crashes' = crashes + 1
    /\ Leave(h)
    /\ UNCHANGED <<rows, proc, history>>

Clear(row, seen) == [row EXCEPT !.due = IF seen.due THEN FALSE ELSE @]

\* Mutant: the platform's word becomes the failure reason as it stands.
AppliedVerbatim(row, seen, kind) ==
    IF kind = "processed" THEN row
    ELSE [Clear(row, seen) EXCEPT !.why = kind]

\* events._apply_one: what the event makes of the row, decided on what was seen.
Applied(row, seen, kind) ==
    CASE kind = "processed" -> row
      [] kind = "delivered" ->
           [row EXCEPT !.status = IF seen.status = "sent" THEN "delivered" ELSE @]
      [] kind \in {"bounce", "dns_bounce"} ->
           [Clear(row, seen) EXCEPT
              !.status = IF seen.status # "bounced" THEN "bounced" ELSE @,
              !.why = IF kind = "dns_bounce" THEN "dns" ELSE "other"]
      [] kind = "spamreport" -> [Clear(row, seen) EXCEPT !.why = "other"]

\* Mutant: only a letter in the queue is settled by an event.
UnsettledInQueue(h) ==
    LET s == hook[h].seen[hook[h].at].status IN
    hook[h].job \in Events /\ s \in {"queued"} \ hook[h].tried

\* The letter is pending: is the row still where the call has seen it?
Unsettled(h) ==
    LET s == hook[h].seen[hook[h].at].status IN
    hook[h].job \in Events /\ s \in PENDING \ hook[h].tried

\* A complaint puts the donor on the stop list, a refused address is buried
\* (not after a soft refusal, and not for a silent DNS).
Consequences(h) ==
    /\ stop' = (stop \/ hook[h].job = "spamreport")
    /\ \E soft \in BOOLEAN : buried' = (buried \/ (hook[h].job = "bounce" /\ ~soft))
    /\ UNCHANGED <<thread, replies>>

\* settle_by_event wins: sent, the resend is closed, and the event does its own.
SettleByEvent(h) ==
    LET l == hook[h].at
        was == hook[h].seen[l].status
        sent == SentRow(l, letter[l])
    IN /\ Unsettled(h) /\ letter[l].status = was
       /\ letter' = [k \in Letters |->
                       CASE k = l -> Applied(sent, ViewOf(sent), hook[h].job)
                         [] k = l - 1 /\ was = "queued" -> [letter[k] EXCEPT !.due = FALSE]
                         [] OTHER -> letter[k]]
       /\ recorded' = [recorded EXCEPT ![l] = @ + 1]
       /\ Consequences(h)
       /\ Leave(h)
       /\ UNCHANGED <<proc, crashes, took, claims, returns>>

\* settle_by_event loses: the row is read again, each state is tried once.
ReadAgain(h) ==
    LET l == hook[h].at
        was == hook[h].seen[l].status
    IN /\ Unsettled(h) /\ letter[l].status # was
       /\ hook' = [hook EXCEPT ![h].seen[l] = ViewOf(letter[l]), ![h].tried = @ \cup {was}]
       /\ UNCHANGED <<rows, proc, crashes, history>>

ApplyEvent(h) ==
    LET l == hook[h].at IN
    /\ hook[h].job \in Events /\ ~Unsettled(h)
    /\ letter' = [letter EXCEPT ![l] = Applied(@, hook[h].seen[l], hook[h].job)]
    /\ Consequences(h)
    /\ Leave(h)
    /\ UNCHANGED <<proc, crashes, history>>

\* stop_chain and stoplist._stop: out of the queue, and no due date.
Stopped(row, seen) ==
    [Clear(row, seen) EXCEPT !.status = IF seen.status = "queued" THEN "stopped" ELSE @]

\* Inbox.accept: a person, a bounce report or an unsubscribe request.  The
\* stop list takes the address that wrote: the addressee's, or another one.
AcceptReply(h) ==
    LET job == hook[h].job
        seen == hook[h].seen
        bounced(l) == job = "bounce_reply" /\ l = hook[h].at /\ seen[l].status \in CHAINABLE
    IN /\ job \in Replies
       /\ letter' = [l \in Letters |->
                       LET row == Stopped(letter[l], seen[l]) IN
                       [row EXCEPT !.status = IF bounced(l) THEN "bounced" ELSE @]]
       /\ thread' = IF job = "human" /\ hook[h].was = "open" THEN "replied" ELSE thread
       /\ \E same \in BOOLEAN : stop' = (stop \/ (job = "unsubscribe_reply" /\ same))
       /\ buried' = (buried \/ job = "bounce_reply")
       /\ replies' = replies \cup {job}
       /\ Leave(h)
       /\ UNCHANGED <<proc, crashes, history>>

\* optout.unsubscribe_domain.
OptOut(h) ==
    /\ hook[h].job = "optout"
    /\ letter' = [l \in Letters |-> Stopped(letter[l], hook[h].seen[l])]
    /\ thread' = IF hook[h].was # "unsubscribed" THEN "unsubscribed" ELSE thread
    /\ stop' = TRUE
    /\ Leave(h)
    /\ UNCHANGED <<buried, replies, proc, crashes, history>>

-----------------------------------------------------------------------------
(* People, and the pass of DNS returns.                                     *)

\* "Sent": the person has found the letter in the platform's journal.
FoundSent(l) ==
    /\ letter[l].status = "sending" /\ PastStuckAfter(l)
    /\ took[l] # {}
    /\ letter' = [letter EXCEPT ![l] = SentRow(l, @)]
    /\ recorded' = [recorded EXCEPT ![l] = @ + 1]
    /\ UNCHANGED <<site, proc, hook, crashes, took, claims, returns>>

\* The previous letter gets its due date back together with the follow-up.
Requeued(l) ==
    [k \in Letters |->
       CASE k = l -> [letter[k] EXCEPT !.status = "queued"]
         [] k = l - 1 -> [letter[k] EXCEPT !.due = TRUE]
         [] OTHER -> letter[k]]

\* "Return to the queue": not found there (it may have gone all the same).
ReturnToQueue(l) ==
    /\ letter[l].status = "sending" /\ PastStuckAfter(l)
    /\ isFollowup(l) => alive_link(l)
    /\ returns[l] < MaxReturns
    /\ letter' = Requeued(l)
    /\ returns' = [returns EXCEPT ![l] = @ + 1]
    /\ UNCHANGED <<site, proc, hook, crashes, took, claims, recorded>>

\* ... but the chain has ended meanwhile: the follow-up will not go.
ReturnDead(l) ==
    /\ letter[l].status = "sending" /\ PastStuckAfter(l)
    /\ isFollowup(l) /\ ~alive_link(l)
    /\ letter' = [letter EXCEPT ![l].status = "stopped"]
    /\ UNCHANGED <<site, proc, hook, crashes, history>>

\* attempts.dead: the letter has not reached and will not reach anybody.
dead(l) ==
    \/ letter[l].status \in {"none", "bounced"}
    \/ letter[l].status \notin PENDING /\ buried
    \/ letter[l].status = "stopped" /\ letter[l].why = "withdrawn"

\* dns_return._taken: the addressee has a living letter of this step or a later
\* one; for a first letter, any living letter or an answer.
taken(l) ==
    \/ \E k \in Letters : k >= l /\ ~dead(k)
    \/ ~isFollowup(l) /\ (replies \cap ANSWERS # {} \/ thread # "open")

\* dns_return._return: once.
ReturnBounced(l) ==
    /\ letter[l].status = "bounced" /\ letter[l].why = "dns" /\ ~letter[l].back
    /\ PastStuckAfter(l) /\ ~taken(l)
    /\ isFollowup(l) => alive_link(l)
    /\ returns[l] < MaxReturns
    /\ letter' = [Requeued(l) EXCEPT ![l].why = "", ![l].back = TRUE]
    /\ returns' = [returns EXCEPT ![l] = @ + 1]
    /\ UNCHANGED <<site, proc, hook, crashes, took, claims, recorded>>

\* review.skip: "do not write to this donor".
Skip(l) ==
    /\ letter[l].status = "queued"
    /\ letter' = [letter EXCEPT ![l].status = "stopped"]
    /\ UNCHANGED <<site, proc, hook, crashes, history>>

\* donor_standing.stop_for_good: no writing to this donor.
StopForGood(l) ==
    /\ letter[l].status = "queued"
    /\ letter' = [letter EXCEPT ![l].status = "stopped", ![l].due = FALSE, ![l].why = "other"]
    /\ UNCHANGED <<site, proc, hook, crashes, history>>

\* offer_stop.out_of_queue: "withdrawn", unless the row holds the Message-ID of
\* an earlier attempt, which may have gone.
OutOfQueue(l) ==
    /\ letter[l].status = "queued"
    /\ letter' = [letter EXCEPT ![l].status = "stopped", ![l].due = FALSE,
                                ![l].why = IF letter[l].mid = 0 THEN "withdrawn"
                                            ELSE letter[l].why]
    /\ UNCHANGED <<site, proc, hook, crashes, history>>

-----------------------------------------------------------------------------
SendStep(w) ==
    \/ CheckFollowup(w) \/ Claim(w) \/ LoseClaim(w) \/ Accept(w) \/ Answer(w)
    \/ Refuse(w) \/ LoseAnswer(w) \/ Settle(w)

PassStep(w) ==
    \/ Waits(w) \/ Materialize(w) \/ Forbid(w) \/ AlreadyDecided(w)
    \/ Suppressed(w) \/ WriteStopped(w) \/ Postpone(w) \/ Restore(w)

ProcNext ==
    \/ \E w \in Procs : SendStep(w) \/ PassStep(w) \/ Crash(w)
    \/ \E w \in Procs, l \in Letters : CheckClick(w, l) \/ ClaimDue(w, l)

HookStep(h) ==
    SettleByEvent(h) \/ ReadAgain(h) \/ ApplyEvent(h) \/ AcceptReply(h) \/ OptOut(h)

HookNext ==
    \/ \E h \in Hooks : HookStep(h) \/ RollBack(h)
    \/ \E h \in Hooks, job \in Jobs, l \in Letters : Read(h, job, l)

PeopleNext == \E l \in Letters :
    \/ FoundSent(l) \/ ReturnToQueue(l) \/ ReturnDead(l) \/ ReturnBounced(l)
    \/ Skip(l) \/ StopForGood(l) \/ OutOfQueue(l)

Next == ProcNext \/ HookNext \/ PeopleNext

Spec == Init /\ [][Next]_vars

\* A process that has started a step finishes it, a webhook call ends, and the
\* platform, which repeats a call until it is answered, tells at last of every
\* letter it has accepted.  Nobody has to press a button, no due date has to be
\* taken, and no process has to die.
LiveSpec ==
    /\ Spec
    /\ \A w \in Procs : WF_vars(SendStep(w) \/ PassStep(w))
    /\ \A h \in Hooks : WF_vars(HookStep(h))
    /\ \A l \in Letters : SF_vars(\E h \in Hooks : Read(h, "processed", l))

-----------------------------------------------------------------------------
(* Safety.                                                                  *)

\* The platform accepts a letter once, and once more for every time somebody
\* returned it to the queue: no two of send, the pass, an event and a retry
\* after a refusal ever send it twice (Sending._claim, settle.leave).
AtMostOncePerGrant == \A l \in Letters : Cardinality(took[l]) <= 1 + returns[l]

\* A letter is in the hands of one process: no transmission runs beside another
\* of the same letter, retried by hand or by the pass of DNS returns
\* (unknown_outcome.STUCK_AFTER, dns_return.SETTLE).
OneCarrier == \A l \in Letters : \A v, w \in Procs :
    Carries(v, l) /\ Carries(w, l) => v = w

\* One letter, one row "letter_send" in the journal and one count against the
\* box, whichever of the answer, the event and the person came first
\* (settle.record_sent); and the chain goes on from no letter without it.  A
\* bounced one may lack it: an opt-out that has read the follow-up in the queue
\* writes "stopped" over "sending" (replies/repository.py, stop_chain), the
\* answer then finds nothing to record, and the bounce comes after that.
CountedOnce == \A l \in Letters :
    returns[l] = 0 =>
        /\ recorded[l] <= 1
        /\ letter[l].status \in CHAINABLE => recorded[l] = 1

\* A letter recorded as gone holds the Message-ID and the box of the attempt the
\* platform accepted: the follow-up goes from that box and into that branch
\* (Sending._claim, Sending._hand_over, settle.record_sent).
TraceOfAcceptance == \A l \in Letters :
    returns[l] = 0 /\ letter[l].status \in GONE_STATUSES => letter[l].mid \in took[l]

\* A letter has no due date once its follow-up is in the platform's hands: the
\* pass does not come back for a step that may have gone (Chain.claim,
\* followups._deliver).
DueNotBehind == \A l \in Letters :
    l + 1 \in Letters /\ returns[l] = 0 /\ returns[l + 1] = 0
    /\ letter[l + 1].status \in {"sending"} \cup GONE_STATUSES
        => ~letter[l].due

\* Somebody is on the stop list, and nobody has passed its checks before that.
Quiet == stop /\ \A w \in Procs : proc[w].pc \notin {"checked", "handing"}

\* After an opt-out or a complaint no letter goes: only those whose checks were
\* over by then (Sending._check_suppression, followups._deliver).
SilentAfterStop == [][Quiet => Quiet' /\ took' = took]_vars

\* A letter that is gone comes back to the queue, or into the hands of a
\* process, only when somebody returned it (events.py, settle.leave).
SentStaysSent ==
    [][\A l \in Letters :
         letter[l].status \in GONE_STATUSES /\ returns'[l] = 0
            => letter'[l].status \notin {"none"} \cup PENDING]_vars

\* What the recipient sees of all this.
Promise == INSTANCE LetterPromise WITH
    given <- [l \in Letters |-> Cardinality(took[l])],
    allowed <- [l \in Letters |-> IF letter[l].status = "none" THEN 0 ELSE 1 + returns[l]],
    silent <- Quiet

\* send, the pass, the events and the people together keep the promise.
KeepsPromise == Promise!Spec

-----------------------------------------------------------------------------
(* Liveness.                                                                *)

\* The outcome of a letter the platform has accepted becomes known: it does not
\* stay "sending" for ever (unknown_outcome.settle_by_event).
AcceptedIsSettled == \A l \in Letters :
    took[l] # {} /\ letter[l].status = "sending" ~> letter[l].status # "sending"

\* A pass that has taken a due date ends with the follow-up out of the queue,
\* with the date given back or with the reason written to the previous letter
\* (followups._deliver, Chain.stop).  Once MaxClaims is used up the model cannot
\* claim the follow-up any more, and the property does not speak of it.
FollowupNotLost == \A w \in Passes : \A l \in Letters \ {0} :
    proc[w].pc = "claimed" /\ proc[w].at = l
        ~> \/ /\ proc[w].pc = "idle"
              /\ \/ letter[l - 1].due
                 \/ letter[l].status \notin {"none", "queued"}
                 \/ letter[l - 1].why # ""
           \/ claims[l] = MaxClaims

-----------------------------------------------------------------------------
(* Why it holds: what every step keeps.                                     *)

InHands == {"handing", "settling"}
NotYet == {"none", "queued"}

\* The attempts the platform took were claimed, and the one it is about to
\* report on is among them.
AttemptsAreClaims ==
    /\ \A l \in Letters : took[l] \subseteq 1..claims[l]
    /\ \A w \in Procs :
         proc[w].pc \in InHands =>
           /\ proc[w].mine \in 1..claims[proc[w].at]
           /\ letter[proc[w].at].status \notin NotYet
    /\ \A w \in Procs : proc[w].pc = "settling" => proc[w].mine \in took[proc[w].at]

\* A letter that waits, and a transmission the platform has not taken yet, have
\* a grant left.
GrantLeft ==
    /\ \A l \in Letters :
         letter[l].status \in NotYet => Cardinality(took[l]) <= returns[l]
    /\ \A w \in Procs :
         proc[w].pc = "handing" /\ proc[w].mine \notin took[proc[w].at]
           => Cardinality(took[proc[w].at]) <= returns[proc[w].at]
    /\ \A l \in Letters : letter[l].status = "none" => returns[l] = 0

GrantInv == AttemptsAreClaims /\ OneCarrier /\ GrantLeft /\ AtMostOncePerGrant

\* What is recorded as gone, what the platform tells of and what the chain goes
\* on from has been taken by the platform.
GoneWasTaken ==
    /\ \A l \in Letters : letter[l].status \in GONE_STATUSES => took[l] # {}
    /\ \A h \in Hooks : hook[h].job # "idle" => took[hook[h].at] # {}
    /\ \A w \in Procs :
         proc[w].pc = "claimed" => proc[w].at > 0 /\ took[proc[w].at - 1] # {}

\* A webhook call and a run of send speak only of rows that exist.
RowsAreBorn ==
    /\ \A h \in Hooks, l \in Letters :
         hook[h].seen[l].status # "none" => letter[l].status # "none"
    /\ \A w \in Procs :
         proc[w].pc \in {"made", "checked", "suppressed"} => letter[proc[w].at].status # "none"

ChainInv == GoneWasTaken /\ RowsAreBorn

\* What nobody has sent is not counted, what is counted has been taken, and what
\* the chain or a webhook call takes for gone is counted.
CountInv ==
    /\ \A l \in Letters :
         /\ recorded[l] > 0 => took[l] # {}
         /\ returns[l] = 0 /\ letter[l].status \in {"none"} \cup PENDING => recorded[l] = 0
    /\ \A h \in Hooks, l \in Letters :
         returns[l] = 0 /\ hook[h].seen[l].status \in CHAINABLE => recorded[l] = 1
    /\ CountedOnce

\* The row of a letter nobody has returned holds the attempt that is in hand, and
\* no other attempt has been taken.
TraceInv == \A l \in Letters :
    returns[l] = 0 =>
        /\ took[l] \subseteq {letter[l].mid}
        /\ \A w \in Procs : Carries(w, l) => letter[l].mid = proc[w].mine

\* The processes at work on a letter, and whether its transmission has begun.
Held(l) == {w \in Procs : proc[w].pc # "idle" /\ proc[w].at = l}
Begun(l) == letter[l].status = "sending" \/ took[l] # {}

\* Whoever has taken a due date is alone with the follow-up, and once the follow-up
\* is in the platform's hands nobody is left who could give the date back.
DueInv == \A l \in Letters :
    l + 1 \in Letters /\ returns[l] = 0 /\ returns[l + 1] = 0 =>
        /\ Begun(l + 1) \/ Held(l + 1) # {} =>
             /\ ~letter[l].due /\ took[l] # {}
             /\ letter[l].status \notin {"none"} \cup PENDING
        /\ \A v, w \in Held(l + 1) : v = w
        /\ Begun(l + 1) => \A w \in Held(l + 1) : proc[w].pc \in InHands
=============================================================================
