# Outreach Donors in TLA+

Models, model-checking runs and machine-checked proofs for the parts of this
system whose mistakes cannot be taken back. Letters: one that is sent twice, sent
after an opt-out, lost in "sending", or one too many from a box that is being
warmed up. Money: units of a metered key that a run of the search spends twice, or
holds for ever. Nearly everything else in the system a later commit can repair.

Paths below are relative to `backend/features/` unless they begin with
another directory of the repository.

## 1. The system

A FastAPI application over PostgreSQL, with rq workers over Redis, that finds
sites that sell links (donors), writes to them, reads the answers, and offers
the same to advertisers (sales). The processes of `docker-compose.prod.yml`:
the API, the workers of four queues, sixteen crawlers, the reaper (seven
loops), the follow-up pass. They share nothing but the database and the
queues; concurrency control is in SQL: conditional UPDATEs, `FOR UPDATE SKIP
LOCKED`, advisory locks, unique keys. The isolation level is READ COMMITTED,
sessions keep their objects after a commit (`expire_on_commit=False`), and the
ORM writes only the columns whose values it has changed, by primary key.

| Part | State | Operations | Talks to |
|---|---|---|---|
| Sending (`letters/sending.py`) | `messages.status`, `internet_message_id`, `sender_id` | `send`: checks, claim, hand-over, settle | platform, `settle`, stop list, mailbox |
| Recording (`letters/settle.py`) | the same, `next_action_at`, usage journal | `leave`, `record_sent` | called by sending, events, people |
| Unknown outcome (`letters/unknown_outcome.py`) | letters left "sending" | `settle_by_event`, `resolve` | people, events |
| Events (`letters/events.py`) | status, `failure_reason`, contacts | `apply_events` | platform webhook, stop list |
| Follow-ups (`letters/followups.py`, `chain.py`) | `next_action_at`, rows of later steps | `Chain.claim`, `restore`, `stop`, `materialize`, `send_due` | sending |
| Opt-out, stop list (`letters/optout.py`, `stoplist.py`) | `suppressions`, `threads.status` | `unsubscribe_domain`, `stop_pending`, `holding` | unsubscribe page, events, replies |
| DNS returns (`letters/dns_return.py`, `attempts.py`) | `deferred_since`, status | `return_letters` | reaper, chain |
| Review of the queue (`letters/review.py`, `donor_standing.py`, `crawl/offer_stop.py`) | status | `skip`, `stop_for_good`, `out_of_queue` | people |
| Replies (`replies/`) | `replies`, thread status | `Inbox.accept` | inbound webhook, stop list |
| Batch, autosend, mailbox (`letters/batch.py`, `autosend.py`, `mailbox.py`, `outreach/limits.py`) | caps and rests of boxes | `send_queue`, `run`, `choose` | sending |
| Queue building (`letters/building.py`) | new `messages` | `build` | donors, contacts |
| Runs (`runs/`, `backend/workers/run_job.py`, `reaper.py`) | `runs.status`, heartbeats, resumes, estimates | `execute_run`, `recover`, `claimed_units` | Ahrefs, SERP, rq |
| Crawl (`crawl/`) | backlog, findings, judgements | crawlers, recovery, judging | sites, language model |
| Contacts (`contacts/`) | addresses, search attempts | ladder of search steps | sites, Hunter |
| Sales (`sales/`) | leads, drafts, hand-offs | mailing, autobuild, hand-off | sending, Kommo, Telegram |
| Agent (`agent/`) | drafts | drafting, autopilot | language model, sending |
| Donors, keywords, serp, ahrefs, topics, review, access, ops | records and settings | screens, imports, clients, alarms | each other, external services |

What is hard here: several senders of one letter at the same time; a mail
platform that may accept a letter and lose its answer, and whose events come
late, repeated, reordered, or before the answer; people who decide about
a letter nobody knows the outcome of; opt-outs and answers that arrive in the
middle of a transmission; handlers that decide from a row they have read and
write it through the ORM without a condition; processes that die between two
commits. `PROJECT.json` lists these hazards line by line.

What makes a part correct: a letter is sent at most once per permission; it is
recorded as gone exactly once, with the trace of the attempt that went; nothing
goes after an opt-out; the chain neither goes silent for no reason nor comes
back for a step that may have gone; a run is neither worked on twice nor left
open for ever; caps and budgets hold under concurrency.

## 2. The modules

| Module | What it is |
|---|---|
| `LetterLife` | the letters of one conversation and everybody who acts on them |
| `LetterPromise` | abstract: what the recipient is promised |
| `Mailbox` | what a box, a domain, a direction may send in a day, and when a box stops itself |
| `RunLife` | a run: its row, its jobs, the workers, the reaper |
| `RunBudget` | the units of the Ahrefs key under runs that plan and pay at the same time |
| `Handoff` | the hand-over of a lead to Kommo and Telegram: jobs, passes, people |
| `SiteLetters` | the first letters of one site: builds, sends, the DNS pass; one address, one direction at a time |
| `MCLetterLife`, `MCMailbox`, `MCRunLife`, `MCRunBudget`, `MCHandoff`, `MCSiteLetters` | instances for TLC |
| `LetterDocs`, `RunDocs`, `BudgetDocs`, `SiteDocs` | sentences of comments and docs that the code does not keep |
| `Sums`, `SumProofs` | the sum of a function over a finite set, and what the proofs need of it |
| `LetterLifeProofs`, `LetterPromiseProofs` | type correctness; permissions; what is recorded was accepted, counted once and traced; silence, the refinement and the due dates |
| `MailboxProofs` | type correctness; the pause of a box, its warm-up, the limits of a day |
| `RunLifeProofs` | type correctness; one live job; no living run is closed; a run is bought once; the count of resumes |
| `RunBudgetProofs` | type correctness; the key, the cap, what a new run is told, what is carried on |
| `HandoffProofs` | type correctness; one deal, one note, one message, what is closed stays closed, open work is dated |
| `SiteLettersProofs` | one direction and one address of a site at a time |

`LetterLife` and `Mailbox` look at the same `Sending.send` from two sides: the
first follows one letter through all its attempts and has no boxes, the second
follows boxes and days and keeps of a letter only what the count of a day and the
verdict see. `SiteLetters` is the third side: the letters of one site to its several
addresses, where an event or a reply is one step, and a letter that has gone and was
returned by mistake is not followed into a second transmission (`LetterLife` does
that). `RunLife` and `RunBudget` share a run in the same way: attempts,
jobs and deaths in the first, promises and payments in the second, where an
attempt begins whenever the run is open and nobody works on it - more freely than
`RunLife` lets it.

### LetterLife: state

| Variable | Code |
|---|---|
| `letter[l].status` | `messages.status`; `"none"`: no row for this step yet |
| `letter[l].mid` | `internet_message_id` and `sender_id`: which attempt left its trace in the row, 0 for none |
| `letter[l].due` | `next_action_at` is set |
| `letter[l].why` | `failure_reason`: silent DNS, withdrawn, other |
| `letter[l].back` | the letter has been returned once after a silent DNS |
| `thread`, `stop`, `buried`, `replies` | `threads.status`, a row of `suppressions`, a dead contact, the kinds of recorded replies |
| `proc[w]` | a run of `Sending.send` or of `send_due`: where it is, its letter, its attempt, and `_Target.before` |
| `hook[h]` | a webhook call between its reads and its commit: what it brings, and the rows as it has read them |
| `took`, `claims`, `returns`, `recorded`, `crashes` | history, not state of the program |

A step is a transaction of the code, or the part of one between two statements
where the code writes what it has decided from an earlier read. The reads of
a handler are taken at one moment (`Read`); its commit is another step, in
which a column is written only if the handler changed the value it had read.
That is where the lost updates come from.

### LetterLife: actions

- `CheckClick`, `CheckFollowup`, `Claim`, `LoseClaim`, `Accept`, `Answer`,
  `Refuse`, `LoseAnswer`, `Settle`: `Sending.send`. The claim is the conditional
  UPDATE. The platform's acceptance and its answer are two steps, so events,
  opt-outs and people can come between them, and the answer can be lost with
  the letter accepted or not.
- `ClaimDue`, `Waits`, `Materialize`, `Forbid`, `AlreadyDecided`, `Suppressed`,
  `WriteStopped`, `Postpone`, `Restore`: `send_due`, one action per branch of
  `_deliver`. The pass then sends like anybody else.
- `Read`, `SettleByEvent`, `ReadAgain`, `ApplyEvent`, `AcceptReply`, `OptOut`,
  `RollBack`: webhook calls. `ReadAgain` is the loop of `_settle_if_pending`,
  which tries each pending state once.
- `FoundSent`, `ReturnToQueue`, `ReturnDead` (people settle an unknown outcome),
  `ReturnBounced` (the reaper's pass of DNS returns), `Skip`, `StopForGood`,
  `OutOfQueue` (people withdraw).
- `Crash`: a process dies between two transactions.

### What is abstracted

- Time. `STUCK_AFTER` (five minutes) and the waits of the DNS return become
  `PastStuckAfter`: nobody carries the letter any more. That the longest
  transmission takes less (three tries of 30 seconds and the pauses between
  them) is an assumption of the code, and the run `race` and the mutant of `OneCarrier`
  show what depends on it. Events of earlier attempts may come at any time.
- One event per webhook call; the code loops over a list in one transaction.
- Every refusal before the claim is one of three: passed, suppressed, postponed
  (window, DNS, box, undecided donor). A rejected donor is refused like one on
  the stop list, so `Suppressed` needs no row there.
- `taken` and `alive_link` are read in the step that returns the letter; the
  UPDATE itself is conditional on the status.
- The identity map of a pass may hold an older copy of a follow-up's row; its
  `before` is read at the check, which gives the same values, because the row
  was created or read in that pass and every later change goes through a claim.
- A stop-list row is never lifted (people can); the sales variants of a label,
  `ThreadStatus.CLOSED` (set only by sales) and the health journal are left out.
- `out_of_queue` also frees an empty conversation; only its letter is kept.
- Letters outside the chain (answers of people, price rechecks) are not here.

### Mailbox: state and actions

| Variable | Code |
|---|---|
| `letter[l]` | `messages.status`, `sender_id`, `sent_at` (of a letter in flight `updated_at`: its claim); `taken` is the platform's, `trouble` what the bounce says |
| `box[b]` | `senders.enabled`, `warmup_started_at`, `warmup_first_sent_at`; the time of the last row "paused" of `sender_health` |
| `send[p]` | a run of `Sending.send`: the chosen box, and the box of the attempt before |
| `hook[h]` | a delivery between its verdict and its commit |
| `now` | the clock; `Ticks` ticks make a day by UTC |
| `mailed`, `freed` | history: letters of the day the platform took, and of them put back |
| `before`, `woke` | history of a warm-up: what was given or under way when it began anew; the earliest claim of what was taken since |
| `lost`, `back` | counts against their bounds |

`choose` counts and picks in one step (`letters/mailbox.py`), `_claim` is the
conditional UPDATE, `_settle`, `Refused` and `Broken` are the three ends of a
hand-over, `ByEvent`, `_back` and `_return` what happens to a letter whose answer
was lost or whose recipient had no DNS. `listen` takes the verdict with the rows
that are committed and its own bounce; `Commit` writes the bounce, and the pause
if the box, read again under its lock, still writes. `enable` is the person.

`StepAssumption` says that the steps of a warm-up are a ladder: none is below the first,
and the first is not 0. The default is 5, 10, 15, 20; `OUTREACH_WARMUP_CAPS` is not
checked for it, and with another list a box that is switched on could have less than
its first step.

Abstracted: a step of the warm-up lasts one day; the window of the verdict is
larger than the letters of the instance; every hand-over ends before it could be
repeated by a person (`Handing`), as in `LetterLife`. Left out: follow-ups and
answers (they take no place of the day, `first_only`), complaints and deferrals
(other rules of the same verdict), cuts of the limit after soft signals, the pause
and the rest of a whole domain, boxes that rest between two letters.

### RunLife: state and actions

| Variable | Code |
|---|---|
| `run[r]` | the row of `runs`: `status`, `job_id`, `stats["resumes"]`, whether `candidates` and `estimated_units` are set |
| `silent[r]` | the age of `updated_at`: under 180 s, under 900 s, more |
| `pressed[r]` | the start of the screen between `enqueue` and its commit |
| `jobs` | the queue "runs" of rq: every job ever queued, with its state |
| `work[p]` | a worker, or the console of a run: where it is, and the row as its session has read it |
| `pass` | the reaper's pass: the rows read, what was decided of each, and the new job |
| `deaths`, `blackouts`, `interrupts`, `bought`, `lost` | bounds and history |

- `Press`, `CommitStart`, `RollBackStart`: the screen queues the job before it
  commits the row. `ConsoleStart`: a run without a job or a heartbeat.
- `Take`, `Load`, `mark_running`, `Restored`, `Buy`, `save_candidates`, `Plan`,
  `FinishDone`, `FailEarly`, `CloseFailed`, `_mark`: an attempt. The session reads
  the row once (`expire_on_commit=False`); the ORM writes a column only where the
  value differs from the one read, which is why `mark_running` over "running"
  writes nothing. `touch` is the heartbeat, in a session of its own.
- `Scan`, `Unknown`, `Alive`, `Resume`, `Wait`, `Bury`, `CommitPass`, `Interrupt`:
  `lifecycle.recover`. The pass reads the silent runs, queues jobs at once, and
  commits at its end what it has decided from the rows it read; its row locks hold
  other writers up (`Free`).
- `Tick`, `Die`, `Blackout`: a silent row, a killed process (its job stays
  "started" without the worker's key, which `job_alive` tells), a Redis that
  restarts empty.

`QuickPass` is about one window: rq may hand a new job to a worker before the pass
that queued it has committed. With `QuickPass` the pass is quicker, as it nearly
always is; without it the count of resumes can be lost (section 3, disagreements).
`InSight` names what the promises of the reaper cannot speak of: jobs that Redis
has forgotten, and jobs queued by a pass that never committed.

### RunBudget: state and actions

Per run: the promise to the person (`settings.units_cap`), `estimated_units` and
whether it is the hold for the lists, lists and batches saved, the usage journal.
For all: the units of the key, some of them spent by another system on the same
key. `try[r]` is an attempt: the rest of the cap as read, the ceiling, the claims as
read, what is free, what is paid and not yet in the journal.

`Press`, `Begin`, `ceiling_at_start`, `ConsoleBegin`, `ReadClaims`, `AskKey`, `_hold`,
`Plan`, `Refuse`, `Pay`, `SaveList`, `SaveBatch`, `Finish`, `Exhausted`, `Fail`,
`Die`, `Stop`, `Neighbour`: one action for each statement that reads or writes a
number another run may change meanwhile. A batch costs one unit for the screening
and one for the metrics; a batch the screening rejects is saved at half its
estimate, so estimates are upper bounds as in `ahrefs/units.py`.

`gaps` records the windows the code leaves open, and the two bounds speak of
everything else: a plan whose claims were read before another run wrote its
estimate; a ceiling whose rest of the cap was read before another run wrote an
expense; a console, whose ceiling does not look at what the others hold. `again`
and `burnt` are units paid by attempts that failed before saving. `Held` takes what
another run has paid but not yet journalled off its claim: the key has it already.

### Handoff: state and actions

| Variable | Code |
|---|---|
| `latest`, `asked` | `latest_reply`: the letters of the lead recorded so far; for how many of them `handoff.start` has run |
| `row`, `made` | the row of `sales_handoffs`: states of Kommo and Telegram, the deal, `noted_reply_id`, `told_reply_id`, the link last sent, `due_at`, `telegram_due_at`, `telegram_tries` |
| `claim` | `claimed_at`: empty, younger or older than `HANDOFF_CLAIM_SEC` |
| `jobs` | the sales queue: kinds of jobs for this row |
| `task[t]` | a job: where it is, the newest letter of its card, its copy of the row and the row as it was read |
| `crm`, `client` | Kommo: deals, notes, whether it knows the address; the client of the settings |
| `heard`, `tried`, `closed`, `spilt`, `wiped` | history |

- `Answer`, `start`: a letter of the lead is recorded; the trigger reopens the row
  under its lock, sets the date of the pass, commits and queues a job - which Redis
  may refuse. `due`, `message_due`: the pass moves the date on and then queues.
- `_claim`, `card_of`: a job takes the row in a transaction of its own, reads it once
  and works on that copy (`expire_on_commit=False`). `Busy` is the job that gives up
  after its retries, `Expire` the claim of a dead job that grows old.
- `Off`, `Refusal`, `_new_deal`, `LoseDeal`, `CommitDeal`, `NothingToNote`, `_note`:
  `handoff_kommo.write`. The deal is in Kommo in one step and its number in the
  database in the next. An answer that is lost leaves Kommo with the deal or without
  it, and `_after_lost_answer` decides by what the searches find.
- `NothingToSay`, `_personal`, `LosePersonal`, `_group_copy`: `handoff_telegram.step`
  and the series of tries. A message that failed may have been delivered.
- `Finish`, `Look`, `Close`: the end of a job. The question for newer letters flushes
  the changed copy, which locks the row until the commit; a copy nothing has changed
  in locks nothing (`Clean`), and then a start may come between the question and
  the commit. A commit writes the columns that differ from what was read.
- `_release_after_failure`, `Die`: an error, which writes what the copy had reached or
  nothing; a killed process, whose claim stays and whose job may be lost.
- `retry`, `close`: the console, for writes with an unknown outcome and refusals.

Assumed: a live job does not work for `HANDOFF_CLAIM_SEC` (fifteen minutes, for six
requests of seconds); a refusal (429, 5xx, a key) means that nothing was written, as
the client says; the search of Kommo does not lag behind its writes, a risk the code
names; the person looks into Kommo before deciding; `SALES_ENABLED` is on. Two queued
jobs of a kind do the work of one, so the queue is a set of kinds. Left out: the
heads-up of the group when the personal message fails, wording and the journal.

`spilt` counts what a copy that was not written takes with it: a deal whose number
nobody stored, a note, a message, a half of a job's work. `wiped` says that the last
commit of a job left no date although a start had set one meanwhile: at a `Finish`
whose job had seen the newest letter itself, or at a `Close` without a lock.

### SiteLetters: state and actions

| Variable | Code |
|---|---|
| `letters` | the rows of `messages` with the first step, for one site: direction, address, attempt of the key, status, whether a Message-ID is there, `failure_reason`, whether it was returned after a silent DNS |
| `buried`, `answered` | contacts marked dead; somebody of the site has answered or unsubscribed |
| `build[b]` | a run of `QueueBuilder.build` that has chosen an address and waits for the language model |
| `send[c]` | a run of `Sending.send` between the check of the role and the end of the hand-over |
| `dnsPass` | the letter the DNS pass has judged and not yet returned |
| `out` | where each letter really is: at home, on the way, with its addressee, failed |

- `Choose`, `Queue`, `DropChoice`: a build asks `open_for_letter` and `fresh`, counts the
  attempt, and minutes later inserts the row under a unique key, asking nothing again.
- `Check`, `LeaveQueue`, `Postpone`, `Claim`, `Take`, `LoseAnswer`, `Refuse`: `send`.
  `site_role.check` reads the other letters in one statement and takes its own off
  in another; when somebody has taken it meanwhile, the check is silent.
- `Delivered`, `Bounced`, `MailboxGone`, `Answer`, `ReturnToQueue`, `FoundSent`, `Skip`,
  `WithdrawOffer`: events, replies, people, each in one step.
- `Judge`, `Return`: the DNS pass asks whether the site is free in one statement and
  returns the letter in another.

Left out: the stop list, which keeps more letters back and releases none; follow-ups,
which `site_role` lets pass; sales, whose key holds the lead and whose return asks for
the conversation and not for the site. `Settled` stands for `STUCK_AFTER` and `SETTLE`:
nobody of `send` is still at the letter that people or the DNS pass return.

## 3. Runs

`CHECK_DEADLOCK FALSE` in all of them: a conversation whose letters have gone or been
withdrawn really stops, so does a queue without runs, and the bounded clock.

| Run | Instance | Properties |
|---|---|---|
| `race` | first letter, two senders; processed, delivered, bounces, DNS bounces, complaints, replies one at a time; 3 claims, 2 returns, 1 crash | `TypeOK`, `CountedOnce`, `TraceOfAcceptance`, `AtMostOncePerGrant`, `OneCarrier`, `SentStaysSent` |
| `chain` | a letter and its follow-up, a sender, two passes, processed, bounce replies, opt-out, 1 return, 1 crash | `DueNotBehind`, `KeepsPromise`, `SilentAfterStop` |
| `live` | a letter and its follow-up under fairness | `AcceptedIsSettled`, `FollowupNotLost` |
| `runs` | a run, a worker and the console, 8 jobs, 2 faults, under fairness | `TypeOK`, `OneLiveJob`, `ResumesBounded`, `BoughtOnce`, `NoLiveRunIsBuried`, `QueuedRunCloses` |
| `budget` | three runs (screen, competitors, console), a key of 6 units, a cap of 5, ceilings 4 and 5, one worker, one unit of the other system, 1 fault | `TypeOK`, `KeyKept`, `CapKept`, `FreeIsFree`, `ContinuationFits` |
| `mailbox` | three letters, two boxes of one domain, two senders, two deliveries, two days, 1 lost answer, 1 return | `TypeOK`, `WithinLimits`, `WarmsByWriting`, `PauseComes` |
| `handoff` | two letters, two jobs at once, each client, a series of two tries, 2 faults of any kind, under fairness | `TypeOK`, `OneDeal`, `NotedOnce`, `ToldOnce`, `ClosedStaysClosed`, `WorkIsDated`, `LetterIsTold`, `DealIsTold` |
| `site` | two builds, two directions, two addresses and a cap of two, three letters, two sends, all events, one return of each letter | `OneRole`, `OneAtATime` |

Why these bounds are enough to be interesting.

- Letters: two senders are the smallest number that race; a call that repeats an
  event is the same hook again, and the hook keeps what it read while the senders
  move; a return and two claims give a letter two attempts, of which either may
  have gone; three claims give a claim after a refusal after a return.
- Mailbox: two boxes of one domain let a sibling fill the limit of the domain;
  three letters, limits of two and a direction of three make every limit bind and
  be overrun by the second sender; two deliveries and a threshold of two are the
  smallest pair that judge without each other; two days carry a warm-up from its
  first step to its second and a hand-over across midnight.
- Runs: runs do not touch each other's rows, so one run shows what there is;
  with one job alive (`OneLiveJob`, proved for any number of workers) a second
  worker would have nothing to take. Eight jobs are more than the two resumes and
  the faults can ask for, so the bound never stands in the way of `Resume`, and two
  faults give a death in an attempt that was itself a resumption.
- Budget: the three runs want four batches and a list, nine units at worst, of a
  key of six and a cap of five: some must be refused, and any two of them compete.
- Hand-over: two jobs are the smallest number that could work on one row; the second
  letter comes before, during or after the job of the first; two faults give a lost
  answer and then a death, or a queue that is down during the repetition. With three
  faults and one job (1.3 million states) all of it holds as well.
- Site: two builds that choose at one moment, in one direction or in two; a third
  letter comes after a withdrawn one, at an address that is free again, or exceeds
  the cap. With three addresses (4.3 million states), and with four letters, three
  addresses and one send (7 million), both properties hold as well.

Each property has a mutant of the code under the same instance that TLC finds
violating it: a claim without its condition, a lost answer taken for a refusal, a
reaper that takes silence for death, a report that forgets the resumes, a claim
below nothing, a count of the day without letters in flight, a warm-up counted from
its start, and so on (`PROJECT.json`).

Safety properties speak of all steps. Three of them are stated for letters
nobody has returned (`returns = 0`): a person who returns a letter that went
after all asks for a second one, and the code cannot know better.

`SilentAfterStop` says what an opt-out can promise: the checks of a send are
over before its claim, so a send that is past them may still go; from the
moment none is, nothing goes for ever.

`WithinLimits` says what the limits can promise: the places are counted before the
claim, so each of the other senders may take one more; a letter that a person or
the DNS pass puts back frees a place the platform has used; a letter claimed before
midnight and taken after it counts for the day before. Nothing else exceeds them, in
particular no lost answer. `PauseComes` has the same shape for deliveries.

`KeyKept` and `CapKept` say: outside the named windows, the work that has been
planned is paid to its end. `FreeIsFree` says why the claims are read before the
key is asked: an expense in between is counted twice rather than not at all.

`OneDeal`, `NotedOnce` and `ToldOnce` allow what cannot be excluded without asking
first: one more for each time a job had done something and could not write it down.
`LetterIsTold` and `DealIsTold` end in a message, or in a series of tries that has
ended with an alarm; they stop speaking of a row over which a broken-off job
(`spilt.half`) or a wiped date has gone, and `DealIsTold` of a row that says
"pending" about a message that has gone (`Stale`): the job set "sent" where it had
read "sent", so the ORM wrote nothing over a start's "pending", and `message_due`
does not take such a row.

`OneRole` is what `letters/site_role.py` says of pressing at once: both letters may be taken
off, but two never go. It holds because a letter that waits counts, and because
everybody looks after his own letter is in the queue, so whoever is second sees the
first. `OneAtATime` rests for one direction on the key: of two builds that count the
same attempt one is refused. The exception it names is the return of a letter while
a build holds its choice (`doc_site`). The cap of `MAX_ADDRESSES` has no property: two
directions that choose at the last place exceed it by one letter, as nothing asks
for it again.

**Fairness** (`LiveSpec`). A process that has begun a step finishes it
(`WF` of each process): workers run until they end or die, and crashes are off
in this run. A webhook call ends (`WF`). The platform tells of every letter it
has accepted (`SF` of `Read` with "processed"): it repeats a call until it gets
an answer. Nobody is obliged to press a button, and no due date has to be
taken. With crashes a due date that was taken can be lost: `send_due` says so
and prefers it to sending twice. `FollowupNotLost` stops speaking of a
follow-up whose claims have used up `MaxClaims`, because the model cannot claim
it again.

In `RunLife` a worker takes the oldest job and each process finishes its attempt,
however it ends (`WF` of `Take` and `Step`); the reaper begins its passes and commits
them, time goes by (`WF`); and a queue that is asked again and again about a run
answers at last (`SF` of `Judge`), for otherwise the code rightly leaves the run
alone. Beats of the heart, starts and faults are not fair; a run may be silent while
it is worked on.

In `Handoff` the trigger of a recorded letter runs, a queued job is claimed, a job goes
on, the passes come round, dates come and a dead job's claim grows old (`WF` of each):
the queue, the pass every five minutes, the clock. Letters, decisions of people and
faults are not fair.

### Disagreements between comments and code

The `...Docs` modules state what comments say; TLC finds a counterexample of each.

- `AnswerEndsChain` (`doc_answer`): an answer taken in while a letter is
  "sending" finds no due date to put out; the date is assigned afterwards, and
  the next follow-up goes to somebody who has answered. Neither `Chain.claim`
  nor `send` looks at the conversation.
- `HungRunIsClosed` (`doc_console`): a console run has no job, so the reaper never
  knows whether it is dead, and its claim on the budget stays.
- `PromiseKept` (`doc_promise`): after a failure that paid without saving, the next
  attempt has the whole promise again.
- `OneLetterAlways` (`doc_site`): a build has chosen the next address of a site whose
  letter lies bounced by a silent DNS; the DNS pass finds the site free and returns
  that letter; the build queues its own without asking again. `send` looks only for
  letters of other directions, so both go.

Met while modelling, and not checked by a run: the report of an attempt that read the
run before the reaper's commit writes the old count of resumes back
(`runs/repository.py:460`), so with a worker quicker than the pass (`QuickPass` off) there
may be more than `MAX_RESUMES` further jobs; a job of a hand-over that has seen the newest letter
itself writes its empty date over the one of the start of that letter, and when the
job of that start is lost, no pass takes the row (`sales/handoff.py:344`; `wiped`); an opt-out by reply leaves the
conversation open, so `alive_link` (`letters/unknown_outcome.py:398`) lets a stuck
follow-up return, though its comment speaks of opt-outs too; the row "paused" has the
time of the event (`outreach/health.py:123`), so letters that went between it and the
pause count against the new start of a box; a hand-over whose outcome is
"unconfirmed" and whose first message was not delivered is told again only after a
person has decided.

Four lost updates of the handlers are in `LetterLife` without a property of their
own, because the promises to the recipient hold with them: "queued" written by a
refusal over a letter an event has just recorded as gone (`letters/sending.py:452`),
"delivered" over "bounced" from two calls at once (`letters/events.py:320`),
"stopped" over a letter claimed meanwhile (`replies/repository.py:356`), "replied"
over "unsubscribed" (`replies/repository.py:334`).

The third has a price that `CountedOnce` leaves out. An opt-out or an answer that has read
a follow-up in the queue writes "stopped" over "sending" while the letter is with
the platform; the run of `send` then finds it no longer "sending" and records nothing, and
its warning says that another path has recorded the outcome (`letters/settle.py:99`), which none
has: the letter has gone without a row in the journal, outside the daily limit of the
box, and a bounce of it makes it "bounced" (`letters/events.py`, `_bounced`) all the same.
So `CountedOnce` asks for the record of letters the chain goes on from, "sent" and
"delivered", and not of every letter that is gone.

## 4. Proofs

For every number of letters, processes and webhook calls, every set of jobs and
every bound, from the named assumptions of `LetterLife` (`ChainAssumption`,
`ProcessAssumption`, `BoundAssumption`, `JobAssumption`):

- `TypeCorrect`: `Spec => []TypeOK`.
- `GrantsHold`: `Spec => []GrantInv`, hence `AtMostOncePerGrantHolds` and
  `OneCarrierHolds`. `AtMostOncePerGrant` is not inductive: an acceptance is
  allowed only because the letter in hand still has a permission left. That is
  `GrantLeft` (a letter that waits, and a transmission not yet taken, have
  `Cardinality(took) <= returns`), which needs that two processes never carry
  one letter (`OneCarrier`) and that an attempt which was accepted is one that
  was claimed (`AttemptsAreClaims`). Steps that touch neither the status of a
  waiting letter, nor a process in hand, nor the history are handled together
  by one lemma.
- `ChainHolds`: `Spec => []ChainInv`. A letter recorded as gone was accepted,
  webhook calls speak of accepted letters, a taken due date belongs to an
  accepted letter (`GoneWasTaken`); handlers speak of rows that exist
  (`RowsAreBorn`): a row never disappears.
- `SilentAfterStopHolds`: the action property, from `TypeOK` alone: the stop
  list is only added to, and every check that leads to a claim looks at it.
- `PromiseKept`: `Spec => KeepsPromise`, the refinement of `LetterPromise` by
  `given = Cardinality(took)`, `allowed = 1 + returns` for a row that exists,
  `silent = Quiet`. `Give` needs `GrantInv`, `Born` and `Return` need `ChainInv`.
- `CountedOnceHolds`, `TraceOfAcceptanceHolds`, `SentStaysSentHolds`, on top of `GrantInv`
  and `ChainInv`. Every step but the claim, a refusal and a return is steady: it leaves
  the Message-ID of a row alone, and takes it out of "queued" or "sending" into a
  state after the platform's yes only together with a row in the journal (`Steady`). A
  claim and a refusal meet a letter of which nothing has been taken (`NothingTakenYet`,
  from `GrantLeft`). So `CountInv` holds: nothing is counted before it was taken, nothing that
  waits is counted, and what a webhook call has seen gone is counted; and `TraceInv`:
  the attempt in hand is the row's, and no other has been taken.
- `DueNotBehindHolds`, from `DueInv`: the due date works as a token. Whoever holds a
  follow-up has taken the date and is alone with it; once its transmission has begun,
  whoever is left with it is past the claim, and from there only a refusal - which
  means that nothing was taken - leads back to giving the date back.

From the assumptions of `Mailbox` (`BoxAssumption`, `StepAssumption`, `BoundAssumption`), for any letters,
boxes, senders, deliveries and days (`MailboxProofs`):

- `TypeCorrect`. `TypeOK` says that a letter in hand is "sending" by the box its
  sender chose. That needs that no two senders have one letter in hand
  (`OneHander`: the claim asks for "queued", and people, events and the DNS pass
  leave a letter in hand alone) and that a delivery speaks of a letter that has gone
  and holds its row (`HookRows`).
- `PauseComesHolds`. The inductive part (`Few`) counts, for a box that writes, the
  committed bounces together with those that deliveries hold and did not pause for:
  fewer than `Bad` plus the deliveries that are open beside one. A delivery
  decides with the committed bounces and its own, so a verdict of "no pause" leaves
  room for the others only.
- `WarmsByWritingHolds`, from `Woken`: of every letter the platform took since the warm-up
  began, the history has heard of a claim no later (`Heard`), and the mark of the box is
  of such a letter (`FromFirst`). Nobody writes a time that is still to come (`Past`).
- `WithinLimitsHolds`, from `Limited`. The limits are not inductive, since what is given is
  not what is counted. So: a place that was given is held by a letter or has been freed
  (`Placed`), hence what is counted today, with what is not counted for a reason, bounds
  what was given (`GivenIsCounted`); and a sender counts from its choice on (`Used`,
  `Within`). Whoever chooses finds a place, so there is one for it and for everybody
  under way but the others. Every other step eases (`Eased`): no more is used, or
  as much more is not counted. A letter in hand was taken before its claim, if
  ever (`Chosen`), so its new place is not yet held by it. At midnight what is under way
  remains, of boxes whose limits are not 0.
- The proofs corrected the model: `woke` and `before` once held the last claim and the
  letters given when a warm-up began anew, and both properties failed for two lost answers
  and for two senders under way at the switch. TLC gave the counterexamples on larger
  instances; `woke` is now the earliest claim, `before` counts who is under way.

From the assumptions of `RunLife` (`ActorAssumption`, `FaultAssumption`), for any runs,
workers and faults (`RunLifeProofs`):

- `TypeCorrect`, with `Held`: a pass that has decided to resume or to close has read a
  row with a job, and the row stays as it was read while the pass holds its lock.
- `OneLiveJobHolds`. The inductive part (`OneKnown`): the live jobs of a run other than
  those somebody knows of - the job of the row, of a start not committed, of the
  reaper's pass - are at most as many as passes that were interrupted.
- As long as the reaper sees every job (`InSight`), a run has one process (`Alone`): a
  worker has a job that is started and that nobody else has, a console a run without a
  job (`Hands`); and by `OneKnown` a run has one living job. What the reaper decides to
  close stays without a living job until its commit (`Decided`). Three properties follow
  that the steps of two actors could break:
  - `NoLiveRunIsBuriedHolds`, the action property: no process works without a living job.
  - `BoughtOnceHolds`. `BoughtOnce` is not inductive: a process buys because of what
    it has read of the row. `Saved` says that this is still so, since nobody else writes
    the candidates, and counts a purchase that is not saved yet for its process (`Once`).
  - `ResumesBoundedHolds`, of a pass that is quick (`ASSUME QuickPass`). What a process
    carries over is what the row says, no process works on a run that a pass is resuming,
    and the row counts every job of the reaper but the one of that pass (`Counted`).
    Without `QuickPass` the property is false: a process that reads the row between a
    resume and its commit writes the old count back (section 3, disagreements).

From the assumption of `Handoff` (`HandoffAssumption`), for any jobs, letters, faults and
number of tries, and each way the CRM may be connected (`HandoffProofs`):

- `TypeCorrect`.
- `OneDealHolds`, `NotedOnceHolds`, `ToldOnceHolds`, from one inductive invariant
  (`OnceInv`). None of the three is inductive: a job writes to Kommo because its copy of
  the row says that nothing was written yet. So the invariant says who knows what was
  written (`Accounts`): the row while nobody works, the copy of the job otherwise, and
  for what neither knows of there is a count in `spilt`. It needs that the claim
  admits one job (`Sole`); that the row has meanwhile what the job read or wrote last in
  the columns that count (`Follows`), so that a flush of changed columns leaves
  what the copy says and a death leaves what was there before; and that a row in
  doubt about its deal accounts for one (`Known`).
- `ClosedStaysClosedHolds`, from `ClosedInv`: every copy of a row that was closed for the
  newest letter was read closed, and no job with such a copy goes on to Kommo.
- `WorkIsDatedHolds`, from `DateInv`. `WorkIsDated` is not inductive: a copy may hold open
  work while the row has no date, and a job that dies or is repeated must leave one
  behind. So the date is there as long as a job of the whole hand-over waits or works
  (`Waits`), and for the newest letter whenever the row is open (`Dated`). Of each job at
  work (`Copies`): until its last commit it leaves the date alone; a job of the message
  alone opens nothing the row has closed; a job that began after the newest start has read
  the row as it is, so an empty date it leaves means that nothing was open. Any other
  commit without a date is one that has wiped a start, and that is what `wiped` counts.

For any letters, addresses, builds and sends of a site (`SiteLettersProofs`), from one
invariant in two parts that every step keeps:

- `OneRoleHolds`, from `RoleInv`. `OneRole` speaks of letters that are away; it is
  inductive only of all that go (`Going`): away, in hand, or read by a send whose check
  has passed while they still wait (`OneGoing`). The check is the one step that sets a
  letter going, and it asks for every living letter of another direction, those of
  other sends among them. A claim, an event or a return moves a letter that already
  goes or sets none going; that needs that a bounced letter is away from everybody and
  that nobody holds the letter the DNS pass has judged (`Failed`), and that a letter handed
  over is held by one send (`Holds`).
- `OneAtATimeHolds`, from `TurnInv`. The letters of one direction hold the attempts from 1
  to their number, each once (`Keys`); a build that has chosen holds one of these or the
  next (`Choices`), so the unique key lets it queue only as the next; and whatever
  has an earlier attempt than a letter, or than a build's choice, is dead or was returned
  (`InOrder`, `Choices`), because the build has chosen when all were dead.

From the assumptions of `RunBudget` (`RunAssumption`, `UnitAssumption`), for any runs,
batches, faults and units (`RunBudgetProofs`, and `SumProofs` for the sums):

- Sums over sets are folds, functions defined by recursion over the subsets of a set;
  the induction theorems of the library take an operator as a parameter and
  cannot be used. `SumProofs` shows what a fold computes by a smallest set for
  which it fails (`SmallestSet`): the proper subsets of a finite set are well
  founded, and that is a fact about sets, not operators. `FoldExists` shows in the same
  way, over the sizes of the subsets, that there is such a function at all.
  `TotalTaken`, `TotalChange` and `TotalAdd` are what the other proofs use.
- `BudgetHolds`: `Spec => []Budget`, checked with TLC on the instance of the run before
  it was proved. Neither `KeyKept` nor `CapKept` is inductive: a plan fits because of
  what the attempt has read, some steps earlier, of the key, the claims and the cap.
  `Budget` has four parts. `Rows`: the row of a run agrees with its attempt. `Money`: the key
  has been charged for what is in the journals, what is paid and not yet there, the
  other system and what was paid in vain; and while no gap is open, what is spent and
  still to be paid fits. `Plans`: what an attempt has read covers what is true
  now (`Claims`, `Free`, `Rest`, `Ceiling`), unless it has missed a write, in which case its
  plan opens the gap. `Promises`, `Fits`: a run that has promised and is alone still fits
  when it is carried on.
- From it `BudgetTyped`, `KeyIsKept`, `CapIsKept`, `FreeForAll`, `ContinuationIsNotRefused`:
  every property the run `budget` checks.

Every safety property of the passing runs is a theorem. Only model-checked are the liveness
properties (`AcceptedIsSettled`, `FollowupNotLost`, `QueuedRunCloses`, `LetterIsTold`,
`DealIsTold`): ENABLED and fairness are out of the prover's reach.

## 5. Plan

Done: `LetterLife` with its promise, `RunLife`, `RunBudget`, `Mailbox`, `Handoff`, `SiteLetters`. In the order of
what cannot be taken back, what comes next:

1. `Autosend`: `batch.py`, `autosend.py`: order of the queue, rests, the stall
   on an unknown outcome and its end; with it the hourly lane of follow-ups.
2. `Inbox`: `replies/pipeline.py`: a reply delivered twice, parse queue down.
3. `Backlog`: crawlers' shared backlog and the recovery of crawls.
4. The rest of `outreach/health.py`: cuts after soft signals, complaints, the pause
   of a domain.

## 6. Not modelled

Text (templates, uniqueness, parsing of prices, classification of replies):
functions of text with many tests and no protocol. Clients of external services,
routes and screens: I/O. Access, alarms and settings: single transactions of
single rows. Migrations and the frontend. `PROJECT.json` gives the reason for
every component.

## 7. Running

    tlc -workers 2 -config race.cfg MCLetterLife
    tlc -workers 2 -config doc_answer.cfg LetterDocs    # ends in a counterexample
    tlc -workers 2 -config runs.cfg MCRunLife
    tlc -workers 2 -config budget.cfg MCRunBudget
    tlc -workers 2 -config mailbox.cfg MCMailbox
    tlc -workers 2 -config handoff.cfg MCHandoff
    tlc -workers 2 -config site.cfg MCSiteLetters
    tlapm LetterPromiseProofs.tla
    tlapm HandoffProofs.tla
    tlapm RunBudgetProofs.tla
