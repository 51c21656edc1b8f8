----------------------------- MODULE SiteLetters -----------------------------
(***************************************************************************)
(* The first letters of one site.  A site is written to at one address at  *)
(* a time, by one direction at a time: a build chooses the next address    *)
(* when every earlier letter is dead, asks the language model for the text *)
(* and queues the letter minutes later; a send looks once more whether     *)
(* another direction writes to the site; and the pass of DNS returns may   *)
(* bring a dead letter back.  The rows of messages and contacts of the     *)
(* site are shared by                                                      *)
(*   - Builders: runs of QueueBuilder.build of any direction;              *)
(*   - Clicks: runs of Sending.send of any letter of the queue;            *)
(*   - the events of the platform, replies, people, and the DNS pass.      *)
(* What happens inside one letter is the subject of LetterLife; here an    *)
(* event or a reply is one step.                                           *)
(***************************************************************************)
EXTENDS Integers, Sequences, FiniteSets

CONSTANTS
    Stages,         \* the directions that build by this path
    Addresses,      \* the addresses known of the site
    MAX_ADDRESSES,  \* attempts.MAX_ADDRESSES
    Builders,
    Clicks,
    MaxLetters      \* bound: first letters queued

ASSUME StageAssumption == Stages \subseteq {"donors", "advertisers"}
ASSUME CountAssumption ==
    MAX_ADDRESSES \in Nat /\ MaxLetters \in Nat

PENDING == {"queued", "sending"}
NoLetter == 0

VARIABLES
    letters,   \* messages with step FIRST_STEP, in the order of their numbers:
               \* stage, to, attempt (of the key), status, mid (it holds a Message-ID,
               \* so a transmission may have gone), why (failure_reason: "dns",
               \* "withdrawn" or nothing anybody asks for), back (returned once
               \* after a silent DNS)
    buried,    \* contacts marked dead
    answered,  \* somebody of the site has answered or unsubscribed
    build,     \* the builders: what each has chosen
    send,      \* the runs of send
    dnsPass,   \* the letter the pass of DNS returns has judged free
    out        \* truth: where each letter is

site == <<buried, answered>>
vars == <<letters, site, build, send, dnsPass, out>>

NoChoice == [stage |-> "none", to |-> "none", attempt |-> 0]
Idle == [pc |-> "idle", at |-> NoLetter, before |-> FALSE]

Init ==
    /\ letters = <<>> /\ out = <<>>
    /\ buried = {} /\ answered = FALSE
    /\ build = [b \in Builders |-> NoChoice]
    /\ send = [c \in Clicks |-> Idle]
    /\ dnsPass = NoLetter

-----------------------------------------------------------------------------
(* attempts.py: what the selection asks of the letters.                    *)

withdrawn(i) == letters[i].status = "stopped" /\ letters[i].why = "withdrawn"

\* The letter has not reached and will not reach anybody.
dead(i) ==
    \/ letters[i].status = "bounced"
    \/ letters[i].status \notin PENDING /\ letters[i].to \in buried
    \/ withdrawn(i)

live_letter == \E i \in DOMAIN letters : ~dead(i)

\* Mutant: a letter that only waits does not count as another direction's.
rolesGone(s) ==
    {letters[i].stage : i \in {j \in DOMAIN letters :
                                 ~dead(j) /\ letters[j].status # "queued"}} \ {s}

\* The stages of the living letters of other directions.
roles_elsewhere(s) == {letters[i].stage : i \in {j \in DOMAIN letters : ~dead(j)}} \ {s}

first_letters == Cardinality({i \in DOMAIN letters : ~withdrawn(i)})

under_cap == first_letters < MAX_ADDRESSES

open_for_letter == ~live_letter /\ ~answered /\ under_cap

\* Withdrawn letters count: their keys are taken.
attempt_number(s) == Cardinality({i \in DOMAIN letters : letters[i].stage = s}) + 1

fresh(a) == a \notin buried /\ \A i \in DOMAIN letters : letters[i].to = a => withdrawn(i)

-----------------------------------------------------------------------------
(* QueueBuilder.build.                                                     *)

\* candidates(): the site is open; any fresh address may be the best one.
Choose(b, s, a) ==
    /\ build[b] = NoChoice
    /\ open_for_letter /\ fresh(a)
    /\ build' = [build EXCEPT ![b] = [stage |-> s, to |-> a, attempt |-> attempt_number(s)]]
    /\ UNCHANGED <<letters, site, send, dnsPass, out>>

\* Mutant: the key names the address and not the attempt.
KeyOfAddress(k) == \E i \in DOMAIN letters : letters[i].stage = k.stage /\ letters[i].to = k.to

\* idempotency_key: unique by stage, site, step and attempt.
KeyTaken(k) == \E i \in DOMAIN letters : letters[i].stage = k.stage /\ letters[i].attempt = k.attempt

\* _queue, minutes later, with a commit of its own: nothing is asked again.
Queue(b) ==
    LET k == build[b] IN
    /\ k # NoChoice /\ ~KeyTaken(k)
    /\ Len(letters) < MaxLetters
    /\ letters' = Append(letters, [stage |-> k.stage, to |-> k.to, attempt |-> k.attempt,
                                   status |-> "queued", mid |-> FALSE, why |-> "", back |-> FALSE])
    /\ out' = Append(out, "home")
    /\ build' = [build EXCEPT ![b] = NoChoice]
    /\ UNCHANGED <<site, send, dnsPass>>

\* The key is taken, the model has failed or its cap is reached, a bad address.
DropChoice(b) ==
    /\ build[b] # NoChoice
    /\ build' = [build EXCEPT ![b] = NoChoice]
    /\ UNCHANGED <<letters, site, send, dnsPass, out>>

-----------------------------------------------------------------------------
(* Sending.send of a first letter.                                         *)

Step(c, pc) == send' = [send EXCEPT ![c].pc = pc]
Finish(c) == send' = [send EXCEPT ![c] = Idle]

\* The letter is read from the queue, the stop list does not hold the site, and
\* site_role.check asks whether another direction writes to it.
Check(c, i) ==
    /\ send[c].pc = "idle"
    /\ letters[i].status = "queued"
    /\ LET elsewhere == roles_elsewhere(letters[i].stage) # {} IN
       send' = [send EXCEPT ![c] = [pc |-> IF elsewhere THEN "leaving" ELSE "checked",
                                    at |-> i, before |-> letters[i].mid]]
    /\ UNCHANGED <<letters, site, build, dnsPass, out>>

\* offer_stop.out_of_queue: with a reason of its own unless the letter may
\* have gone before.
Left(row, gone) ==
    [row EXCEPT !.status = "stopped", !.why = IF gone THEN @ ELSE "withdrawn"]

\* The letter is taken off, unless somebody has taken it meanwhile: then the
\* check is silent, and the claim decides.
LeaveQueue(c) ==
    LET i == send[c].at IN
    /\ send[c].pc = "leaving"
    /\ IF letters[i].status = "queued"
       THEN letters' = [letters EXCEPT ![i] = Left(@, send[c].before)] /\ Finish(c)
       ELSE Step(c, "checked") /\ UNCHANGED letters
    /\ UNCHANGED <<site, build, dnsPass, out>>

\* The review, the window, the recipient's DNS or the boxes refuse.
Postpone(c) ==
    /\ send[c].pc = "checked"
    /\ Finish(c)
    /\ UNCHANGED <<letters, site, build, dnsPass, out>>

\* The conditional UPDATE; whoever finds the letter out of the queue has lost.
\* A letter that has gone, returned by mistake, is not followed into a second
\* transmission: LetterLife is about that.
Claim(c) ==
    LET i == send[c].at IN
    /\ send[c].pc = "checked"
    /\ letters[i].status = "queued" => out[i] \in {"home", "failed"}
    /\ IF letters[i].status = "queued"
       THEN /\ letters' = [letters EXCEPT ![i].status = "sending", ![i].mid = TRUE]
            /\ Step(c, "handing")
       ELSE Finish(c) /\ UNCHANGED letters
    /\ UNCHANGED <<site, build, dnsPass, out>>

\* The platform takes the letter, and its answer is recorded.
Take(c) ==
    LET i == send[c].at IN
    /\ send[c].pc = "handing"
    /\ out' = [out EXCEPT ![i] = "way"]
    /\ letters' = IF letters[i].status = "sending"
                  THEN [letters EXCEPT ![i].status = "sent"] ELSE letters
    /\ Finish(c)
    /\ UNCHANGED <<site, build, dnsPass>>

\* The answer is lost; the platform may have taken the letter.
LoseAnswer(c) ==
    /\ send[c].pc = "handing"
    /\ \E taken \in BOOLEAN : out' = [out EXCEPT ![send[c].at] = IF taken THEN "way" ELSE @]
    /\ Finish(c)
    /\ UNCHANGED <<letters, site, build, dnsPass>>

\* TransportError: back to the queue, whatever the row says by now.
Refuse(c) ==
    /\ send[c].pc = "handing"
    /\ letters' = [letters EXCEPT ![send[c].at] =
                    [@ EXCEPT !.status = "queued", !.mid = send[c].before]]
    /\ Finish(c)
    /\ UNCHANGED <<site, build, dnsPass, out>>

-----------------------------------------------------------------------------
(* Events, replies, people.                                                *)

\* settle_by_event: the event proves that the letter has gone.
Proved(row) == [row EXCEPT !.status = IF @ \in PENDING THEN "sent" ELSE @]

Tell(i, row, o) ==
    /\ letters' = [letters EXCEPT ![i] = row]
    /\ out' = [out EXCEPT ![i] = o]
    /\ UNCHANGED <<build, send, dnsPass>>

Delivered(i) == out[i] = "way" /\ Tell(i, Proved(letters[i]), "reached") /\ UNCHANGED site

\* events._bounced: a mailbox that does not exist is buried, a soft refusal or
\* a silent DNS leaves it alone.
Bounced(i, kind) ==
    /\ out[i] = "way"
    /\ Tell(i, [letters[i] EXCEPT !.status = "bounced",
                                  !.why = IF kind = "dns" THEN "dns" ELSE ""], "failed")
    /\ buried' = IF kind = "hard" THEN buried \cup {letters[i].to} ELSE buried
    /\ UNCHANGED answered

\* The answering machine says that the mailbox is not read any more.
MailboxGone(i) ==
    /\ out[i] = "reached"
    /\ Tell(i, [letters[i] EXCEPT !.status = CASE @ = "sent" -> "bounced"
                                               [] @ = "queued" -> "stopped"
                                               [] OTHER -> @], "failed")
    /\ buried' = buried \cup {letters[i].to}
    /\ UNCHANGED answered

\* A person answers: the letters of that conversation leave the queue.
Answer(i) ==
    /\ out[i] = "reached"
    /\ Tell(i, [letters[i] EXCEPT !.status = IF @ = "queued" THEN "stopped" ELSE @], "reached")
    /\ answered' = TRUE
    /\ UNCHANGED buried

\* STUCK_AFTER and SETTLE: people and the DNS pass wait longer than any run of
\* send takes that has read the letter before.
Settled(i) == \A c \in Clicks : send[c].at # i

ReturnToQueue(i) ==
    /\ letters[i].status = "sending" /\ Settled(i)
    /\ letters' = [letters EXCEPT ![i].status = "queued"]
    /\ UNCHANGED <<site, build, send, dnsPass, out>>

FoundSent(i) ==
    /\ letters[i].status = "sending" /\ Settled(i) /\ out[i] # "home"
    /\ letters' = [letters EXCEPT ![i].status = "sent"]
    /\ UNCHANGED <<site, build, send, dnsPass, out>>

\* review.skip
Skip(i) ==
    /\ letters[i].status = "queued"
    /\ letters' = [letters EXCEPT ![i].status = "stopped"]
    /\ UNCHANGED <<site, build, send, dnsPass, out>>

\* stop_offers: the link an offer is written under has been refused.
WithdrawOffer(i) ==
    /\ letters[i].stage = "advertisers" /\ letters[i].status = "queued"
    /\ letters' = [letters EXCEPT ![i] = Left(@, @.mid)]
    /\ UNCHANGED <<site, build, send, dnsPass, out>>

-----------------------------------------------------------------------------
(* dns_return.return_letters.                                              *)

\* _returnable and _taken: judged by one statement ...
Judge(i) ==
    /\ dnsPass = NoLetter
    /\ letters[i].status = "bounced" /\ letters[i].why = "dns" /\ ~letters[i].back
    /\ Settled(i) /\ ~live_letter /\ ~answered
    /\ dnsPass' = i
    /\ UNCHANGED <<letters, site, build, send, out>>

\* ... and returned by another, if the letter is still bounced.
Return ==
    LET i == dnsPass IN
    /\ i # NoLetter
    /\ letters' = IF letters[i].status = "bounced"
                  THEN [letters EXCEPT ![i].status = "queued", ![i].why = "", ![i].back = TRUE]
                  ELSE letters
    /\ dnsPass' = NoLetter
    /\ UNCHANGED <<site, build, send, out>>

BuildStep ==
    \/ \E b \in Builders, s \in Stages, a \in Addresses : Choose(b, s, a)
    \/ \E b \in Builders : Queue(b) \/ DropChoice(b)

SendStep ==
    \/ \E c \in Clicks, i \in DOMAIN letters : Check(c, i)
    \/ \E c \in Clicks :
         \/ LeaveQueue(c) \/ Postpone(c) \/ Claim(c)
         \/ Take(c) \/ LoseAnswer(c) \/ Refuse(c)

WorldStep == \E i \in DOMAIN letters :
    \/ Delivered(i) \/ (\E k \in {"hard", "soft", "dns"} : Bounced(i, k))
    \/ MailboxGone(i) \/ Answer(i)
    \/ ReturnToQueue(i) \/ FoundSent(i) \/ Skip(i) \/ WithdrawOffer(i)

PassStep == Return \/ \E i \in DOMAIN letters : Judge(i)

Next == BuildStep \/ SendStep \/ WorldStep \/ PassStep

Spec == Init /\ [][Next]_vars

-----------------------------------------------------------------------------
(* Properties.                                                             *)

\* The letter is with the addressee or on the way to one, and its address is not
\* known to be dead.
Writes(i) == out[i] \in {"way", "reached"} /\ ~dead(i)

\* Two directions never write to one site (letters/site_role.py), though builds,
\* sends, returns and the DNS pass each look at the other letters at a moment of
\* their own: whichever letter comes second sees the first, and both may be
\* taken off, but both never go.
OneRole ==
    \A i, j \in DOMAIN letters : Writes(i) /\ Writes(j) => letters[i].stage = letters[j].stage

\* One letter to a site at a time: a second one of the same direction is alive
\* only where the pass of DNS returns has brought back a letter while a build
\* held its choice.  Two builds that choose at once count one attempt, and the
\* key lets one of them queue its letter (attempts.attempt_number).
OneAtATime ==
    \A i, j \in DOMAIN letters :
      /\ i # j /\ Writes(i) /\ Writes(j)
      /\ letters[i].stage = letters[j].stage
      => letters[i].back \/ letters[j].back
=============================================================================
