------------------------------- MODULE Mailbox -------------------------------
(***************************************************************************)
(* What a box may send in a day, and when it stops itself.  Senders (a     *)
(* batch, the autosend, the button of a screen) take first letters of a    *)
(* queue at the same time: each counts what the boxes have sent today,     *)
(* chooses a box, claims the letter and hands it over.  Deliveries of      *)
(* events (Hooks) write bounces and judge the box by its last letters.     *)
(* The rest of the life of a letter is in LetterLife.                      *)
(***************************************************************************)
EXTENDS Sums, Sequences, FiniteSets

CONSTANTS
    Letters,       \* first letters of one direction
    Boxes,         \* its boxes, by their numbers
    Domain,        \* the domain of a box
    Warm,          \* boxes that have no warm-up
    DailyCap,      \* sender.daily_cap
    Steps,         \* OUTREACH_WARMUP_CAPS, of a day each
    DomainLimit,   \* sending_domains.daily_limit
    Direction,     \* OUTREACH_<STAGE>_DAILY_LIMIT
    Bad,           \* bounces of the window that stop a box
    Senders, Hooks,
    Lag,           \* an event may come later than the bounce it tells of
    Ticks,         \* ticks of the clock in a day, by UTC
    MaxTime,       \* bound: the clock
    MaxLost,       \* bound: answers of the platform that are lost
    MaxBack        \* bound: letters that are put back into the queue

ASSUME BoxAssumption ==
    /\ IsFiniteSet(Boxes) /\ Boxes \subseteq Nat \ {0} /\ Warm \subseteq Boxes
    /\ DailyCap \in Nat /\ Steps \in Seq(Nat) /\ Steps # <<>>
    /\ DomainLimit \in Nat /\ Direction \in Nat /\ Bad \in Nat \ {0}
\* A ladder (the default is 5, 10, 15, 20): no step is below the first.
ASSUME StepAssumption ==
    0 < Steps[1] /\ \A n \in 1..Len(Steps) : Steps[1] <= Steps[n]
ASSUME BoundAssumption ==
    /\ IsFiniteSet(Letters) /\ IsFiniteSet(Senders)
    /\ Senders # {} /\ IsFiniteSet(Hooks) /\ Hooks # {} /\ "-" \notin Letters
    /\ Lag \in BOOLEAN /\ Ticks \in Nat \ {0}
    /\ MaxTime \in Nat /\ MaxLost \in Nat /\ MaxBack \in Nat

Time == 0..MaxTime
NEVER == -1
Moment == Time \cup {NEVER}
Day(t) == t \div Ticks
NoBox == 0

VARIABLES
    now,
    letter,    \* the rows of messages, and what the platform knows of them
    box,       \* the rows of senders, and the last row "paused" of their journal
    send,      \* the senders
    hook,      \* the deliveries of events
    lost, back,
    mailed,    \* history: letters of a box the platform took today
    freed,     \* history: of them, put back into the queue
    before,    \* history: of them, taken or under way when the warm-up began anew
    woke       \* history: the earliest claim of the letters the platform took since then

history == <<mailed, freed, before, woke>>
vars == <<now, letter, box, send, hook, lost, back, history>>

\* Whom a bounce speaks against: the box, or the DNS of the recipient.
Trouble == {"none", "box", "dns"}

Letter == [status : {"queued", "sending", "sent", "bounced"},
           box : Boxes \cup {NoBox},
           at : Moment,        \* of the claim, then sent_at
           taken : Moment,     \* when the platform took it
           trouble : Trouble]
Fresh == [status |-> "queued", box |-> NoBox, at |-> NEVER, taken |-> NEVER, trouble |-> "none"]

Box == [enabled : BOOLEAN,
        started : Moment,      \* warmup_started_at
        first : Moment,        \* warmup_first_sent_at
        paused : Moment]       \* the time of the last row "paused"

Send == [at : {"idle", "chosen", "handing"}, letter : Letters \cup {"-"},
         box : Boxes \cup {NoBox}, was : Boxes \cup {NoBox}]
Rest == [at |-> "idle", letter |-> "-", box |-> NoBox, was |-> NoBox]

\* A delivery holds the row of its letter until it commits.
Hook == [letter : Letters \cup {"-"}, trouble : Trouble, at : Moment, pause : BOOLEAN]
Silent == [letter |-> "-", trouble |-> "none", at |-> NEVER, pause |-> FALSE]

TypeOK ==
    /\ now \in Time
    /\ letter \in [Letters -> Letter]
    /\ box \in [Boxes -> Box]
    /\ send \in [Senders -> Send]
    /\ hook \in [Hooks -> Hook]
    /\ \A p \in Senders :
         send[p].at = "handing" => /\ letter[send[p].letter].status = "sending"
                                   /\ letter[send[p].letter].box = send[p].box
    /\ lost \in 0..MaxLost /\ back \in 0..MaxBack
    /\ mailed \in [Boxes -> Nat] /\ freed \in [Boxes -> Nat]
    /\ before \in [Boxes -> Nat] /\ woke \in [Boxes -> Moment]

Init ==
    /\ now = 0
    /\ letter = [l \in Letters |-> Fresh]
    /\ box = [b \in Boxes |-> [enabled |-> TRUE, first |-> NEVER, paused |-> NEVER,
                               started |-> IF b \in Warm THEN NEVER ELSE 0]]
    /\ send = [p \in Senders |-> Rest]
    /\ hook = [h \in Hooks |-> Silent]
    /\ lost = 0 /\ back = 0
    /\ mailed = [b \in Boxes |-> 0] /\ freed = [b \in Boxes |-> 0]
    /\ before = [b \in Boxes |-> 0] /\ woke = [b \in Boxes |-> NEVER]

-----------------------------------------------------------------------------
(* The limits of a day: outreach/senders.py, outreach/limits.py.            *)

Least(a, b) == IF a < b THEN a ELSE b
Most(a, b) == IF a > b THEN a ELSE b

\* The first letter of this warm-up; that of an earlier one does not count.
first_letter(b) ==
    IF box[b].started # NEVER /\ box[b].first >= box[b].started THEN box[b].first ELSE NEVER

\* Mutant: the steps are counted from the start.
Xwarmup_state(b) ==
    IF box[b].started = NEVER THEN DailyCap
    ELSE LET day == Day(now) - Day(box[b].started) + 1
         IN Least(DailyCap, Steps[Least(day, Len(Steps))])

\* warmup_state: the allowance of today.  The steps are counted from the first
\* letter, not from the start.
warmup_state(b) ==
    IF box[b].started = NEVER THEN DailyCap
    ELSE LET f == first_letter(b)
             day == IF f = NEVER THEN 1 ELSE Most(1, Day(now) - Day(f) + 1)
         IN Least(DailyCap, Steps[Least(day, Len(Steps))])

\* Mutant: a letter in flight is not counted.
Xsent_today(b) ==
    Cardinality({l \in Letters :
        /\ letter[l].box = b /\ letter[l].status \in {"sent", "bounced"}
        /\ Day(letter[l].at) = Day(now)})

\* Counted by the letters: gone today, or claimed today and still in flight.
sent_today(b) ==
    Cardinality({l \in Letters :
        /\ letter[l].box = b /\ letter[l].status # "queued"
        /\ Day(letter[l].at) = Day(now)})

SentBy(S) == Total([b \in Boxes |-> sent_today(b)], S)
Siblings(b) == {c \in Boxes : Domain[c] = Domain[b]}
remaining(b) == Most(0, warmup_state(b) - sent_today(b))

\* limits.screen: the direction, then the domain; pick: the box has a place.
Fit ==
    IF SentBy(Boxes) >= Direction THEN {}
    ELSE {b \in Boxes : /\ box[b].enabled
                        /\ SentBy(Siblings(b)) < DomainLimit
                        /\ remaining(b) > 0}

\* pick: the largest rest, then the smallest number.
pick(b) ==
    /\ b \in Fit
    /\ \A c \in Fit : \/ remaining(b) > remaining(c)
                      \/ remaining(b) = remaining(c) /\ b <= c

-----------------------------------------------------------------------------
(* Sending.send: the box is chosen, then the letter is claimed.             *)

Taken(l, b) ==
    /\ mailed' = [mailed EXCEPT ![b] = @ + 1]
    /\ woke' = [woke EXCEPT ![b] = IF @ = NEVER THEN letter[l].at ELSE Least(@, letter[l].at)]

choose(p, l) ==
    /\ send[p].at = "idle" /\ letter[l].status = "queued"
    /\ \E b \in Boxes :
         /\ pick(b)
         /\ send' = [send EXCEPT ![p] = [at |-> "chosen", letter |-> l, box |-> b,
                                         was |-> letter[l].box]]
    /\ UNCHANGED <<now, letter, box, hook, lost, back, history>>

\* Mutant: whatever state the letter is in.
X_claim(p) ==
    /\ send[p].at = "chosen"
    /\ letter' = [letter EXCEPT ![send[p].letter].status = "sending",
                                ![send[p].letter].box = send[p].box,
                                ![send[p].letter].at = now]
    /\ send' = [send EXCEPT ![p].at = "handing"]
    /\ UNCHANGED <<now, box, hook, lost, back, history>>

\* Only a letter that is still in the queue.
_claim(p) ==
    LET s == send[p]
    IN /\ s.at = "chosen"
       /\ IF letter[s.letter].status = "queued"
          THEN /\ letter' = [letter EXCEPT ![s.letter].status = "sending",
                                           ![s.letter].box = s.box,
                                           ![s.letter].at = now]
               /\ send' = [send EXCEPT ![p].at = "handing"]
          ELSE /\ send' = [send EXCEPT ![p] = Rest]
               /\ UNCHANGED letter
       /\ UNCHANGED <<now, box, hook, lost, back, history>>

\* mark_first_letter: only a letter that has gone since the start, and only
\* when there is no mark of this warm-up.
Marked(b, at) ==
    IF b # NoBox /\ box[b].started # NEVER /\ box[b].started <= at /\ box[b].first < box[b].started
    THEN [box EXCEPT ![b].first = at]
    ELSE box

\* The platform has taken the letter and says so.
_settle(p) ==
    LET s == send[p]
    IN /\ s.at = "handing"
       /\ letter' = [letter EXCEPT ![s.letter].taken = now,
                                   ![s.letter].status = "sent", ![s.letter].at = now]
       /\ box' = Marked(s.box, now)
       /\ send' = [send EXCEPT ![p] = Rest]
       /\ Taken(s.letter, s.box)
       /\ UNCHANGED <<now, hook, lost, back, freed, before>>

\* The platform refuses: back into the queue, with the box of the attempt before.
Refused(p) ==
    LET s == send[p]
    IN /\ s.at = "handing"
       /\ letter' = [letter EXCEPT ![s.letter].status = "queued", ![s.letter].box = s.was]
       /\ send' = [send EXCEPT ![p] = Rest]
       /\ UNCHANGED <<now, box, hook, lost, back, history>>

\* The connection breaks, or the process dies: the letter stays in flight.
Broken(p) ==
    LET s == send[p]
    IN /\ s.at = "handing" /\ lost < MaxLost
       /\ lost' = lost + 1
       /\ send' = [send EXCEPT ![p] = Rest]
       /\ \/ /\ letter' = [letter EXCEPT ![s.letter].taken = now]
             /\ Taken(s.letter, s.box)
          \/ UNCHANGED <<letter, mailed, woke>>
       /\ UNCHANGED <<now, box, hook, back, freed, before>>

Handing(l) == \E p \in Senders : send[p].at = "handing" /\ send[p].letter = l

\* settle_by_event: gone at its claim; from the queue, at the time of the event.
ByEvent(l) ==
    LET at == IF letter[l].status = "sending" THEN letter[l].at ELSE now
    IN /\ letter[l].taken # NEVER /\ letter[l].status \in {"sending", "queued"} /\ ~Handing(l)
       /\ letter' = [letter EXCEPT ![l].status = "sent", ![l].at = at]
       /\ box' = Marked(letter[l].box, at)
       /\ UNCHANGED <<now, send, hook, lost, back, history>>

\* A place of today that the platform has used is free again.
Freed(l) ==
    freed' = IF letter[l].taken # NEVER /\ Day(letter[l].taken) = Day(now)
             THEN [freed EXCEPT ![letter[l].box] = @ + 1] ELSE freed

\* unknown_outcome._back: a person has not found it at the platform.
_back(l) ==
    /\ letter[l].status = "sending" /\ ~Handing(l)
    /\ back < MaxBack /\ back' = back + 1
    /\ letter' = [letter EXCEPT ![l].status = "queued"]
    /\ Freed(l)
    /\ UNCHANGED <<now, box, send, hook, lost, mailed, before, woke>>

\* dns_return._return: the DNS of the recipient was silent.
_return(l) ==
    /\ letter[l].status = "bounced" /\ letter[l].trouble = "dns"
    /\ back < MaxBack /\ back' = back + 1
    /\ letter' = [letter EXCEPT ![l] = [Fresh EXCEPT !.box = letter[l].box]]
    /\ Freed(l)
    /\ UNCHANGED <<now, box, send, hook, lost, mailed, before, woke>>

-----------------------------------------------------------------------------
(* Bounces: the platform, events.apply_events, health.listen.               *)

\* Bounces that speak against the box, of letters gone after its last pause.
Against(b) ==
    {l \in Letters : /\ letter[l].box = b /\ letter[l].status = "bounced"
                     /\ letter[l].trouble = "box" /\ letter[l].at > box[b].paused}

\* Mutant: one bounce more.
X_verdict(b, own) == Cardinality(Against(b) \cup own) > Bad

\* _verdict sees what is committed, and its own bounce.
_verdict(b, own) == Cardinality(Against(b) \cup own) >= Bad

\* When the platform gave the letter up.
EventTime(l) == IF Lag THEN letter[l].taken..now ELSE {now}

\* apply_events up to its commit: nobody else sees the bounce.  A letter whose
\* box is not known has no box to judge.
listen(h, l) ==
    LET b == letter[l].box
        own(why) == {k \in {l} : why = "box" /\ letter[k].at > box[b].paused}
        judged(why) == b # NoBox /\ box[b].enabled /\ _verdict(b, own(why))
    IN /\ hook[h] = Silent
       /\ letter[l].status = "sent"
       /\ \A g \in Hooks : hook[g].letter # l
       /\ \E why \in {"box", "dns"}, at \in EventTime(l) :
            hook' = [hook EXCEPT ![h] = [letter |-> l, trouble |-> why, at |-> at,
                                         pause |-> judged(why)]]
       /\ UNCHANGED <<now, letter, box, send, lost, back, history>>

\* pause_once reads the box anew under its lock; the row "paused" has the time
\* of the event.  Both are seen with the bounce.
Commit(h) ==
    LET l == hook[h].letter
        b == letter[l].box
    IN /\ hook[h] # Silent
       /\ letter' = [letter EXCEPT ![l].status = "bounced", ![l].trouble = hook[h].trouble]
       /\ box' = IF hook[h].pause /\ box[b].enabled
                 THEN [box EXCEPT ![b].enabled = FALSE,
                                  ![b].paused = Most(@, hook[h].at)]
                 ELSE box
       /\ hook' = [hook EXCEPT ![h] = Silent]
       /\ UNCHANGED <<now, send, lost, back, history>>

\* The senders that have chosen a box.
UnderWay(S) == {p \in Senders : send[p].at # "idle" /\ send[p].box \in S}

\* A person switches the box on: the warm-up begins anew.  No letter has the
\* very moment of it.
enable(b) ==
    /\ ~box[b].enabled
    /\ \A l \in Letters : letter[l].at < now
    /\ box' = [box EXCEPT ![b].enabled = TRUE, ![b].started = now, ![b].first = NEVER]
    /\ before' = [before EXCEPT ![b] = mailed[b] + Cardinality(UnderWay({b}))]
    /\ woke' = [woke EXCEPT ![b] = NEVER]
    /\ UNCHANGED <<now, letter, send, hook, lost, back, mailed, freed>>

Tick ==
    LET zero == [b \in Boxes |-> 0]
        midnight == Day(now + 1) # Day(now)
    IN /\ now < MaxTime
       /\ now' = now + 1
       /\ IF midnight THEN mailed' = zero /\ freed' = zero /\ before' = zero
                      ELSE UNCHANGED <<mailed, freed, before>>
       /\ UNCHANGED <<letter, box, send, hook, lost, back, woke>>

-----------------------------------------------------------------------------

Sending(p) ==
    \/ \E l \in Letters : choose(p, l)
    \/ _claim(p) \/ _settle(p) \/ Refused(p) \/ Broken(p)

Next ==
    \/ \E p \in Senders : Sending(p)
    \/ \E l \in Letters : ByEvent(l) \/ _back(l) \/ _return(l)
    \/ \E h \in Hooks : Commit(h) \/ \E l \in Letters : listen(h, l)
    \/ \E b \in Boxes : enable(b)
    \/ Tick

Spec == Init /\ [][Next]_vars

-----------------------------------------------------------------------------
(* Safety.                                                                 *)

\* The senders that may have counted before each other's claims.
Others == Cardinality(Senders) - 1
Given(S) == Total(mailed, S)

\* Places of today that are not counted: of letters put back into the queue, and
\* of letters claimed before midnight and taken after it.
Late(S) ==
    {l \in Letters : /\ letter[l].box \in S /\ letter[l].status # "queued"
                     /\ letter[l].taken # NEVER /\ Day(letter[l].taken) = Day(now)
                     /\ Day(letter[l].at) # Day(now)}
Uncounted(S) == Total(freed, S) + Cardinality(Late(S))

\* What the platform takes from a box, a domain, a direction in a day exceeds
\* its limit by no more than the other senders and the places that are not
\* counted: an answer that is lost frees no place (sent_today, limits.screen).
WithinLimits ==
    /\ \A b \in Boxes :
         mailed[b] <= Most(warmup_state(b), before[b]) + Others + Uncounted({b})
    /\ \A b \in Boxes :
         Given(Siblings(b)) <= DomainLimit + Others + Uncounted(Siblings(b))
    /\ Given(Boxes) <= Direction + Others + Uncounted(Boxes)

\* A box in its warm-up has more than the first step only on a day after the
\* claim of a letter the platform took (warmup_state, mark_first_letter).
WarmsByWriting ==
    back = 0 =>
      \A b \in Boxes :
        box[b].started # NEVER /\ warmup_state(b) > Steps[1]
          => woke[b] # NEVER /\ Day(woke[b]) < Day(now)

\* A box that writes has fewer bounces against it, among the letters gone since
\* it was switched on, than stop it, but for those committed by other
\* deliveries at the same time (health._verdict, autopause.pause_once).
PauseComes ==
    \A b \in Boxes :
      box[b].enabled =>
        Cardinality({l \in Against(b) : letter[l].at >= box[b].started})
          < Bad + Cardinality(Hooks) - 1
=============================================================================
