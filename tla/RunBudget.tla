------------------------------ MODULE RunBudget ------------------------------
(***************************************************************************)
(* The money of the runs: the units of the Ahrefs key, which another       *)
(* system spends too, our cap on a cycle of the key, and the runs that     *)
(* plan under what is left of both.  A run promises its estimate, spends   *)
(* it batch by batch and writes what it has spent to the usage journal.    *)
(* How a run comes to its attempts is in RunLife; here an attempt begins   *)
(* when the run is open and nobody works on it.                            *)
(***************************************************************************)
EXTENDS Integers, FiniteSets, Sums

CONSTANTS
    Runs,
    Consoles,      \* the runs of the command line
    Rivals,        \* the runs over the links of competitors: lists come first
    Wanted,        \* batches of new domains a run finds
    KeyLimit,      \* units of the key
    Cap,           \* our cap (ahrefs_cap.units_cap)
    Asked,         \* ceilings people name; Cap and more is to name none
    Slots,         \* workers of the queue "runs"
    MaxNeighbour,  \* bound: units the other system spends
    MaxFaults      \* bound: attempts that fail or die

ASSUME RunAssumption ==
    /\ IsFiniteSet(Runs)
    /\ Consoles \subseteq Runs /\ Rivals \subseteq Runs /\ Consoles \cap Rivals = {}
    /\ Wanted \in [Runs -> Nat]
ASSUME UnitAssumption ==
    /\ KeyLimit \in Nat /\ Cap \in Nat /\ Slots \in Nat
    /\ Asked \subseteq Nat
    /\ MaxNeighbour \in Nat /\ MaxFaults \in Nat

\* A batch is paid for in two requests: the screening, and the metrics of what
\* has passed it.  The estimate counts both for every domain.  A list is one
\* request, and every list brings one batch.
BATCH == 2
LIST == 1
NoEstimate == -1

VARIABLES
    status,     \* of the runs: "none", "open", "closed"
    promised,   \* settings.units_cap
    estimate,   \* estimated_units, NoEstimate for NULL
    held,       \* the estimate is the hold for the time of the lists
    lists,      \* the lists a run has (competitors.fetched)
    saved,      \* batches whose results are saved: fresh for the next attempt
    journal,    \* Ahrefs units of a run in the usage journal
    listed,     \* of them for lists (competitors.units)
    used,       \* the key: units spent by anybody
    neighbour,  \* of them by the other system
    try,        \* the attempts
    faults,
    again,      \* history: units in the journal for work that has to be bought anew
    burnt,      \* history: units paid by an attempt that died before the journal
    gaps        \* history: limits under which somebody planned without seeing
                \* what another run had promised or spent

row == <<status, promised, estimate, held, lists, saved, journal, listed>>
key == <<used, neighbour>>
history == <<again, burnt, gaps>>
vars == <<row, key, try, faults, history>>

Limits == {"key", "cap"}

Try == [at : {"idle", "left", "ready", "claimed", "asked", "listing", "buying"},
        left : Int,           \* cap_left as read
        cap : Nat,            \* the ceiling of this attempt
        claims : Nat,         \* claimed_units as read
        free : Int,           \* units of the key that nobody has promised
        part : 0..BATCH,      \* units paid for what is not in the journal yet
        due : Nat,            \* units this attempt may still pay
        missed : SUBSET Limits]
Idle == [at |-> "idle", left |-> 0, cap |-> 0, claims |-> 0, free |-> 0,
         part |-> 0, due |-> 0, missed |-> {}]

TypeOK ==
    /\ status \in [Runs -> {"none", "open", "closed"}]
    /\ promised \in [Runs -> Nat]
    /\ estimate \in [Runs -> Nat \cup {NoEstimate}]
    /\ held \in [Runs -> BOOLEAN]
    /\ lists \in [Runs -> Nat] /\ saved \in [Runs -> Nat]
    /\ journal \in [Runs -> Nat] /\ listed \in [Runs -> Nat]
    /\ used \in 0..KeyLimit /\ neighbour \in 0..MaxNeighbour
    /\ try \in [Runs -> Try]
    /\ faults \in 0..MaxFaults /\ again \in Nat /\ burnt \in Nat
    /\ gaps \subseteq Limits

Init ==
    /\ status = [r \in Runs |-> "none"]
    /\ promised = [r \in Runs |-> 0]
    /\ estimate = [r \in Runs |-> NoEstimate]
    /\ held = [r \in Runs |-> FALSE]
    /\ lists = [r \in Runs |-> 0]
    /\ saved = [r \in Runs |-> 0]
    /\ journal = [r \in Runs |-> 0]
    /\ listed = [r \in Runs |-> 0]
    /\ used = 0 /\ neighbour = 0
    /\ try = [r \in Runs |-> Idle]
    /\ faults = 0 /\ again = 0 /\ burnt = 0 /\ gaps = {}

-----------------------------------------------------------------------------
(* The sums the runs plan by.                                              *)

Least(a, b) == IF a < b THEN a ELSE b
Most(a, b) == IF a > b THEN a ELSE b

\* Mutant: what a run has spent above its estimate enlarges the rest.
XClaimBelowNothing(r) ==
    IF status[r] = "open" /\ estimate[r] # NoEstimate THEN estimate[r] - journal[r] ELSE 0

\* What an open run still holds: its estimate less what it has spent by the
\* journal, and never less than nothing.
claim(r) ==
    IF status[r] = "open" /\ estimate[r] # NoEstimate
    THEN Most(estimate[r] - journal[r], 0)
    ELSE 0

\* Mutant: the run counts its own promise as well.
XOwnClaimToo(r) == Total([s \in Runs |-> claim(s)], Runs)

claimed_units(r) == Total([s \in Runs |-> claim(s)], Runs \ {r})

cap_left == Most(0, Cap - Total(journal, Runs))

\* The lists to be bought, the batches to be measured, and their prices.
ListsLeft(r) == IF r \in Rivals THEN Wanted[r] - lists[r] ELSE 0
BatchesLeft(r) == Wanted[r] - saved[r]
Worst(r) == LIST * ListsLeft(r) + BATCH * BatchesLeft(r)

\* Budget.units of budget_of.
units(r) == Least(Most(0, try[r].free), try[r].cap)

Busy == {r \in Runs \ Consoles : try[r].at # "idle"}

-----------------------------------------------------------------------------
(* Attempts: workers/run_job._run, cli/main.cmd_run.                        *)

Set(r, t) == try' = [try EXCEPT ![r] = t]

\* What the others have not seen: a promise given after they have read the
\* claims, an expense written after they have read the rest of the cap.
Unseen(s, promises) ==
    LET t == try[s]
    IN CASE promises /\ estimate[s] = NoEstimate /\ t.at \in {"claimed", "asked"} -> Limits
         [] promises /\ estimate[s] = NoEstimate /\ t.at = "ready" -> {"cap"}
         [] ~promises /\ t.at = "left" -> {"cap"}
         [] OTHER -> {}

Told(r, t, promises) ==
    try' = [s \in Runs |-> IF s = r THEN t
                           ELSE [try[s] EXCEPT !.missed = @ \cup Unseen(s, promises)]]

\* api/runs/routes.enqueue_run: the ceiling shown to the person.
Press(r) ==
    /\ r \notin Consoles /\ status[r] = "none"
    /\ status' = [status EXCEPT ![r] = "open"]
    /\ \E asked \in Asked : promised' = [promised EXCEPT ![r] = Least(asked, cap_left)]
    /\ UNCHANGED <<estimate, held, lists, saved, journal, listed, key, try, faults, history>>

\* ceiling_at_start: the rest of the cap, ...
Begin(r) ==
    /\ r \notin Consoles /\ status[r] = "open" /\ try[r].at = "idle"
    /\ Cardinality(Busy) < Slots
    /\ Set(r, [Idle EXCEPT !.at = "left", !.left = cap_left])
    /\ UNCHANGED <<row, key, faults, history>>

\* Mutant: the cap is read without what the others hold of it.
XCapAlone(r) ==
    LET t == try[r]
    IN /\ t.at = "left"
       /\ Set(r, [t EXCEPT !.at = "ready", !.left = 0,
                           !.cap = Most(0, Least(promised[r] - listed[r], t.left))])
       /\ UNCHANGED <<row, key, faults, history>>

\* Mutant: a ceiling below nothing.
XNoFloor(r) ==
    LET t == try[r]
    IN /\ t.at = "left"
       /\ Set(r, [t EXCEPT !.at = "ready", !.left = 0,
                           !.cap = Least(promised[r] - listed[r], t.left - claimed_units(r))])
       /\ UNCHANGED <<row, key, faults, history>>

\* ... and in another statement what the others hold of it.  What the run has
\* paid for lists is in the journal already and is not promised again.
ceiling_at_start(r) ==
    LET t == try[r]
        mine == promised[r] - listed[r]
    IN /\ t.at = "left"
       /\ Set(r, [t EXCEPT !.at = "ready", !.left = 0,
                           !.cap = Most(0, Least(mine, t.left - claimed_units(r)))])
       /\ UNCHANGED <<row, key, faults, history>>

\* cmd_run: its ceiling is the rest of the cap, whatever the others hold of it.
ConsoleBegin(r) ==
    /\ r \in Consoles /\ status[r] = "none"
    /\ status' = [status EXCEPT ![r] = "open"]
    /\ \E asked \in Asked :
         LET ceiling == Least(asked, cap_left)
         IN /\ promised' = [promised EXCEPT ![r] = ceiling]
            /\ Set(r, [Idle EXCEPT !.at = "ready", !.cap = ceiling,
                                   !.missed = IF claimed_units(r) > 0 THEN {"cap"} ELSE {}])
    /\ UNCHANGED <<estimate, held, lists, saved, journal, listed, key, faults, history>>

\* The claims are read before the key is asked: what another run spends in
\* between is counted twice rather than not at all.
ReadClaims(r) ==
    /\ try[r].at = "ready"
    /\ Set(r, [try[r] EXCEPT !.at = "claimed", !.claims = claimed_units(r)])
    /\ UNCHANGED <<row, key, faults, history>>

\* Mutant: what is left of the key is taken for free.
XRestIsFree(r) ==
    /\ try[r].at = "claimed"
    /\ Set(r, [try[r] EXCEPT !.at = "asked", !.claims = 0, !.free = KeyLimit - used])
    /\ UNCHANGED <<row, key, faults, history>>

AskKey(r) ==
    /\ try[r].at = "claimed"
    /\ Set(r, [try[r] EXCEPT !.at = "asked", !.claims = 0,
                             !.free = KeyLimit - used - try[r].claims])
    /\ UNCHANGED <<row, key, faults, history>>

\* competitor_run._hold: the worst case of what is left, before the first list.
_hold(r) ==
    /\ try[r].at = "asked" /\ ListsLeft(r) > 0
    /\ Worst(r) <= units(r)
    /\ IF estimate[r] = NoEstimate \/ held[r]
       THEN /\ estimate' = [estimate EXCEPT ![r] = listed[r] + Worst(r)]
            /\ held' = [held EXCEPT ![r] = TRUE]
       ELSE UNCHANGED <<estimate, held>>
    /\ gaps' = gaps \cup try[r].missed
    /\ Told(r, [try[r] EXCEPT !.at = "listing", !.free = 0, !.due = Worst(r), !.missed = {}], TRUE)
    /\ UNCHANGED <<status, promised, lists, saved, journal, listed, key, faults, again, burnt>>

\* plan_run, release_hold, set_estimate: the estimate is written once, or over
\* the hold by the same commit.
Plan(r) ==
    LET cost == BATCH * BatchesLeft(r)
    IN /\ try[r].at = "asked" /\ ListsLeft(r) = 0
       /\ cost <= units(r)
       /\ estimate' = [estimate EXCEPT
                         ![r] = IF @ = NoEstimate \/ held[r] THEN listed[r] + cost ELSE @]
       /\ held' = [held EXCEPT ![r] = FALSE]
       /\ gaps' = gaps \cup try[r].missed
       /\ Told(r, [try[r] EXCEPT !.at = "buying", !.free = 0, !.due = cost, !.missed = {}], TRUE)
       /\ UNCHANGED <<status, promised, lists, saved, journal, listed, key, faults, again, burnt>>

\* CapExceededError: no try of the same run would help, it is closed.  In the
\* console the row stays as it is.
Refuse(r) ==
    /\ try[r].at = "asked"
    /\ Worst(r) > units(r)
    /\ status' = [status EXCEPT ![r] = IF r \in Consoles THEN @ ELSE "closed"]
    /\ Set(r, Idle)
    /\ UNCHANGED <<promised, estimate, held, lists, saved, journal, listed, key, faults, history>>

-----------------------------------------------------------------------------
(* Spending.                                                               *)

Spending(r) == try[r].at \in {"listing", "buying"}

\* The request of a list, of a screening, of metrics.
Pay(r) ==
    /\ Spending(r) /\ used < KeyLimit
    /\ try[r].due > 0
    /\ try[r].part < IF try[r].at = "listing" THEN LIST ELSE BATCH
    /\ used' = used + 1
    /\ Set(r, [try[r] EXCEPT !.part = @ + 1, !.due = @ - 1])
    /\ UNCHANGED <<row, neighbour, faults, history>>

\* _checkpoint: the list, its price and the count of lists in one commit.
SaveList(r) ==
    LET t == try[r]
        last == ListsLeft(r) = 1
    IN /\ t.at = "listing" /\ t.part = LIST
       /\ lists' = [lists EXCEPT ![r] = @ + 1]
       /\ journal' = [journal EXCEPT ![r] = @ + LIST]
       /\ listed' = [listed EXCEPT ![r] = @ + LIST]
       /\ Told(r, [t EXCEPT !.at = IF last THEN "ready" ELSE @, !.part = 0,
                            !.due = IF last THEN 0 ELSE @,
                            !.cap = Most(0, @ - LIST)], FALSE)
       /\ UNCHANGED <<status, promised, estimate, held, saved, key, faults, history>>

\* _save_batch, flush_usage, commit.  A batch the screening has rejected is
\* saved without its metrics.
SaveBatch(r) ==
    LET t == try[r]
    IN /\ t.at = "buying" /\ t.part > 0
       /\ saved' = [saved EXCEPT ![r] = @ + 1]
       /\ journal' = [journal EXCEPT ![r] = @ + t.part]
       /\ Told(r, [t EXCEPT !.part = 0, !.due = @ - (BATCH - t.part)], FALSE)
       /\ UNCHANGED <<status, promised, estimate, held, lists, listed, key, faults, history>>

Finish(r) ==
    /\ try[r].at = "buying" /\ BatchesLeft(r) = 0
    /\ status' = [status EXCEPT ![r] = "closed"]
    /\ Set(r, Idle)
    /\ UNCHANGED <<promised, estimate, held, lists, saved, journal, listed, key, faults, history>>

\* What was paid goes to the journal however the attempt ends; what was not
\* saved has to be bought anew.
Journalled(r) ==
    /\ journal' = [journal EXCEPT ![r] = @ + try[r].part]
    /\ listed' = [listed EXCEPT ![r] = @ + IF try[r].at = "listing" THEN try[r].part ELSE 0]
    /\ again' = again + try[r].part
    /\ Told(r, Idle, FALSE)

\* The key is empty in the middle of the work.
Exhausted(r) ==
    /\ Spending(r) /\ used = KeyLimit /\ try[r].due > 0
    /\ Journalled(r)
    /\ status' = [status EXCEPT ![r] = "closed"]
    /\ UNCHANGED <<promised, estimate, held, lists, saved, key, faults, burnt, gaps>>

\* A failure that a retry may heal: the run stays open for another attempt.
Fail(r) ==
    /\ Spending(r) /\ faults < MaxFaults
    /\ faults' = faults + 1
    /\ Journalled(r)
    /\ UNCHANGED <<status, promised, estimate, held, lists, saved, key, burnt, gaps>>

\* The process is killed: what it has paid since its last commit is in no journal.
Die(r) ==
    /\ try[r].at # "idle" /\ faults < MaxFaults
    /\ faults' = faults + 1
    /\ burnt' = burnt + try[r].part
    /\ Set(r, Idle)
    /\ UNCHANGED <<row, key, again, gaps>>

\* The reaper gives a run up (RunLife).
Stop(r) ==
    /\ r \notin Consoles /\ status[r] = "open" /\ try[r].at = "idle"
    /\ status' = [status EXCEPT ![r] = "closed"]
    /\ UNCHANGED <<promised, estimate, held, lists, saved, journal, listed, key, try, faults, history>>

\* The other system on the same key.
Neighbour ==
    /\ neighbour < MaxNeighbour /\ used < KeyLimit
    /\ neighbour' = neighbour + 1 /\ used' = used + 1
    /\ UNCHANGED <<row, try, faults, history>>

-----------------------------------------------------------------------------

Attempt(r) ==
    \/ Begin(r) \/ ceiling_at_start(r) \/ ConsoleBegin(r)
    \/ ReadClaims(r) \/ AskKey(r) \/ _hold(r) \/ Plan(r) \/ Refuse(r)
    \/ Pay(r) \/ SaveList(r) \/ SaveBatch(r) \/ Finish(r)

Next ==
    \/ \E r \in Runs : Press(r) \/ Attempt(r) \/ Exhausted(r) \/ Fail(r) \/ Die(r) \/ Stop(r)
    \/ Neighbour

Spec == Init /\ [][Next]_vars

-----------------------------------------------------------------------------
(* Safety.                                                                 *)

Due == Total([r \in Runs |-> try[r].due], Runs)
Unjournalled == Total([r \in Runs |-> try[r].part], Runs)

\* The key pays for all the work that has been planned: no request is refused
\* in the middle of it, unless the other system has spent the units, an attempt
\* failed after paying, or two runs planned at the same time (budget_of).
KeyKept ==
    "key" \notin gaps => used + Due <= KeyLimit + neighbour + again + burnt

\* What we have spent and what is planned stays within our cap, with the same
\* exceptions (ceiling_at_start).
CapKept ==
    "cap" \notin gaps => Total(journal, Runs) + Unjournalled + Due <= Cap + again

\* What a new run is told to be free nobody else holds, whatever the others pay and
\* save while it asks, and however much any of them has spent above its estimate
\* (claimed_units: max(0, ...); budget_of reads the claims before the key).
Held(r) == Most(claim(r) - try[r].part, 0)

FreeIsFree ==
    [][\A r \in Runs :
         try[r].at = "claimed" /\ try'[r].at = "asked"
         /\ estimate[r] = NoEstimate /\ "key" \notin try[r].missed /\ burnt = 0
            => try'[r].free + used + Total([s \in Runs |-> Held(s)], Runs \ {r}) <= KeyLimit]_vars

\* A run whose plan has fitted once is not refused when it is carried on, while
\* only it has spent anything and whatever the others hold: its own promise is
\* not another's claim (claimed_units(exclude_run_id)).
ContinuationFits ==
    [][\A r \in Runs :
         try[r].at = "asked" /\ estimate[r] # NoEstimate
         /\ gaps = {} /\ again = 0 /\ used = journal[r]
            => ~(status[r] = "open" /\ status'[r] = "closed")]_vars
=============================================================================
