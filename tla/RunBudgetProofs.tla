-------------------------- MODULE RunBudgetProofs --------------------------
(***************************************************************************)
(* Proofs about RunBudget, for any runs, batches, units of the key, faults *)
(* and other runs on it.  The invariant (Budget) counts money twice: by    *)
(* what the key has been charged, and by what the runs have written down   *)
(* and still have to pay.  What an attempt has read is compared with what  *)
(* is true now: it was either read before nothing changed against it, or   *)
(* the run has missed something, and the plan made of it opens a gap.      *)
(* Every step of a run is first put into the numbers of that run (Move),   *)
(* then into the sums (SumsAfter, MoneyMoves), and then into what the      *)
(* other attempts have read (PlansOfOthers, FitsOfOthers).                 *)
(***************************************************************************)
EXTENDS RunBudget, SumProofs

-----------------------------------------------------------------------------
(* What a run still costs, and what it has cost above its promise.         *)

Unpromised(r) == estimate[r] = NoEstimate

\* What a run that has promised may still pay.
Need(r) == IF status[r] = "open" /\ ~Unpromised(r) THEN Worst(r) ELSE 0

\* What it needs above the rest of its estimate: for work bought anew.
Over(r) == IF Unpromised(r) THEN 0 ELSE Most(journal[r] + Worst(r) - estimate[r], 0)

Spent == Total(journal, Runs)
ToPay == Total([r \in Runs |-> Need(r)], Runs)
Beyond == Total([r \in Runs |-> Over(r)], Runs)
HeldByAll == Total([r \in Runs |-> Held(r)], Runs)

\* The rows of one run agree with its attempt.
RunRow(r) ==
    /\ saved[r] <= Wanted[r] /\ lists[r] <= IF r \in Rivals THEN Wanted[r] ELSE 0
    /\ status[r] = "none" => Unpromised(r)
    /\ Unpromised(r) => journal[r] = 0 /\ listed[r] = 0 /\ ~held[r]
    /\ held[r] => journal[r] = listed[r]
    /\ ~Unpromised(r) /\ ~held[r] => ListsLeft(r) = 0
    /\ try[r].at # "idle" => status[r] = "open"
    /\ IF Spending(r)
       THEN ~Unpromised(r) /\ try[r].due = Worst(r) - try[r].part
       ELSE try[r].due = 0 /\ try[r].part = 0
    /\ try[r].at = "listing" => /\ held[r] /\ try[r].part <= LIST /\ ListsLeft(r) > 0
                                /\ Worst(r) <= try[r].cap
    /\ try[r].at = "buying" => ~held[r]
    /\ listed[r] <= journal[r]
    /\ r \in Consoles => try[r].at # "left"

-----------------------------------------------------------------------------
(* A step of one run leaves the others alone, but for what they miss.      *)

SameRow(s) ==
    /\ status'[s] = status[s] /\ promised'[s] = promised[s] /\ estimate'[s] = estimate[s]
    /\ held'[s] = held[s] /\ lists'[s] = lists[s] /\ saved'[s] = saved[s]
    /\ journal'[s] = journal[s] /\ listed'[s] = listed[s]

SameTry(s) ==
    /\ try'[s].at = try[s].at /\ try'[s].left = try[s].left /\ try'[s].cap = try[s].cap
    /\ try'[s].claims = try[s].claims /\ try'[s].free = try[s].free
    /\ try'[s].part = try[s].part /\ try'[s].due = try[s].due

Seen(s) == SameTry(s) /\ try[s].missed \subseteq try'[s].missed

OnlyRow(r) == \A s \in Runs \ {r} : SameRow(s)
OnlyTry(r) == try' \in [Runs -> Try] /\ \A s \in Runs \ {r} : Seen(s)

LEMMA UnseenType ==
    ASSUME NEW s, NEW p \in BOOLEAN
    PROVE  /\ Unseen(s, p) \subseteq Limits
           /\ Unpromised(s) /\ try[s].at \in {"claimed", "asked"} => Unseen(s, TRUE) = Limits
           /\ Unpromised(s) /\ try[s].at = "ready" => Unseen(s, TRUE) = {"cap"}
           /\ try[s].at = "left" => Unseen(s, FALSE) = {"cap"}
BY DEF Unseen, Limits, Unpromised

LEMMA IdleType == Idle \in Try
BY DEF Idle, Try, BATCH

LEMMA TryTypes ==
    ASSUME NEW t \in Try, NEW n \in Int, NEW c \in Nat
    PROVE  /\ [t EXCEPT !.at = "left", !.left = n] \in Try
           /\ [t EXCEPT !.at = "ready", !.left = n, !.cap = c] \in Try
           /\ [t EXCEPT !.at = "listing", !.free = n, !.due = c, !.missed = {}] \in Try
           /\ [t EXCEPT !.at = "buying", !.free = n, !.due = c, !.missed = {}] \in Try
BY DEF Try

LEMMA TryPaid ==
    ASSUME NEW t \in Try, NEW a \in {"ready", "listing"}, NEW p \in 0..BATCH, NEW d \in Nat, NEW c \in Nat
    PROVE  /\ [t EXCEPT !.at = a, !.part = p, !.due = d, !.cap = c] \in Try
           /\ [t EXCEPT !.part = p, !.due = d] \in Try
BY DEF Try

LEMMA SetRow ==
    ASSUME TypeOK, NEW r \in Runs, NEW t \in Try, Set(r, t)
    PROVE  OnlyTry(r) /\ try'[r] = t /\ \A s \in Runs \ {r} : try'[s] = try[s]
BY DEF TypeOK, Set, OnlyTry, Seen, SameTry

LEMMA ToldRow ==
    ASSUME TypeOK, NEW r \in Runs, NEW t \in Try, NEW p \in BOOLEAN, Told(r, t, p)
    PROVE  /\ OnlyTry(r) /\ try'[r] = t
           /\ \A s \in Runs \ {r} : try'[s].missed = try[s].missed \cup Unseen(s, p)
<1>1. try' = [s \in Runs |-> IF s = r THEN t
                             ELSE [try[s] EXCEPT !.missed = @ \cup Unseen(s, p)]]
  BY DEF Told
<1>2. ASSUME NEW s \in Runs \ {r}
      PROVE  /\ try'[s] \in Try /\ Seen(s)
             /\ try'[s].missed = try[s].missed \cup Unseen(s, p)
  <2>1. try[s] \in Try
    BY DEF TypeOK
  <2>2. try[s].missed \cup Unseen(s, p) \subseteq Limits
    BY <2>1, UnseenType DEF Try
  <2>3. PICK u : u = try[s].missed \cup Unseen(s, p) /\ u \in SUBSET Limits
    BY <2>2
  <2>4. try'[s] = [try[s] EXCEPT !.missed = u]
    BY <1>1, <2>3
  <2> QED
    BY <2>1, <2>3, <2>4 DEF Try, Seen, SameTry
<1> QED
  BY <1>1, <1>2 DEF OnlyTry

-----------------------------------------------------------------------------
(* Every step of a run, in the numbers of that run.                        *)

MarksSpent(r) == \A s \in Runs \ {r} : try[s].at = "left" => "cap" \in try'[s].missed
MarksPromise(r) ==
    \A s \in Runs \ {r} : Unpromised(s) =>
        /\ try[s].at \in {"claimed", "asked"} => Limits \subseteq try'[s].missed
        /\ try[s].at = "ready" => "cap" \in try'[s].missed

Accounts(r) ==
    /\ neighbour' = neighbour /\ gaps \subseteq gaps'
    /\ again <= again' /\ burnt <= burnt' /\ journal[r] <= journal'[r]
    /\ used <= used'
    /\ used' = used + (journal'[r] - journal[r]) + (try'[r].part - try[r].part) + (burnt' - burnt)
    /\ Over(r)' - Over(r) <= again' - again
    /\ journal'[r] # journal[r] => MarksSpent(r)

\* No more is to be paid than before, but for what was paid in vain.
Calm(r) ==
    /\ (journal'[r] - journal[r]) + (Need(r)' - Need(r)) <= again' - again
    /\ Need(r)' - Need(r) <= (again' - again) + (try'[r].part - try[r].part) + (burnt' - burnt)
    /\ MarksPromise(r) \/ (burnt' = burnt => Held(r)' <= Held(r))

\* The first promise of a run.
Pledge(r) ==
    /\ Unpromised(r) /\ try[r].at = "asked" /\ Need(r)' <= units(r)
    /\ gaps' = gaps \cup try[r].missed
    /\ journal'[r] = journal[r] /\ again' = again /\ burnt' = burnt
    /\ try'[r].part = 0
    /\ MarksPromise(r)

Move(r) ==
    /\ TypeOK' /\ OnlyRow(r) /\ OnlyTry(r) /\ RunRow(r)'
    /\ Accounts(r)
    /\ Calm(r) \/ Pledge(r)

LEMMA SumTypes ==
    ASSUME TypeOK
    PROVE  /\ Spent \in Nat /\ cap_left \in Nat
           /\ \A r \in Runs : claim(r) \in Nat
           /\ \A r \in Runs : claimed_units(r) \in Nat
<1>1. Spent \in Nat
  BY RunAssumption, TotalNat DEF Spent, TypeOK
<1>2. cap_left \in Nat
  BY <1>1, UnitAssumption DEF cap_left, Spent, Most
<1>3. ASSUME NEW r \in Runs PROVE claim(r) \in Nat
  BY DEF TypeOK, claim, Most, NoEstimate
<1>4. ASSUME NEW r \in Runs PROVE claimed_units(r) \in Nat
  <2> DEFINE f == [s \in Runs |-> claim(s)]
  <2>1. IsFiniteSet(Runs \ {r}) /\ \A s \in Runs \ {r} : f[s] \in Nat
    BY <1>3, RunAssumption, FS_Subset
  <2> HIDE DEF f
  <2>2. Total(f, Runs \ {r}) \in Nat
    BY <2>1, TotalNat
  <2> QED
    BY <2>2 DEF claimed_units, f
<1> QED
  BY <1>1, <1>2, <1>3, <1>4

LEMMA RunTypes ==
    ASSUME TypeOK, NEW r \in Runs
    PROVE  /\ Need(r) \in Int /\ Over(r) \in Nat /\ Held(r) \in Nat /\ Worst(r) \in Int
           /\ journal[r] \in Nat /\ listed[r] \in Nat /\ saved[r] \in Nat /\ lists[r] \in Nat
           /\ Wanted[r] \in Nat /\ ListsLeft(r) \in Int /\ BatchesLeft(r) \in Int
           /\ try[r] \in Try /\ try[r].part \in Nat /\ try[r].due \in Nat /\ try[r].cap \in Nat
           /\ try[r].claims \in Nat /\ try[r].free \in Int /\ try[r].left \in Int
           /\ try[r].missed \subseteq Limits
           /\ used \in Nat /\ neighbour \in Nat /\ again \in Nat /\ burnt \in Nat
<1>1. try[r] \in Try /\ journal[r] \in Nat /\ saved[r] \in Nat /\ lists[r] \in Nat
      /\ listed[r] \in Nat /\ estimate[r] \in Int
  BY DEF TypeOK, NoEstimate
<1>2. try[r].part \in Nat /\ try[r].due \in Nat /\ try[r].cap \in Nat /\ try[r].claims \in Nat
      /\ try[r].free \in Int /\ try[r].left \in Int /\ try[r].missed \subseteq Limits
  BY <1>1 DEF Try, BATCH
<1>3. Wanted[r] \in Nat
  BY RunAssumption
<1>4. ListsLeft(r) \in Int /\ BatchesLeft(r) \in Int /\ Worst(r) \in Int
  BY <1>1, <1>3 DEF ListsLeft, BatchesLeft, Worst, LIST, BATCH
<1>5. Need(r) \in Int
  BY <1>4 DEF Need
<1>6. Over(r) \in Nat
  BY <1>1, <1>4 DEF Over, Most
<1>7. Held(r) \in Nat
  BY <1>2, SumTypes DEF Held, Most
<1> QED
  BY <1>1, <1>2, <1>3, <1>4, <1>5, <1>6, <1>7, UnitAssumption DEF TypeOK

\* A step that neither pays nor writes to the journal.
LEMMA Quiet ==
    ASSUME TypeOK, NEW r \in Runs, UNCHANGED <<journal, key, history>>,
           try'[r].part = try[r].part,
           Need(r)' = Need(r), Over(r)' = Over(r), Held(r)' = Held(r)
    PROVE  Accounts(r) /\ Calm(r)
BY RunTypes DEF Accounts, Calm, key, history

LEMMA MovePress ==
    ASSUME TypeOK, NEW r \in Runs, RunRow(r), Press(r)
    PROVE  Move(r)
<1>1. PICK asked \in Asked : promised' = [promised EXCEPT ![r] = Least(asked, cap_left)]
  BY DEF Press
<1>2. Least(asked, cap_left) \in Nat
  BY SumTypes, UnitAssumption DEF Least
<1>3. PICK n \in Nat : promised' = [promised EXCEPT ![r] = n]
  BY <1>1, <1>2
<1>4. TypeOK'
  BY <1>3 DEF TypeOK, Press, key, history
<1>5. OnlyRow(r) /\ OnlyTry(r)
  BY <1>3 DEF TypeOK, Press, OnlyRow, SameRow, OnlyTry, Seen, SameTry
<1>6. status[r] = "none" /\ try[r].at = "idle" /\ status'[r] = "open" /\ Unpromised(r)
  BY DEF Press, RunRow, TypeOK
<1>7. RunRow(r)'
  BY <1>6 DEF Press, RunRow, Unpromised, ListsLeft, Worst, BatchesLeft, Spending
<1>8. /\ try'[r].part = try[r].part /\ UNCHANGED <<journal, key, history>>
      /\ Need(r)' = Need(r) /\ Over(r)' = Over(r) /\ Held(r)' = Held(r)
  BY <1>6 DEF Press, Over, Need, Held, claim, Unpromised
<1>9. Accounts(r) /\ Calm(r)
  BY <1>8, Quiet
<1> QED
  BY <1>4, <1>5, <1>7, <1>9 DEF Move

\* A step that changes no row: only how far the attempt has come.
LEMMA MoveAlone ==
    ASSUME TypeOK, NEW r \in Runs, RunRow(r), UNCHANGED <<row, key, faults, history>>,
           NEW t \in Try, Set(r, t), ~Spending(r), try[r].at # "idle",
           t.at \in {"ready", "claimed", "asked"}, t.part = 0, t.due = 0
    PROVE  Move(r)
<1>1. OnlyTry(r) /\ try'[r] = t
  BY SetRow
<1>2. TypeOK' /\ OnlyRow(r)
  BY <1>1 DEF TypeOK, OnlyTry, OnlyRow, SameRow, row, key, history
<1>3. try[r].part = 0
  BY DEF RunRow
<1>4. RunRow(r)'
  BY <1>1 DEF RunRow, Unpromised, ListsLeft, Worst, BatchesLeft, Spending, row
<1>5. /\ try'[r].part = try[r].part /\ UNCHANGED <<journal, key, history>>
      /\ Need(r)' = Need(r) /\ Over(r)' = Over(r) /\ Held(r)' = Held(r)
  BY <1>1, <1>3 DEF Over, Need, Held, claim, Unpromised, Worst, ListsLeft, BatchesLeft, row, key, history
<1>6. Accounts(r) /\ Calm(r)
  BY <1>5, Quiet
<1> QED
  BY <1>1, <1>2, <1>4, <1>6 DEF Move

LEMMA MoveBegin ==
    ASSUME TypeOK, NEW r \in Runs, RunRow(r), Begin(r)
    PROVE  Move(r)
<1>1. PICK n \in Nat : n = cap_left
  BY SumTypes
<1> DEFINE t == [Idle EXCEPT !.at = "left", !.left = n]
<1>2. t \in Try /\ t.at = "left" /\ t.part = 0 /\ t.due = 0 /\ Set(r, t)
  <2>1. Set(r, t)
    BY <1>1 DEF Begin
  <2>2. n \in Int
    BY <1>1
  <2>3. t \in Try
    BY <2>2, IdleType, TryTypes
  <2>4. t.at = "left" /\ t.part = 0 /\ t.due = 0
    BY DEF Idle
  <2> QED
    BY <2>1, <2>3, <2>4
<1> HIDE DEF t
<1>3. OnlyTry(r) /\ try'[r] = t
  BY <1>2, SetRow
<1>4. TypeOK' /\ OnlyRow(r)
  BY <1>3 DEF TypeOK, OnlyTry, OnlyRow, SameRow, Begin, row, key, history
<1>5. try[r].part = 0 /\ status[r] = "open" /\ r \notin Consoles
  BY DEF RunRow, Begin, Spending
<1>6. RunRow(r)'
  BY <1>2, <1>3, <1>5 DEF RunRow, Unpromised, ListsLeft, Worst, BatchesLeft, Spending, row, Begin
<1>7. /\ try'[r].part = try[r].part /\ UNCHANGED <<journal, key, history>>
      /\ Need(r)' = Need(r) /\ Over(r)' = Over(r) /\ Held(r)' = Held(r)
  BY <1>2, <1>3, <1>5 DEF Over, Need, Held, claim, Unpromised, Worst, ListsLeft, BatchesLeft,
                       Begin, row, key, history
<1>8. Accounts(r) /\ Calm(r)
  BY <1>7, Quiet
<1> QED
  BY <1>3, <1>4, <1>6, <1>8 DEF Move

LEMMA MoveCeiling ==
    ASSUME TypeOK, NEW r \in Runs, RunRow(r), ceiling_at_start(r)
    PROVE  Move(r)
<1> DEFINE c == Most(0, Least(promised[r] - listed[r], try[r].left - claimed_units(r)))
           t == [try[r] EXCEPT !.at = "ready", !.left = 0, !.cap = c]
<1>1. c \in Nat
  BY SumTypes, RunTypes DEF Most, Least, TypeOK
<1>2. Set(r, t) /\ try[r].at = "left" /\ UNCHANGED <<row, key, faults, history>>
  BY DEF ceiling_at_start
<1> HIDE DEF c
<1>3. t \in Try /\ t.at = "ready" /\ t.part = try[r].part /\ t.due = try[r].due
  <2>1. try[r] \in Try
    BY DEF TypeOK
  <2>2. 0 \in Int
    OBVIOUS
  <2>3. t \in Try
    BY <1>1, <2>1, <2>2, TryTypes
  <2>4. t.at = "ready" /\ t.part = try[r].part /\ t.due = try[r].due
    BY <2>1 DEF Try
  <2> QED
    BY <2>3, <2>4
<1> HIDE DEF t
<1>4. ~Spending(r) /\ t.part = 0 /\ t.due = 0
  BY <1>2, <1>3 DEF RunRow, Spending
<1> QED
  BY <1>2, <1>3, <1>4, MoveAlone

LEMMA MoveClaims ==
    ASSUME TypeOK, NEW r \in Runs, RunRow(r), ReadClaims(r)
    PROVE  Move(r)
<1> DEFINE c == claimed_units(r)
           t == [try[r] EXCEPT !.at = "claimed", !.claims = c]
<1>1. c \in Nat
  BY SumTypes
<1>2. Set(r, t) /\ try[r].at = "ready" /\ UNCHANGED <<row, key, faults, history>>
  BY DEF ReadClaims
<1> HIDE DEF c
<1>3. t \in Try /\ t.at = "claimed" /\ t.part = try[r].part /\ t.due = try[r].due
  <2>1. try[r] \in Try
    BY DEF TypeOK
  <2> QED
    BY <1>1, <2>1 DEF Try
<1> HIDE DEF t
<1>4. ~Spending(r) /\ t.part = 0 /\ t.due = 0
  BY <1>2, <1>3 DEF RunRow, Spending
<1> QED
  BY <1>2, <1>3, <1>4, MoveAlone

LEMMA MoveAsk ==
    ASSUME TypeOK, NEW r \in Runs, RunRow(r), AskKey(r)
    PROVE  Move(r)
<1> DEFINE n == KeyLimit - used - try[r].claims
           t == [try[r] EXCEPT !.at = "asked", !.claims = 0, !.free = n]
<1>1. n \in Int
  BY RunTypes, UnitAssumption
<1>2. Set(r, t) /\ try[r].at = "claimed" /\ UNCHANGED <<row, key, faults, history>>
  BY DEF AskKey
<1> HIDE DEF n
<1>3. t \in Try /\ t.at = "asked" /\ t.part = try[r].part /\ t.due = try[r].due
  <2>1. try[r] \in Try
    BY DEF TypeOK
  <2> QED
    BY <1>1, <2>1 DEF Try
<1> HIDE DEF t
<1>4. ~Spending(r) /\ t.part = 0 /\ t.due = 0
  BY <1>2, <1>3 DEF RunRow, Spending
<1> QED
  BY <1>2, <1>3, <1>4, MoveAlone

LEMMA MoveConsole ==
    ASSUME TypeOK, NEW r \in Runs, RunRow(r), ConsoleBegin(r)
    PROVE  Move(r)
<1>1. PICK asked \in Asked :
         /\ promised' = [promised EXCEPT ![r] = Least(asked, cap_left)]
         /\ Set(r, [Idle EXCEPT !.at = "ready", !.cap = Least(asked, cap_left),
                                !.missed = IF claimed_units(r) > 0 THEN {"cap"} ELSE {}])
  BY DEF ConsoleBegin
<1>2. PICK n : n \in Nat /\ n = Least(asked, cap_left)
  BY SumTypes, UnitAssumption DEF Least
<1>3. PICK m : m \in SUBSET Limits /\ m = IF claimed_units(r) > 0 THEN {"cap"} ELSE {}
  BY DEF Limits
<1> DEFINE t == [Idle EXCEPT !.at = "ready", !.cap = n, !.missed = m]
<1>4. promised' = [promised EXCEPT ![r] = n] /\ Set(r, t)
  BY <1>1, <1>2, <1>3
<1>5. t \in Try /\ t.at = "ready" /\ t.part = 0 /\ t.due = 0
  BY <1>2, <1>3, IdleType DEF Idle, Try
<1> HIDE DEF t
<1>6. OnlyTry(r) /\ try'[r] = t
  BY <1>4, <1>5, SetRow
<1>7. TypeOK'
  BY <1>2, <1>4, <1>6 DEF TypeOK, OnlyTry, ConsoleBegin, key, history
<1>8. OnlyRow(r)
  BY <1>4 DEF TypeOK, OnlyRow, SameRow, ConsoleBegin
<1>9. status[r] = "none" /\ try[r].at = "idle" /\ status'[r] = "open" /\ Unpromised(r)
      /\ try[r].part = 0
  BY DEF ConsoleBegin, RunRow, TypeOK, Spending
<1>10. RunRow(r)'
  BY <1>5, <1>6, <1>9 DEF RunRow, Unpromised, ListsLeft, Worst, BatchesLeft, Spending, ConsoleBegin
<1>11. /\ try'[r].part = try[r].part /\ UNCHANGED <<journal, key, history>>
       /\ Need(r)' = Need(r) /\ Over(r)' = Over(r) /\ Held(r)' = Held(r)
  BY <1>5, <1>6, <1>9 DEF ConsoleBegin, Over, Need, Held, claim, Unpromised
<1>12. Accounts(r) /\ Calm(r)
  BY <1>11, Quiet
<1> QED
  BY <1>6, <1>7, <1>8, <1>10, <1>12 DEF Move


\* What is left to be paid is not below nothing.
LEMMA LeftIsNat ==
    ASSUME TypeOK, NEW r \in Runs, RunRow(r)
    PROVE  /\ ListsLeft(r) \in Nat /\ BatchesLeft(r) \in Nat /\ Worst(r) \in Nat
           /\ Worst(r) = ListsLeft(r) + 2 * BatchesLeft(r)
<1>1. ListsLeft(r) \in Nat
  BY RunTypes DEF RunRow, ListsLeft
<1>2. BatchesLeft(r) \in Nat
  BY RunTypes DEF RunRow, BatchesLeft
<1> QED
  BY <1>1, <1>2 DEF Worst, LIST, BATCH

\* The step in which a run promises, for the first time or anew.
LEMMA MovePromise ==
    ASSUME TypeOK, NEW r \in Runs, RunRow(r), try[r].at = "asked", Worst(r) <= units(r),
           UNCHANGED <<status, promised, lists, saved, journal, listed, key, faults, again, burnt>>,
           gaps' = gaps \cup try[r].missed,
           estimate' \in [Runs -> Nat \cup {NoEstimate}], held' \in [Runs -> BOOLEAN],
           NEW t \in Try, Told(r, t, TRUE), t.part = 0, t.due = Worst(r),
           OnlyRow(r), ~Unpromised(r)', Over(r)' \in Nat, Over(r)' <= Over(r), RunRow(r)'
    PROVE  Move(r)
<1>1. /\ OnlyTry(r) /\ try'[r] = t
      /\ \A s \in Runs \ {r} : try'[s].missed = try[s].missed \cup Unseen(s, TRUE)
  BY ToldRow
<1>2. try[r].missed \subseteq Limits
  BY RunTypes
<1>3. TypeOK'
  BY <1>1, <1>2 DEF TypeOK, OnlyTry, key
<1>4. MarksPromise(r)
  <2> SUFFICES ASSUME NEW s \in Runs \ {r}, Unpromised(s)
               PROVE  /\ try[s].at \in {"claimed", "asked"} => Limits \subseteq try'[s].missed
                      /\ try[s].at = "ready" => "cap" \in try'[s].missed
    BY DEF MarksPromise
  <2>1. Unseen(s, TRUE) \subseteq try'[s].missed
    BY <1>1
  <2> QED
    BY <2>1, UnseenType
<1>5. try[r].part = 0 /\ status[r] = "open"
  BY DEF RunRow, Spending
<1>6. Worst(r)' = Worst(r)
  BY DEF Worst, ListsLeft, BatchesLeft
<1>7. Need(r)' = Worst(r)
  BY <1>5, <1>6 DEF Need
<1>8. Accounts(r)
  <2>1. /\ neighbour' = neighbour /\ used' = used /\ journal' = journal /\ again' = again
        /\ burnt' = burnt /\ gaps \subseteq gaps' /\ try'[r].part = 0
    BY <1>1 DEF key
  <2> QED
    BY <1>5, <2>1, RunTypes DEF Accounts
<1>9. CASE Unpromised(r)
  <2>1. Pledge(r)
    BY <1>1, <1>4, <1>7, <1>9 DEF Pledge
  <2> QED
    BY <1>1, <1>3, <1>8, <2>1 DEF Move
<1>10. CASE ~Unpromised(r)
  <2>1. Need(r) = Worst(r)
    BY <1>5, <1>10 DEF Need
  <2>2. Calm(r)
    BY <1>1, <1>4, <1>5, <1>7, <2>1, RunTypes DEF Calm
  <2> QED
    BY <1>1, <1>3, <1>8, <2>2 DEF Move
<1> QED
  BY <1>9, <1>10

LEMMA MoveHold ==
    ASSUME TypeOK, NEW r \in Runs, RunRow(r), _hold(r)
    PROVE  Move(r)
<1> DEFINE t == [try[r] EXCEPT !.at = "listing", !.free = 0, !.due = Worst(r), !.missed = {}]
<1>1. try[r].at = "asked" /\ ListsLeft(r) > 0 /\ Worst(r) <= units(r) /\ Told(r, t, TRUE)
  BY DEF _hold
<1>2. Worst(r) \in Nat /\ try[r] \in Try /\ 0 \in Int
  BY LeftIsNat, RunTypes
<1>3. t \in Try
  BY <1>2, TryTypes
<1>4. try[r].part = 0 /\ status[r] = "open"
  BY <1>1 DEF RunRow, Spending
<1>5. t.part = 0 /\ t.due = Worst(r) /\ t.at = "listing" /\ t.cap = try[r].cap
  BY <1>2, <1>4 DEF Try
<1> HIDE DEF t
<1>6. try'[r] = t
  BY <1>1, <1>3, ToldRow
<1>7. Unpromised(r) \/ held[r]
  BY <1>1 DEF RunRow
<1>8. /\ estimate' = [estimate EXCEPT ![r] = listed[r] + Worst(r)]
      /\ held' = [held EXCEPT ![r] = TRUE]
  BY <1>7 DEF _hold, Unpromised
<1>9. listed[r] + Worst(r) \in Nat /\ journal[r] = listed[r]
  BY <1>2, <1>7, RunTypes DEF RunRow
<1>10. /\ estimate' \in [Runs -> Nat \cup {NoEstimate}] /\ held' \in [Runs -> BOOLEAN]
       /\ estimate'[r] = listed[r] + Worst(r) /\ held'[r] = TRUE
       /\ OnlyRow(r) /\ ~Unpromised(r)'
  <2>1. OnlyRow(r)
    BY <1>8 DEF TypeOK, _hold, OnlyRow, SameRow
  <2>2. estimate'[r] = listed[r] + Worst(r) /\ held'[r] = TRUE
        /\ estimate' \in [Runs -> Nat \cup {NoEstimate}] /\ held' \in [Runs -> BOOLEAN]
    BY <1>8, <1>9 DEF TypeOK
  <2> QED
    BY <1>9, <2>1, <2>2 DEF Unpromised, NoEstimate
<1>11. Worst(r)' = Worst(r) /\ ListsLeft(r)' = ListsLeft(r)
  BY DEF Worst, ListsLeft, BatchesLeft, _hold
<1>12. Worst(r) <= try[r].cap
  BY <1>1, <1>2, RunTypes DEF units, Least, Most
<1>13. Over(r)' = 0
  BY <1>2, <1>9, <1>10, <1>11, RunTypes DEF Over, Most, _hold
<1>14. RunRow(r)'
  BY <1>1, <1>2, <1>4, <1>5, <1>6, <1>9, <1>10, <1>11, <1>12 DEF RunRow, _hold, Spending, LIST
<1>15. /\ UNCHANGED <<status, promised, lists, saved, journal, listed, key, faults, again, burnt>>
       /\ gaps' = gaps \cup try[r].missed
  BY DEF _hold
<1>16. Over(r)' \in Nat /\ Over(r)' <= Over(r)
  BY <1>13, RunTypes
<1> QED
  BY <1>1, <1>3, <1>5, <1>10, <1>14, <1>15, <1>16, MovePromise

LEMMA MovePlan ==
    ASSUME TypeOK, NEW r \in Runs, RunRow(r), Plan(r)
    PROVE  Move(r)
<1> DEFINE t == [try[r] EXCEPT !.at = "buying", !.free = 0, !.due = Worst(r), !.missed = {}]
<1>1. Worst(r) = BATCH * BatchesLeft(r) /\ Worst(r) \in Nat /\ try[r] \in Try /\ 0 \in Int
  BY LeftIsNat, RunTypes DEF Plan, BATCH
<1>2. try[r].at = "asked" /\ ListsLeft(r) = 0 /\ Worst(r) <= units(r) /\ Told(r, t, TRUE)
  BY <1>1 DEF Plan
<1>3. t \in Try
  BY <1>1, TryTypes
<1>4. try[r].part = 0 /\ status[r] = "open"
  BY <1>2 DEF RunRow, Spending
<1>5. t.part = 0 /\ t.due = Worst(r) /\ t.at = "buying"
  BY <1>1, <1>4 DEF Try
<1> HIDE DEF t
<1>6. try'[r] = t
  BY <1>2, <1>3, ToldRow
<1>7. PICK e : /\ e = IF Unpromised(r) \/ held[r] THEN listed[r] + Worst(r) ELSE estimate[r]
               /\ estimate' = [estimate EXCEPT ![r] = e]
               /\ held' = [held EXCEPT ![r] = FALSE]
  BY <1>1 DEF Plan, Unpromised
<1>8. e \in Nat /\ ~(e = NoEstimate)
  BY <1>1, <1>7, RunTypes DEF Unpromised, TypeOK, NoEstimate
<1>9. OnlyRow(r) /\ estimate'[r] = e /\ held'[r] = FALSE
      /\ estimate' \in [Runs -> Nat \cup {NoEstimate}] /\ held' \in [Runs -> BOOLEAN]
  <2>1. OnlyRow(r)
    BY <1>7 DEF TypeOK, Plan, OnlyRow, SameRow
  <2> QED
    BY <1>7, <1>8, <2>1 DEF TypeOK
<1>10. ~Unpromised(r)'
  BY <1>8, <1>9 DEF Unpromised
<1>11. Worst(r)' = Worst(r) /\ ListsLeft(r)' = ListsLeft(r)
  BY DEF Worst, ListsLeft, BatchesLeft, Plan
<1>12. Over(r)' \in Nat /\ Over(r)' <= Over(r)
  <2>1. Over(r)' = Most(journal[r] + Worst(r) - e, 0)
    BY <1>9, <1>10, <1>11 DEF Over, Plan
  <2>2. CASE Unpromised(r) \/ held[r]
    <3>1. journal[r] = listed[r] /\ e = listed[r] + Worst(r)
      BY <1>7, <2>2 DEF RunRow
    <3> QED
      BY <1>1, <2>1, <3>1, RunTypes DEF Most
  <2>3. CASE ~(Unpromised(r) \/ held[r])
    BY <1>7, <2>1, <2>3, RunTypes DEF Over
  <2> QED
    BY <2>2, <2>3
<1>13. RunRow(r)'
  BY <1>1, <1>2, <1>4, <1>5, <1>6, <1>9, <1>10, <1>11 DEF RunRow, Plan, Spending
<1>14. /\ UNCHANGED <<status, promised, lists, saved, journal, listed, key, faults, again, burnt>>
       /\ gaps' = gaps \cup try[r].missed
  BY DEF Plan
<1> QED
  BY <1>2, <1>3, <1>5, <1>9, <1>10, <1>12, <1>13, <1>14, MovePromise


\* An attempt that ends with nothing paid since its last commit.
LEMMA MoveEnd ==
    ASSUME TypeOK, NEW r \in Runs, RunRow(r), try[r].part = 0,
           NEW v \in {status[r], "closed"}, status' = [status EXCEPT ![r] = v],
           status[r] = "open",
           UNCHANGED <<promised, estimate, held, lists, saved, journal, listed, key, faults, history>>,
           OnlyTry(r), try'[r].at = "idle", try'[r].part = 0, try'[r].due = 0
    PROVE  Move(r)
<1>1. TypeOK' /\ OnlyRow(r) /\ status'[r] = v
  BY DEF TypeOK, OnlyTry, OnlyRow, SameRow, key, history
<1>2. Worst(r)' = Worst(r) /\ ListsLeft(r)' = ListsLeft(r)
  BY DEF Worst, ListsLeft, BatchesLeft
<1>3. RunRow(r)'
  BY <1>1, <1>2 DEF RunRow, Unpromised, Spending
<1>4. Need(r)' \in {Need(r), 0} /\ Over(r)' = Over(r) /\ Need(r) \in Nat
  BY <1>1, <1>2, LeftIsNat DEF Need, Over, Unpromised
<1>5. Held(r)' \in {Held(r), 0}
  BY <1>1, RunTypes DEF Held, claim, Most
<1>6. /\ neighbour' = neighbour /\ used' = used /\ journal' = journal /\ again' = again
      /\ burnt' = burnt /\ gaps' = gaps
  BY DEF key, history
<1>7. Accounts(r)
  BY <1>4, <1>6, RunTypes DEF Accounts
<1>8. Calm(r)
  BY <1>4, <1>5, <1>6, RunTypes DEF Calm
<1> QED
  BY <1>1, <1>3, <1>7, <1>8 DEF Move

LEMMA MoveRefuse ==
    ASSUME TypeOK, NEW r \in Runs, RunRow(r), Refuse(r)
    PROVE  Move(r)
<1>1. try[r].part = 0 /\ status[r] = "open"
  BY DEF Refuse, RunRow, Spending
<1>2. PICK v \in {status[r], "closed"} : status' = [status EXCEPT ![r] = v]
  BY DEF Refuse
<1>3. OnlyTry(r) /\ try'[r] = Idle
  BY SetRow, IdleType DEF Refuse
<1>4. try'[r].at = "idle" /\ try'[r].part = 0 /\ try'[r].due = 0
  BY <1>3 DEF Idle
<1>5. UNCHANGED <<promised, estimate, held, lists, saved, journal, listed, key, faults, history>>
  BY DEF Refuse
<1> QED
  BY <1>1, <1>2, <1>3, <1>4, <1>5, MoveEnd

LEMMA MoveFinish ==
    ASSUME TypeOK, NEW r \in Runs, RunRow(r), Finish(r)
    PROVE  Move(r)
<1>1. status[r] = "open" /\ ListsLeft(r) = 0 /\ BatchesLeft(r) = 0
      /\ try[r].due = Worst(r) - try[r].part
  BY DEF Finish, RunRow, Spending
<1>2. try[r].part = 0
  BY <1>1, LeftIsNat, RunTypes
<1>3. OnlyTry(r) /\ try'[r] = Idle
  BY SetRow, IdleType DEF Finish
<1>4. try'[r].at = "idle" /\ try'[r].part = 0 /\ try'[r].due = 0
  BY <1>3 DEF Idle
<1>5. UNCHANGED <<promised, estimate, held, lists, saved, journal, listed, key, faults, history>>
  BY DEF Finish
<1>6. status' = [status EXCEPT ![r] = "closed"]
  BY DEF Finish
<1> QED
  BY <1>1, <1>2, <1>3, <1>4, <1>5, <1>6, MoveEnd

LEMMA MoveStop ==
    ASSUME TypeOK, NEW r \in Runs, RunRow(r), Stop(r)
    PROVE  Move(r)
<1>1. try[r].part = 0 /\ try[r].due = 0 /\ try[r].at = "idle"
  BY DEF Stop, RunRow, Spending
<1>2. OnlyTry(r) /\ try' = try
  BY DEF Stop, OnlyTry, Seen, SameTry, TypeOK
<1> QED
  BY <1>1, <1>2, MoveEnd DEF Stop

LEMMA MoveDie ==
    ASSUME TypeOK, NEW r \in Runs, RunRow(r), Die(r)
    PROVE  Move(r)
<1>1. OnlyTry(r) /\ try'[r] = Idle
  BY SetRow, IdleType DEF Die
<1>2. Idle.at = "idle" /\ Idle.part = 0 /\ Idle.due = 0
  BY DEF Idle
<1>3. UNCHANGED row /\ used' = used /\ neighbour' = neighbour /\ again' = again /\ gaps' = gaps
      /\ burnt' = burnt + try[r].part /\ faults' \in 0..MaxFaults
  BY UnitAssumption DEF Die, key, TypeOK
<1>4. TypeOK' /\ OnlyRow(r)
  BY <1>1, <1>3, RunTypes DEF TypeOK, OnlyTry, OnlyRow, SameRow, row
<1>5. Worst(r)' = Worst(r) /\ ListsLeft(r)' = ListsLeft(r)
  BY <1>3 DEF Worst, ListsLeft, BatchesLeft, row
<1>6. RunRow(r)'
  BY <1>1, <1>2, <1>3, <1>5 DEF RunRow, Unpromised, Spending, row
<1>7. Need(r)' = Need(r) /\ Over(r)' = Over(r) /\ claim(r)' = claim(r)
  BY <1>3, <1>5 DEF Need, Over, Unpromised, claim, row
<1>8. Accounts(r)
  BY <1>1, <1>2, <1>3, <1>7, RunTypes DEF Accounts, row
<1>9. burnt' = burnt => Held(r)' <= Held(r)
  <2>1. burnt' = burnt => try[r].part = 0
    BY <1>3, RunTypes
  <2>2. Held(r)' = Most(claim(r) - 0, 0)
    BY <1>1, <1>2, <1>7 DEF Held
  <2> QED
    BY <2>1, <2>2, RunTypes DEF Held
<1>10. Calm(r)
  BY <1>1, <1>2, <1>3, <1>7, <1>9, RunTypes DEF Calm, row
<1> QED
  BY <1>1, <1>4, <1>6, <1>8, <1>10 DEF Move

LEMMA MovePay ==
    ASSUME TypeOK, NEW r \in Runs, RunRow(r), Pay(r)
    PROVE  Move(r)
<1>1. PICK p : p = try[r].part + 1
  OBVIOUS
<1>2. PICK d : d = try[r].due - 1
  OBVIOUS
<1> DEFINE t == [try[r] EXCEPT !.part = p, !.due = d]
<1>3. Spending(r) /\ try[r].due > 0 /\ used < KeyLimit /\ used' = used + 1
      /\ UNCHANGED <<row, neighbour, faults, history>>
      /\ try[r].part < IF try[r].at = "listing" THEN LIST ELSE BATCH
  BY DEF Pay
<1>4. Set(r, t)
  BY <1>1, <1>2 DEF Pay
<1>5. p \in 0..BATCH /\ d \in Nat /\ try[r] \in Try
  BY <1>1, <1>2, <1>3, RunTypes DEF LIST, BATCH
<1>6. t \in Try /\ t.part = p /\ t.due = d /\ t.at = try[r].at /\ t.cap = try[r].cap
  BY <1>5 DEF Try
<1> HIDE DEF t
<1>7. OnlyTry(r) /\ try'[r] = t
  BY <1>4, <1>6, SetRow
<1>8. TypeOK' /\ OnlyRow(r)
  <2>1. used' \in 0..KeyLimit
    BY <1>3, RunTypes, UnitAssumption
  <2> QED
    BY <1>3, <1>7, <2>1 DEF TypeOK, OnlyTry, OnlyRow, SameRow, row, history
<1>9. Worst(r)' = Worst(r) /\ ListsLeft(r)' = ListsLeft(r)
  BY <1>3 DEF Worst, ListsLeft, BatchesLeft, row
<1>10. RunRow(r)'
  <2>1. d = Worst(r) - p /\ ~Unpromised(r)
    BY <1>1, <1>2, <1>3, RunTypes DEF RunRow
  <2>2. try[r].at = "listing" => p <= LIST
    BY <1>1, <1>3, RunTypes DEF LIST
  <2> QED
    BY <1>3, <1>6, <1>7, <1>9, <2>1, <2>2 DEF RunRow, Unpromised, Spending, row
<1>11. Need(r)' = Need(r) /\ Over(r)' = Over(r) /\ claim(r)' = claim(r)
  BY <1>3, <1>9 DEF Need, Over, Unpromised, claim, row
<1>12. journal' = journal /\ again' = again /\ burnt' = burnt /\ gaps' = gaps /\ neighbour' = neighbour
       /\ used' = used + 1 /\ try'[r].part = try[r].part + 1
  BY <1>1, <1>3, <1>6, <1>7 DEF row, history
<1>13. Held(r)' <= Held(r)
  <2>1. Held(r)' = Most(claim(r) - (try[r].part + 1), 0)
    BY <1>11, <1>12 DEF Held
  <2> QED
    BY <2>1, SumTypes, RunTypes DEF Held, Most
<1>14. Accounts(r)
  BY <1>11, <1>12, RunTypes DEF Accounts
<1>15. Calm(r)
  BY <1>11, <1>12, <1>13, RunTypes DEF Calm
<1> QED
  BY <1>7, <1>8, <1>10, <1>14, <1>15 DEF Move


LEMMA MoveList ==
    ASSUME TypeOK, NEW r \in Runs, RunRow(r), SaveList(r)
    PROVE  Move(r)
<1> DEFINE last == ListsLeft(r) = 1
<1>1. /\ try[r].at = "listing" /\ try[r].part = 1 /\ ListsLeft(r) > 0 /\ held[r]
      /\ status[r] = "open" /\ ~Unpromised(r) /\ try[r].due = Worst(r) - 1
      /\ Worst(r) <= try[r].cap /\ r \in Rivals /\ journal[r] = listed[r]
  BY DEF SaveList, RunRow, LIST, Spending, ListsLeft
<1>2. PICK a, d, c : /\ a = IF last THEN "ready" ELSE try[r].at
                     /\ d = IF last THEN 0 ELSE try[r].due
                     /\ c = Most(0, try[r].cap - 1)
  OBVIOUS
<1> DEFINE t == [try[r] EXCEPT !.at = a, !.part = 0, !.due = d, !.cap = c]
<1>3. Told(r, t, FALSE)
  BY <1>2 DEF SaveList, LIST
<1>4. try[r] \in Try /\ a \in {"ready", "listing"} /\ d \in Nat /\ c \in Nat
  BY <1>1, <1>2, RunTypes DEF Most
<1>5. t \in Try /\ t.at = a /\ t.part = 0 /\ t.due = d /\ t.cap = c
  <2>1. 0 \in 0..BATCH
    BY DEF BATCH
  <2>2. t \in Try
    BY <1>4, <2>1, TryPaid
  <2> QED
    BY <1>4, <2>2 DEF Try
<1> HIDE DEF t, last
<1>6. /\ OnlyTry(r) /\ try'[r] = t
      /\ \A s \in Runs \ {r} : try'[s].missed = try[s].missed \cup Unseen(s, FALSE)
  BY <1>3, <1>5, ToldRow
<1>7. /\ lists' = [lists EXCEPT ![r] = lists[r] + 1]
      /\ journal' = [journal EXCEPT ![r] = journal[r] + 1]
      /\ listed' = [listed EXCEPT ![r] = listed[r] + 1]
      /\ UNCHANGED <<status, promised, estimate, held, saved, used, neighbour, faults, again, burnt, gaps>>
  BY DEF SaveList, LIST, key, history
<1>8. /\ lists' \in [Runs -> Nat] /\ journal' \in [Runs -> Nat] /\ listed' \in [Runs -> Nat]
      /\ lists'[r] = lists[r] + 1 /\ journal'[r] = journal[r] + 1 /\ listed'[r] = listed[r] + 1
  BY <1>7 DEF TypeOK
<1>9. TypeOK' /\ OnlyRow(r)
  BY <1>6, <1>7, <1>8 DEF TypeOK, OnlyTry, OnlyRow, SameRow
<1>10. ListsLeft(r)' = ListsLeft(r) - 1 /\ Worst(r)' = Worst(r) - 1 /\ BatchesLeft(r)' = BatchesLeft(r)
  <2>1. ListsLeft(r)' = ListsLeft(r) - 1
    BY <1>1, <1>8, RunTypes DEF ListsLeft
  <2>2. BatchesLeft(r)' = BatchesLeft(r)
    BY <1>7 DEF BatchesLeft
  <2> QED
    BY <2>1, <2>2, RunTypes DEF Worst, LIST, BATCH
<1>11. RunRow(r)'
  <2>1. c >= Worst(r) - 1 /\ (a = "listing" => ListsLeft(r) - 1 > 0 /\ d = Worst(r) - 1 - 0)
        /\ (a = "ready" => d = 0)
    BY <1>1, <1>2, RunTypes DEF Most, last
  <2>2. lists[r] + 1 <= Wanted[r]
    BY <1>1, RunTypes DEF ListsLeft
  <2> QED
    BY <1>1, <1>4, <1>5, <1>6, <1>7, <1>8, <1>10, <2>1, <2>2, RunTypes DEF RunRow, Unpromised, Spending, LIST
<1>12. Need(r)' = Need(r) - 1 /\ Over(r)' = Over(r)
  <2>1. Need(r)' = Worst(r) - 1 /\ Need(r) = Worst(r)
    BY <1>1, <1>7, <1>10 DEF Need, Unpromised
  <2>2. Over(r)' = Most(journal[r] + 1 + (Worst(r) - 1) - estimate[r], 0)
    BY <1>1, <1>7, <1>8, <1>10 DEF Over, Unpromised
  <2>3. Over(r) = Most(journal[r] + Worst(r) - estimate[r], 0) /\ estimate[r] \in Nat
    BY <1>1 DEF Over, Unpromised, TypeOK
  <2> QED
    BY <2>1, <2>2, <2>3, RunTypes DEF Most
<1>13. Held(r)' = Held(r)
  <2>1. estimate[r] \in Nat
    BY <1>1 DEF TypeOK, Unpromised
  <2>2. Held(r)' = Most(Most(estimate[r] - (journal[r] + 1), 0) - 0, 0)
    BY <1>1, <1>5, <1>6, <1>7, <1>8 DEF Held, claim, Unpromised
  <2>3. Held(r) = Most(Most(estimate[r] - journal[r], 0) - 1, 0)
    BY <1>1 DEF Held, claim, Unpromised
  <2> QED
    BY <2>1, <2>2, <2>3, RunTypes DEF Most
<1>14. MarksSpent(r)
  BY <1>6, UnseenType DEF MarksSpent
<1>15. Accounts(r)
  BY <1>1, <1>5, <1>6, <1>7, <1>8, <1>12, <1>14, RunTypes DEF Accounts
<1>16. Calm(r)
  BY <1>1, <1>5, <1>6, <1>7, <1>8, <1>12, <1>13, RunTypes DEF Calm
<1> QED
  BY <1>6, <1>9, <1>11, <1>15, <1>16 DEF Move

LEMMA MoveBatch ==
    ASSUME TypeOK, NEW r \in Runs, RunRow(r), SaveBatch(r)
    PROVE  Move(r)
<1>1. /\ try[r].at = "buying" /\ try[r].part > 0 /\ ~held[r] /\ ListsLeft(r) = 0
      /\ status[r] = "open" /\ ~Unpromised(r) /\ try[r].due = Worst(r) - try[r].part
  BY DEF SaveBatch, RunRow, Spending
<1>2. BatchesLeft(r) > 0 /\ Worst(r) = 2 * BatchesLeft(r) /\ try[r].part <= 2
      /\ try[r].part \in Nat /\ try[r] \in Try
  BY <1>1, LeftIsNat, RunTypes DEF Try, BATCH
<1>3. PICK d : d = try[r].due - (2 - try[r].part)
  OBVIOUS
<1> DEFINE t == [try[r] EXCEPT !.part = 0, !.due = d]
<1>4. Told(r, t, FALSE)
  BY <1>3 DEF SaveBatch, BATCH
<1>5. d \in Nat /\ d = Worst(r) - 2
  BY <1>1, <1>2, <1>3, RunTypes
<1>6. t \in Try /\ t.at = "buying" /\ t.part = 0 /\ t.due = d
  <2>1. 0 \in 0..BATCH /\ 0 \in Nat
    BY DEF BATCH
  <2>2. t \in Try
    BY <1>2, <1>5, <2>1, TryPaid
  <2> QED
    BY <1>1, <1>2, <2>2 DEF Try
<1> HIDE DEF t
<1>7. /\ OnlyTry(r) /\ try'[r] = t
      /\ \A s \in Runs \ {r} : try'[s].missed = try[s].missed \cup Unseen(s, FALSE)
  BY <1>4, <1>6, ToldRow
<1>8. /\ saved' = [saved EXCEPT ![r] = saved[r] + 1]
      /\ journal' = [journal EXCEPT ![r] = journal[r] + try[r].part]
      /\ UNCHANGED <<status, promised, estimate, held, lists, listed, used, neighbour, faults, again, burnt, gaps>>
  BY DEF SaveBatch, key, history
<1>9. /\ saved' \in [Runs -> Nat] /\ journal' \in [Runs -> Nat]
      /\ saved'[r] = saved[r] + 1 /\ journal'[r] = journal[r] + try[r].part
  BY <1>2, <1>8 DEF TypeOK
<1>10. TypeOK' /\ OnlyRow(r)
  BY <1>7, <1>8, <1>9 DEF TypeOK, OnlyTry, OnlyRow, SameRow
<1>11. ListsLeft(r)' = ListsLeft(r) /\ Worst(r)' = Worst(r) - 2 /\ BatchesLeft(r)' = BatchesLeft(r) - 1
  <2>1. ListsLeft(r)' = ListsLeft(r)
    BY <1>8 DEF ListsLeft
  <2>2. BatchesLeft(r)' = BatchesLeft(r) - 1
    BY <1>9, RunTypes DEF BatchesLeft
  <2> QED
    BY <2>1, <2>2, RunTypes DEF Worst, LIST, BATCH
<1>12. RunRow(r)'
  <2>1. saved[r] + 1 <= Wanted[r] /\ d = Worst(r) - 2 - 0
    BY <1>2, <1>5, RunTypes DEF BatchesLeft
  <2>2. listed[r] <= journal[r] + try[r].part
    BY <1>2, RunTypes DEF RunRow
  <2> QED
    BY <1>1, <1>6, <1>7, <1>8, <1>9, <1>11, <2>1, <2>2 DEF RunRow, Unpromised, Spending
<1>13. Need(r)' = Need(r) - 2
  BY <1>1, <1>8, <1>11 DEF Need, Unpromised
<1>14. Over(r)' \in Nat /\ Over(r)' <= Over(r)
  <2>1. estimate[r] \in Nat
    BY <1>1 DEF TypeOK, Unpromised
  <2>2. Over(r)' = Most(journal[r] + try[r].part + (Worst(r) - 2) - estimate[r], 0)
    BY <1>1, <1>8, <1>9, <1>11 DEF Over, Unpromised
  <2> QED
    BY <1>1, <1>2, <2>1, <2>2, RunTypes DEF Over, Most
<1>15. Held(r)' = Held(r)
  <2>1. estimate[r] \in Nat
    BY <1>1 DEF TypeOK, Unpromised
  <2>2. Held(r)' = Most(Most(estimate[r] - (journal[r] + try[r].part), 0) - 0, 0)
    BY <1>1, <1>6, <1>7, <1>8, <1>9 DEF Held, claim, Unpromised
  <2>3. Held(r) = Most(Most(estimate[r] - journal[r], 0) - try[r].part, 0)
    BY <1>1 DEF Held, claim, Unpromised
  <2> QED
    BY <1>2, <2>1, <2>2, <2>3, RunTypes DEF Most
<1>16. MarksSpent(r)
  BY <1>7, UnseenType DEF MarksSpent
<1>17. Accounts(r)
  BY <1>2, <1>6, <1>7, <1>8, <1>9, <1>14, <1>16, RunTypes DEF Accounts
<1>18. Calm(r)
  BY <1>2, <1>6, <1>7, <1>8, <1>9, <1>13, <1>15, RunTypes DEF Calm
<1> QED
  BY <1>7, <1>10, <1>12, <1>17, <1>18 DEF Move

\* An attempt that ends otherwise, with what it has paid in the journal.
LEMMA MoveJournalled ==
    ASSUME TypeOK, NEW r \in Runs, RunRow(r), Spending(r), Journalled(r),
           NEW v \in {status[r], "closed"}, status' = [status EXCEPT ![r] = v],
           faults' \in 0..MaxFaults,
           UNCHANGED <<promised, estimate, held, lists, saved, key, burnt, gaps>>
    PROVE  Move(r)
<1>1. /\ status[r] = "open" /\ ~Unpromised(r) /\ try[r].at \in {"listing", "buying"}
      /\ held[r] <=> try[r].at = "listing"
  BY DEF RunRow, Spending
<1>2. PICK p : p = try[r].part /\ p \in Nat
  BY RunTypes
<1>3. PICK l : l = (IF try[r].at = "listing" THEN p ELSE 0) /\ l \in Nat /\ l <= p
  BY <1>2
<1>4. /\ OnlyTry(r) /\ try'[r] = Idle
      /\ \A s \in Runs \ {r} : try'[s].missed = try[s].missed \cup Unseen(s, FALSE)
  BY IdleType, ToldRow DEF Journalled
<1>5. /\ journal' = [journal EXCEPT ![r] = journal[r] + p]
      /\ listed' = [listed EXCEPT ![r] = listed[r] + l]
      /\ again' = again + p /\ used' = used /\ neighbour' = neighbour
  BY <1>2, <1>3 DEF Journalled, key
<1>6. /\ journal' \in [Runs -> Nat] /\ listed' \in [Runs -> Nat] /\ again' \in Nat
      /\ journal'[r] = journal[r] + p /\ listed'[r] = listed[r] + l
      /\ status' \in [Runs -> {"none", "open", "closed"}] /\ status'[r] = v
  BY <1>2, <1>3, <1>5 DEF TypeOK
<1>7. TypeOK' /\ OnlyRow(r)
  <2>1. TypeOK'
    BY <1>4, <1>5, <1>6 DEF TypeOK, OnlyTry
  <2>2. OnlyRow(r)
    BY <1>5 DEF TypeOK, OnlyRow, SameRow
  <2> QED
    BY <2>1, <2>2
<1>8. Worst(r)' = Worst(r) /\ ListsLeft(r)' = ListsLeft(r) /\ Worst(r) \in Nat
  BY LeftIsNat DEF Worst, ListsLeft, BatchesLeft
<1>9. try'[r].at = "idle" /\ try'[r].part = 0 /\ try'[r].due = 0
  BY <1>4 DEF Idle
<1>10. RunRow(r)'
  <2>1. listed[r] + l <= journal[r] + p /\ (held[r] => listed[r] + l = journal[r] + p)
    BY <1>1, <1>2, <1>3, RunTypes DEF RunRow
  <2> QED
    BY <1>1, <1>6, <1>8, <1>9, <2>1 DEF RunRow, Unpromised, Spending
<1>11. Need(r)' \in {Need(r), 0} /\ Need(r) \in Nat
  BY <1>1, <1>6, <1>8 DEF Need, Unpromised
<1>12. Over(r)' \in Nat /\ Over(r)' <= Over(r) + p
  <2>1. estimate[r] \in Nat
    BY <1>1 DEF TypeOK, Unpromised
  <2>2. Over(r)' = Most(journal[r] + p + Worst(r) - estimate[r], 0)
    BY <1>1, <1>6, <1>8 DEF Over, Unpromised
  <2> QED
    BY <1>1, <1>2, <1>8, <2>1, <2>2, RunTypes DEF Over, Most
<1>13. Held(r)' \in {Held(r), 0}
  <2>1. estimate[r] \in Nat
    BY <1>1 DEF TypeOK, Unpromised
  <2>2. claim(r)' \in {Most(estimate[r] - (journal[r] + p), 0), 0}
    BY <1>1, <1>6 DEF claim, Unpromised
  <2>3. Held(r)' \in {Most(Most(estimate[r] - (journal[r] + p), 0) - 0, 0), 0}
    BY <1>9, <2>2 DEF Held, Most
  <2>4. Held(r) = Most(Most(estimate[r] - journal[r], 0) - p, 0)
    BY <1>1, <1>2 DEF Held, claim, Unpromised
  <2> QED
    BY <1>2, <2>1, <2>3, <2>4, RunTypes DEF Most
<1>14. MarksSpent(r)
  BY <1>4, UnseenType DEF MarksSpent
<1>15. Accounts(r)
  BY <1>2, <1>5, <1>6, <1>9, <1>12, <1>14, RunTypes DEF Accounts
<1>16. Calm(r)
  <2>1. Held(r)' <= Held(r)
    BY <1>13, RunTypes
  <2>2. Need(r)' - Need(r) <= 0 /\ Need(r)' - Need(r) \in Int
    BY <1>11
  <2>3. /\ journal'[r] - journal[r] = p /\ again' - again = p /\ burnt' - burnt = 0
        /\ try'[r].part - try[r].part = 0 - p
    BY <1>2, <1>5, <1>6, <1>9, RunTypes
  <2> QED
    BY <1>2, <2>1, <2>2, <2>3 DEF Calm
<1> QED
  BY <1>4, <1>7, <1>10, <1>15, <1>16 DEF Move

LEMMA MoveExhausted ==
    ASSUME TypeOK, NEW r \in Runs, RunRow(r), Exhausted(r)
    PROVE  Move(r)
<1>1. /\ status' = [status EXCEPT ![r] = "closed"] /\ faults' \in 0..MaxFaults
      /\ Spending(r) /\ Journalled(r)
      /\ UNCHANGED <<promised, estimate, held, lists, saved, key, burnt, gaps>>
  BY DEF Exhausted, TypeOK
<1> QED
  BY <1>1, MoveJournalled

LEMMA MoveFail ==
    ASSUME TypeOK, NEW r \in Runs, RunRow(r), Fail(r)
    PROVE  Move(r)
<1>1. /\ status' = [status EXCEPT ![r] = status[r]] /\ faults' \in 0..MaxFaults
      /\ Spending(r) /\ Journalled(r)
      /\ UNCHANGED <<promised, estimate, held, lists, saved, key, burnt, gaps>>
  BY UnitAssumption DEF Fail, TypeOK
<1> QED
  BY <1>1, MoveJournalled


-----------------------------------------------------------------------------
(* The sums after a step of one run.                                       *)

Numbers ==
    \A r \in Runs : /\ Need(r) \in Int /\ Over(r) \in Nat /\ Held(r) \in Nat
                    /\ journal[r] \in Nat /\ try[r].part \in Nat /\ try[r].due \in Nat

LEMMA NumbersHold == TypeOK => Numbers
BY RunTypes DEF Numbers

LEMMA SumsAreNumbers ==
    ASSUME Numbers
    PROVE  /\ Spent \in Nat /\ ToPay \in Int /\ Unjournalled \in Nat
           /\ Beyond \in Nat /\ HeldByAll \in Nat
<1>1. Spent \in Nat
  BY RunAssumption, TotalNat DEF Spent, Numbers
<1>2. ToPay \in Int
  BY RunAssumption, TotalInt DEF ToPay, Numbers
<1>3. Unjournalled \in Nat /\ Beyond \in Nat /\ HeldByAll \in Nat
  BY RunAssumption, TotalNat DEF Unjournalled, Beyond, HeldByAll, Numbers
<1> QED
  BY <1>1, <1>2, <1>3

LEMMA OthersCount ==
    ASSUME NEW r \in Runs, OnlyRow(r), OnlyTry(r), NEW s \in Runs \ {r}
    PROVE  /\ Need(s)' = Need(s) /\ Over(s)' = Over(s) /\ Held(s)' = Held(s)
           /\ journal'[s] = journal[s] /\ try'[s].part = try[s].part
           /\ Worst(s)' = Worst(s) /\ Unpromised(s)' = Unpromised(s)
<1>1. SameRow(s) /\ Seen(s)
  BY DEF OnlyRow, OnlyTry
<1>2. Worst(s)' = Worst(s) /\ Unpromised(s)' = Unpromised(s)
  BY <1>1 DEF SameRow, Worst, ListsLeft, BatchesLeft, Unpromised
<1>3. claim(s)' = claim(s)
  BY <1>1 DEF SameRow, claim
<1> QED
  BY <1>1, <1>2, <1>3 DEF SameRow, Seen, SameTry, Need, Over, Held

LEMMA SumsAfter ==
    ASSUME TypeOK, TypeOK', NEW r \in Runs, OnlyRow(r), OnlyTry(r)
    PROVE  /\ Spent' = Spent + (journal'[r] - journal[r])
           /\ ToPay' = ToPay + (Need(r)' - Need(r))
           /\ Unjournalled' = Unjournalled + (try'[r].part - try[r].part)
           /\ Beyond' = Beyond + (Over(r)' - Over(r))
           /\ HeldByAll' = HeldByAll + (Held(r)' - Held(r))
           /\ Numbers /\ Numbers'
<1>1. Numbers /\ Numbers'
  BY NumbersHold, PTL
<1>2. Spent' = Spent + (journal'[r] - journal[r])
  <2>1. \A s \in Runs : journal[s] \in Int /\ journal'[s] \in Int /\ (s # r => journal'[s] = journal[s])
    BY <1>1, OthersCount DEF Numbers
  <2> QED
    BY <2>1, RunAssumption, TotalChange DEF Spent
<1>3. ToPay' = ToPay + (Need(r)' - Need(r))
  <2> DEFINE f == [s \in Runs |-> Need(s)]
  <2>1. PICK g : g = [s \in Runs |-> Need(s)']
    OBVIOUS
  <2>2. \A s \in Runs : f[s] \in Int /\ g[s] \in Int /\ (s # r => g[s] = f[s])
    BY <1>1, <2>1, OthersCount DEF Numbers
  <2>3. ToPay = Total(f, Runs) /\ ToPay' = Total(g, Runs)
    BY <2>1 DEF ToPay
  <2>4. f[r] = Need(r) /\ g[r] = Need(r)'
    BY <2>1
  <2> HIDE DEF f
  <2> QED
    BY <2>2, <2>3, <2>4, RunAssumption, TotalChange
<1>4. Unjournalled' = Unjournalled + (try'[r].part - try[r].part)
  <2> DEFINE f == [s \in Runs |-> try[s].part]
  <2>1. PICK g : g = [s \in Runs |-> try'[s].part]
    OBVIOUS
  <2>2. \A s \in Runs : f[s] \in Int /\ g[s] \in Int /\ (s # r => g[s] = f[s])
    BY <1>1, <2>1, OthersCount DEF Numbers
  <2>3. Unjournalled = Total(f, Runs) /\ Unjournalled' = Total(g, Runs)
    BY <2>1 DEF Unjournalled
  <2>4. f[r] = try[r].part /\ g[r] = try'[r].part
    BY <2>1
  <2> HIDE DEF f
  <2> QED
    BY <2>2, <2>3, <2>4, RunAssumption, TotalChange
<1>5. Beyond' = Beyond + (Over(r)' - Over(r))
  <2> DEFINE f == [s \in Runs |-> Over(s)]
  <2>1. PICK g : g = [s \in Runs |-> Over(s)']
    OBVIOUS
  <2>2. \A s \in Runs : f[s] \in Int /\ g[s] \in Int /\ (s # r => g[s] = f[s])
    BY <1>1, <2>1, OthersCount DEF Numbers
  <2>3. Beyond = Total(f, Runs) /\ Beyond' = Total(g, Runs)
    BY <2>1 DEF Beyond
  <2>4. f[r] = Over(r) /\ g[r] = Over(r)'
    BY <2>1
  <2> HIDE DEF f
  <2> QED
    BY <2>2, <2>3, <2>4, RunAssumption, TotalChange
<1>6. HeldByAll' = HeldByAll + (Held(r)' - Held(r))
  <2> DEFINE f == [s \in Runs |-> Held(s)]
  <2>1. PICK g : g = [s \in Runs |-> Held(s)']
    OBVIOUS
  <2>2. \A s \in Runs : f[s] \in Int /\ g[s] \in Int /\ (s # r => g[s] = f[s])
    BY <1>1, <2>1, OthersCount DEF Numbers
  <2>3. HeldByAll = Total(f, Runs) /\ HeldByAll' = Total(g, Runs)
    BY <2>1 DEF HeldByAll
  <2>4. f[r] = Held(r) /\ g[r] = Held(r)'
    BY <2>1
  <2> HIDE DEF f
  <2> QED
    BY <2>2, <2>3, <2>4, RunAssumption, TotalChange
<1> QED
  BY <1>1, <1>2, <1>3, <1>4, <1>5, <1>6

-----------------------------------------------------------------------------
(* The budget: what the money of all runs comes to.                        *)

Rows == \A r \in Runs : RunRow(r)

Accounted == used = Spent + Unjournalled + neighbour + burnt
OverKept == Beyond <= again

KeyRoom == "key" \notin gaps => Spent + ToPay <= KeyLimit + again
CapRoom == "cap" \notin gaps => Spent + ToPay <= Cap + again

\* A run that asks for the first time: what it knows covers what the others still
\* cost, unless one of them has moved behind its back.
Claims(r) ==
    try[r].at = "claimed" /\ Unpromised(r) /\ "key" \notin try[r].missed =>
        /\ ToPay <= try[r].claims + again + Unjournalled + burnt
        /\ burnt = 0 => HeldByAll <= try[r].claims
Free(r) ==
    try[r].at = "asked" /\ Unpromised(r) /\ "key" \notin try[r].missed =>
        try[r].free + Spent + ToPay <= KeyLimit + again
Rest(r) ==
    try[r].at = "left" =>
        /\ cap_left <= try[r].left
        /\ "cap" \notin try[r].missed => try[r].left <= cap_left
Ceiling(r) ==
    (/\ try[r].at \in {"ready", "claimed", "asked"} /\ Unpromised(r)
     /\ "cap" \notin try[r].missed /\ try[r].cap > 0)
        => try[r].cap + Spent + ToPay <= Cap + again

Plans(r) == Claims(r) /\ Free(r) /\ Rest(r) /\ Ceiling(r)

Money == Accounted /\ OverKept /\ KeyRoom /\ CapRoom

LEMMA MoneyMoves ==
    ASSUME TypeOK, Money, NEW r \in Runs, Plans(r), RunRow(r), Move(r)
    PROVE  Money'
<1>1. /\ Spent' = Spent + (journal'[r] - journal[r])
      /\ ToPay' = ToPay + (Need(r)' - Need(r))
      /\ Unjournalled' = Unjournalled + (try'[r].part - try[r].part)
      /\ Beyond' = Beyond + (Over(r)' - Over(r))
      /\ Numbers /\ Numbers'
  BY SumsAfter DEF Move
<1>2. /\ Spent \in Nat /\ ToPay \in Int /\ Unjournalled \in Nat /\ Beyond \in Nat
      /\ Need(r) \in Int /\ Need(r)' \in Int /\ Over(r) \in Nat /\ Over(r)' \in Nat
      /\ journal[r] \in Nat /\ journal'[r] \in Nat /\ try[r].part \in Nat /\ try'[r].part \in Nat
  BY <1>1, SumsAreNumbers DEF Numbers
<1>3. /\ used \in Nat /\ neighbour \in Nat /\ again \in Nat /\ burnt \in Nat
      /\ used' \in Nat /\ neighbour' \in Nat /\ again' \in Nat /\ burnt' \in Nat
  BY UnitAssumption DEF Move, TypeOK
<1>4. Accounts(r)
  BY DEF Move
<1>5. Accounted'
  BY <1>1, <1>2, <1>3, <1>4 DEF Money, Accounted, Accounts
<1>6. OverKept'
  BY <1>1, <1>2, <1>3, <1>4 DEF Money, OverKept, Accounts
<1>7. CASE Calm(r)
  <2>1. Spent' + ToPay' - again' <= Spent + ToPay - again
    BY <1>1, <1>2, <1>3, <1>7 DEF Calm
  <2>2. KeyRoom' /\ CapRoom'
    BY <1>1, <1>2, <1>3, <1>4, <2>1, UnitAssumption DEF Money, KeyRoom, CapRoom, Accounts
  <2> QED
    BY <1>5, <1>6, <2>2 DEF Money
<1>8. CASE Pledge(r)
  <2>1. Spent' = Spent /\ Need(r) = 0 /\ ToPay' = ToPay + Need(r)' /\ again' = again
    BY <1>1, <1>2, <1>8 DEF Pledge, Need
  <2>2. /\ try[r].free \in Int /\ try[r].cap \in Nat
        /\ Need(r)' <= try[r].cap /\ (Need(r)' <= 0 \/ Need(r)' <= try[r].free)
    BY <1>2, <1>8, RunTypes DEF Pledge, units, Least, Most
  <2>3. KeyRoom'
    <3> SUFFICES ASSUME "key" \notin gaps' PROVE Spent' + ToPay' <= KeyLimit + again'
      BY DEF KeyRoom
    <3>1. "key" \notin gaps /\ "key" \notin try[r].missed
      BY <1>8 DEF Pledge
    <3>2. Spent + ToPay <= KeyLimit + again
      BY <3>1 DEF Money, KeyRoom
    <3>3. try[r].free + Spent + ToPay <= KeyLimit + again
      BY <1>8, <3>1 DEF Pledge, Plans, Free
    <3> QED
      BY <1>2, <1>3, <2>1, <2>2, <3>2, <3>3, UnitAssumption
  <2>4. CapRoom'
    <3> SUFFICES ASSUME "cap" \notin gaps' PROVE Spent' + ToPay' <= Cap + again'
      BY DEF CapRoom
    <3>1. "cap" \notin gaps /\ "cap" \notin try[r].missed
      BY <1>8 DEF Pledge
    <3>2. Spent + ToPay <= Cap + again
      BY <3>1 DEF Money, CapRoom
    <3>3. try[r].cap > 0 => try[r].cap + Spent + ToPay <= Cap + again
      BY <1>8, <3>1 DEF Pledge, Plans, Ceiling
    <3> QED
      BY <1>2, <1>3, <2>1, <2>2, <3>2, <3>3, UnitAssumption
  <2> QED
    BY <1>5, <1>6, <2>3, <2>4 DEF Money
<1> QED
  BY <1>7, <1>8 DEF Move

\* Whatever a run does, what another has read still holds, or it has missed something.
LEMMA PlansOfOthers ==
    ASSUME TypeOK, NEW r \in Runs, Move(r), NEW q \in Runs \ {r}, Plans(q)
    PROVE  Plans(q)'
<1>1. /\ Spent' = Spent + (journal'[r] - journal[r])
      /\ ToPay' = ToPay + (Need(r)' - Need(r))
      /\ Unjournalled' = Unjournalled + (try'[r].part - try[r].part)
      /\ HeldByAll' = HeldByAll + (Held(r)' - Held(r))
      /\ Numbers /\ Numbers'
  BY SumsAfter DEF Move
<1>2. /\ Spent \in Nat /\ ToPay \in Int /\ Unjournalled \in Nat /\ HeldByAll \in Nat
      /\ Need(r) \in Int /\ Need(r)' \in Int /\ Held(r) \in Nat /\ Held(r)' \in Nat
      /\ journal[r] \in Nat /\ journal'[r] \in Nat /\ try[r].part \in Nat /\ try'[r].part \in Nat
  BY <1>1, SumsAreNumbers DEF Numbers
<1>3. again \in Nat /\ burnt \in Nat /\ again' \in Nat /\ burnt' \in Nat
  BY DEF Move, TypeOK
<1>4. Accounts(r) /\ (Calm(r) \/ Pledge(r))
  BY DEF Move
<1>5. Seen(q) /\ (Unpromised(q)' <=> Unpromised(q))
  BY OthersCount DEF Move, OnlyTry
<1>6. /\ try'[q].at = try[q].at /\ try'[q].claims = try[q].claims /\ try'[q].free = try[q].free
      /\ try'[q].cap = try[q].cap /\ try'[q].left = try[q].left /\ try[q].missed \subseteq try'[q].missed
      /\ try[q].claims \in Nat /\ try[q].free \in Int /\ try[q].cap \in Nat /\ try[q].left \in Int
  BY <1>5, RunTypes DEF Seen, SameTry
<1>7. Claims(q)'
  <2> SUFFICES ASSUME try[q].at = "claimed", Unpromised(q), "key" \notin try'[q].missed
               PROVE  /\ ToPay' <= try[q].claims + again' + Unjournalled' + burnt'
                      /\ burnt' = 0 => HeldByAll' <= try[q].claims
    BY <1>5, <1>6 DEF Claims
  <2>1. ~MarksPromise(r)
    BY DEF MarksPromise, Limits
  <2>2. Calm(r)
    BY <1>4, <2>1 DEF Pledge
  <2>3. /\ ToPay <= try[q].claims + again + Unjournalled + burnt
        /\ burnt = 0 => HeldByAll <= try[q].claims
    BY <1>6 DEF Plans, Claims
  <2>4. ToPay' <= try[q].claims + again' + Unjournalled' + burnt'
    BY <1>1, <1>2, <1>3, <1>6, <2>2, <2>3 DEF Calm
  <2>5. ASSUME burnt' = 0 PROVE HeldByAll' <= try[q].claims
    <3>1. burnt = 0 /\ Held(r)' <= Held(r)
      BY <1>3, <1>4, <2>1, <2>2, <2>5 DEF Accounts, Calm
    <3> QED
      BY <1>1, <1>2, <1>6, <2>3, <3>1
  <2> QED
    BY <2>4, <2>5
<1>8. Free(q)'
  <2> SUFFICES ASSUME try[q].at = "asked", Unpromised(q), "key" \notin try'[q].missed
               PROVE  try[q].free + Spent' + ToPay' <= KeyLimit + again'
    BY <1>5, <1>6 DEF Free
  <2>1. Calm(r)
    BY <1>4 DEF Pledge, MarksPromise, Limits
  <2>2. try[q].free + Spent + ToPay <= KeyLimit + again
    BY <1>6 DEF Plans, Free
  <2> QED
    BY <1>1, <1>2, <1>3, <1>6, <2>1, <2>2, UnitAssumption DEF Calm
<1>9. Rest(q)'
  <2> SUFFICES ASSUME try[q].at = "left"
               PROVE  /\ cap_left' <= try[q].left
                      /\ "cap" \notin try'[q].missed => try[q].left <= cap_left'
    BY <1>6 DEF Rest
  <2>1. cap_left = Most(0, Cap - Spent) /\ cap_left' = Most(0, Cap - Spent')
    BY DEF cap_left, Spent
  <2>2. cap_left <= try[q].left /\ ("cap" \notin try[q].missed => try[q].left <= cap_left)
    BY DEF Plans, Rest
  <2>3. Spent <= Spent' /\ ("cap" \notin try'[q].missed => Spent' = Spent)
    BY <1>1, <1>2, <1>4 DEF Accounts, MarksSpent
  <2> QED
    BY <1>1, <1>2, <1>6, <2>1, <2>2, <2>3, UnitAssumption DEF Most
<1>10. Ceiling(q)'
  <2> SUFFICES ASSUME try'[q].at \in {"ready", "claimed", "asked"}, Unpromised(q)',
                      "cap" \notin try'[q].missed, try'[q].cap > 0
               PROVE  try'[q].cap + Spent' + ToPay' <= Cap + again'
    BY DEF Ceiling
  <2>1. /\ try[q].at \in {"ready", "claimed", "asked"} /\ Unpromised(q)
        /\ "cap" \notin try[q].missed /\ try[q].cap > 0
    BY <1>5, <1>6
  <2>2. ~MarksPromise(r)
    BY <2>1 DEF MarksPromise, Limits
  <2>3. Calm(r)
    BY <1>4, <2>2 DEF Pledge
  <2>4. try[q].cap + Spent + ToPay <= Cap + again
    BY <2>1 DEF Plans, Ceiling
  <2> QED
    BY <1>1, <1>2, <1>3, <1>6, <2>3, <2>4, UnitAssumption DEF Calm
<1> QED
  BY <1>7, <1>8, <1>9, <1>10 DEF Plans

\* The claims of the others cover all that is still to be paid, but for work that has
\* to be bought anew.
LEMMA ClaimsCover ==
    ASSUME TypeOK, NEW r \in Runs, Unpromised(r)
    PROVE  ToPay <= claimed_units(r) + Beyond /\ HeldByAll <= claimed_units(r)
<1> DEFINE c == [s \in Runs |-> claim(s)]
           n == [s \in Runs |-> Need(s)]
           o == [s \in Runs |-> Over(s)]
           h == [s \in Runs |-> Held(s)]
           a == [s \in Runs |-> claim(s) + Over(s)]
<1>1. ASSUME NEW s \in Runs
      PROVE  /\ claim(s) \in Nat /\ Over(s) \in Nat /\ Need(s) \in Int /\ Held(s) \in Nat
             /\ Held(s) <= claim(s) /\ Need(s) <= claim(s) + Over(s)
  <2>1. claim(s) \in Nat /\ Over(s) \in Nat /\ Need(s) \in Int /\ Held(s) \in Nat
    BY SumTypes, RunTypes
  <2>2. Held(s) <= claim(s)
    BY <2>1, RunTypes DEF Held, Most
  <2>3. CASE status[s] = "open" /\ ~Unpromised(s)
    <3>1. /\ claim(s) = Most(estimate[s] - journal[s], 0) /\ Need(s) = Worst(s)
          /\ Over(s) = Most(journal[s] + Worst(s) - estimate[s], 0) /\ estimate[s] \in Nat
      BY <2>3 DEF claim, Need, Over, Unpromised, TypeOK
    <3> QED
      BY <2>1, <2>2, <3>1, RunTypes DEF Most
  <2>4. CASE ~(status[s] = "open" /\ ~Unpromised(s))
    BY <2>1, <2>2, <2>4 DEF Need
  <2> QED
    BY <2>3, <2>4
<1>2. \A s \in Runs : /\ c[s] \in Nat /\ n[s] \in Int /\ o[s] \in Nat /\ h[s] \in Nat /\ a[s] \in Int
                      /\ a[s] = c[s] + o[s] /\ n[s] <= a[s] /\ h[s] <= c[s]
  BY <1>1
<1>3. c[r] = 0
  BY DEF claim, Unpromised
<1>4. /\ claimed_units(r) = Total(c, Runs \ {r}) /\ ToPay = Total(n, Runs)
      /\ Beyond = Total(o, Runs) /\ HeldByAll = Total(h, Runs)
  BY DEF claimed_units, ToPay, Beyond, HeldByAll
<1> HIDE DEF c, n, o, h, a
<1>5. Total(c, Runs) = c[r] + Total(c, Runs \ {r})
  BY <1>2, RunAssumption, TotalTake
<1>6. Total(a, Runs) = Total(c, Runs) + Total(o, Runs)
  BY <1>2, RunAssumption, TotalAdd
<1>7. Total(n, Runs) <= Total(a, Runs) /\ Total(h, Runs) <= Total(c, Runs)
  BY <1>2, RunAssumption, TotalLe
<1>8. Total(c, Runs \ {r}) \in Nat
  BY <1>4, SumTypes
<1>9. Total(o, Runs) \in Nat /\ Total(n, Runs) \in Int /\ Total(h, Runs) \in Int
  BY <1>2, RunAssumption, TotalNat, TotalInt
<1> QED
  BY <1>3, <1>4, <1>5, <1>6, <1>7, <1>8, <1>9

LEMMA SumsStill ==
    ASSUME TypeOK, NEW r \in Runs, Move(r), journal'[r] = journal[r], try'[r].part = try[r].part,
           Need(r)' = Need(r), Held(r)' = Held(r)
    PROVE  /\ Spent' = Spent /\ ToPay' = ToPay /\ Unjournalled' = Unjournalled
           /\ HeldByAll' = HeldByAll /\ cap_left' = cap_left
           /\ Spent \in Nat /\ ToPay \in Int /\ Unjournalled \in Nat /\ HeldByAll \in Nat
<1>1. /\ Spent' = Spent + (journal'[r] - journal[r])
      /\ ToPay' = ToPay + (Need(r)' - Need(r))
      /\ Unjournalled' = Unjournalled + (try'[r].part - try[r].part)
      /\ HeldByAll' = HeldByAll + (Held(r)' - Held(r))
      /\ Numbers
  BY SumsAfter DEF Move
<1>2. /\ Spent \in Nat /\ ToPay \in Int /\ Unjournalled \in Nat /\ HeldByAll \in Nat
      /\ Need(r) \in Int /\ Held(r) \in Nat /\ journal[r] \in Nat /\ try[r].part \in Nat
  BY <1>1, SumsAreNumbers DEF Numbers
<1>3. Spent' = Spent /\ ToPay' = ToPay /\ Unjournalled' = Unjournalled /\ HeldByAll' = HeldByAll
  BY <1>1, <1>2
<1> QED
  BY <1>2, <1>3 DEF cap_left, Spent

\* A step that only reads or computes.
LEMMA AloneStill ==
    ASSUME TypeOK, NEW r \in Runs, RunRow(r), Move(r), UNCHANGED <<row, key, faults, history>>,
           ~Spending(r), try'[r].part = 0
    PROVE  /\ journal'[r] = journal[r] /\ try'[r].part = try[r].part
           /\ Need(r)' = Need(r) /\ Held(r)' = Held(r) /\ Worst(r)' = Worst(r)
           /\ (Unpromised(r)' <=> Unpromised(r)) /\ again' = again /\ burnt' = burnt /\ gaps' = gaps
           /\ used' = used /\ promised' = promised /\ listed' = listed /\ journal' = journal
<1>1. try[r].part = 0
  BY DEF RunRow
<1> QED
  BY <1>1 DEF Held, Need, claim, Unpromised, Worst, ListsLeft, BatchesLeft, row, key, history

LEMMA PlansUnasked ==
    ASSUME NEW r \in Runs,
           \/ try'[r].at \in {"idle", "listing", "buying"}
           \/ try'[r].at = "ready" /\ ~Unpromised(r)'
    PROVE  Plans(r)'
BY DEF Plans, Claims, Free, Rest, Ceiling

LEMMA PlansBegin ==
    ASSUME TypeOK, NEW r \in Runs, RunRow(r), Move(r), Begin(r)
    PROVE  Plans(r)'
<1>1. PICK n \in Nat : n = cap_left
  BY SumTypes
<1>2. Set(r, [Idle EXCEPT !.at = "left", !.left = n])
  BY <1>1 DEF Begin
<1>3. try'[r] = [Idle EXCEPT !.at = "left", !.left = n]
  BY <1>2 DEF Set, TypeOK
<1>4. try'[r].at = "left" /\ try'[r].left = n /\ cap_left' = cap_left
  BY <1>3 DEF Idle, Begin, row, cap_left
<1> QED
  BY <1>1, <1>4 DEF Plans, Claims, Free, Rest, Ceiling

LEMMA PlansCeiling ==
    ASSUME TypeOK, Money, NEW r \in Runs, RunRow(r), Plans(r), Move(r), ceiling_at_start(r)
    PROVE  Plans(r)'
<1>1. PICK c : c = Most(0, Least(promised[r] - listed[r], try[r].left - claimed_units(r)))
  OBVIOUS
<1>2. /\ try[r].at = "left" /\ UNCHANGED <<row, key, faults, history>>
      /\ try'[r] = [try[r] EXCEPT !.at = "ready", !.left = 0, !.cap = c]
  BY <1>1 DEF ceiling_at_start, Set, TypeOK
<1>3. try'[r].at = "ready" /\ try'[r].cap = c /\ try'[r].missed = try[r].missed
      /\ try'[r].part = try[r].part /\ ~Spending(r) /\ try'[r].part = 0
  BY <1>2, RunTypes DEF Try, Spending, RunRow
<1>4. /\ Spent' = Spent /\ ToPay' = ToPay /\ again' = again /\ (Unpromised(r)' <=> Unpromised(r))
      /\ Spent \in Nat /\ ToPay \in Int
  BY <1>2, <1>3, AloneStill, SumsStill
<1>5. Ceiling(r)'
  <2> SUFFICES ASSUME Unpromised(r), "cap" \notin try[r].missed, c > 0
               PROVE  c + Spent + ToPay <= Cap + again
    BY <1>3, <1>4 DEF Ceiling
  <2>1. try[r].left <= Most(0, Cap - Spent)
    BY <1>2 DEF Plans, Rest, cap_left, Spent
  <2>2. c <= try[r].left - claimed_units(r) /\ claimed_units(r) \in Nat /\ try[r].left \in Int
    BY <1>1, SumTypes, RunTypes DEF Most, Least, TypeOK
  <2>3. ToPay <= claimed_units(r) + Beyond /\ Beyond <= again /\ Beyond \in Nat
    BY ClaimsCover, NumbersHold, SumsAreNumbers DEF Money, OverKept
  <2> QED
    BY <1>1, <1>4, <2>1, <2>2, <2>3, RunTypes, UnitAssumption DEF Most, TypeOK
<1> QED
  BY <1>3, <1>5 DEF Plans, Claims, Free, Rest

LEMMA PlansConsole ==
    ASSUME TypeOK, Money, NEW r \in Runs, RunRow(r), Move(r), ConsoleBegin(r)
    PROVE  Plans(r)'
<1>1. PICK asked \in Asked :
         Set(r, [Idle EXCEPT !.at = "ready", !.cap = Least(asked, cap_left),
                             !.missed = IF claimed_units(r) > 0 THEN {"cap"} ELSE {}])
  BY DEF ConsoleBegin
<1>2. PICK c : c \in Nat /\ c = Least(asked, cap_left) /\ c <= cap_left
  BY SumTypes, UnitAssumption DEF Least
<1>3. PICK m : m = IF claimed_units(r) > 0 THEN {"cap"} ELSE {}
  OBVIOUS
<1>4. try'[r] = [Idle EXCEPT !.at = "ready", !.cap = c, !.missed = m]
  BY <1>1, <1>2, <1>3 DEF Set, TypeOK
<1>5. try'[r].at = "ready" /\ try'[r].cap = c /\ try'[r].missed = m
  BY <1>4 DEF Idle
<1>6. status[r] = "none" /\ Unpromised(r) /\ try[r].at = "idle" /\ try[r].part = 0
      /\ try'[r].part = 0 /\ Unpromised(r)'
  BY <1>4 DEF ConsoleBegin, RunRow, Spending, Idle, Unpromised
<1>7. Need(r)' = Need(r) /\ Held(r)' = Held(r) /\ journal' = journal /\ again' = again
  BY <1>6 DEF ConsoleBegin, Need, Held, claim, Unpromised, history
<1>8. /\ Spent' = Spent /\ ToPay' = ToPay /\ Spent \in Nat /\ ToPay \in Int
  BY <1>6, <1>7, SumsStill
<1>9. Ceiling(r)'
  <2> SUFFICES ASSUME "cap" \notin m, c > 0
               PROVE  c + Spent + ToPay <= Cap + again
    BY <1>5, <1>7, <1>8 DEF Ceiling
  <2>1. claimed_units(r) = 0
    BY <1>3, SumTypes
  <2>2. c <= Most(0, Cap - Spent)
    BY <1>2 DEF cap_left, Spent
  <2>3. ToPay <= claimed_units(r) + Beyond /\ Beyond <= again /\ Beyond \in Nat
    BY <1>6, ClaimsCover, NumbersHold, SumsAreNumbers DEF Money, OverKept
  <2> QED
    BY <1>2, <1>8, <2>1, <2>2, <2>3, UnitAssumption DEF Most, TypeOK
<1> QED
  BY <1>5, <1>9 DEF Plans, Claims, Free, Rest

LEMMA PlansClaims ==
    ASSUME TypeOK, Money, NEW r \in Runs, RunRow(r), Plans(r), Move(r), ReadClaims(r)
    PROVE  Plans(r)'
<1>1. PICK c : c = claimed_units(r)
  OBVIOUS
<1>2. /\ try[r].at = "ready" /\ UNCHANGED <<row, key, faults, history>>
      /\ try'[r] = [try[r] EXCEPT !.at = "claimed", !.claims = c]
  BY <1>1 DEF ReadClaims, Set, TypeOK
<1>3. try'[r].at = "claimed" /\ try'[r].claims = c /\ try'[r].missed = try[r].missed
      /\ try'[r].part = try[r].part /\ ~Spending(r) /\ try'[r].part = 0 /\ try'[r].cap = try[r].cap
  BY <1>2, RunTypes DEF Try, Spending, RunRow
<1>4. /\ Spent' = Spent /\ ToPay' = ToPay /\ again' = again /\ (Unpromised(r)' <=> Unpromised(r))
      /\ Unjournalled' = Unjournalled /\ HeldByAll' = HeldByAll /\ burnt' = burnt
      /\ Spent \in Nat /\ ToPay \in Int /\ Unjournalled \in Nat /\ HeldByAll \in Nat
  BY <1>2, <1>3, AloneStill, SumsStill
<1>5. Ceiling(r)'
  BY <1>2, <1>3, <1>4 DEF Plans, Ceiling
<1>6. Claims(r)'
  <2> SUFFICES ASSUME Unpromised(r)
               PROVE  ToPay <= c + again + Unjournalled + burnt /\ HeldByAll <= c
    BY <1>3, <1>4 DEF Claims
  <2>1. ToPay <= c + Beyond /\ Beyond <= again /\ Beyond \in Nat /\ HeldByAll <= c
    BY <1>1, ClaimsCover, NumbersHold, SumsAreNumbers DEF Money, OverKept
  <2>2. c \in Nat
    BY <1>1, SumTypes
  <2> QED
    BY <1>4, <2>1, <2>2, RunTypes
<1> QED
  BY <1>3, <1>5, <1>6 DEF Plans, Free, Rest

LEMMA PlansAsk ==
    ASSUME TypeOK, Money, NEW r \in Runs, RunRow(r), Plans(r), Move(r), AskKey(r)
    PROVE  Plans(r)'
<1>1. PICK n : n = KeyLimit - used - try[r].claims
  OBVIOUS
<1>2. /\ try[r].at = "claimed" /\ UNCHANGED <<row, key, faults, history>>
      /\ try'[r] = [try[r] EXCEPT !.at = "asked", !.claims = 0, !.free = n]
  BY <1>1 DEF AskKey, Set, TypeOK
<1>3. try'[r].at = "asked" /\ try'[r].free = n /\ try'[r].missed = try[r].missed
      /\ try'[r].part = try[r].part /\ ~Spending(r) /\ try'[r].part = 0 /\ try'[r].cap = try[r].cap
  BY <1>2, RunTypes DEF Try, Spending, RunRow
<1>4. /\ Spent' = Spent /\ ToPay' = ToPay /\ again' = again /\ (Unpromised(r)' <=> Unpromised(r))
      /\ Spent \in Nat /\ ToPay \in Int /\ Unjournalled \in Nat
  BY <1>2, <1>3, AloneStill, SumsStill
<1>5. Ceiling(r)'
  BY <1>2, <1>3, <1>4 DEF Plans, Ceiling
<1>6. Free(r)'
  <2> SUFFICES ASSUME Unpromised(r), "key" \notin try[r].missed
               PROVE  n + Spent + ToPay <= KeyLimit + again
    BY <1>3, <1>4 DEF Free
  <2>1. ToPay <= try[r].claims + again + Unjournalled + burnt
    BY <1>2 DEF Plans, Claims
  <2>2. used = Spent + Unjournalled + neighbour + burnt
    BY DEF Money, Accounted
  <2> QED
    BY <1>1, <1>4, <2>1, <2>2, RunTypes, UnitAssumption
<1> QED
  BY <1>3, <1>5, <1>6 DEF Plans, Claims, Rest

-----------------------------------------------------------------------------
(* A run that is carried on: its promise holds its own work.               *)

Asking(r) == try[r].at \in {"ready", "claimed", "asked"}

Promises(r) ==
    /\ status[r] = "open" /\ ~Unpromised(r) /\ again = 0 => Worst(r) + listed[r] <= promised[r]
    /\ ~Unpromised(r) /\ journal[r] = 0 => estimate[r] = Worst(r)
    /\ Unpromised(r) /\ Asking(r) => try[r].cap <= promised[r]

\* Nobody but this run has spent anything, and nothing was paid in vain.
Alone(r) == gaps = {} /\ again = 0 /\ used = journal[r]

Fits(r) ==
    ~Unpromised(r) /\ Alone(r) =>
        /\ Asking(r) => Worst(r) <= try[r].cap
        /\ try[r].at = "claimed" => used + try[r].claims + Worst(r) <= KeyLimit
        /\ try[r].at = "asked" => Worst(r) <= try[r].free

LEMMA PromisesOfOthers ==
    ASSUME TypeOK, NEW r \in Runs, Move(r), NEW q \in Runs \ {r}, Promises(q)
    PROVE  Promises(q)'
<1>1. SameRow(q) /\ Seen(q) /\ Worst(q)' = Worst(q) /\ (Unpromised(q)' <=> Unpromised(q))
  BY OthersCount DEF Move, OnlyRow, OnlyTry
<1>2. again' = 0 => again = 0
  BY DEF Move, Accounts, TypeOK
<1> QED
  BY <1>1, <1>2 DEF Promises, SameRow, Seen, SameTry, Asking

LEMMA JournalIsSpent ==
    ASSUME TypeOK, Money, NEW r \in Runs
    PROVE  /\ journal[r] <= used
           /\ used = journal[r] =>
                /\ Spent = journal[r]
                /\ \A s \in Runs \ {r} : journal[s] = 0
<1>1. Numbers
  BY NumbersHold
<1>2. Spent \in Nat /\ Unjournalled \in Nat /\ used = Spent + Unjournalled + neighbour + burnt
  BY <1>1, SumsAreNumbers DEF Money, Accounted
<1>3. \A s \in Runs : journal[s] \in Nat
  BY <1>1 DEF Numbers
<1>4. IsFiniteSet(Runs \ {r})
  BY RunAssumption, FS_Subset
<1>5. Spent = journal[r] + Total(journal, Runs \ {r}) /\ Total(journal, Runs \ {r}) \in Nat
  BY <1>3, <1>4, RunAssumption, TotalTake, TotalNat DEF Spent
<1>6. journal[r] <= Spent /\ Spent <= used
  BY <1>2, <1>3, <1>5, RunTypes
<1>7. ASSUME used = journal[r], NEW s \in Runs \ {r} PROVE journal[s] = 0
  <2>1. Total(journal, Runs \ {r}) = 0
    BY <1>2, <1>3, <1>5, <1>6, <1>7, RunTypes
  <2>2. journal[s] <= Total(journal, Runs \ {r})
    BY <1>3, <1>4, TotalPart
  <2> QED
    BY <1>3, <2>1, <2>2
<1> QED
  BY <1>2, <1>3, <1>6, <1>7, RunTypes

LEMMA AloneBefore ==
    ASSUME TypeOK, Money, NEW r \in Runs, Move(r), NEW q \in Runs, journal'[q] = journal[q], Alone(q)'
    PROVE  Alone(q) /\ used' = used
<1>1. gaps' = {} /\ again' = 0 /\ used' = journal[q]
  BY DEF Alone
<1>2. gaps \subseteq gaps' /\ again <= again' /\ used <= used' /\ used \in Nat /\ again \in Nat
      /\ journal[q] \in Nat
  BY RunTypes DEF Move, Accounts
<1>3. journal[q] <= used
  BY JournalIsSpent
<1> QED
  BY <1>1, <1>2, <1>3 DEF Alone

LEMMA FitsOfOthers ==
    ASSUME TypeOK, Money, NEW r \in Runs, Move(r), NEW q \in Runs \ {r}, Fits(q)
    PROVE  Fits(q)'
<1>1. SameRow(q) /\ Seen(q) /\ Worst(q)' = Worst(q) /\ (Unpromised(q)' <=> Unpromised(q))
  BY OthersCount DEF Move, OnlyRow, OnlyTry
<1>2. Alone(q)' => Alone(q) /\ used' = used
  BY <1>1, AloneBefore DEF SameRow
<1> QED
  BY <1>1, <1>2 DEF Fits, Seen, SameTry, Asking

\* The others hold no more than what they still have to pay.
LEMMA ClaimsOfTheUntouched ==
    ASSUME TypeOK, Money, \A s \in Runs : Promises(s), NEW r \in Runs, Alone(r)
    PROVE  claimed_units(r) + Need(r) <= ToPay /\ Spent = used
<1> DEFINE c == [s \in Runs |-> claim(s)]
           n == [s \in Runs |-> Need(s)]
<1>1. Spent = used /\ \A s \in Runs \ {r} : journal[s] = 0
  BY JournalIsSpent DEF Alone
<1>2. ASSUME NEW s \in Runs \ {r}
      PROVE  claim(s) <= Need(s) /\ claim(s) \in Int /\ Need(s) \in Int
  <2>1. claim(s) \in Nat /\ Need(s) \in Int /\ Worst(s) \in Int
    BY SumTypes, RunTypes
  <2>2. CASE status[s] = "open" /\ ~Unpromised(s)
    <3>1. estimate[s] = Worst(s) /\ estimate[s] \in Nat
      BY <1>1, <2>2 DEF Promises, Unpromised, TypeOK
    <3>2. claim(s) = Most(estimate[s] - 0, 0) /\ Need(s) = Worst(s)
      BY <1>1, <2>2 DEF claim, Need, Unpromised
    <3> QED
      BY <2>1, <3>1, <3>2 DEF Most
  <2>3. CASE ~(status[s] = "open" /\ ~Unpromised(s))
    BY <2>1, <2>3 DEF claim, Need, Unpromised
  <2> QED
    BY <2>1, <2>2, <2>3
<1>3. \A s \in Runs \ {r} : c[s] \in Int /\ n[s] \in Int /\ c[s] <= n[s]
  BY <1>2
<1>4. /\ claimed_units(r) = Total(c, Runs \ {r}) /\ ToPay = Total(n, Runs) /\ n[r] = Need(r)
      /\ \A s \in Runs : n[s] \in Int
  BY RunTypes DEF claimed_units, ToPay
<1> HIDE DEF c, n
<1>5. IsFiniteSet(Runs \ {r})
  BY RunAssumption, FS_Subset
<1>6. Total(c, Runs \ {r}) <= Total(n, Runs \ {r})
  BY <1>3, <1>5, TotalLe
<1>7. Total(n, Runs) = n[r] + Total(n, Runs \ {r}) /\ Total(n, Runs \ {r}) \in Int
  BY <1>4, <1>5, RunAssumption, TotalTake, TotalInt
<1>8. claimed_units(r) \in Nat /\ Need(r) \in Int
  BY SumTypes, RunTypes
<1> QED
  BY <1>1, <1>4, <1>6, <1>7, <1>8

LEMMA FitsCeiling ==
    ASSUME TypeOK, Money, \A s \in Runs : Promises(s), NEW r \in Runs, RunRow(r), Plans(r), Move(r),
           ceiling_at_start(r)
    PROVE  Promises(r)' /\ Fits(r)'
<1>1. PICK c : c = Most(0, Least(promised[r] - listed[r], try[r].left - claimed_units(r)))
  OBVIOUS
<1>2. /\ try[r].at = "left" /\ UNCHANGED <<row, key, faults, history>>
      /\ try'[r] = [try[r] EXCEPT !.at = "ready", !.left = 0, !.cap = c]
  BY <1>1 DEF ceiling_at_start, Set, TypeOK
<1>3. try'[r].at = "ready" /\ try'[r].cap = c /\ ~Spending(r) /\ try'[r].part = 0
  BY <1>2, RunTypes DEF Try, Spending, RunRow
<1>4. /\ (Unpromised(r)' <=> Unpromised(r)) /\ Worst(r)' = Worst(r)
      /\ again' = again /\ gaps' = gaps /\ used' = used
      /\ promised' = promised /\ listed' = listed /\ journal' = journal
      /\ status' = status /\ estimate' = estimate
  BY <1>2, <1>3, AloneStill DEF row
<1>5. promised[r] \in Nat /\ listed[r] \in Nat /\ claimed_units(r) \in Nat /\ try[r].left \in Int
  BY SumTypes, RunTypes DEF TypeOK
<1>6. Promises(r)'
  <2>1. c <= promised[r]
    BY <1>1, <1>5 DEF Most, Least
  <2> QED
    BY <1>3, <1>4, <2>1 DEF Promises
<1>7. ASSUME ~Unpromised(r), Alone(r) PROVE Worst(r) <= c
  <2>1. status[r] = "open" /\ Worst(r) <= promised[r] - listed[r] /\ Need(r) = Worst(r)
    BY <1>2, <1>5, <1>7, RunTypes DEF RunRow, Promises, Alone, Need
  <2>2. Spent + ToPay <= Cap
    BY <1>7, UnitAssumption, SumsAreNumbers, NumbersHold DEF Money, CapRoom, Alone
  <2>3. claimed_units(r) + Need(r) <= ToPay
    BY <1>7, ClaimsOfTheUntouched
  <2>4. Most(0, Cap - Spent) <= try[r].left
    BY <1>2 DEF Plans, Rest, cap_left, Spent
  <2>5. Spent \in Nat /\ ToPay \in Int /\ Worst(r) \in Int
    BY SumsAreNumbers, NumbersHold, RunTypes
  <2>6. Worst(r) <= try[r].left - claimed_units(r)
    BY <1>5, <2>1, <2>2, <2>3, <2>4, <2>5, UnitAssumption DEF Most
  <2> QED
    BY <1>1, <1>5, <2>1, <2>5, <2>6 DEF Most, Least
<1>8. Fits(r)'
  BY <1>3, <1>4, <1>7 DEF Fits, Alone
<1> QED
  BY <1>6, <1>8

LEMMA FitsClaims ==
    ASSUME TypeOK, Money, \A s \in Runs : Promises(s), NEW r \in Runs, RunRow(r), Fits(r), Move(r),
           ReadClaims(r)
    PROVE  Promises(r)' /\ Fits(r)'
<1>1. PICK c : c = claimed_units(r)
  OBVIOUS
<1>2. /\ try[r].at = "ready" /\ UNCHANGED <<row, key, faults, history>>
      /\ try'[r] = [try[r] EXCEPT !.at = "claimed", !.claims = c]
  BY <1>1 DEF ReadClaims, Set, TypeOK
<1>3. try'[r].at = "claimed" /\ try'[r].claims = c /\ ~Spending(r) /\ try'[r].part = 0
      /\ try'[r].cap = try[r].cap
  BY <1>2, RunTypes DEF Try, Spending, RunRow
<1>4. /\ (Unpromised(r)' <=> Unpromised(r)) /\ Worst(r)' = Worst(r)
      /\ again' = again /\ gaps' = gaps /\ used' = used
      /\ promised' = promised /\ listed' = listed /\ journal' = journal
      /\ status' = status /\ estimate' = estimate
  BY <1>2, <1>3, AloneStill DEF row
<1>5. Promises(r)'
  BY <1>2, <1>3, <1>4 DEF Promises, Asking
<1>6. ASSUME ~Unpromised(r), Alone(r)
      PROVE  Worst(r) <= try[r].cap /\ used + c + Worst(r) <= KeyLimit
  <2>1. Worst(r) <= try[r].cap
    BY <1>2, <1>6 DEF Fits, Asking
  <2>2. Need(r) = Worst(r)
    BY <1>2, <1>6 DEF RunRow, Need
  <2>3. Spent + ToPay <= KeyLimit
    BY <1>6, UnitAssumption, SumsAreNumbers, NumbersHold DEF Money, KeyRoom, Alone
  <2>4. claimed_units(r) + Need(r) <= ToPay /\ Spent = used
    BY <1>6, ClaimsOfTheUntouched
  <2>5. used \in Nat /\ ToPay \in Int /\ Worst(r) \in Int /\ claimed_units(r) \in Nat
    BY SumsAreNumbers, NumbersHold, RunTypes, SumTypes
  <2> QED
    BY <1>1, <2>1, <2>2, <2>3, <2>4, <2>5, UnitAssumption
<1>7. Fits(r)'
  BY <1>3, <1>4, <1>6 DEF Fits, Alone
<1> QED
  BY <1>5, <1>7

LEMMA FitsAsk ==
    ASSUME TypeOK, NEW r \in Runs, RunRow(r), Promises(r), Fits(r), Move(r), AskKey(r)
    PROVE  Promises(r)' /\ Fits(r)'
<1>1. PICK n : n = KeyLimit - used - try[r].claims
  OBVIOUS
<1>2. /\ try[r].at = "claimed" /\ UNCHANGED <<row, key, faults, history>>
      /\ try'[r] = [try[r] EXCEPT !.at = "asked", !.claims = 0, !.free = n]
  BY <1>1 DEF AskKey, Set, TypeOK
<1>3. try'[r].at = "asked" /\ try'[r].free = n /\ ~Spending(r) /\ try'[r].part = 0
      /\ try'[r].cap = try[r].cap
  BY <1>2, RunTypes DEF Try, Spending, RunRow
<1>4. /\ (Unpromised(r)' <=> Unpromised(r)) /\ Worst(r)' = Worst(r)
      /\ again' = again /\ gaps' = gaps /\ used' = used
      /\ promised' = promised /\ listed' = listed /\ journal' = journal
      /\ status' = status /\ estimate' = estimate
  BY <1>2, <1>3, AloneStill DEF row
<1>5. Promises(r)'
  BY <1>2, <1>3, <1>4 DEF Promises, Asking
<1>6. ASSUME ~Unpromised(r), Alone(r) PROVE Worst(r) <= try[r].cap /\ Worst(r) <= n
  BY <1>1, <1>2, <1>6, RunTypes, UnitAssumption DEF Fits, Asking
<1>7. Fits(r)'
  BY <1>3, <1>4, <1>6 DEF Fits, Alone
<1> QED
  BY <1>5, <1>7

\* Steps after which the run asks for nothing.
LEMMA FitsUnasked ==
    ASSUME NEW r \in Runs, ~Asking(r)'
    PROVE  Fits(r)'
BY DEF Fits, Asking

\* Steps that leave the row as it was, but for an end of the run.
LEMMA PromisesStill ==
    ASSUME TypeOK, NEW r \in Runs, Promises(r), Move(r), ~Asking(r)',
           status'[r] = "open" => status[r] = "open",
           promised' = promised, estimate' = estimate, lists' = lists, saved' = saved,
           journal' = journal, listed' = listed
    PROVE  Promises(r)'
<1>1. Worst(r)' = Worst(r) /\ (Unpromised(r)' <=> Unpromised(r))
  BY DEF Worst, ListsLeft, BatchesLeft, Unpromised
<1>2. again' = 0 => again = 0
  BY RunTypes DEF Move, Accounts
<1> QED
  BY <1>1, <1>2 DEF Promises

\* Press, Begin, ConsoleBegin, Refuse, Pay, Finish, Die, Stop.
LEMMA FitsPlain ==
    ASSUME TypeOK, NEW r \in Runs, RunRow(r), Promises(r), Move(r),
           Press(r) \/ Begin(r) \/ ConsoleBegin(r) \/ Refuse(r) \/ Pay(r) \/ Finish(r)
             \/ Die(r) \/ Stop(r)
    PROVE  Promises(r)' /\ Fits(r)' /\ (Plans(r)' \/ Begin(r) \/ ConsoleBegin(r))
<1>1. CASE Press(r)
  <2>1. Unpromised(r)' /\ try'[r].at = "idle"
    BY <1>1 DEF Press, RunRow, Unpromised
  <2> QED
    BY <2>1, PlansUnasked DEF Promises, Fits, Asking
<1>2. CASE Begin(r)
  <2>1. try'[r].at = "left"
    <3>1. PICK n : n = cap_left
      OBVIOUS
    <3>2. try'[r] = [Idle EXCEPT !.at = "left", !.left = n]
      BY <1>2, <3>1 DEF Begin, Set, TypeOK
    <3> QED
      BY <3>2 DEF Idle
  <2>2. ~Asking(r)'
    BY <2>1 DEF Asking
  <2> QED
    BY <1>2, <2>2, FitsUnasked, PromisesStill DEF Begin, row
<1>3. CASE ConsoleBegin(r)
  <2>1. PICK asked \in Asked :
          /\ promised' = [promised EXCEPT ![r] = Least(asked, cap_left)]
          /\ Set(r, [Idle EXCEPT !.at = "ready", !.cap = Least(asked, cap_left),
                                 !.missed = IF claimed_units(r) > 0 THEN {"cap"} ELSE {}])
    BY <1>3 DEF ConsoleBegin
  <2>2. PICK c : c \in Nat /\ c = Least(asked, cap_left)
    BY SumTypes, UnitAssumption DEF Least
  <2>3. PICK m : m = IF claimed_units(r) > 0 THEN {"cap"} ELSE {}
    OBVIOUS
  <2>4. promised'[r] = c
    BY <2>1, <2>2 DEF TypeOK
  <2>5. try'[r] = [Idle EXCEPT !.at = "ready", !.cap = c, !.missed = m]
    BY <2>1, <2>2, <2>3 DEF Set, TypeOK
  <2>6. try'[r].cap = c /\ Unpromised(r)'
    BY <1>3, <2>5 DEF Idle, ConsoleBegin, RunRow, Unpromised
  <2> QED
    BY <1>3, <2>2, <2>4, <2>6 DEF Promises, Fits
<1>4. CASE Refuse(r) \/ Finish(r) \/ Die(r) \/ Stop(r)
  <2>1. try'[r].at = "idle"
    <3>1. CASE Refuse(r) \/ Finish(r) \/ Die(r)
      <4>1. try'[r] = Idle
        BY <3>1 DEF Refuse, Finish, Die, Set, TypeOK
      <4> QED
        BY <4>1 DEF Idle
    <3>2. CASE Stop(r)
      BY <3>2 DEF Stop
    <3> QED
      BY <1>4, <3>1, <3>2
  <2>2. /\ status'[r] = "open" => status[r] = "open"
        /\ promised' = promised /\ estimate' = estimate /\ lists' = lists /\ saved' = saved
        /\ journal' = journal /\ listed' = listed
    BY <1>4 DEF Refuse, Finish, Die, Stop, row, TypeOK
  <2>3. ~Asking(r)'
    BY <2>1 DEF Asking
  <2> QED
    BY <2>1, <2>2, <2>3, FitsUnasked, PromisesStill, PlansUnasked
<1>5. CASE Pay(r)
  <2>1. try'[r].at \in {"listing", "buying"}
    <3>1. PICK p, d : try'[r] = [try[r] EXCEPT !.part = p, !.due = d]
      BY <1>5 DEF Pay, Set, TypeOK
    <3> QED
      BY <1>5, <3>1, RunTypes DEF Try, Pay, Spending
  <2>2. ~Asking(r)'
    BY <2>1 DEF Asking
  <2> QED
    BY <1>5, <2>1, <2>2, FitsUnasked, PromisesStill, PlansUnasked DEF Pay, row
<1> QED
  BY <1>1, <1>2, <1>3, <1>4, <1>5

LEMMA FitsPromise ==
    ASSUME TypeOK, NEW r \in Runs, RunRow(r), Promises(r), Move(r), _hold(r) \/ Plan(r)
    PROVE  Promises(r)' /\ Fits(r)' /\ Plans(r)'
<1>1. PICK d, w : \/ Told(r, [try[r] EXCEPT !.at = "listing", !.free = 0, !.due = d, !.missed = {}], TRUE)
                  \/ Told(r, [try[r] EXCEPT !.at = "buying", !.free = 0, !.due = d, !.missed = {}], TRUE)
  BY DEF _hold, Plan
<1>2. try'[r].at \in {"listing", "buying"}
  <2>1. \/ try'[r] = [try[r] EXCEPT !.at = "listing", !.free = 0, !.due = d, !.missed = {}]
        \/ try'[r] = [try[r] EXCEPT !.at = "buying", !.free = 0, !.due = d, !.missed = {}]
    BY <1>1 DEF Told
  <2> QED
    BY <2>1, RunTypes DEF Try
<1>3. ~Asking(r)'
  BY <1>2 DEF Asking
<1>4. /\ Worst(r) \in Nat /\ try[r].at = "asked" /\ Worst(r) <= units(r) /\ status[r] = "open"
      /\ promised' = promised /\ listed' = listed /\ journal' = journal /\ status' = status
      /\ again' = again
  <2>1. Worst(r) \in Nat
    BY LeftIsNat
  <2>2. try[r].at = "asked" /\ Worst(r) <= units(r)
    <3>1. CASE _hold(r)
      BY <3>1 DEF _hold
    <3>2. CASE Plan(r)
      BY <3>2, LeftIsNat DEF Plan, BATCH
    <3> QED
      BY <3>1, <3>2
  <2>3. /\ promised' = promised /\ listed' = listed /\ journal' = journal /\ status' = status
        /\ again' = again
    BY DEF _hold, Plan
  <2>4. status[r] = "open"
    BY <2>2 DEF RunRow
  <2> QED
    BY <2>1, <2>2, <2>3, <2>4
<1>5. Worst(r)' = Worst(r)
  BY DEF _hold, Plan, Worst, ListsLeft, BatchesLeft
<1>6. estimate'[r] \in {estimate[r], listed[r] + Worst(r)}
      /\ (Unpromised(r) => estimate'[r] = listed[r] + Worst(r))
  <2>1. CASE _hold(r)
    BY <2>1 DEF _hold, Unpromised, TypeOK
  <2>2. CASE Plan(r)
    <3>1. BATCH * BatchesLeft(r) = Worst(r)
      BY <2>2, LeftIsNat DEF Plan, BATCH
    <3> QED
      BY <2>2, <3>1 DEF Plan, Unpromised, TypeOK
  <2> QED
    BY <2>1, <2>2
<1>7. listed[r] \in Nat /\ journal[r] \in Nat /\ listed[r] <= journal[r]
      /\ promised[r] \in Nat /\ try[r].cap \in Nat /\ Worst(r) <= try[r].cap
  BY <1>4, RunTypes DEF RunRow, units, Least, Most, TypeOK
<1>8. again = 0 => Worst(r) + listed[r] <= promised[r]
  BY <1>4, <1>7 DEF Promises, RunRow, Asking
<1>9. journal[r] = 0 /\ ~Unpromised(r)' => estimate'[r] = Worst(r)
  <2> SUFFICES ASSUME journal[r] = 0 PROVE estimate'[r] = Worst(r)
    OBVIOUS
  <2>1. listed[r] = 0
    BY <1>7
  <2>2. Unpromised(r) \/ estimate[r] = Worst(r)
    BY DEF Promises
  <2> QED
    BY <1>4, <1>6, <2>1, <2>2
<1>10. Promises(r)'
  BY <1>3, <1>4, <1>5, <1>8, <1>9 DEF Promises
<1> QED
  BY <1>2, <1>3, <1>10, FitsUnasked, PlansUnasked

LEMMA FitsList ==
    ASSUME TypeOK, NEW r \in Runs, RunRow(r), Promises(r), Move(r), SaveList(r)
    PROVE  Promises(r)' /\ Fits(r)' /\ Plans(r)'
<1>1. PICK a, d, c :
        /\ Told(r, [try[r] EXCEPT !.at = a, !.part = 0, !.due = d, !.cap = c], FALSE)
        /\ a \in {"ready", "listing"} /\ c = Most(0, try[r].cap - 1)
  <2>1. /\ try[r].at = "listing"
        /\ Told(r, [try[r] EXCEPT !.at = IF ListsLeft(r) = 1 THEN "ready" ELSE try[r].at, !.part = 0,
                                  !.due = IF ListsLeft(r) = 1 THEN 0 ELSE try[r].due,
                                  !.cap = Most(0, try[r].cap - LIST)], FALSE)
    BY DEF SaveList
  <2>2. PICK a : a = (IF ListsLeft(r) = 1 THEN "ready" ELSE try[r].at)
    OBVIOUS
  <2>3. PICK d : d = (IF ListsLeft(r) = 1 THEN 0 ELSE try[r].due)
    OBVIOUS
  <2>4. PICK c : c = Most(0, try[r].cap - LIST)
    OBVIOUS
  <2>5. Told(r, [try[r] EXCEPT !.at = a, !.part = 0, !.due = d, !.cap = c], FALSE)
    BY <2>1, <2>2, <2>3, <2>4
  <2>6. a \in {"ready", "listing"} /\ c = Most(0, try[r].cap - 1)
    BY <2>1, <2>2, <2>4 DEF LIST
  <2> QED
    BY <2>5, <2>6
<1>2. try'[r] = [try[r] EXCEPT !.at = a, !.part = 0, !.due = d, !.cap = c]
  BY <1>1 DEF Told
<1>3. try'[r].at = a /\ try'[r].cap = c
  BY <1>2, RunTypes DEF Try
<1>4. /\ try[r].at = "listing" /\ ListsLeft(r) > 0 /\ ~Unpromised(r) /\ status[r] = "open"
      /\ r \in Rivals /\ Worst(r) <= try[r].cap
  BY DEF SaveList, RunRow, ListsLeft, Spending
<1>5. /\ lists' = [lists EXCEPT ![r] = lists[r] + 1]
      /\ journal' = [journal EXCEPT ![r] = journal[r] + 1]
      /\ listed' = [listed EXCEPT ![r] = listed[r] + 1]
      /\ UNCHANGED <<status, promised, estimate, saved, again>>
  BY DEF SaveList, LIST, history
<1>6. lists'[r] = lists[r] + 1 /\ journal'[r] = journal[r] + 1 /\ listed'[r] = listed[r] + 1
  BY <1>5 DEF TypeOK
<1>7. Worst(r)' = Worst(r) - 1
  <2>1. ListsLeft(r)' = ListsLeft(r) - 1
    BY <1>4, <1>6, RunTypes DEF ListsLeft
  <2>2. BatchesLeft(r)' = BatchesLeft(r)
    BY <1>5 DEF BatchesLeft
  <2> QED
    BY <2>1, <2>2, RunTypes DEF Worst, LIST, BATCH
<1>8. ~Unpromised(r)'
  BY <1>4, <1>5 DEF Unpromised
<1>9. Promises(r)'
  <2>1. again = 0 => Worst(r) - 1 + (listed[r] + 1) <= promised[r]
    BY <1>4, RunTypes DEF Promises, TypeOK
  <2>2. journal[r] + 1 # 0
    BY RunTypes
  <2> QED
    BY <1>5, <1>6, <1>7, <1>8, <2>1, <2>2 DEF Promises
<1>10. Worst(r) - 1 <= c
  BY <1>1, <1>4, RunTypes DEF Most
<1>11. Fits(r)'
  BY <1>1, <1>3, <1>7, <1>10 DEF Fits
<1> QED
  BY <1>1, <1>3, <1>8, <1>9, <1>11, PlansUnasked

LEMMA FitsBatch ==
    ASSUME TypeOK, NEW r \in Runs, RunRow(r), Promises(r), Move(r), SaveBatch(r)
    PROVE  Promises(r)' /\ Fits(r)' /\ Plans(r)'
<1>1. PICK d : Told(r, [try[r] EXCEPT !.part = 0, !.due = d], FALSE)
  BY DEF SaveBatch
<1>2. try[r].at = "buying" /\ try'[r] = [try[r] EXCEPT !.part = 0, !.due = d]
  BY <1>1 DEF Told, SaveBatch
<1>3. try'[r].at = "buying"
  BY <1>2, RunTypes DEF Try
<1>4. try[r].part > 0 /\ ~Unpromised(r) /\ status[r] = "open"
  BY DEF SaveBatch, RunRow, Spending
<1>5. /\ saved' = [saved EXCEPT ![r] = saved[r] + 1]
      /\ journal' = [journal EXCEPT ![r] = journal[r] + try[r].part]
      /\ UNCHANGED <<status, promised, estimate, lists, listed, again>>
  BY DEF SaveBatch, history
<1>6. saved'[r] = saved[r] + 1 /\ journal'[r] = journal[r] + try[r].part
  BY <1>5 DEF TypeOK
<1>7. Worst(r)' = Worst(r) - 2
  <2>1. ListsLeft(r)' = ListsLeft(r)
    BY <1>5 DEF ListsLeft
  <2>2. BatchesLeft(r)' = BatchesLeft(r) - 1
    BY <1>6, RunTypes DEF BatchesLeft
  <2> QED
    BY <2>1, <2>2, RunTypes DEF Worst, LIST, BATCH
<1>8. ~Unpromised(r)' /\ ~Asking(r)'
  BY <1>3, <1>4, <1>5 DEF Unpromised, Asking
<1>9. Promises(r)'
  <2>1. again = 0 => Worst(r) - 2 + listed[r] <= promised[r]
    BY <1>4, RunTypes DEF Promises, TypeOK
  <2>2. journal[r] + try[r].part # 0
    BY <1>4, RunTypes
  <2> QED
    BY <1>5, <1>6, <1>7, <1>8, <2>1, <2>2 DEF Promises
<1> QED
  BY <1>3, <1>8, <1>9, FitsUnasked, PlansUnasked

LEMMA FitsJournalled ==
    ASSUME TypeOK, NEW r \in Runs, RunRow(r), Promises(r), Move(r), Exhausted(r) \/ Fail(r)
    PROVE  Promises(r)' /\ Fits(r)' /\ Plans(r)'
<1>1. /\ Spending(r) /\ Journalled(r)
      /\ UNCHANGED <<promised, estimate, lists, saved>>
  BY DEF Exhausted, Fail
<1>2. try'[r].at = "idle"
  <2>1. try'[r] = Idle
    BY <1>1 DEF Journalled, Told
  <2> QED
    BY <2>1 DEF Idle
<1>3. ~Asking(r)'
  BY <1>2 DEF Asking
<1>4. /\ journal'[r] = journal[r] + try[r].part
      /\ try[r].part = 0 => listed'[r] = listed[r]
      /\ again' = again + try[r].part
  BY <1>1, RunTypes DEF Journalled, TypeOK
<1>5. Worst(r)' = Worst(r) /\ (Unpromised(r)' <=> Unpromised(r)) /\ status[r] = "open"
  BY <1>1 DEF Worst, ListsLeft, BatchesLeft, Unpromised, RunRow, Spending
<1>6. Promises(r)'
  <2>1. again' = 0 => again = 0 /\ try[r].part = 0
    BY <1>4, RunTypes
  <2>2. journal'[r] = 0 => journal[r] = 0
    BY <1>4, RunTypes
  <2> QED
    BY <1>1, <1>3, <1>4, <1>5, <2>1, <2>2 DEF Promises
<1> QED
  BY <1>2, <1>3, <1>6, FitsUnasked, PlansUnasked

-----------------------------------------------------------------------------
(* The inductive invariant.                                                *)

Budget ==
    /\ TypeOK /\ Money
    /\ \A r \in Runs : RunRow(r) /\ Plans(r) /\ Promises(r) /\ Fits(r)

LEMMA BudgetInit == Init => Budget
<1> SUFFICES ASSUME Init PROVE Budget
  OBVIOUS
<1>1. TypeOK
  BY IdleType, UnitAssumption DEF Init, TypeOK, Limits, NoEstimate
<1>2. ASSUME NEW r \in Runs
      PROVE  /\ status[r] = "none" /\ Unpromised(r) /\ try[r].at = "idle" /\ try[r].part = 0
             /\ try[r].due = 0 /\ journal[r] = 0 /\ listed[r] = 0 /\ ~held[r]
             /\ saved[r] = 0 /\ lists[r] = 0 /\ Wanted[r] \in Nat
  BY RunAssumption DEF Init, Unpromised, Idle
<1>3. ASSUME NEW r \in Runs PROVE RunRow(r) /\ Plans(r) /\ Promises(r) /\ Fits(r)
  <2>1. RunRow(r)
    BY <1>2 DEF RunRow, Spending
  <2> QED
    BY <1>2, <2>1 DEF Plans, Claims, Free, Rest, Ceiling, Promises, Fits, Asking
<1>4. Spent = 0 /\ ToPay = 0 /\ Unjournalled = 0 /\ Beyond = 0
  <2>1. Spent = 0
    BY <1>2, RunAssumption, TotalZero DEF Spent
  <2>2. ToPay = 0
    BY <1>2, RunAssumption, TotalZero DEF ToPay, Need
  <2>3. Unjournalled = 0
    BY <1>2, RunAssumption, TotalZero DEF Unjournalled
  <2>4. Beyond = 0
    BY <1>2, RunAssumption, TotalZero DEF Beyond, Over
  <2> QED
    BY <2>1, <2>2, <2>3, <2>4
<1>5. Money
  BY <1>4, UnitAssumption DEF Init, Money, Accounted, OverKept, KeyRoom, CapRoom
<1> QED
  BY <1>1, <1>3, <1>5 DEF Budget

LEMMA BudgetRun ==
    ASSUME Budget, NEW r \in Runs,
           Press(r) \/ Attempt(r) \/ Exhausted(r) \/ Fail(r) \/ Die(r) \/ Stop(r)
    PROVE  Budget' /\ Move(r)
<1> USE DEF Budget
<1>1. Move(r)
  BY MovePress, MoveBegin, MoveCeiling, MoveConsole, MoveClaims, MoveAsk, MoveHold, MovePlan,
     MoveRefuse, MovePay, MoveList, MoveBatch, MoveFinish, MoveExhausted, MoveFail, MoveDie, MoveStop
     DEF Attempt
<1>2. Promises(r)' /\ Fits(r)' /\ Plans(r)'
  BY <1>1, FitsPlain, FitsCeiling, FitsClaims, FitsAsk, FitsPromise, FitsList, FitsBatch,
     FitsJournalled, PlansBegin, PlansCeiling, PlansConsole, PlansClaims, PlansAsk
     DEF Attempt
<1>3. TypeOK' /\ RunRow(r)' /\ Money'
  BY <1>1, MoneyMoves DEF Move
<1>4. ASSUME NEW q \in Runs \ {r} PROVE RunRow(q)' /\ Plans(q)' /\ Promises(q)' /\ Fits(q)'
  <2>1. RunRow(q)'
    <3>1. SameRow(q) /\ Seen(q) /\ Worst(q)' = Worst(q) /\ (Unpromised(q)' <=> Unpromised(q))
      BY <1>1, OthersCount DEF Move, OnlyRow, OnlyTry
    <3>2. ListsLeft(q)' = ListsLeft(q)
      BY <3>1 DEF SameRow, ListsLeft
    <3>3. RunRow(q)
      OBVIOUS
    <3> QED
      BY <3>1, <3>2, <3>3 DEF RunRow, SameRow, Seen, SameTry, Spending
  <2> QED
    BY <1>1, <2>1, PlansOfOthers, PromisesOfOthers, FitsOfOthers
<1> QED
  BY <1>1, <1>2, <1>3, <1>4

LEMMA BudgetNeighbour == Budget /\ Neighbour => Budget'
<1> SUFFICES ASSUME Budget, Neighbour PROVE Budget'
  OBVIOUS
<1>1. /\ UNCHANGED <<row, try, faults, history>> /\ used' = used + 1 /\ neighbour' = neighbour + 1
      /\ used < KeyLimit /\ neighbour < MaxNeighbour
  BY DEF Neighbour
<1>2. TypeOK'
  BY <1>1, UnitAssumption DEF Budget, TypeOK, row, history
<1>3. /\ Spent' = Spent /\ ToPay' = ToPay /\ Unjournalled' = Unjournalled /\ Beyond' = Beyond
      /\ HeldByAll' = HeldByAll /\ cap_left' = cap_left
  BY <1>1 DEF Spent, ToPay, Unjournalled, Beyond, HeldByAll, cap_left, Need, Over, Held, claim,
              Unpromised, Worst, ListsLeft, BatchesLeft, row
<1>4. Money'
  BY <1>1, <1>3, RunTypes, SumsAreNumbers, NumbersHold
     DEF Budget, TypeOK, Money, Accounted, OverKept, KeyRoom, CapRoom, history
<1>5. ASSUME NEW r \in Runs PROVE RunRow(r)' /\ Plans(r)' /\ Promises(r)' /\ Fits(r)'
  <2>1. RunRow(r) /\ Plans(r) /\ Promises(r) /\ Fits(r) /\ TypeOK /\ Money
    BY DEF Budget
  <2>2. RunRow(r)' /\ Promises(r)' /\ Plans(r)'
    BY <1>1, <1>3, <2>1 DEF RunRow, Spending, Plans, Claims, Free, Rest, Ceiling, Promises,
       Asking, Unpromised, Worst, ListsLeft, BatchesLeft, row, history
  <2>3. ~Alone(r)'
    BY <1>1, <2>1, JournalIsSpent, RunTypes DEF Alone, row
  <2> QED
    BY <2>2, <2>3 DEF Fits
<1> QED
  BY <1>2, <1>4, <1>5 DEF Budget

LEMMA BudgetNext == Budget /\ [Next]_vars => Budget'
<1> SUFFICES ASSUME Budget, [Next]_vars PROVE Budget'
  OBVIOUS
<1>1. CASE \E r \in Runs : Press(r) \/ Attempt(r) \/ Exhausted(r) \/ Fail(r) \/ Die(r) \/ Stop(r)
  BY <1>1, BudgetRun
<1>2. CASE Neighbour
  BY <1>2, BudgetNeighbour
<1>3. CASE UNCHANGED vars
  <2>1. UNCHANGED <<row, key, try, faults, history>>
    BY <1>3 DEF vars
  <2>2. TypeOK'
    BY <2>1 DEF Budget, TypeOK, row, key, history
  <2>3. /\ Spent' = Spent /\ ToPay' = ToPay /\ Unjournalled' = Unjournalled /\ Beyond' = Beyond
        /\ HeldByAll' = HeldByAll /\ cap_left' = cap_left
    BY <2>1 DEF Spent, ToPay, Unjournalled, Beyond, HeldByAll, cap_left, Need, Over, Held, claim,
                Unpromised, Worst, ListsLeft, BatchesLeft, row
  <2>4. Money'
    BY <2>1, <2>3 DEF Budget, Money, Accounted, OverKept, KeyRoom, CapRoom, key, history
  <2>5. ASSUME NEW r \in Runs PROVE RunRow(r)' /\ Plans(r)' /\ Promises(r)' /\ Fits(r)'
    <3>1. RunRow(r) /\ Plans(r) /\ Promises(r) /\ Fits(r)
      BY DEF Budget
    <3> QED
      BY <2>1, <2>3, <3>1 DEF RunRow, Spending, Plans, Claims, Free, Rest, Ceiling, Promises, Fits,
         Alone, Asking, Unpromised, Worst, ListsLeft, BatchesLeft, row, key, history
  <2> QED
    BY <2>2, <2>4, <2>5 DEF Budget
<1> QED
  BY <1>1, <1>2, <1>3 DEF Next

\* In every behaviour the rows of a run agree with its attempt, and the sums of the
\* runs with the key, the journal and what the attempts have read.
THEOREM BudgetHolds == Spec => []Budget
BY BudgetInit, BudgetNext, PTL DEF Spec

\* What the attempts may still pay, and have paid since their last commit, is no more
\* than what the runs have promised.
LEMMA DueIsPromised ==
    ASSUME Budget
    PROVE  Due + Unjournalled <= ToPay /\ Due \in Nat /\ Unjournalled \in Nat /\ ToPay \in Int
<1> DEFINE d == [r \in Runs |-> try[r].due]
           p == [r \in Runs |-> try[r].part]
           n == [r \in Runs |-> Need(r)]
           h == [r \in Runs |-> try[r].due + try[r].part]
<1>1. ASSUME NEW r \in Runs
      PROVE  /\ try[r].due \in Nat /\ try[r].part \in Nat /\ Need(r) \in Int
             /\ try[r].due + try[r].part <= Need(r)
  <2>1. try[r].due \in Nat /\ try[r].part \in Nat /\ Need(r) \in Int /\ Worst(r) \in Nat
    BY LeftIsNat, RunTypes DEF Budget
  <2>2. RunRow(r)
    BY DEF Budget
  <2>3. CASE Spending(r)
    BY <2>1, <2>2, <2>3 DEF RunRow, Spending, Need
  <2>4. CASE ~Spending(r)
    BY <2>1, <2>2, <2>4 DEF RunRow, Need
  <2> QED
    BY <2>1, <2>3, <2>4
<1>2. \A r \in Runs : /\ d[r] \in Nat /\ p[r] \in Nat /\ n[r] \in Int /\ h[r] \in Int
                      /\ h[r] = d[r] + p[r] /\ h[r] <= n[r]
  BY <1>1
<1>3. Due = Total(d, Runs) /\ Unjournalled = Total(p, Runs) /\ ToPay = Total(n, Runs)
  BY DEF Due, Unjournalled, ToPay
<1> HIDE DEF d, p, n, h
<1>4. Total(h, Runs) = Total(d, Runs) + Total(p, Runs) /\ Total(h, Runs) <= Total(n, Runs)
  BY <1>2, RunAssumption, TotalAdd, TotalLe
<1>5. Total(d, Runs) \in Nat /\ Total(p, Runs) \in Nat /\ Total(n, Runs) \in Int
  BY <1>2, RunAssumption, TotalNat, TotalInt
<1> QED
  BY <1>3, <1>4, <1>5

\* Every reading and every write of a run keeps to its type (the columns of runs,
\* competitors and the usage journal): a ceiling and a rest to be paid are never
\* below nothing (ceiling_at_start, claimed_units).
THEOREM BudgetTyped == Spec => []TypeOK
<1>1. Budget => TypeOK
  BY DEF Budget
<1> QED
  BY <1>1, BudgetHolds, PTL

\* For any number of runs, of workers and of units: the key pays for all the work
\* that has been planned (budget_of).
THEOREM KeyIsKept == Spec => []KeyKept
<1>1. Budget => KeyKept
  <2> SUFFICES ASSUME Budget, "key" \notin gaps
               PROVE  used + Due <= KeyLimit + neighbour + again + burnt
    BY DEF KeyKept
  <2>1. Spent + ToPay <= KeyLimit + again /\ used = Spent + Unjournalled + neighbour + burnt
    BY DEF Budget, Money, KeyRoom, Accounted
  <2>2. /\ Spent \in Nat /\ again \in Nat /\ neighbour \in Nat /\ burnt \in Nat
    BY NumbersHold, SumsAreNumbers, UnitAssumption DEF Budget, TypeOK
  <2> QED
    BY <2>1, <2>2, DueIsPromised, UnitAssumption
<1> QED
  BY <1>1, BudgetHolds, PTL

\* What we have spent and what is planned stays within our cap (ceiling_at_start).
THEOREM CapIsKept == Spec => []CapKept
<1>1. Budget => CapKept
  <2> SUFFICES ASSUME Budget, "cap" \notin gaps
               PROVE  Total(journal, Runs) + Unjournalled + Due <= Cap + again
    BY DEF CapKept
  <2>1. Spent + ToPay <= Cap + again /\ Spent = Total(journal, Runs)
    BY DEF Budget, Money, CapRoom, Spent
  <2>2. Spent \in Nat /\ again \in Nat
    BY NumbersHold, SumsAreNumbers DEF Budget, TypeOK
  <2> QED
    BY <2>1, <2>2, DueIsPromised, UnitAssumption
<1> QED
  BY <1>1, BudgetHolds, PTL

\* What a new run is told to be free nobody else holds (claimed_units, budget_of).
THEOREM FreeForAll == Spec => FreeIsFree
<1> DEFINE FreeOf(r) == try'[r].free + used + Total([s \in Runs |-> Held(s)], Runs \ {r}) <= KeyLimit
           Asks(r) == /\ try[r].at = "claimed" /\ try'[r].at = "asked"
                      /\ estimate[r] = NoEstimate /\ "key" \notin try[r].missed /\ burnt = 0
<1>1. ASSUME Budget, [Next]_vars, NEW r \in Runs, Asks(r) PROVE FreeOf(r)
  <2>1. AskKey(r)
    <3>1. ~UNCHANGED try
      BY <1>1
    <3>2. PICK q \in Runs : Press(q) \/ Attempt(q) \/ Exhausted(q) \/ Fail(q) \/ Die(q) \/ Stop(q)
      BY <1>1, <3>1 DEF Next, Neighbour, vars
    <3>3. Move(q)
      BY <1>1, <3>2, BudgetRun
    <3>4. q = r
      BY <1>1, <3>3 DEF Move, OnlyTry, Seen, SameTry
    <3>5. /\ ~Press(r) /\ ~Begin(r) /\ ~ceiling_at_start(r) /\ ~ConsoleBegin(r) /\ ~ReadClaims(r)
          /\ ~_hold(r) /\ ~Plan(r) /\ ~Refuse(r) /\ ~Pay(r) /\ ~SaveList(r) /\ ~SaveBatch(r)
          /\ ~Finish(r) /\ ~Exhausted(r) /\ ~Fail(r) /\ ~Stop(r)
      BY <1>1, BudgetRun DEF Budget, RunRow, Press, Begin, ceiling_at_start, ConsoleBegin,
         ReadClaims, _hold, Plan, Refuse, Pay, SaveList, SaveBatch, Finish, Exhausted, Fail, Stop, Spending
    <3>6. ~Die(r)
      BY <1>1, IdleType DEF Budget, TypeOK, Die, Set, Idle
    <3> QED
      BY <3>2, <3>4, <3>5, <3>6 DEF Attempt
  <2>2. PICK n : n = KeyLimit - used - try[r].claims
    OBVIOUS
  <2>3. try'[r] = [try[r] EXCEPT !.at = "asked", !.claims = 0, !.free = n]
    BY <1>1, <2>1, <2>2 DEF AskKey, Set, Budget, TypeOK
  <2>4. try'[r].free = n
    BY <1>1, <2>3, RunTypes DEF Try, Budget
  <2>5. HeldByAll <= try[r].claims
    BY <1>1 DEF Budget, Plans, Claims, Unpromised
  <2>6. Total([s \in Runs |-> Held(s)], Runs \ {r}) <= HeldByAll
        /\ Total([s \in Runs |-> Held(s)], Runs \ {r}) \in Nat
    <3> DEFINE h == [s \in Runs |-> Held(s)]
    <3>1. \A s \in Runs : h[s] \in Nat
      BY <1>1, RunTypes DEF Budget
    <3>2. HeldByAll = Total(h, Runs) /\ IsFiniteSet(Runs \ {r})
      BY RunAssumption, FS_Subset DEF HeldByAll
    <3> HIDE DEF h
    <3>3. Total(h, Runs \ {r}) <= Total(h, Runs) /\ Total(h, Runs \ {r}) \in Nat
      BY <3>1, <3>2, RunAssumption, TotalPart, TotalNat
    <3> QED
      BY <3>2, <3>3 DEF h
  <2>7. HeldByAll \in Nat /\ used \in Nat /\ try[r].claims \in Nat
    BY <1>1, NumbersHold, SumsAreNumbers, RunTypes DEF Budget
  <2> QED
    BY <2>2, <2>4, <2>5, <2>6, <2>7, UnitAssumption
<1>2. Budget /\ [Next]_vars =>
        [\A r \in Runs :
           try[r].at = "claimed" /\ try'[r].at = "asked"
           /\ estimate[r] = NoEstimate /\ "key" \notin try[r].missed /\ burnt = 0
              => try'[r].free + used + Total([s \in Runs |-> Held(s)], Runs \ {r}) <= KeyLimit]_vars
  BY <1>1
<1> QED
  BY <1>2, BudgetHolds, PTL DEF Spec, FreeIsFree

\* A run whose plan has fitted once is not refused when it is carried on
\* (claimed_units(exclude_run_id), ceiling_at_start).
THEOREM ContinuationIsNotRefused == Spec => ContinuationFits
<1> DEFINE Carried(r) == /\ try[r].at = "asked" /\ estimate[r] # NoEstimate
                         /\ gaps = {} /\ again = 0 /\ used = journal[r]
           Closed(r) == status[r] = "open" /\ status'[r] = "closed"
<1>1. ASSUME Budget, [Next]_vars, NEW r \in Runs, Carried(r), Closed(r) PROVE FALSE
  <2>1. Refuse(r)
    <3>1. ~UNCHANGED status
      BY <1>1
    <3>2. PICK q \in Runs : Press(q) \/ Attempt(q) \/ Exhausted(q) \/ Fail(q) \/ Die(q) \/ Stop(q)
      BY <1>1, <3>1 DEF Next, Neighbour, vars, row
    <3>3. Move(q)
      BY <1>1, <3>2, BudgetRun
    <3>4. q = r
      BY <1>1, <3>3 DEF Move, OnlyRow, SameRow
    <3>5. /\ ~Press(r) /\ ~Begin(r) /\ ~ceiling_at_start(r) /\ ~ConsoleBegin(r) /\ ~ReadClaims(r)
          /\ ~AskKey(r) /\ ~Pay(r) /\ ~SaveList(r) /\ ~SaveBatch(r)
          /\ ~Finish(r) /\ ~Exhausted(r) /\ ~Fail(r) /\ ~Stop(r)
      BY <1>1 DEF Press, Begin, ceiling_at_start, ConsoleBegin,
         ReadClaims, AskKey, Pay, SaveList, SaveBatch, Finish, Exhausted, Fail, Stop, Spending
    <3>6. ~_hold(r) /\ ~Plan(r) /\ ~Die(r)
      BY <1>1 DEF _hold, Plan, Die, row
    <3> QED
      BY <3>2, <3>4, <3>5, <3>6 DEF Attempt
  <2>2. Worst(r) <= try[r].cap /\ Worst(r) <= try[r].free
    BY <1>1 DEF Budget, Fits, Unpromised, Alone, Asking
  <2>3. Worst(r) \in Nat /\ try[r].cap \in Nat /\ try[r].free \in Int
    BY <1>1, LeftIsNat, RunTypes DEF Budget
  <2>4. Worst(r) <= units(r) /\ units(r) \in Int
    BY <2>2, <2>3 DEF units, Least, Most
  <2> QED
    BY <2>1, <2>3, <2>4 DEF Refuse
<1>2. Budget /\ [Next]_vars =>
        [\A r \in Runs :
           try[r].at = "asked" /\ estimate[r] # NoEstimate
           /\ gaps = {} /\ again = 0 /\ used = journal[r]
              => ~(status[r] = "open" /\ status'[r] = "closed")]_vars
  BY <1>1
<1> QED
  BY <1>2, BudgetHolds, PTL DEF Spec, ContinuationFits
=============================================================================
