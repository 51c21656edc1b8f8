-------------------------- MODULE SiteLettersProofs --------------------------
(***************************************************************************)
(* One direction, and one address, of a site at a time: proofs about       *)
(* SiteLetters for any number of letters, addresses, builds and sends.     *)
(***************************************************************************)
EXTENDS SiteLetters, FiniteSetTheorems, TLAPS

Letter == [stage : Stages, to : Addresses, attempt : Nat,
           status : PENDING \cup {"sent", "bounced", "stopped"},
           mid : BOOLEAN, why : {"", "dns", "withdrawn"}, back : BOOLEAN]
Place == {"home", "way", "reached", "failed"}
Task == [pc : {"idle", "checked", "leaving", "handing"}, at : Nat, before : BOOLEAN]
Choice == [stage : Stages, to : Addresses, attempt : Nat]

Typed ==
    /\ letters \in Seq(Letter) /\ out \in Seq(Place) /\ Len(out) = Len(letters)
    /\ build \in [Builders -> Choice \cup {NoChoice}]
    /\ send \in [Clicks -> Task]
    /\ dnsPass \in Nat

\* A send holds a letter that exists; one that has handed a letter over holds it
\* alone, and the platform has not taken it yet.
Holds ==
    /\ \A c \in Clicks : send[c].pc # "idle" => send[c].at \in DOMAIN letters
    /\ \A c \in Clicks : send[c].pc = "handing" =>
         letters[send[c].at].status = "sending" /\ out[send[c].at] \in {"home", "failed"}
    /\ \A c, d \in Clicks :
         send[c].pc = "handing" /\ send[d].pc = "handing" /\ send[c].at = send[d].at => c = d

\* A letter bounced has failed, and nobody is at the one the DNS pass has judged.
Failed ==
    /\ \A i \in DOMAIN letters : letters[i].status = "bounced" => out[i] = "failed"
    /\ dnsPass # NoLetter =>
         dnsPass \in DOMAIN letters /\ letters[dnsPass].status = "bounced" /\ Settled(dnsPass)

\* The letter goes, has gone, or will go unless the claim is lost.
Going(i) ==
    \/ letters[i].status = "queued" /\ \E c \in Clicks : send[c].pc = "checked" /\ send[c].at = i
    \/ letters[i].status = "sending"
    \/ out[i] \in {"way", "reached"}

OneGoing ==
    \A i, j \in DOMAIN letters :
      ~dead(i) /\ ~dead(j) /\ Going(i) /\ Going(j) => letters[i].stage = letters[j].stage

RoleInv == Typed /\ Holds /\ Failed /\ OneGoing

-----------------------------------------------------------------------------
\* The letters of a direction hold the first attempts, each one; a build that has
\* chosen holds one of them or the next, and every letter of an earlier attempt is
\* dead or was returned after a silent DNS.
Of(s) == {i \in DOMAIN letters : letters[i].stage = s}
Over(i) == dead(i) \/ letters[i].back

Keys ==
    /\ \A i, j \in DOMAIN letters :
         letters[i].stage = letters[j].stage /\ letters[i].attempt = letters[j].attempt => i = j
    /\ \A i \in DOMAIN letters : letters[i].attempt <= Cardinality(Of(letters[i].stage))
    /\ \A s \in Stages : \A m \in 1..Cardinality(Of(s)) :
         \E i \in Of(s) : letters[i].attempt = m

Choices ==
    \A b \in Builders : build[b] # NoChoice =>
      /\ build[b].attempt \in 1..(Cardinality(Of(build[b].stage)) + 1)
      /\ \A i \in Of(build[b].stage) : letters[i].attempt < build[b].attempt => Over(i)

InOrder ==
    \A i, j \in DOMAIN letters :
      letters[i].stage = letters[j].stage /\ letters[i].attempt < letters[j].attempt => Over(i)

TurnInv == Keys /\ Choices /\ InOrder

-----------------------------------------------------------------------------
(* What a step does to one row.                                            *)

\* The letter keeps its direction and its attempt, is not over unless it was, and
\* does not go unless it went.
Alike(i) ==
    /\ letters'[i].stage = letters[i].stage /\ letters'[i].attempt = letters[i].attempt
    /\ Over(i) => Over(i)'
Kept(i) == Alike(i) /\ (~dead(i)' /\ Going(i)' => ~dead(i) /\ Going(i))

\* The step rewrites one row and moves one letter.
Edited(i, r, o) ==
    /\ i \in DOMAIN letters /\ r \in Letter /\ o \in Place
    /\ letters' = [letters EXCEPT ![i] = r] /\ out' = [out EXCEPT ![i] = o]

\* Every row is as before, but for one.
OneRow(i, r, o) ==
    /\ DOMAIN letters' = DOMAIN letters /\ i \in DOMAIN letters /\ r \in Letter
    /\ letters'[i] = r /\ out'[i] = o
    /\ \A j \in DOMAIN letters : j # i => letters'[j] = letters[j] /\ out'[j] = out[j]

LEMMA EditedRows ==
    ASSUME Typed, NEW i, NEW r, NEW o, Edited(i, r, o)
    PROVE  /\ OneRow(i, r, o)
           /\ letters' \in Seq(Letter) /\ out' \in Seq(Place) /\ Len(out') = Len(letters')
<1>1. DOMAIN letters = 1..Len(letters) /\ DOMAIN out = DOMAIN letters
  BY DEF Typed
<1>2. letters' \in Seq(Letter) /\ Len(letters') = Len(letters) /\ DOMAIN letters' = DOMAIN letters
  BY <1>1 DEF Edited, Typed
<1>3. out' \in Seq(Place) /\ Len(out') = Len(out)
  BY <1>1 DEF Edited, Typed
<1>4. letters'[i] = r /\ out'[i] = o
  BY <1>1 DEF Edited, Typed
<1>5. \A j \in DOMAIN letters : j # i => letters'[j] = letters[j] /\ out'[j] = out[j]
  BY <1>1 DEF Edited, Typed
<1> QED
  BY <1>1, <1>2, <1>3, <1>4, <1>5 DEF OneRow, Edited, Typed

LEMMA RowTypes ==
    ASSUME Typed
    PROVE  /\ \A i \in DOMAIN letters : letters[i] \in Letter /\ out[i] \in Place
           /\ DOMAIN out = DOMAIN letters /\ DOMAIN letters = 1..Len(letters)
           /\ Len(letters) \in Nat
BY DEF Typed

\* While the rows are alike, the order of the attempts stays.
LEMMA TurnKept ==
    ASSUME TurnInv, DOMAIN letters' = DOMAIN letters,
           \A i \in DOMAIN letters : Alike(i),
           \A b \in Builders : build'[b] = build[b] \/ build'[b] = NoChoice
    PROVE  TurnInv'
<1>1. \A s : Of(s)' = Of(s)
  BY DEF Of, Alike
<1>2. Keys'
  BY <1>1 DEF TurnInv, Keys, Alike, Of
<1>3. Choices'
  BY <1>1 DEF TurnInv, Choices, Alike, Of
<1>4. InOrder'
  BY DEF TurnInv, InOrder, Alike
<1> QED
  BY <1>2, <1>3, <1>4 DEF TurnInv

LEMMA GoingKept ==
    ASSUME OneGoing, DOMAIN letters' = DOMAIN letters,
           \A i \in DOMAIN letters : Kept(i)
    PROVE  OneGoing'
BY DEF OneGoing, Kept, Alike

-----------------------------------------------------------------------------
(* Steps that rewrite a row nobody hands over any more.                    *)

RowsInv == Typed /\ Holds /\ Failed

\* The sends go on or end.
Ending == \A c \in Clicks : send'[c] = send[c] \/ send'[c] = Idle

\* The row r in the place of letter i: it keeps its key, is not brought back to life
\* and is not set going.
Tame(i, r, o) ==
    /\ r.stage = letters[i].stage /\ r.attempt = letters[i].attempt
    /\ r.to = letters[i].to /\ r.back = letters[i].back
    /\ \A c \in Clicks : send'[c].pc = "handing" => send'[c].at # i
    /\ r.status = "bounced" => o = "failed"
    /\ letters[i].status = "bounced" => r.status = "bounced"
    /\ withdrawn(i) => r.status = "bounced" \/ (r.status = "stopped" /\ r.why = "withdrawn")
    /\ r.status = "queued" => letters[i].status \in PENDING
    /\ r.status = "sending" => letters[i].status = "sending"
    /\ o \in {"way", "reached"} => out[i] \in {"way", "reached"} \/ letters[i].status = "sending"

LEMMA TameKept ==
    ASSUME RowsInv, NEW i, NEW r, NEW o, Edited(i, r, o), Tame(i, r, o),
           Ending, send' \in [Clicks -> Task], build' = build, dnsPass' = dnsPass,
           buried \subseteq buried'
    PROVE  RowsInv' /\ DOMAIN letters' = DOMAIN letters /\ \A j \in DOMAIN letters : Kept(j)
<1>1. OneRow(i, r, o) /\ Typed'
  BY EditedRows DEF RowsInv, Typed
<1>2. Holds'
  BY <1>1 DEF RowsInv, Holds, OneRow, Ending, Idle, Tame
<1>3. Failed'
  BY <1>1 DEF RowsInv, Failed, OneRow, Ending, Idle, Tame, Settled, NoLetter
<1>4. \A j \in DOMAIN letters : dead(j) => dead(j)'
  BY <1>1 DEF OneRow, Tame, dead, withdrawn, PENDING
<1>5. \A j \in DOMAIN letters : Going(j)' => Going(j)
  BY <1>1 DEF OneRow, Tame, Going, Ending, Idle, PENDING
<1>6. \A j \in DOMAIN letters : Alike(j)
  BY <1>1, <1>4 DEF OneRow, Tame, Alike, Over
<1> QED
  BY <1>1, <1>2, <1>3, <1>4, <1>5, <1>6 DEF RowsInv, OneRow, Kept

\* An event, a reply, a person.
LEMMA WorldTame ==
    ASSUME RowsInv, WorldStep
    PROVE  RowsInv' /\ DOMAIN letters' = DOMAIN letters /\ \A j \in DOMAIN letters : Kept(j)
<1> PICK i \in DOMAIN letters :
       \/ Delivered(i) \/ (\E k \in {"hard", "soft", "dns"} : Bounced(i, k))
       \/ MailboxGone(i) \/ Answer(i)
       \/ ReturnToQueue(i) \/ FoundSent(i) \/ Skip(i) \/ WithdrawOffer(i)
  BY DEF WorldStep
<1> USE RowTypes DEF RowsInv
<1>0. send' = send /\ build' = build /\ dnsPass' = dnsPass /\ buried \subseteq buried'
  BY DEF Delivered, Bounced, MailboxGone, Answer, ReturnToQueue, FoundSent, Skip, WithdrawOffer,
         Tell, site
<1>1. Ending /\ send' \in [Clicks -> Task]
  BY <1>0 DEF Ending, Typed
<1>2. ASSUME NEW r, NEW o, Edited(i, r, o), Tame(i, r, o)
      PROVE  RowsInv' /\ DOMAIN letters' = DOMAIN letters /\ \A j \in DOMAIN letters : Kept(j)
  BY <1>0, <1>1, <1>2, TameKept
<1> DEFINE Row == letters[i]
<1>3. Row \in Letter /\ out[i] \in Place
  BY DEF RowsInv
<1>4. out' = out => out' = [out EXCEPT ![i] = out[i]]
  BY DEF Typed
<1>5. CASE Delivered(i)
  <2>1. Edited(i, Proved(Row), "reached")
    BY <1>3, <1>5 DEF Delivered, Tell, Edited, Proved, Letter, Place, PENDING
  <2>2. Tame(i, Proved(Row), "reached")
    BY <1>0, <1>3, <1>5 DEF Delivered, Tame, Proved, Letter, PENDING, Holds, Failed, withdrawn
  <2> QED
    BY <1>2, <2>1, <2>2
<1>6. ASSUME NEW k \in {"hard", "soft", "dns"}, Bounced(i, k)
      PROVE  RowsInv' /\ DOMAIN letters' = DOMAIN letters /\ \A j \in DOMAIN letters : Kept(j)
  <2> DEFINE r == [Row EXCEPT !.status = "bounced", !.why = IF k = "dns" THEN "dns" ELSE ""]
  <2>1. Edited(i, r, "failed")
    BY <1>3, <1>6 DEF Bounced, Tell, Edited, Letter, Place, PENDING
  <2>2. Tame(i, r, "failed")
    BY <1>0, <1>3, <1>6 DEF Bounced, Tame, Letter, Holds
  <2> QED
    BY <1>2, <2>1, <2>2
<1>7. CASE MailboxGone(i)
  <2> DEFINE r == [Row EXCEPT !.status = CASE @ = "sent" -> "bounced"
                                           [] @ = "queued" -> "stopped"
                                           [] OTHER -> @]
  <2>1. Edited(i, r, "failed")
    BY <1>3, <1>7 DEF MailboxGone, Tell, Edited, Letter, Place, PENDING
  <2>2. Tame(i, r, "failed")
    BY <1>0, <1>3, <1>7 DEF MailboxGone, Tame, Letter, PENDING, Holds, withdrawn
  <2> QED
    BY <1>2, <2>1, <2>2
<1>8. CASE Answer(i)
  <2> DEFINE r == [Row EXCEPT !.status = IF @ = "queued" THEN "stopped" ELSE @]
  <2>1. Edited(i, r, "reached")
    BY <1>3, <1>8 DEF Answer, Tell, Edited, Letter, Place, PENDING
  <2>2. Tame(i, r, "reached")
    BY <1>0, <1>3, <1>8 DEF Answer, Tame, Letter, PENDING, Holds, Failed, withdrawn
  <2> QED
    BY <1>2, <2>1, <2>2
<1>9. CASE ReturnToQueue(i)
  <2> DEFINE r == [Row EXCEPT !.status = "queued"]
  <2>1. Edited(i, r, out[i])
    BY <1>3, <1>4, <1>9 DEF ReturnToQueue, Edited, Letter, PENDING
  <2>2. Tame(i, r, out[i])
    BY <1>0, <1>3, <1>9 DEF ReturnToQueue, Tame, Letter, PENDING, Settled, withdrawn
  <2> QED
    BY <1>2, <2>1, <2>2
<1>10. CASE FoundSent(i)
  <2> DEFINE r == [Row EXCEPT !.status = "sent"]
  <2>1. Edited(i, r, out[i])
    BY <1>3, <1>4, <1>10 DEF FoundSent, Edited, Letter, PENDING
  <2>2. Tame(i, r, out[i])
    BY <1>0, <1>3, <1>10 DEF FoundSent, Tame, Letter, PENDING, Settled, withdrawn
  <2> QED
    BY <1>2, <2>1, <2>2
<1>11. CASE Skip(i)
  <2> DEFINE r == [Row EXCEPT !.status = "stopped"]
  <2>1. Edited(i, r, out[i])
    BY <1>3, <1>4, <1>11 DEF Skip, Edited, Letter, PENDING
  <2>2. Tame(i, r, out[i])
    BY <1>0, <1>3, <1>11 DEF Skip, Tame, Letter, PENDING, Holds, withdrawn
  <2> QED
    BY <1>2, <2>1, <2>2
<1>12. CASE WithdrawOffer(i)
  <2> DEFINE r == Left(Row, Row.mid)
  <2>1. Edited(i, r, out[i])
    BY <1>3, <1>4, <1>12 DEF WithdrawOffer, Left, Edited, Letter, PENDING
  <2>2. Tame(i, r, out[i])
    BY <1>0, <1>3, <1>12 DEF WithdrawOffer, Left, Tame, Letter, PENDING, Holds, withdrawn
  <2> QED
    BY <1>2, <2>1, <2>2
<1> QED
  BY <1>5, <1>6, <1>7, <1>8, <1>9, <1>10, <1>11, <1>12

-----------------------------------------------------------------------------
(* The steps of a send.                                                    *)

Rows == <<letters, out, buried>>

LEMMA RowsStay ==
    ASSUME UNCHANGED Rows, NEW j \in DOMAIN letters
    PROVE  Alike(j) /\ (dead(j)' <=> dead(j))
BY DEF Rows, Alike, Over, dead, withdrawn

\* Check is the one step that sets a letter going: no letter of another direction
\* is alive.
LEMMA CheckKeeps ==
    ASSUME RoleInv, NEW c \in Clicks, NEW i \in DOMAIN letters, Check(c, i)
    PROVE  RoleInv' /\ DOMAIN letters' = DOMAIN letters /\ \A j \in DOMAIN letters : Alike(j)
<1> USE RowTypes DEF RoleInv
<1> DEFINE pc == IF roles_elsewhere(letters[i].stage) # {} THEN "leaving" ELSE "checked"
<1>1. UNCHANGED <<Rows, build, dnsPass>>
  BY DEF Check, Rows, site
<1>2. send' = [send EXCEPT ![c] = [pc |-> pc, at |-> i, before |-> letters[i].mid]]
  BY DEF Check
<1>3. Typed'
  <2>1. pc \in {"leaving", "checked"}
    OBVIOUS
  <2>2. i \in Nat /\ letters[i] \in Letter
    OBVIOUS
  <2>3. letters[i].mid \in BOOLEAN
    BY <2>2 DEF Letter
  <2>4. [pc |-> pc, at |-> i, before |-> letters[i].mid] \in Task
    BY <2>1, <2>2, <2>3 DEF Task
  <2> HIDE DEF pc
  <2> QED
    BY <1>1, <1>2, <2>4 DEF Typed, Rows
<1>4. /\ send'[c].pc = pc /\ send'[c].at = i
      /\ \A d \in Clicks : d # c => send'[d] = send[d]
  BY <1>2 DEF Typed
<1>5. pc \in {"leaving", "checked"} /\ letters[i].status = "queued"
  BY DEF Check
<1>6. Holds'
  <2> HIDE DEF pc
  <2> QED
    BY <1>1, <1>4, <1>5 DEF Holds, Rows
<1>7. Failed'
  <2> HIDE DEF pc
  <2> QED
    BY <1>1, <1>4, <1>5 DEF Failed, Rows, Settled
<1>8. \A j \in DOMAIN letters : Alike(j) /\ (dead(j)' <=> dead(j))
  BY <1>1, RowsStay
<1>9. \A j \in DOMAIN letters : Going(j)' => Going(j) \/ (j = i /\ pc = "checked")
  <2> HIDE DEF pc
  <2> QED
    BY <1>1, <1>4, <1>5 DEF Going, Rows
<1>10. pc = "checked" => \A j \in DOMAIN letters : ~dead(j) => letters[j].stage = letters[i].stage
  <2>1. SUFFICES ASSUME pc = "checked", NEW j \in DOMAIN letters, ~dead(j),
                        letters[j].stage # letters[i].stage
                 PROVE  FALSE
    OBVIOUS
  <2>2. letters[j].stage \in roles_elsewhere(letters[i].stage)
    BY <2>1 DEF roles_elsewhere
  <2> QED
    BY <2>1, <2>2
<1>11. OneGoing'
  <2> HIDE DEF pc
  <2> QED
    BY <1>1, <1>8, <1>9, <1>10 DEF OneGoing, Rows
<1> QED
  BY <1>1, <1>3, <1>6, <1>7, <1>8, <1>11 DEF Rows

LEMMA ClaimKeeps ==
    ASSUME RowsInv, NEW c \in Clicks, Claim(c)
    PROVE  RowsInv' /\ DOMAIN letters' = DOMAIN letters /\ \A j \in DOMAIN letters : Kept(j)
<1> USE RowTypes DEF RowsInv
<1> DEFINE i == send[c].at
<1>0. i \in DOMAIN letters /\ send[c] \in Task /\ letters[i] \in Letter
  BY DEF Claim, Holds, Typed
<1>1. CASE letters[i].status = "queued"
  <2> DEFINE r == [letters[i] EXCEPT !.status = "sending", !.mid = TRUE]
  <2>1. r \in Letter /\ r.status = "sending" /\ r.stage = letters[i].stage /\ r.to = letters[i].to
        /\ r.attempt = letters[i].attempt /\ r.back = letters[i].back
    BY <1>0 DEF Letter, PENDING
  <2>2. letters' = [letters EXCEPT ![i] = r] /\ out' = out /\ out[i] \in {"home", "failed"}
        /\ UNCHANGED <<buried, build, dnsPass>> /\ send' = [send EXCEPT ![c].pc = "handing"]
    BY <1>0, <1>1 DEF Claim, Step, site
  <2>3. Edited(i, r, out[i])
    BY <1>0, <2>1, <2>2 DEF Edited, Typed
  <2>4. /\ send' \in [Clicks -> Task] /\ send'[c].pc = "handing" /\ send'[c].at = i
        /\ \A d \in Clicks : d # c => send'[d] = send[d]
    BY <2>2, <1>0 DEF Typed, Task
  <2> HIDE DEF r
  <2>5. OneRow(i, r, out[i]) /\ Typed'
    BY <2>2, <2>3, <2>4, EditedRows DEF Typed
  <2>6. send[c].pc = "checked"
    BY DEF Claim
  <2>7. Holds'
    BY <2>1, <2>2, <2>4, <2>5, <2>6, <1>0, <1>1 DEF Holds, OneRow
  <2>8. Failed'
    BY <2>1, <2>2, <2>4, <2>5, <1>0, <1>1 DEF Failed, OneRow, Settled
  <2>9. \A j \in DOMAIN letters : dead(j) <=> dead(j)'
    BY <2>1, <2>2, <2>5, <1>1 DEF OneRow, dead, withdrawn, PENDING
  <2>10. \A j \in DOMAIN letters : Going(j)' => Going(j)
    BY <2>1, <2>2, <2>4, <2>5, <2>6, <1>1 DEF Going, OneRow
  <2>11. \A j \in DOMAIN letters : Alike(j)
    BY <2>1, <2>5, <2>9 DEF OneRow, Alike, Over
  <2> QED
    BY <2>5, <2>7, <2>8, <2>9, <2>10, <2>11 DEF Kept, OneRow
<1>2. CASE letters[i].status # "queued"
  <2>1. UNCHANGED <<Rows, build, dnsPass>> /\ send' = [send EXCEPT ![c] = Idle]
    BY <1>2 DEF Claim, Finish, Rows, site
  <2>2. Idle \in Task /\ Idle.pc = "idle" /\ Idle.at = 0
    BY DEF Idle, Task, NoLetter
  <2>3. send' \in [Clicks -> Task] /\ \A d \in Clicks : send'[d] = send[d] \/ send'[d] = Idle
    BY <2>1, <2>2 DEF Typed
  <2>4. RowsInv'
    BY <2>1, <2>2, <2>3 DEF Typed, Holds, Failed, Settled, Rows, NoLetter
  <2>5. \A j \in DOMAIN letters : Going(j)' => Going(j)
    BY <2>1, <2>2, <2>3 DEF Going, Rows
  <2> QED
    BY <2>1, <2>4, <2>5, RowsStay DEF Kept, Rows
<1> QED
  BY <1>1, <1>2

\* The steps after the check, but for the claim: the row leaves the send's hands.
LEMMA SendTame ==
    ASSUME RowsInv, NEW c \in Clicks,
           LeaveQueue(c) \/ Postpone(c) \/ Take(c) \/ LoseAnswer(c) \/ Refuse(c)
    PROVE  RowsInv' /\ DOMAIN letters' = DOMAIN letters /\ \A j \in DOMAIN letters : Kept(j)
<1> USE RowTypes DEF RowsInv
<1> DEFINE i == send[c].at
<1>1. i \in DOMAIN letters /\ letters[i] \in Letter /\ out[i] \in Place /\ send[c].pc # "idle"
  BY DEF LeaveQueue, Postpone, Take, LoseAnswer, Refuse, Holds
<1>2. buried' = buried /\ build' = build /\ dnsPass' = dnsPass
  BY DEF LeaveQueue, Postpone, Take, LoseAnswer, Refuse, site
<1>3. Idle \in Task /\ Idle.pc = "idle" /\ Idle.at = 0
  BY DEF Idle, Task, NoLetter
<1>4. ASSUME Finish(c)
      PROVE  Ending /\ send' \in [Clicks -> Task] /\ send'[c] = Idle
  BY <1>3, <1>4 DEF Finish, Ending, Typed
<1>5. ASSUME NEW r, NEW o, Edited(i, r, o), Tame(i, r, o), Finish(c)
      PROVE  RowsInv' /\ DOMAIN letters' = DOMAIN letters /\ \A j \in DOMAIN letters : Kept(j)
  BY <1>2, <1>4, <1>5, TameKept
<1>6. ASSUME UNCHANGED Rows, send' \in [Clicks -> Task],
             \A d \in Clicks : send'[d].pc = "handing" => send'[d] = send[d],
             \A d \in Clicks : send'[d].pc # "idle" => send'[d].at = send[d].at /\ send[d].pc # "idle",
             \A d \in Clicks : send'[d].at \in {0, send[d].at},
             \A d \in Clicks : send'[d].pc = "checked" =>
               send'[d] = send[d] \/ letters[send[d].at].status # "queued"
      PROVE  RowsInv' /\ DOMAIN letters' = DOMAIN letters /\ \A j \in DOMAIN letters : Kept(j)
  <2>1. Typed'
    BY <1>2, <1>6 DEF Typed, Rows
  <2>2. Holds'
    BY <1>6 DEF Holds, Rows
  <2>3. Failed'
    BY <1>2, <1>6 DEF Failed, Settled, Rows, NoLetter
  <2>4. \A j \in DOMAIN letters : Going(j)' => Going(j)
    BY <1>6 DEF Going, Rows
  <2> QED
    BY <2>1, <2>2, <2>3, <2>4, <1>6, RowsStay DEF Kept, Rows
<1>7. CASE LeaveQueue(c)
  <2>1. CASE letters[i].status = "queued"
    <3> DEFINE r == Left(letters[i], send[c].before)
    <3>1. send[c].before \in BOOLEAN
      BY DEF Typed, Task
    <3>2. r \in Letter
      BY <1>1, <3>1 DEF Left, Letter, PENDING
    <3>3. letters' = [letters EXCEPT ![i] = r] /\ Finish(c) /\ out' = out
      BY <1>1, <1>7, <2>1 DEF LeaveQueue
    <3>4. out' = [out EXCEPT ![i] = out[i]]
      BY <1>1, <3>3 DEF Typed
    <3>5. Edited(i, r, out[i]) /\ Finish(c)
      BY <1>1, <3>2, <3>3, <3>4 DEF Edited
    <3>6. Tame(i, r, out[i])
      BY <1>1, <1>3, <1>4, <2>1, <3>5 DEF Left, Tame, Letter, PENDING, Holds, Ending, withdrawn
    <3> QED
      BY <1>5, <3>5, <3>6
  <2>2. CASE letters[i].status # "queued"
    <3>1. UNCHANGED Rows /\ send' = [send EXCEPT ![c].pc = "checked"]
      BY <1>2, <1>7, <2>2 DEF LeaveQueue, Step, Rows
    <3>2. /\ send' \in [Clicks -> Task] /\ send'[c].pc = "checked" /\ send'[c].at = i
          /\ \A d \in Clicks : d # c => send'[d] = send[d]
      BY <3>1 DEF Typed, Task
    <3> QED
      BY <1>1, <1>6, <2>2, <3>1, <3>2
  <2> QED
    BY <2>1, <2>2
<1>8. CASE Postpone(c)
  <2>1. UNCHANGED Rows /\ Finish(c)
    BY <1>8 DEF Postpone, Rows, site
  <2> QED
    BY <1>3, <1>4, <1>6, <2>1 DEF Ending
<1>9. CASE Take(c)
  <2> DEFINE r == [letters[i] EXCEPT !.status = "sent"]
  <2>1. letters[i].status = "sending" /\ Finish(c)
    BY <1>9 DEF Take, Holds
  <2>2. Edited(i, r, "way")
    BY <1>1, <1>9, <2>1 DEF Take, Edited, Letter, Place, PENDING
  <2>3. Tame(i, r, "way")
    BY <1>1, <1>3, <1>4, <1>9, <2>1 DEF Take, Tame, Letter, PENDING, Holds, Ending, withdrawn
  <2> QED
    BY <1>5, <2>1, <2>2, <2>3
<1>10. CASE LoseAnswer(c)
  <2>1. PICK taken \in BOOLEAN : out' = [out EXCEPT ![i] = IF taken THEN "way" ELSE @]
    BY <1>10 DEF LoseAnswer
  <2> DEFINE o == IF taken THEN "way" ELSE out[i]
  <2>2. letters[i].status = "sending" /\ Finish(c) /\ send[c].pc = "handing"
    BY <1>10 DEF LoseAnswer, Holds
  <2>3. letters' = letters /\ letters' = [letters EXCEPT ![i] = letters[i]]
    BY <1>10 DEF LoseAnswer, Typed
  <2>4. Edited(i, letters[i], o)
    BY <1>1, <2>1, <2>3 DEF Edited, Place, Typed
  <2>5. Tame(i, letters[i], o)
    BY <1>1, <1>3, <1>4, <2>2 DEF Tame, PENDING, Holds, Ending, withdrawn
  <2> QED
    BY <1>5, <2>2, <2>4, <2>5
<1>11. CASE Refuse(c)
  <2> DEFINE r == [letters[i] EXCEPT !.status = "queued", !.mid = send[c].before]
  <2>1. letters[i].status = "sending" /\ Finish(c) /\ send[c].pc = "handing"
    BY <1>11 DEF Refuse, Holds
  <2>2. send[c].before \in BOOLEAN
    BY DEF Typed, Task
  <2>3. letters' = [letters EXCEPT ![i] = r] /\ out' = [out EXCEPT ![i] = out[i]]
    BY <1>1, <1>11 DEF Refuse, Typed
  <2>4. Edited(i, r, out[i])
    BY <1>1, <2>2, <2>3 DEF Edited, Letter, PENDING
  <2>5. Tame(i, r, out[i])
    BY <1>1, <1>3, <1>4, <2>1 DEF Tame, Letter, PENDING, Holds, Ending, withdrawn
  <2> QED
    BY <1>5, <2>1, <2>4, <2>5
<1> QED
  BY <1>7, <1>8, <1>9, <1>10, <1>11

-----------------------------------------------------------------------------
(* The pass of DNS returns.                                                *)

LEMMA PassKeeps ==
    ASSUME RowsInv, PassStep
    PROVE  RowsInv' /\ DOMAIN letters' = DOMAIN letters /\ \A j \in DOMAIN letters : Kept(j)
<1> USE RowTypes DEF RowsInv
<1>1. ASSUME NEW i \in DOMAIN letters, Judge(i)
      PROVE  RowsInv' /\ DOMAIN letters' = DOMAIN letters /\ \A j \in DOMAIN letters : Kept(j)
  <2>1. UNCHANGED <<Rows, build, send>> /\ dnsPass' = i /\ i \in Nat
    BY <1>1 DEF Judge, Rows, site
  <2>2. RowsInv'
    BY <1>1, <2>1 DEF Typed, Holds, Failed, Judge, Settled, Rows
  <2>3. \A j \in DOMAIN letters : Going(j)' = Going(j)
    BY <2>1 DEF Going, Rows
  <2> QED
    BY <2>1, <2>2, <2>3, RowsStay DEF Kept, Rows
<1>2. CASE Return
  <2> PICK i \in DOMAIN letters : i = dnsPass
    BY <1>2 DEF Return, Failed
  <2> DEFINE r == [letters[i] EXCEPT !.status = "queued", !.why = "", !.back = TRUE]
  <2>1. letters[i].status = "bounced" /\ Settled(i) /\ out[i] = "failed"
    BY <1>2 DEF Return, Failed
  <2>2. letters[i] \in Letter
    BY <2>1
  <2>3. /\ r \in Letter /\ r.status = "queued" /\ r.back = TRUE
        /\ r.stage = letters[i].stage /\ r.attempt = letters[i].attempt
    BY <2>2 DEF Letter, PENDING
  <2>4. letters' = [letters EXCEPT ![i] = r]
    BY <1>2, <2>1, <2>2 DEF Return, Typed
  <2>5. out' = out /\ buried' = buried /\ send' = send /\ build' = build /\ dnsPass' = 0
    BY <1>2 DEF Return, NoLetter, site
  <2>6. Edited(i, r, out[i])
    BY <2>1, <2>3, <2>4, <2>5 DEF Edited, Typed
  <2> HIDE DEF r
  <2>7. OneRow(i, r, out[i]) /\ Typed'
    BY <2>5, <2>6, EditedRows DEF Typed
  <2>8. Holds'
    BY <2>1, <2>5, <2>7 DEF Holds, OneRow
  <2>9. Failed'
    BY <2>1, <2>3, <2>5, <2>7 DEF Failed, OneRow, NoLetter
  <2>10. Alike(i) /\ ~Going(i)'
    <3>1. Over(i)'
      BY <2>3, <2>7 DEF Over, OneRow
    <3>2. ~Going(i)'
      BY <2>1, <2>3, <2>5, <2>7 DEF OneRow, Going, Settled
    <3> QED
      BY <2>3, <2>7, <3>1, <3>2 DEF Alike, OneRow
  <2>11. ASSUME NEW j \in DOMAIN letters, j # i PROVE Kept(j)
    <3>1. letters'[j] = letters[j] /\ out'[j] = out[j]
      BY <2>7, <2>11 DEF OneRow
    <3>2. dead(j)' <=> dead(j)
      BY <2>5, <3>1 DEF dead, withdrawn
    <3>3. Going(j)' <=> Going(j)
      BY <2>5, <3>1 DEF Going
    <3>4. Over(j)' <=> Over(j)
      BY <3>1, <3>2 DEF Over
    <3> QED
      BY <3>1, <3>2, <3>3, <3>4 DEF Kept, Alike
  <2> QED
    BY <2>7, <2>8, <2>9, <2>10, <2>11 DEF Kept, OneRow
<1> QED
  BY <1>1, <1>2 DEF PassStep

-----------------------------------------------------------------------------
(* The steps of a build.                                                   *)

LEMMA OfFinite ==
    ASSUME Typed, NEW s
    PROVE  IsFiniteSet(Of(s)) /\ Cardinality(Of(s)) \in Nat
<1>1. IsFiniteSet(1..Len(letters)) /\ Of(s) \subseteq 1..Len(letters)
  BY RowTypes, FS_Interval DEF Of
<1> QED
  BY <1>1, FS_Subset, FS_CardinalityType

LEMMA BuildWaits ==
    ASSUME RoleInv, UNCHANGED <<letters, site, send, dnsPass, out>>,
           build' \in [Builders -> Choice \cup {NoChoice}]
    PROVE  RoleInv' /\ DOMAIN letters' = DOMAIN letters /\ \A j \in DOMAIN letters : Alike(j)
<1>1. UNCHANGED Rows
  BY DEF Rows, site
<1>2. RowsInv'
  BY DEF RoleInv, RowsInv, Typed, Holds, Failed, Settled
<1>3. \A j \in DOMAIN letters : Going(j)' = Going(j)
  BY DEF Going
<1>4. OneGoing'
  BY <1>1, <1>3, RowsStay, GoingKept DEF RoleInv, Rows, Kept
<1> QED
  BY <1>1, <1>2, <1>4, RowsStay DEF RowsInv, RoleInv, Rows

LEMMA DropChoiceKeeps ==
    ASSUME RoleInv, TurnInv, NEW b \in Builders, DropChoice(b)
    PROVE  RoleInv' /\ TurnInv'
<1>1. /\ build' \in [Builders -> Choice \cup {NoChoice}]
      /\ \A d \in Builders : build'[d] = build[d] \/ build'[d] = NoChoice
  BY DEF DropChoice, RoleInv, Typed
<1> QED
  BY <1>1, BuildWaits, TurnKept DEF DropChoice

\* A choice is made when every letter is dead.
LEMMA ChooseKeeps ==
    ASSUME RoleInv, TurnInv, NEW b \in Builders, NEW s \in Stages, NEW a \in Addresses,
           Choose(b, s, a)
    PROVE  RoleInv' /\ TurnInv'
<1> DEFINE k == [stage |-> s, to |-> a, attempt |-> attempt_number(s)]
<1>1. attempt_number(s) = Cardinality(Of(s)) + 1 /\ Cardinality(Of(s)) \in Nat
  BY OfFinite DEF attempt_number, Of, RoleInv
<1>2. k \in Choice /\ k.stage = s /\ k.attempt = Cardinality(Of(s)) + 1
  BY <1>1 DEF Choice
<1>3. build' = [build EXCEPT ![b] = k]
  BY DEF Choose
<1> HIDE DEF k
<1>4. /\ build' \in [Builders -> Choice \cup {NoChoice}]
      /\ build'[b] = k /\ \A d \in Builders : d # b => build'[d] = build[d]
  BY <1>2, <1>3 DEF RoleInv, Typed
<1>5. RoleInv'
  BY <1>4, BuildWaits DEF Choose
<1>6. UNCHANGED Rows
  BY DEF Choose, Rows, site
<1>7. \A i \in DOMAIN letters : Over(i)
  BY DEF Choose, open_for_letter, live_letter, Over
<1>8. /\ \A i \in DOMAIN letters : Over(i)'
      /\ \A t : Of(t)' = Of(t)
  BY <1>6, <1>7, RowsStay DEF Rows, Alike, Of
<1>9. Keys' /\ InOrder'
  <2>1. InOrder'
    BY <1>6, <1>8 DEF TurnInv, InOrder, Rows
  <2>2. Keys'
    BY <1>6, <1>8 DEF TurnInv, Keys, Rows
  <2> QED
    BY <2>1, <2>2
<1>10. ASSUME NEW d \in Builders, build'[d] # NoChoice
       PROVE  build'[d].attempt \in 1..(Cardinality(Of(build'[d].stage)) + 1)
  <2>1. CASE d = b
    BY <1>1, <1>2, <1>4, <2>1
  <2>2. CASE d # b
    BY <1>4, <1>10, <2>2 DEF TurnInv, Choices
  <2> QED
    BY <2>1, <2>2
<1>11. Choices'
  BY <1>8, <1>10 DEF Choices, Of
<1> QED
  BY <1>5, <1>9, <1>11 DEF TurnInv

LEMMA Appended ==
    ASSUME NEW S, NEW q \in Seq(S), NEW e \in S
    PROVE  /\ Append(q, e) \in Seq(S) /\ Len(Append(q, e)) = Len(q) + 1
           /\ DOMAIN Append(q, e) = DOMAIN q \cup {Len(q) + 1} /\ Len(q) + 1 \notin DOMAIN q
           /\ Append(q, e)[Len(q) + 1] = e /\ \A j \in DOMAIN q : Append(q, e)[j] = q[j]
OBVIOUS

\* A letter is queued under the next attempt of its direction: the build has chosen
\* one of the attempts up to it, and those before it are taken.
LEMMA QueueKeeps ==
    ASSUME RoleInv, TurnInv, NEW b \in Builders, Queue(b)
    PROVE  RoleInv' /\ TurnInv'
<1> USE DEF RoleInv
<1>0. PICK row, new, mine, next :
         /\ row = [stage |-> build[b].stage, to |-> build[b].to, attempt |-> build[b].attempt,
                   status |-> "queued", mid |-> FALSE, why |-> "", back |-> FALSE]
         /\ new = Len(letters) + 1 /\ mine = build[b].stage /\ next = build[b].attempt
  OBVIOUS
<1>1. build[b] \in Choice /\ build[b] # NoChoice /\ mine \in Stages /\ next \in Nat
  BY <1>0 DEF Queue, Typed, Choice
<1>2. /\ row \in Letter /\ row.stage = mine /\ row.attempt = next /\ row.status = "queued"
  BY <1>0, <1>1 DEF Letter, Choice, PENDING
<1>3. /\ letters' = Append(letters, row) /\ out' = Append(out, "home")
      /\ UNCHANGED <<buried, send, dnsPass>> /\ build' = [build EXCEPT ![b] = NoChoice]
  BY <1>0 DEF Queue, site
<1>4. /\ letters' \in Seq(Letter) /\ out' \in Seq(Place) /\ Len(out') = Len(letters')
      /\ DOMAIN letters' = DOMAIN letters \cup {new} /\ new \notin DOMAIN letters
      /\ letters'[new] = row /\ out'[new] = "home"
      /\ \A j \in DOMAIN letters : letters'[j] = letters[j] /\ out'[j] = out[j]
  <2>1. letters \in Seq(Letter) /\ out \in Seq(Place) /\ Len(out) = Len(letters)
        /\ "home" \in Place /\ DOMAIN out = DOMAIN letters
    BY RowTypes DEF Typed, Place
  <2>2. /\ letters' \in Seq(Letter) /\ Len(letters') = Len(letters) + 1
        /\ DOMAIN letters' = DOMAIN letters \cup {new} /\ new \notin DOMAIN letters
        /\ letters'[new] = row /\ \A j \in DOMAIN letters : letters'[j] = letters[j]
    <3>1. letters' = Append(letters, row) /\ letters \in Seq(Letter) /\ row \in Letter
      BY <1>2, <1>3, <2>1
    <3>2. new = Len(letters) + 1
      BY <1>0
    <3> QED
      BY <3>1, <3>2, Appended
  <2>3. /\ out' \in Seq(Place) /\ Len(out') = Len(out) + 1
        /\ out'[new] = "home" /\ \A j \in DOMAIN out : out'[j] = out[j]
    <3>1. out' = Append(out, "home") /\ out \in Seq(Place) /\ "home" \in Place
      BY <1>3, <2>1
    <3>2. new = Len(out) + 1
      BY <1>0, <2>1
    <3> QED
      BY <3>1, <3>2, Appended
  <2> QED
    BY <2>1, <2>2, <2>3
<1>5. /\ build' \in [Builders -> Choice \cup {NoChoice}]
      /\ build'[b] = NoChoice /\ \A d \in Builders : d # b => build'[d] = build[d]
  BY <1>3 DEF Typed
<1>6. \A j \in DOMAIN letters : (dead(j)' <=> dead(j)) /\ (Over(j)' <=> Over(j))
  BY <1>3, <1>4 DEF dead, withdrawn, Over
<1>7. RoleInv'
  <2>1. Typed'
    BY <1>3, <1>4, <1>5 DEF Typed
  <2>2. Holds'
    BY <1>3, <1>4 DEF Holds
  <2>3. Failed'
    BY <1>2, <1>3, <1>4 DEF Failed, Settled
  <2>4. ~Going(new)'
    BY <1>2, <1>3, <1>4 DEF Going, Holds
  <2>5. \A j \in DOMAIN letters : Going(j)' <=> Going(j)
    BY <1>3, <1>4 DEF Going
  <2>6. OneGoing'
    BY <1>4, <1>6, <2>4, <2>5 DEF OneGoing
  <2> QED
    BY <2>1, <2>2, <2>3, <2>6
<1>8. /\ Of(mine)' = Of(mine) \cup {new} /\ new \notin Of(mine)
      /\ \A t : t # mine => Of(t)' = Of(t)
  BY <1>2, <1>4 DEF Of
<1>9. \A t : Cardinality(Of(t)) \in Nat
  BY OfFinite
<1>10. Cardinality(Of(mine)') = Cardinality(Of(mine)) + 1
  BY <1>8, OfFinite, FS_AddElement
<1>11. next \in 1..(Cardinality(Of(mine)) + 1)
  BY <1>0, <1>1 DEF TurnInv, Choices
<1>12. \A j \in Of(mine) : letters[j].attempt # next
  BY <1>0 DEF Queue, KeyTaken, Of
<1>13. next \notin 1..Cardinality(Of(mine))
  BY <1>1, <1>12 DEF TurnInv, Keys
<1>14. next = Cardinality(Of(mine)) + 1
  BY <1>1, <1>9, <1>11, <1>13
<1>15. \A j \in DOMAIN letters : letters[j].attempt <= Cardinality(Of(letters[j].stage))
  BY DEF TurnInv, Keys
<1>16. \A j \in DOMAIN letters : letters[j].stage = mine => letters[j].attempt < next
  <2> SUFFICES ASSUME NEW j \in DOMAIN letters, letters[j].stage = mine
               PROVE  letters[j].attempt < next
    OBVIOUS
  <2>1. letters[j].attempt \in Nat
    BY RowTypes DEF Letter
  <2>2. letters[j].attempt <= Cardinality(Of(mine))
    BY <1>15
  <2> QED
    BY <1>9, <1>14, <2>1, <2>2
<1>17. Keys'
  <2>1. \A i, j \in DOMAIN letters' :
          letters'[i].stage = letters'[j].stage /\ letters'[i].attempt = letters'[j].attempt => i = j
    BY <1>2, <1>4, <1>12 DEF TurnInv, Keys, Of
  <2>2. ASSUME NEW i \in DOMAIN letters', NEW t, letters'[i].stage = t
        PROVE  letters'[i].attempt <= Cardinality(Of(t)')
    <3>1. CASE i = new
      BY <1>2, <1>4, <1>9, <1>10, <1>14, <2>2, <3>1
    <3>2. CASE i # new /\ t = mine
      <4>1. letters'[i] = letters[i] /\ letters[i].attempt \in Nat /\ letters[i].stage = mine
        BY <1>4, <2>2, <3>2, RowTypes DEF Letter
      <4>2. letters[i].attempt < next
        BY <1>4, <1>16, <2>2, <3>2, <4>1
      <4> QED
        BY <1>9, <1>10, <1>14, <3>2, <4>1, <4>2
    <3>3. CASE i # new /\ t # mine
      <4>1. letters'[i] = letters[i] /\ i \in DOMAIN letters /\ letters[i].stage = t
        BY <1>4, <2>2, <3>3
      <4>2. letters[i].attempt <= Cardinality(Of(t))
        BY <1>15, <4>1
      <4>3. Of(t)' = Of(t)
        BY <1>8, <3>3
      <4> QED
        BY <4>1, <4>2, <4>3
    <3> QED
      BY <3>1, <3>2, <3>3
  <2>3. ASSUME NEW s \in Stages, NEW m \in 1..Cardinality(Of(s)')
        PROVE  \E i \in Of(s)' : letters'[i].attempt = m
    <3>1. CASE s = mine /\ m = next
      BY <1>2, <1>4, <1>8, <3>1
    <3>2. CASE s = mine /\ m # next
      <4>1. m \in 1..Cardinality(Of(s))
        BY <1>9, <1>10, <1>14, <3>2
      <4> QED
        BY <1>4, <1>8, <3>2, <4>1 DEF TurnInv, Keys, Of
    <3>3. CASE s # mine
      BY <1>4, <1>8, <3>3 DEF TurnInv, Keys, Of
    <3> QED
      BY <3>1, <3>2, <3>3
  <2> QED
    BY <2>1, <2>2, <2>3 DEF Keys, Of
<1>18. Choices'
  <2> SUFFICES ASSUME NEW d \in Builders, build'[d] # NoChoice
               PROVE  (/\ build[d].attempt \in 1..(Cardinality(Of(build[d].stage)) + 1)
                       /\ \A i \in Of(build[d].stage) :
                            letters[i].attempt < build[d].attempt => Over(i))'
    BY DEF Choices
  <2>1. d # b /\ build'[d] = build[d]
    BY <1>5
  <2>0. PICK theirs : theirs = build[d].stage
    OBVIOUS
  <2>2. /\ build[d].attempt \in 1..(Cardinality(Of(theirs)) + 1)
        /\ \A i \in Of(theirs) : letters[i].attempt < build[d].attempt => Over(i)
    BY <2>0, <2>1 DEF TurnInv, Choices
  <2>3. build[d].attempt \in 1..(Cardinality(Of(theirs)') + 1)
    <3>1. CASE theirs = mine
      BY <1>9, <1>10, <2>2, <3>1
    <3>2. CASE theirs # mine
      BY <1>8, <2>2, <3>2
    <3> QED
      BY <3>1, <3>2
  <2>4. ASSUME NEW i \in Of(theirs)', letters'[i].attempt < build[d].attempt
        PROVE  Over(i)'
    <3>1. i # new
      <4>1. SUFFICES ASSUME i = new PROVE FALSE
        OBVIOUS
      <4>2. theirs = mine /\ letters'[i].attempt = next
        BY <1>2, <1>4, <2>4, <4>1 DEF Of
      <4> QED
        BY <1>9, <1>14, <2>2, <2>4, <4>2
    <3>2. i \in Of(theirs)
      BY <1>8, <3>1
    <3> QED
      BY <1>4, <1>6, <2>2, <2>4, <3>2 DEF Of
  <2> QED
    BY <2>0, <2>1, <2>3, <2>4 DEF Of
<1>19. InOrder'
  <2> SUFFICES ASSUME NEW i \in DOMAIN letters', NEW j \in DOMAIN letters',
                      letters'[i].stage = letters'[j].stage,
                      letters'[i].attempt < letters'[j].attempt
               PROVE  Over(i)'
    BY DEF InOrder
  <2>1. i \in DOMAIN letters
    <3>1. SUFFICES ASSUME i = new PROVE FALSE
      BY <1>4
    <3>2. j # new /\ j \in DOMAIN letters /\ letters'[j] = letters[j]
      BY <1>1, <1>2, <1>4, <3>1
    <3>3. letters[j].stage = mine /\ next < letters[j].attempt
      BY <1>2, <1>4, <3>1, <3>2
    <3>4. letters[j].attempt < next /\ letters[j].attempt \in Nat
      BY <1>16, <3>2, <3>3, RowTypes DEF Letter
    <3> QED
      BY <1>1, <3>3, <3>4
  <2>2. CASE j \in DOMAIN letters
    BY <1>4, <1>6, <2>1, <2>2 DEF TurnInv, InOrder
  <2>3. CASE j = new
    <3>1. letters[i].stage = mine /\ letters[i].attempt < next
      BY <1>2, <1>4, <2>1, <2>3
    <3>2. Over(i)
      BY <1>0, <1>1, <2>1, <3>1 DEF TurnInv, Choices, Of
    <3> QED
      BY <1>6, <2>1, <3>2
  <2> QED
    BY <1>4, <2>2, <2>3
<1> QED
  BY <1>7, <1>17, <1>18, <1>19 DEF TurnInv

-----------------------------------------------------------------------------
(* The theorems.                                                           *)

\* Nothing is queued at first.
LEMMA InitInv ==
    Init => RoleInv /\ TurnInv
<1> SUFFICES ASSUME Init PROVE RoleInv /\ TurnInv
  OBVIOUS
<1>1. letters = <<>> /\ out = <<>> /\ DOMAIN letters = {} /\ dnsPass = 0
  BY DEF Init, NoLetter
<1>2. Idle \in Task /\ Idle.pc = "idle"
  BY DEF Idle, Task, NoLetter
<1>3. Typed
  BY <1>1, <1>2 DEF Init, Typed
<1>4. Holds /\ Failed
  BY <1>1, <1>2 DEF Init, Holds, Failed, NoLetter
<1>5. OneGoing
  BY <1>1 DEF OneGoing
<1>6. \A s : Cardinality(Of(s)) = 0
  BY <1>1, FS_EmptySet DEF Of
<1>7. Keys /\ InOrder
  BY <1>1, <1>6 DEF Keys, InOrder
<1>8. Choices
  BY DEF Init, Choices
<1> QED
  BY <1>3, <1>4, <1>5, <1>7, <1>8 DEF RoleInv, TurnInv

\* Every step of the builds, the sends, the world and the DNS pass keeps both.
LEMMA NextKeeps ==
    RoleInv /\ TurnInv /\ [Next]_vars => RoleInv' /\ TurnInv'
<1> SUFFICES ASSUME RoleInv, TurnInv, [Next]_vars PROVE RoleInv' /\ TurnInv'
  OBVIOUS
<1>1. RowsInv /\ OneGoing
  BY DEF RoleInv, RowsInv
<1>2. ASSUME RowsInv', DOMAIN letters' = DOMAIN letters, \A j \in DOMAIN letters : Kept(j),
             build' = build
      PROVE  RoleInv' /\ TurnInv'
  <2>1. OneGoing'
    BY <1>1, <1>2, GoingKept
  <2>2. TurnInv'
    BY <1>2, TurnKept DEF Kept
  <2> QED
    BY <1>2, <2>1, <2>2 DEF RoleInv, RowsInv
<1>3. CASE BuildStep
  BY <1>3, ChooseKeeps, QueueKeeps, DropChoiceKeeps DEF BuildStep
<1>4. CASE SendStep
  <2>1. ASSUME NEW c \in Clicks, NEW i \in DOMAIN letters, Check(c, i)
        PROVE  RoleInv' /\ TurnInv'
    <3>1. build' = build
      BY <2>1 DEF Check
    <3> QED
      BY <2>1, <3>1, CheckKeeps, TurnKept
  <2>2. ASSUME NEW c \in Clicks, Claim(c)
        PROVE  RoleInv' /\ TurnInv'
    <3>1. build' = build
      BY <2>2 DEF Claim
    <3> QED
      BY <1>1, <1>2, <2>2, <3>1, ClaimKeeps
  <2>3. ASSUME NEW c \in Clicks,
               LeaveQueue(c) \/ Postpone(c) \/ Take(c) \/ LoseAnswer(c) \/ Refuse(c)
        PROVE  RoleInv' /\ TurnInv'
    <3>1. build' = build
      BY <2>3 DEF LeaveQueue, Postpone, Take, LoseAnswer, Refuse
    <3> QED
      BY <1>1, <1>2, <2>3, <3>1, SendTame
  <2> QED
    BY <1>4, <2>1, <2>2, <2>3 DEF SendStep
<1>5. CASE WorldStep
  <2>1. build' = build
    BY <1>5 DEF WorldStep, Delivered, Bounced, MailboxGone, Answer, ReturnToQueue, FoundSent,
                Skip, WithdrawOffer, Tell
  <2> QED
    BY <1>1, <1>2, <1>5, <2>1, WorldTame
<1>6. CASE PassStep
  <2>1. build' = build
    BY <1>6 DEF PassStep, Return, Judge
  <2> QED
    BY <1>1, <1>2, <1>6, <2>1, PassKeeps
<1>7. CASE UNCHANGED vars
  <2>1. UNCHANGED <<letters, site, send, dnsPass, out, build>>
    BY <1>7 DEF vars
  <2>2. build' \in [Builders -> Choice \cup {NoChoice}]
    BY <2>1 DEF RoleInv, Typed
  <2> QED
    BY <2>1, <2>2, BuildWaits, TurnKept
<1> QED
  BY <1>3, <1>4, <1>5, <1>6, <1>7 DEF Next

\* Two directions never write to one site, for any number of letters, builds and sends
\* (site_role.check, the claim, dns_return._taken).
THEOREM OneRoleHolds == Spec => []OneRole
<1>1. RoleInv => OneRole
  BY DEF RoleInv, OneGoing, OneRole, Writes, Going
<1> QED
  BY <1>1, InitInv, NextKeeps, PTL DEF Spec

\* Two letters of one direction are alive at once only after a return from a silent
\* DNS (attempts.attempt_number and the unique key of a message).
THEOREM OneAtATimeHolds == Spec => []OneAtATime
<1>1. ASSUME RoleInv, TurnInv
      PROVE  OneAtATime
  <2> SUFFICES ASSUME NEW i \in DOMAIN letters, NEW j \in DOMAIN letters,
                      i # j, Writes(i), Writes(j), letters[i].stage = letters[j].stage
               PROVE  letters[i].back \/ letters[j].back
    BY DEF OneAtATime
  <2>1. letters[i].attempt \in Nat /\ letters[j].attempt \in Nat
    BY <1>1, RowTypes DEF RoleInv, Letter
  <2>2. letters[i].attempt # letters[j].attempt
    BY <1>1 DEF TurnInv, Keys
  <2>3. Over(i) \/ Over(j)
    BY <1>1, <2>1, <2>2 DEF TurnInv, InOrder
  <2> QED
    BY <2>3 DEF Over, Writes
<1> QED
  BY <1>1, InitInv, NextKeeps, PTL DEF Spec
=============================================================================
